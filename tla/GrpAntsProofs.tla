---------------------------- MODULE GrpAntsProofs ----------------------------
(***************************************************************************)
(* The ants, for any vehicles, junctions and number of ants: all copies of an *)
(* ant agree, at most one of them goes on, and every vehicle has given         *)
(* pheromone once to each pair of the list it has recorded.                   *)
(***************************************************************************)
EXTENDS GrpAnts, FiniteSetTheorems, TLAPS

-------------------------------------------------------------------------------
(* Lists of junctions *)

Distinct(s) == \A i, j \in DOMAIN s : s[i] = s[j] => i = j

\* One list is the beginning of another, junction by junction.
Begins(s, t) == Len(s) <= Len(t) /\ \A i \in 1 .. Len(s) : s[i] = t[i]

LEMMA PrefixIsBegins ==
    ASSUME NEW s \in Seq(Junctions), NEW t \in Seq(Junctions)
    PROVE  IsPrefix(s, t) <=> Begins(s, t)
  <1>1. SubSeq(s, 1, Len(s)) = s /\ Len(s) \in Nat /\ Len(t) \in Nat
    OBVIOUS
  <1>2. CASE Len(s) <= Len(t)
    <2> DEFINE u == SubSeq(t, 1, Len(s))
    <2>1. u \in Seq(Junctions) /\ Len(u) = Len(s) /\ \A i \in 1 .. Len(s) : u[i] = t[i]
      BY <1>1, <1>2
    <2>2. s = u <=> \A i \in 1 .. Len(s) : s[i] = u[i]
      <3> HIDE DEF u
      <3> QED
        BY <2>1
    <2> QED
      BY <1>1, <1>2, <2>1, <2>2 DEF IsPrefix, Begins
  <1>3. CASE ~(Len(s) <= Len(t))
    BY <1>3 DEF IsPrefix, Begins
  <1> QED
    BY <1>2, <1>3

\* A list without a repeated junction is no longer than there are junctions.
LEMMA ListIsShort ==
    ASSUME NEW s \in Seq(Junctions), Distinct(s)
    PROVE  Len(s) <= Cardinality(Junctions) /\ Cardinality(Junctions) \in Nat
  <1>1. Len(s) \in Nat /\ s \in [1 .. Len(s) -> Junctions] /\ DOMAIN s = 1 .. Len(s)
    OBVIOUS
  <1>2. s \in Injection(1 .. Len(s), Junctions)
    BY <1>1 DEF Injection, IsInjective, Distinct
  <1>3. IsFiniteSet(Junctions) /\ Cardinality(Junctions) \in Nat
    BY AntAssumption, FS_CardinalityType
  <1>4. Cardinality(1 .. Len(s)) <= Cardinality(Junctions)
    BY <1>2, <1>3, FS_Injection
  <1>5. Cardinality(1 .. Len(s)) = Len(s)
    BY <1>1, FS_Interval
  <1> QED
    BY <1>3, <1>4, <1>5

\* A junction that is not on the list is appended.
LEMMA ListGrows ==
    ASSUME NEW s \in Seq(Junctions), Distinct(s), NEW j \in Junctions, j \notin ToSet(s)
    PROVE  /\ Append(s, j) \in Seq(Junctions) /\ Len(Append(s, j)) = Len(s) + 1
           /\ Distinct(Append(s, j)) /\ Begins(s, Append(s, j))
           /\ Len(s) + 1 < MaxPathLength
  <1>1. /\ Len(s) \in Nat /\ DOMAIN s = 1 .. Len(s) /\ Append(s, j) \in Seq(Junctions)
        /\ Len(Append(s, j)) = Len(s) + 1 /\ DOMAIN Append(s, j) = 1 .. Len(s) + 1
        /\ \A i \in 1 .. Len(s) : Append(s, j)[i] = s[i]
        /\ Append(s, j)[Len(s) + 1] = j
    OBVIOUS
  <1>2. Distinct(Append(s, j))
    BY <1>1 DEF Distinct, ToSet
  <1>3. Len(Append(s, j)) <= Cardinality(Junctions) /\ Cardinality(Junctions) \in Nat
    BY <1>1, <1>2, ListIsShort
  <1> QED
    BY <1>1, <1>2, <1>3, AntAssumption DEF Begins

-------------------------------------------------------------------------------
(* The invariant *)

Ant == [id : AntIds, version : Nat, seq : Seq(Junctions), stamps : Nat,
        next : Vehicles \cup {Loopback}]

AntKinds ==
    /\ m_antSeqNum \in [Launchers -> 0 .. MaxAnts]
    /\ queued \subseteq [ant : Ant, by : Vehicles]
    /\ air \subseteq [ant : Ant, to : Vehicles]
    /\ m_received_last_ant \in [Vehicles -> [AntIds -> {NoVersion} \cup Nat]]
    /\ deposits \in [Vehicles -> [AntIds -> Seq(Junctions \X Junctions)]]
    /\ trail \in [AntIds -> Seq(Junctions)]

\* What CopiesAgree says of one copy, whose ant has the list t.
Agrees(ant, t) ==
    /\ Len(ant.seq) = ant.version + 1 /\ Len(ant.seq) = ant.stamps
    /\ Begins(ant.seq, t) /\ Distinct(ant.seq)

AllAgree ==
    /\ \A q \in queued : Agrees(q.ant, trail[q.ant.id])
    /\ \A m \in air : Agrees(m.ant, trail[m.ant.id])

\* The copies that will be forwarded, waiting and on their way.
LiveQueued(a) == {q \in queued : q.ant.id = a /\ q.ant.next \in Vehicles \ {q.by}}
LiveAir(a)    == {m \in air : m.ant.id = a /\ m.ant.next = m.to}

\* There is at most one, and it has the whole list: what its forwarder appends
\* cannot contradict a list that is longer already.
Single ==
    \A a \in AntIds :
        /\ \A p, q \in LiveQueued(a) : p = q
        /\ \A m, n \in LiveAir(a) : m = n
        /\ LiveQueued(a) = {} \/ LiveAir(a) = {}

Newest ==
    \A a \in AntIds : /\ \A q \in LiveQueued(a) : q.ant.seq = trail[a]
                      /\ \A m \in LiveAir(a) : m.ant.seq = trail[a]

\* An ant that has not been launched is nowhere.
Unheard ==
    \A a \in AntIds : a[2] > m_antSeqNum[a[1]] =>
        /\ \A q \in queued : q.ant.id # a
        /\ \A m \in air : m.ant.id # a
        /\ trail[a] = <<>>

\* A vehicle has recorded no version that is beyond the list.
Recorded ==
    \A v \in Vehicles, a \in AntIds :
        m_received_last_ant[v][a] # NoVersion => m_received_last_ant[v][a] + 1 <= Len(trail[a])

\* The version recorded, 0 if none is, and the pairs of the list up to there.
Known(v, a) == IF m_received_last_ant[v][a] = NoVersion THEN 0 ELSE m_received_last_ant[v][a]
Pairs(t, i, j) == {<<t[k], t[k + 1]>> : k \in i .. j}

Deposited ==
    \A v \in Vehicles, a \in AntIds :
        /\ Len(deposits[v][a]) = Known(v, a)
        /\ ToSet(deposits[v][a]) = Pairs(trail[a], 1, Known(v, a))

AntInv == AntKinds /\ AllAgree /\ Single /\ Newest /\ Unheard /\ Recorded /\ Deposited

LEMMA AntInit == ASSUME Init PROVE AntInv
  <1>1. AntKinds
    BY AntAssumption DEF Init, AntKinds, AntIds
  <1>2. AllAgree /\ Unheard
    BY DEF Init, AllAgree, Unheard
  <1>3. Single /\ Newest
    BY DEF Init, Single, Newest, LiveQueued, LiveAir
  <1>4. Recorded
    BY DEF Init, Recorded
  <1>5. Deposited
    <2>1. \A v \in Vehicles, a \in AntIds : Known(v, a) = 0 /\ deposits[v][a] = <<>>
      BY DEF Init, Known
    <2>2. ToSet(<<>>) = {} /\ Len(<<>>) = 0
      BY DEF ToSet
    <2>3. \A t : Pairs(t, 1, 0) = {}
      BY DEF Pairs
    <2> QED
      BY <2>1, <2>2, <2>3 DEF Deposited
  <1> QED
    BY <1>1, <1>2, <1>3, <1>4, <1>5 DEF AntInv

-------------------------------------------------------------------------------
(* The steps *)

\* What the kinds say of one copy.
LEMMA CopyKinds ==
    ASSUME AntKinds
    PROVE  /\ \A q \in queued : q.ant \in Ant /\ q.by \in Vehicles /\ q.ant.id \in AntIds
                                /\ q.ant.seq \in Seq(Junctions) /\ q.ant.version \in Nat
           /\ \A m \in air : m.ant \in Ant /\ m.to \in Vehicles /\ m.ant.id \in AntIds
                             /\ m.ant.seq \in Seq(Junctions) /\ m.ant.version \in Nat
           /\ \A a \in AntIds : /\ a = <<a[1], a[2]>> /\ a[1] \in Launchers /\ a[2] \in 1 .. MaxAnts
                                /\ trail[a] \in Seq(Junctions)
  BY DEF AntKinds, Ant, AntIds

\* An ant is launched.
LEMMA LaunchKeeps ==
    ASSUME AntInv, NEW v \in Launchers, NEW here \in Junctions, NEW fwd \in Forwarders(v),
           AntTimerExpire(v, here, fwd)
    PROVE  AntInv'
  <1>0. PICK id : id = <<v, m_antSeqNum[v] + 1>>
    OBVIOUS
  <1> DEFINE ant == [id |-> id, version |-> 0, seq |-> <<here>>, stamps |-> 1, next |-> fwd]
             new == [ant |-> ant, by |-> v]
  <1>1. AntKinds /\ AllAgree /\ Single /\ Newest /\ Unheard /\ Recorded /\ Deposited
    BY DEF AntInv
  <1>2. /\ m_antSeqNum[v] < MaxAnts /\ m_antSeqNum' = [m_antSeqNum EXCEPT ![v] = @ + 1]
        /\ queued' = queued \cup {new} /\ trail' = [trail EXCEPT ![id] = <<here>>]
        /\ air' = air /\ m_received_last_ant' = m_received_last_ant /\ deposits' = deposits
    BY <1>0 DEF AntTimerExpire
  <1>3. m_antSeqNum \in [Launchers -> 0 .. MaxAnts] /\ MaxAnts \in Nat /\ v \in Vehicles
    BY <1>1, AntAssumption DEF AntKinds
  <1>4. m_antSeqNum[v] + 1 \in 1 .. MaxAnts /\ m_antSeqNum[v] \in Nat
    BY <1>2, <1>3
  <1>5. id \in AntIds /\ id[1] = v /\ id[2] = m_antSeqNum[v] + 1
    BY <1>0, <1>4 DEF AntIds
  <1>6. /\ trail[id] = <<>> /\ (\A q \in queued : q.ant.id # id) /\ (\A m \in air : m.ant.id # id)
    BY <1>1, <1>4, <1>5 DEF Unheard
  <1>7. /\ <<here>> \in Seq(Junctions) /\ Len(<<here>>) = 1 /\ <<here>>[1] = here /\ DOMAIN <<here>> = 1 .. 1
    OBVIOUS
  <1>8. ant \in Ant
    BY <1>5, <1>7 DEF Ant, Forwarders
  <1>9. /\ ant.id = id /\ ant.version = 0 /\ ant.seq = <<here>> /\ ant.stamps = 1 /\ ant.next = fwd
        /\ new.ant = ant /\ new.by = v
    OBVIOUS
  <1>10. new \in [ant : Ant, by : Vehicles]
    BY <1>3, <1>8
  <1> HIDE DEF ant, new
  <1>11. trail \in [AntIds -> Seq(Junctions)] /\ trail'[id] = <<here>>
         /\ trail' \in [AntIds -> Seq(Junctions)] /\ \A a \in AntIds : a # id => trail'[a] = trail[a]
    BY <1>1, <1>2, <1>5, <1>7 DEF AntKinds
  <1>12. m_antSeqNum' \in [Launchers -> 0 .. MaxAnts]
    BY <1>2, <1>3, <1>4
  <1>13. AntKinds'
    BY <1>1, <1>2, <1>10, <1>11, <1>12 DEF AntKinds
  <1>14. AllAgree'
    <2>1. Agrees(ant, trail'[ant.id])
      BY <1>7, <1>9, <1>11 DEF Agrees, Begins, Distinct
    <2>2. ASSUME NEW q \in queued PROVE Agrees(q.ant, trail'[q.ant.id])
      <3>1. q.ant.id \in AntIds /\ trail'[q.ant.id] = trail[q.ant.id]
        BY <1>1, <1>6, <1>11, CopyKinds
      <3> QED
        BY <1>1, <3>1 DEF AllAgree
    <2>3. ASSUME NEW m \in air PROVE Agrees(m.ant, trail'[m.ant.id])
      <3>1. m.ant.id \in AntIds /\ trail'[m.ant.id] = trail[m.ant.id]
        BY <1>1, <1>6, <1>11, CopyKinds
      <3> QED
        BY <1>1, <3>1 DEF AllAgree
    <2> QED
      BY <1>2, <1>9, <2>1, <2>2, <2>3 DEF AllAgree
  <1>15. \A a \in AntIds : a # id => LiveQueued(a)' = LiveQueued(a) /\ LiveAir(a)' = LiveAir(a)
    BY <1>2, <1>9 DEF LiveQueued, LiveAir
  <1>16. LiveQueued(id)' \subseteq {new} /\ LiveAir(id)' = {}
    BY <1>2, <1>6 DEF LiveQueued, LiveAir
  <1>17. Single'
    <2> SUFFICES ASSUME NEW a \in AntIds
                 PROVE  /\ \A p, q \in LiveQueued(a)' : p = q
                        /\ \A m, n \in LiveAir(a)' : m = n
                        /\ LiveQueued(a)' = {} \/ LiveAir(a)' = {}
      BY DEF Single
    <2>1. CASE a = id
      BY <1>16, <2>1
    <2>2. CASE a # id
      BY <1>1, <1>15, <2>2 DEF Single
    <2> QED
      BY <2>1, <2>2
  <1>18. Newest'
    <2> SUFFICES ASSUME NEW a \in AntIds
                 PROVE  /\ \A q \in LiveQueued(a)' : q.ant.seq = trail'[a]
                        /\ \A m \in LiveAir(a)' : m.ant.seq = trail'[a]
      BY DEF Newest
    <2>1. CASE a = id
      BY <1>9, <1>11, <1>16, <2>1
    <2>2. CASE a # id
      BY <1>1, <1>11, <1>15, <2>2 DEF Newest
    <2> QED
      BY <2>1, <2>2
  <1>19. Unheard'
    <2> SUFFICES ASSUME NEW a \in AntIds, a[2] > m_antSeqNum'[a[1]]
                 PROVE  /\ \A q \in queued' : q.ant.id # a
                        /\ \A m \in air' : m.ant.id # a
                        /\ trail'[a] = <<>>
      BY DEF Unheard
    <2>1. a[1] \in Launchers /\ a[2] \in Nat
      BY <1>1, <1>3, CopyKinds
    <2>2. m_antSeqNum'[a[1]] = IF a[1] = v THEN m_antSeqNum[v] + 1 ELSE m_antSeqNum[a[1]]
      BY <1>2, <1>3, <2>1
    <2>3. a # id
      BY <1>0, <1>4, <1>5, <2>1, <2>2
    <2>4. a[2] > m_antSeqNum[a[1]]
      BY <1>3, <1>4, <2>1, <2>2
    <2> QED
      BY <1>1, <1>2, <1>9, <1>11, <2>3, <2>4 DEF Unheard
  <1>20. ASSUME NEW u \in Vehicles PROVE m_received_last_ant[u][id] = NoVersion
    <2>1. m_received_last_ant[u][id] \in {NoVersion} \cup Nat /\ Len(trail[id]) = 0
      BY <1>1, <1>5, <1>6 DEF AntKinds
    <2> QED
      BY <1>1, <1>5, <2>1 DEF Recorded
  <1>21. Recorded'
    BY <1>1, <1>2, <1>11, <1>20 DEF Recorded
  <1>22. Deposited'
    <2> SUFFICES ASSUME NEW u \in Vehicles, NEW a \in AntIds
                 PROVE  /\ Len(deposits'[u][a]) = Known(u, a)'
                        /\ ToSet(deposits'[u][a]) = Pairs(trail'[a], 1, Known(u, a)')
      BY DEF Deposited, Pairs
    <2>1. Known(u, a)' = Known(u, a) /\ deposits'[u][a] = deposits[u][a]
      BY <1>2 DEF Known
    <2>2. /\ Len(deposits[u][a]) = Known(u, a)
          /\ ToSet(deposits[u][a]) = Pairs(trail[a], 1, Known(u, a))
      BY <1>1 DEF Deposited
    <2>3. CASE a = id
      <3>1. Known(u, a) = 0
        BY <1>20, <2>3 DEF Known
      <3>2. Pairs(trail'[a], 1, 0) = {} /\ Pairs(trail[a], 1, 0) = {}
        BY DEF Pairs
      <3> QED
        BY <2>1, <2>2, <3>1, <3>2
    <2>4. CASE a # id
      BY <1>11, <2>1, <2>2, <2>4
    <2> QED
      BY <2>3, <2>4
  <1> QED
    BY <1>13, <1>14, <1>17, <1>18, <1>19, <1>21, <1>22 DEF AntInv

\* A vehicle broadcasts a waiting ant: the forwarder it names may hear it, and so
\* may others.
LEMMA SendKeeps ==
    ASSUME AntInv, NEW s \in queued, NEW hearers \in SUBSET (Vehicles \ {s.by}),
           SendQueuedMessages(s, hearers)
    PROVE  AntInv'
  <1> DEFINE sent == {[ant |-> s.ant, to |-> w] : w \in hearers}
  <1>1. AntKinds /\ AllAgree /\ Single /\ Newest /\ Unheard /\ Recorded /\ Deposited
    BY DEF AntInv
  <1>2. /\ queued' = queued \ {s} /\ air' = air \cup sent /\ m_antSeqNum' = m_antSeqNum
        /\ m_received_last_ant' = m_received_last_ant /\ deposits' = deposits /\ trail' = trail
    BY DEF SendQueuedMessages
  <1>3. s.ant \in Ant /\ s.by \in Vehicles /\ s.ant.id \in AntIds
    BY <1>1, CopyKinds
  <1>4. \A m \in sent : /\ m.ant = s.ant /\ m.to \in Vehicles \ {s.by}
                        /\ m = [ant |-> s.ant, to |-> m.to]
    OBVIOUS
  <1>5. sent \subseteq [ant : Ant, to : Vehicles]
    BY <1>3
  <1> HIDE DEF sent
  <1>6. AntKinds'
    BY <1>1, <1>2, <1>5 DEF AntKinds
  <1>7. AllAgree' /\ Unheard'
    BY <1>1, <1>2, <1>4 DEF AllAgree, Unheard
  <1>8. \A a \in AntIds :
           /\ LiveQueued(a)' = LiveQueued(a) \ {s}
           /\ \A m \in LiveAir(a)' : m \in LiveAir(a) \/ (m \in sent /\ s \in LiveQueued(a))
    BY <1>2, <1>4 DEF LiveQueued, LiveAir
  <1>9. \A a \in AntIds : \A m, n \in LiveAir(a)' : m \in sent /\ n \in sent => m = n
    <2> SUFFICES ASSUME NEW a \in AntIds, NEW m \in LiveAir(a)', NEW n \in LiveAir(a)',
                        m \in sent, n \in sent
                 PROVE  m = n
      OBVIOUS
    <2>1. m.ant = s.ant /\ n.ant = s.ant /\ m.to = n.to
      BY <1>4 DEF LiveAir
    <2> QED
      BY <1>4, <2>1
  <1>10. Single'
    <2> SUFFICES ASSUME NEW a \in AntIds
                 PROVE  /\ \A p, q \in LiveQueued(a)' : p = q
                        /\ \A m, n \in LiveAir(a)' : m = n
                        /\ LiveQueued(a)' = {} \/ LiveAir(a)' = {}
      BY DEF Single
    <2>1. CASE s \in LiveQueued(a)
      <3>1. LiveAir(a) = {} /\ LiveQueued(a)' = {}
        BY <1>1, <1>8, <2>1 DEF Single
      <3> QED
        BY <1>8, <1>9, <3>1
    <2>2. CASE s \notin LiveQueued(a)
      <3>1. LiveAir(a)' \subseteq LiveAir(a) /\ LiveQueued(a)' = LiveQueued(a)
        BY <1>8, <2>2
      <3> QED
        BY <1>1, <3>1 DEF Single
    <2> QED
      BY <2>1, <2>2
  <1>11. Newest'
    BY <1>1, <1>2, <1>4, <1>8 DEF Newest
  <1>12. Recorded' /\ Deposited'
    BY <1>1, <1>2 DEF Recorded, Deposited, Known
  <1> QED
    BY <1>6, <1>7, <1>10, <1>11, <1>12 DEF AntInv

-------------------------------------------------------------------------------
(* Processing an ant *)

\* The ant its forwarder makes of it.
LEMMA AdvanceKind ==
    ASSUME NEW ant \in Ant, NEW here \in Junctions \cup {Segment}, NEW fwd \in Vehicles \cup {Loopback},
           NEW t, Agrees(ant, t)
    PROVE  LET o == Advance(ant, here, fwd)
           IN  /\ o \in Ant /\ o.id = ant.id /\ Agrees(o, o.seq) /\ Begins(ant.seq, o.seq)
               /\ o = ant \/ o.next = fwd
               /\ o.seq = ant.seq \/ Len(o.seq) = Len(ant.seq) + 1
  <1> DEFINE id == ant.id
             version == ant.version
             seq == ant.seq
             stamps == ant.stamps
             next == ant.next
             o == Advance(ant, here, fwd)
  <1>1. ant = [id |-> id, version |-> version, seq |-> seq, stamps |-> stamps, next |-> next]
    BY DEF Ant
  <1>2. /\ id \in AntIds /\ version \in Nat /\ seq \in Seq(Junctions) /\ stamps \in Nat
        /\ next \in Vehicles \cup {Loopback}
    BY DEF Ant
  <1>3. Len(seq) \in Nat /\ Len(seq) = version + 1 /\ Len(seq) = stamps /\ Distinct(seq)
    BY <1>2 DEF Agrees
  <1>4. Begins(seq, seq)
    BY <1>3 DEF Begins
  <1> HIDE DEF id, version, seq, stamps, next
  <1>5. CASE here = Segment
    <2>1. o = [id |-> id, version |-> version, seq |-> seq, stamps |-> stamps, next |-> fwd]
      BY <1>1, <1>5 DEF Advance
    <2>2. o \in Ant
      BY <1>2, <2>1 DEF Ant
    <2>3. o.id = id /\ o.version = version /\ o.seq = seq /\ o.stamps = stamps /\ o.next = fwd
      BY <2>1
    <2> HIDE DEF o
    <2> QED
      BY <1>3, <1>4, <2>2, <2>3 DEF Agrees, id, seq, o
  <1>6. CASE here # Segment /\ here \in ToSet(ant.seq)
    <2>1. o = ant
      BY <1>6 DEF Advance
    <2> HIDE DEF o
    <2> QED
      BY <1>3, <1>4, <2>1 DEF Agrees, seq, version, stamps, o
  <1>7. CASE here # Segment /\ here \notin ToSet(ant.seq)
    <2> DEFINE longer == Append(seq, here)
    <2>1. /\ longer \in Seq(Junctions) /\ Len(longer) = Len(seq) + 1 /\ Distinct(longer)
          /\ Begins(seq, longer) /\ Len(longer) < MaxPathLength
      BY <1>2, <1>3, <1>7, ListGrows DEF seq
    <2>2. [ant EXCEPT !.seq = Append(@, here)] =
             [id |-> id, version |-> version, seq |-> longer, stamps |-> stamps, next |-> next]
      BY <1>1
    <2> HIDE DEF longer
    <2>3. o = Extend(ant, here, fwd)
      BY <1>7 DEF Advance
    <2>4. Extend(ant, here, fwd) =
             [id |-> id, version |-> version + 1, seq |-> longer, stamps |-> stamps + 1, next |-> fwd]
      BY <2>1, <2>2 DEF Extend
    <2>5. o \in Ant
      BY <1>2, <2>1, <2>3, <2>4 DEF Ant
    <2>6. o.id = id /\ o.version = version + 1 /\ o.seq = longer /\ o.stamps = stamps + 1 /\ o.next = fwd
      BY <2>3, <2>4
    <2>7. Begins(longer, longer)
      BY <1>3, <2>1 DEF Begins
    <2> HIDE DEF o
    <2> QED
      BY <1>3, <2>1, <2>5, <2>6, <2>7 DEF Agrees, id, seq, o
  <1> QED
    BY <1>5, <1>6, <1>7

LEMMA BeginsTransitive ==
    ASSUME NEW r \in Seq(Junctions), NEW s \in Seq(Junctions), NEW t \in Seq(Junctions),
           Begins(r, s), Begins(s, t)
    PROVE  Begins(r, t)
  <1>1. Len(r) \in Nat /\ Len(s) \in Nat /\ Len(t) \in Nat
    OBVIOUS
  <1> QED
    BY <1>1 DEF Begins

\* The pairs up to a version do not change when the list grows.
LEMMA PairsKept ==
    ASSUME NEW s \in Seq(Junctions), NEW t \in Seq(Junctions), Begins(s, t),
           NEW n \in Nat, n = 0 \/ n + 1 <= Len(s)
    PROVE  Pairs(s, 1, n) = Pairs(t, 1, n)
  <1>1. Len(s) \in Nat
    OBVIOUS
  <1>2. ASSUME NEW k \in 1 .. n PROVE s[k] = t[k] /\ s[k + 1] = t[k + 1]
    BY <1>1, <1>2 DEF Begins
  <1> QED
    BY <1>2 DEF Pairs

LEMMA Joined ==
    ASSUME NEW S, NEW d \in Seq(S), NEW p \in Seq(S)
    PROVE  /\ d \o p \in Seq(S) /\ Len(d \o p) = Len(d) + Len(p)
           /\ ToSet(d \o p) = ToSet(d) \cup ToSet(p)
  <1>1. Len(d) \in Nat /\ Len(p) \in Nat /\ DOMAIN d = 1 .. Len(d) /\ DOMAIN p = 1 .. Len(p)
    OBVIOUS
  <1>2. d \o p \in Seq(S) /\ Len(d \o p) = Len(d) + Len(p) /\ DOMAIN (d \o p) = 1 .. Len(d) + Len(p)
    OBVIOUS
  <1>3. \A i \in 1 .. Len(d) + Len(p) : (d \o p)[i] = IF i <= Len(d) THEN d[i] ELSE p[i - Len(d)]
    OBVIOUS
  <1> DEFINE c == d \o p
  <1> HIDE DEF c
  <1>4. ToSet(c) \subseteq ToSet(d) \cup ToSet(p)
    <2> SUFFICES ASSUME NEW i \in 1 .. Len(d) + Len(p) PROVE c[i] \in ToSet(d) \cup ToSet(p)
      BY <1>2 DEF ToSet, c
    <2>1. CASE i <= Len(d)
      BY <1>1, <1>3, <2>1 DEF ToSet, c
    <2>2. CASE ~(i <= Len(d))
      <3>1. i - Len(d) \in 1 .. Len(p) /\ c[i] = p[i - Len(d)]
        BY <1>1, <1>3, <2>2 DEF c
      <3> QED
        BY <1>1, <3>1 DEF ToSet
    <2> QED
      BY <2>1, <2>2
  <1>5. ToSet(d) \subseteq ToSet(c)
    <2> SUFFICES ASSUME NEW i \in 1 .. Len(d) PROVE d[i] \in ToSet(c)
      BY <1>1 DEF ToSet
    <2>1. i \in DOMAIN c /\ c[i] = d[i]
      BY <1>1, <1>2, <1>3 DEF c
    <2> QED
      BY <2>1 DEF ToSet
  <1>6. ToSet(p) \subseteq ToSet(c)
    <2> SUFFICES ASSUME NEW i \in 1 .. Len(p) PROVE p[i] \in ToSet(c)
      BY <1>1 DEF ToSet
    <2>1. /\ Len(d) + i \in 1 .. Len(d) + Len(p) /\ ~(Len(d) + i <= Len(d))
          /\ (Len(d) + i) - Len(d) = i
      BY <1>1
    <2>2. Len(d) + i \in DOMAIN c /\ c[Len(d) + i] = p[i]
      BY <1>2, <1>3, <2>1 DEF c
    <2> QED
      BY <2>2 DEF ToSet
  <1> QED
    BY <1>2, <1>4, <1>5, <1>6 DEF c

\* update_matrix walks back over the pairs beyond the first n: with those n
\* deposited before, each pair up to version k has its one deposit.
Walk(s, k, n) == [i \in 1 .. k - n |-> <<s[Len(s) - i], s[Len(s) + 1 - i]>>]

LEMMA PairsAdded ==
    ASSUME NEW s \in Seq(Junctions), NEW k \in Nat, Len(s) = k + 1, NEW n \in 0 .. k,
           NEW d \in Seq(Junctions \X Junctions), Len(d) = n, ToSet(d) = Pairs(s, 1, n)
    PROVE  /\ d \o Walk(s, k, n) \in Seq(Junctions \X Junctions) /\ Len(d \o Walk(s, k, n)) = k
           /\ ToSet(d \o Walk(s, k, n)) = Pairs(s, 1, k)
  <1> DEFINE p == Walk(s, k, n)
             S == Junctions \X Junctions
  <1>1. \A i \in 1 .. k - n : s[Len(s) - i] \in Junctions /\ s[Len(s) + 1 - i] \in Junctions
    OBVIOUS
  <1>2. p \in Seq(S) /\ Len(p) = k - n
    BY <1>1 DEF Walk
  <1>3. DOMAIN p = 1 .. k - n /\ \A i \in 1 .. k - n : p[i] = <<s[Len(s) - i], s[Len(s) + 1 - i]>>
    BY DEF Walk
  <1> HIDE DEF p, S
  <1>4. d \in Seq(S)
    BY DEF S
  <1>5. ToSet(p) = Pairs(s, n + 1, k)
    <2>1. ASSUME NEW i \in 1 .. k - n PROVE p[i] \in Pairs(s, n + 1, k)
      <3>1. k + 1 - i \in n + 1 .. k /\ Len(s) - i = k + 1 - i /\ Len(s) + 1 - i = (k + 1 - i) + 1
        OBVIOUS
      <3> QED
        BY <1>3, <3>1 DEF Pairs
    <2>2. ASSUME NEW j \in n + 1 .. k PROVE <<s[j], s[j + 1]>> \in ToSet(p)
      <3>1. k + 1 - j \in 1 .. k - n /\ Len(s) - (k + 1 - j) = j /\ Len(s) + 1 - (k + 1 - j) = j + 1
        OBVIOUS
      <3>2. p[k + 1 - j] = <<s[j], s[j + 1]>> /\ k + 1 - j \in DOMAIN p
        BY <1>3, <3>1
      <3> QED
        BY <3>2 DEF ToSet
    <2>3. ToSet(p) \subseteq Pairs(s, n + 1, k)
      BY <1>3, <2>1 DEF ToSet
    <2>4. Pairs(s, n + 1, k) \subseteq ToSet(p)
      BY <2>2 DEF Pairs
    <2> QED
      BY <2>3, <2>4
  <1>6. d \o p \in Seq(S) /\ Len(d \o p) = k /\ ToSet(d \o p) = ToSet(d) \cup ToSet(p)
    <2>1. /\ d \o p \in Seq(S) /\ Len(d \o p) = Len(d) + Len(p)
          /\ ToSet(d \o p) = ToSet(d) \cup ToSet(p)
      BY ONLY <1>2, <1>4, Joined
    <2>2. Len(d) + Len(p) = k
      BY <1>2
    <2> QED
      BY <2>1, <2>2
  <1>7. Pairs(s, 1, k) = Pairs(s, 1, n) \cup Pairs(s, n + 1, k)
    <2>1. 1 .. k = (1 .. n) \cup (n + 1 .. k)
      OBVIOUS
    <2> QED
      BY <2>1 DEF Pairs
  <1> QED
    BY <1>5, <1>6, <1>7 DEF p, S

\* A vehicle hears an ant.
LEMMA ProcessKeeps ==
    ASSUME AntInv, NEW m \in air, NEW h \in Turns(m.to, m.ant), ProcessAnt(m.to, m, h[1], h[2])
    PROVE  AntInv'
  <1> DEFINE here == h[1]
             fwd == h[2]
             v == m.to
             ant == m.ant
             id == ant.id
             onward == Advance(ant, here, fwd)
             passed == ant.next = v /\ IsNew(v, ant)
  <1>1. AntKinds /\ AllAgree /\ Single /\ Newest /\ Unheard /\ Recorded /\ Deposited
    BY DEF AntInv
  <1>2. /\ air' = air \ {m} /\ m_antSeqNum' = m_antSeqNum
        /\ IF IsNew(v, ant) THEN update_matrix(v, ant)
           ELSE UNCHANGED <<m_received_last_ant, deposits>>
        /\ queued' = ForwardQueue(v, ant, here, fwd)
        /\ trail' = IF passed /\ Len(onward.seq) > Len(trail[id])
                    THEN [trail EXCEPT ![id] = onward.seq] ELSE trail
    BY DEF ProcessAnt
  <1>3. /\ v \in Vehicles /\ ant \in Ant /\ id \in AntIds /\ ant.seq \in Seq(Junctions)
        /\ ant.version \in Nat /\ trail[id] \in Seq(Junctions) /\ Agrees(ant, trail[id])
    BY <1>1, CopyKinds DEF AllAgree
  <1>4. here \in Junctions \cup {Segment} /\ fwd \in Vehicles \cup {Loopback}
    BY DEF Turns, Forwarders
  <1>5. /\ onward \in Ant /\ onward.id = id /\ Agrees(onward, onward.seq)
        /\ Begins(ant.seq, onward.seq) /\ (onward = ant \/ onward.next = fwd)
        /\ (onward.seq = ant.seq \/ Len(onward.seq) = Len(ant.seq) + 1)
    BY <1>3, <1>4, AdvanceKind
  <1>6. onward.seq \in Seq(Junctions)
    BY <1>5 DEF Ant
  <1> HIDE DEF here, fwd, onward
  \* The forwarder has the live copy, so what it makes of it is the list now.
  <1>7. ant.next = v => m \in LiveAir(id) /\ ant.seq = trail[id]
    BY <1>1, <1>3 DEF LiveAir, Newest
  <1>8. /\ trail' \in [AntIds -> Seq(Junctions)]
        /\ trail'[id] = IF passed THEN onward.seq ELSE trail[id]
        /\ \A a \in AntIds : a # id => trail'[a] = trail[a]
    <2>1. trail \in [AntIds -> Seq(Junctions)]
      BY <1>1 DEF AntKinds
    <2>2. CASE passed /\ Len(onward.seq) > Len(trail[id])
      <3>1. trail' = [trail EXCEPT ![id] = onward.seq]
        BY <1>2, <2>2
      <3> HIDE DEF id
      <3> QED
        BY <1>3, <1>6, <2>1, <2>2, <3>1
    <2>3. CASE passed /\ ~(Len(onward.seq) > Len(trail[id]))
      <3>1. onward.seq = trail[id]
        BY <1>3, <1>5, <1>7, <2>3
      <3> QED
        BY <1>2, <2>1, <2>3, <3>1
    <2>4. CASE ~passed
      BY <1>2, <2>1, <2>4
    <2> QED
      BY <2>2, <2>3, <2>4
  <1>9. \A a \in AntIds : Begins(trail[a], trail'[a]) /\ trail'[a] \in Seq(Junctions) /\ trail[a] \in Seq(Junctions)
    <2> SUFFICES ASSUME NEW a \in AntIds
                 PROVE  Begins(trail[a], trail'[a]) /\ trail'[a] \in Seq(Junctions) /\ trail[a] \in Seq(Junctions)
      OBVIOUS
    <2>1. trail[a] \in Seq(Junctions) /\ trail'[a] \in Seq(Junctions)
      BY <1>1, <1>8 DEF AntKinds
    <2>2. trail'[a] = trail[a] => Begins(trail[a], trail'[a])
      BY <2>1 DEF Begins
    <2>3. CASE a = id /\ passed
      BY <1>5, <1>7, <1>8, <2>1, <2>3
    <2>4. CASE ~(a = id /\ passed)
      BY <1>8, <2>1, <2>2, <2>4
    <2> QED
      BY <2>3, <2>4
  <1>10. PICK new : new = [ant |-> IF IsNew(v, ant) THEN onward ELSE ant, by |-> v]
    OBVIOUS
  <1>11. queued' = IF ant.next = v THEN queued \cup {new} ELSE queued
    BY <1>2, <1>10 DEF ForwardQueue, onward
  <1>12. new.by = v /\ new.ant = IF IsNew(v, ant) THEN onward ELSE ant
    BY <1>10
  <1>13. new.ant.id = id /\ new \in [ant : Ant, by : Vehicles]
    BY <1>3, <1>5, <1>10
  <1>14. /\ m_received_last_ant' \in [Vehicles -> [AntIds -> {NoVersion} \cup Nat]]
         /\ \A u \in Vehicles, a \in AntIds :
               m_received_last_ant'[u][a] = IF u = v /\ a = id /\ IsNew(v, ant) THEN ant.version
                                            ELSE m_received_last_ant[u][a]
    <2>1. m_received_last_ant \in [Vehicles -> [AntIds -> {NoVersion} \cup Nat]]
      BY <1>1 DEF AntKinds
    <2>2. CASE IsNew(v, ant)
      <3>1. m_received_last_ant' = [m_received_last_ant EXCEPT ![v][id] = ant.version]
        BY <1>2, <2>2 DEF update_matrix
      <3> HIDE DEF v, id
      <3> QED
        BY <1>3, <2>1, <2>2, <3>1
    <2>3. CASE ~IsNew(v, ant)
      BY <1>2, <2>1, <2>3
    <2> QED
      BY <2>2, <2>3
  <1>15. AllAgree'
    <2>1. ASSUME NEW c \in Ant, Agrees(c, trail[c.id]) PROVE Agrees(c, trail'[c.id])
      <3>1. c.id \in AntIds /\ c.seq \in Seq(Junctions)
        BY DEF Ant
      <3>2. Begins(c.seq, trail'[c.id])
        BY <1>9, <2>1, <3>1, BeginsTransitive DEF Agrees
      <3> QED
        BY <2>1, <3>2 DEF Agrees
    <2>2. ant.next = v => Agrees(new.ant, trail'[new.ant.id])
      <3>1. CASE ant.next = v /\ IsNew(v, ant)
        BY <1>5, <1>8, <1>12, <3>1
      <3>2. CASE ~IsNew(v, ant)
        BY <1>3, <1>12, <2>1, <3>2
      <3> QED
        BY <3>1, <3>2
    <2>3. \A q \in queued : Agrees(q.ant, trail'[q.ant.id])
      BY <1>1, <2>1, CopyKinds DEF AllAgree
    <2>4. \A n \in air : Agrees(n.ant, trail'[n.ant.id])
      BY <1>1, <2>1, CopyKinds DEF AllAgree
    <2> QED
      BY <1>2, <1>11, <2>2, <2>3, <2>4 DEF AllAgree
  <1>16. new.ant.next \in Vehicles \ {v} /\ ant.next = v => passed
    BY <1>12
  <1>17. \A a \in AntIds :
            /\ LiveAir(a)' \subseteq LiveAir(a) \ {m}
            /\ \A q \in LiveQueued(a)' : q \in LiveQueued(a) \/ (q = new /\ a = id /\ passed)
    BY <1>2, <1>11, <1>12, <1>13, <1>16 DEF LiveAir, LiveQueued
  <1>18. passed => LiveQueued(id) = {} /\ LiveAir(id)' = {}
    BY <1>1, <1>3, <1>7, <1>17 DEF Single
  <1>19. Single'
    <2> SUFFICES ASSUME NEW a \in AntIds
                 PROVE  /\ \A p, q \in LiveQueued(a)' : p = q
                        /\ \A l, n \in LiveAir(a)' : l = n
                        /\ LiveQueued(a)' = {} \/ LiveAir(a)' = {}
      BY DEF Single
    <2>1. CASE a = id /\ passed
      BY <1>17, <1>18, <2>1
    <2>2. CASE ~(a = id /\ passed)
      <3>1. LiveAir(a)' \subseteq LiveAir(a) /\ LiveQueued(a)' \subseteq LiveQueued(a)
        BY <1>17, <2>2
      <3> QED
        BY <1>1, <3>1 DEF Single
    <2> QED
      BY <2>1, <2>2
  <1>20. Newest'
    <2> SUFFICES ASSUME NEW a \in AntIds
                 PROVE  /\ \A q \in LiveQueued(a)' : q.ant.seq = trail'[a]
                        /\ \A n \in LiveAir(a)' : n.ant.seq = trail'[a]
      BY DEF Newest
    <2>1. CASE a = id /\ passed
      BY <1>8, <1>12, <1>17, <1>18, <2>1
    <2>2. CASE ~(a = id /\ passed)
      <3>1. LiveAir(a)' \subseteq LiveAir(a) /\ LiveQueued(a)' \subseteq LiveQueued(a)
        BY <1>17, <2>2
      <3>2. trail'[a] = trail[a]
        BY <1>8, <2>2
      <3> QED
        BY <1>1, <3>1, <3>2 DEF Newest
    <2> QED
      BY <2>1, <2>2
  <1>21. Unheard'
    BY <1>1, <1>2, <1>8, <1>11, <1>13 DEF Unheard
  <1>22. ASSUME NEW u \in Vehicles, NEW a \in AntIds
         PROVE  /\ m_received_last_ant[u][a] \in {NoVersion} \cup Nat /\ Known(u, a) \in Nat
                /\ Known(u, a) = 0 \/ Known(u, a) + 1 <= Len(trail[a])
                /\ deposits[u][a] \in Seq(Junctions \X Junctions) /\ Len(deposits[u][a]) = Known(u, a)
                /\ ToSet(deposits[u][a]) = Pairs(trail[a], 1, Known(u, a))
    <2>1. m_received_last_ant[u][a] \in {NoVersion} \cup Nat
      BY <1>1 DEF AntKinds
    <2>2. Known(u, a) \in Nat
      BY <2>1 DEF Known
    <2>3. Known(u, a) = 0 \/ Known(u, a) + 1 <= Len(trail[a])
      BY <1>1, <2>1 DEF Known, Recorded
    <2> QED
      BY <1>1, <2>1, <2>2, <2>3 DEF AntKinds, Deposited
  <1>23. Len(ant.seq) = ant.version + 1 /\ Begins(ant.seq, trail[id]) /\ Len(ant.seq) <= Len(trail[id])
         /\ Len(trail[id]) <= Len(trail'[id]) /\ Len(trail[id]) \in Nat /\ Len(trail'[id]) \in Nat
    BY <1>3, <1>9 DEF Agrees, Begins
  <1>24. Recorded'
    <2> SUFFICES ASSUME NEW u \in Vehicles, NEW a \in AntIds, m_received_last_ant'[u][a] # NoVersion
                 PROVE  m_received_last_ant'[u][a] + 1 <= Len(trail'[a])
      BY DEF Recorded
    <2>1. CASE u = v /\ a = id /\ IsNew(v, ant)
      BY <1>3, <1>14, <1>23, <2>1
    <2>2. CASE ~(u = v /\ a = id /\ IsNew(v, ant))
      <3>1. m_received_last_ant[u][a] # NoVersion /\ m_received_last_ant'[u][a] = m_received_last_ant[u][a]
        BY <1>14, <2>2
      <3>2. m_received_last_ant[u][a] + 1 <= Len(trail[a]) /\ m_received_last_ant[u][a] \in Nat
        BY <1>1, <1>22, <3>1 DEF Recorded
      <3>3. Len(trail[a]) <= Len(trail'[a]) /\ Len(trail[a]) \in Nat /\ Len(trail'[a]) \in Nat
        BY <1>9 DEF Begins
      <3> QED
        BY <3>1, <3>2, <3>3
    <2> QED
      BY <2>1, <2>2
  \* Where the vehicle records the ant, the pairs that are new to it are added.
  <1>25. IsNew(v, ant) =>
            /\ deposits[v][id] \o NewPairs(v, ant) \in Seq(Junctions \X Junctions)
            /\ Len(deposits[v][id] \o NewPairs(v, ant)) = ant.version
            /\ ToSet(deposits[v][id] \o NewPairs(v, ant)) = Pairs(ant.seq, 1, ant.version)
    <2> SUFFICES ASSUME IsNew(v, ant)
                 PROVE  /\ deposits[v][id] \o NewPairs(v, ant) \in Seq(Junctions \X Junctions)
                        /\ Len(deposits[v][id] \o NewPairs(v, ant)) = ant.version
                        /\ ToSet(deposits[v][id] \o NewPairs(v, ant)) = Pairs(ant.seq, 1, ant.version)
      OBVIOUS
    <2> DEFINE n == Known(v, id)
               d == deposits[v][id]
               s == ant.seq
    <2>1. n \in 0 .. ant.version
      BY <1>3, <1>22 DEF IsNew, Known, NoVersion
    <2>2. Pairs(trail[id], 1, n) = Pairs(s, 1, n)
      <3>1. n \in Nat /\ (n = 0 \/ n + 1 <= Len(s))
        BY <1>3, <1>23, <2>1
      <3> HIDE DEF n, s
      <3> QED
        BY <1>3, <1>23, <3>1, PairsKept DEF s
    <2>3. NewPairs(v, ant) = Walk(s, ant.version, n)
      <3>1. (IF m_received_last_ant[v][ant.id] = NoVersion THEN ant.version
             ELSE ant.version - m_received_last_ant[v][ant.id]) = ant.version - n
        BY <1>3, <1>22 DEF Known
      <3> QED
        BY <3>1 DEF NewPairs, Walk
    <2>4. d \in Seq(Junctions \X Junctions) /\ Len(d) = n /\ ToSet(d) = Pairs(s, 1, n)
      BY <1>3, <1>22, <2>2
    <2>5. s \in Seq(Junctions) /\ ant.version \in Nat /\ Len(s) = ant.version + 1
      BY <1>3, <1>23
    <2> HIDE DEF n, d, s
    <2>6. /\ d \o NewPairs(v, ant) \in Seq(Junctions \X Junctions)
          /\ Len(d \o NewPairs(v, ant)) = ant.version
          /\ ToSet(d \o NewPairs(v, ant)) = Pairs(s, 1, ant.version)
      <3> DEFINE k == ant.version
      <3>1. /\ s \in Seq(Junctions) /\ k \in Nat /\ Len(s) = k + 1 /\ n \in 0 .. k
            /\ d \in Seq(Junctions \X Junctions) /\ Len(d) = n /\ ToSet(d) = Pairs(s, 1, n)
        BY <2>1, <2>4, <2>5
      <3> HIDE DEF k
      <3>2. /\ d \o Walk(s, k, n) \in Seq(Junctions \X Junctions) /\ Len(d \o Walk(s, k, n)) = k
            /\ ToSet(d \o Walk(s, k, n)) = Pairs(s, 1, k)
        BY ONLY <3>1, PairsAdded
      <3> QED
        BY <2>3, <3>2 DEF k
    <2> QED
      BY <2>6 DEF d, s
  <1>26. /\ deposits' \in [Vehicles -> [AntIds -> Seq(Junctions \X Junctions)]]
         /\ \A u \in Vehicles, a \in AntIds :
               deposits'[u][a] = IF u = v /\ a = id /\ IsNew(v, ant) THEN deposits[v][id] \o NewPairs(v, ant)
                                 ELSE deposits[u][a]
    <2>1. deposits \in [Vehicles -> [AntIds -> Seq(Junctions \X Junctions)]]
      BY <1>1 DEF AntKinds
    <2>2. CASE IsNew(v, ant)
      <3> DEFINE d == deposits[v][id] \o NewPairs(v, ant)
                 S == Seq(Junctions \X Junctions)
      <3>1. deposits' = [deposits EXCEPT ![v][id] = d] /\ d \in S
        BY <1>2, <1>25, <2>2 DEF update_matrix
      <3>2. deposits \in [Vehicles -> [AntIds -> S]]
        BY <2>1
      <3> HIDE DEF v, id, d, S
      <3>3. /\ deposits' \in [Vehicles -> [AntIds -> S]]
            /\ \A u \in Vehicles, a \in AntIds : deposits'[u][a] = IF u = v /\ a = id THEN d ELSE deposits[u][a]
        BY <1>3, <3>1, <3>2
      <3> QED
        BY <2>2, <3>3 DEF d, S
    <2>3. CASE ~IsNew(v, ant)
      BY <1>2, <2>1, <2>3
    <2> QED
      BY <2>2, <2>3
  <1>27. AntKinds'
    BY <1>1, <1>2, <1>8, <1>11, <1>13, <1>14, <1>26 DEF AntKinds
  <1>28. Deposited'
    <2> SUFFICES ASSUME NEW u \in Vehicles, NEW a \in AntIds
                 PROVE  /\ Len(deposits'[u][a]) = Known(u, a)'
                        /\ ToSet(deposits'[u][a]) = Pairs(trail'[a], 1, Known(u, a)')
      BY DEF Deposited, Pairs
    <2>1. CASE u = v /\ a = id /\ IsNew(v, ant)
      <3>1. Known(u, a)' = ant.version
        BY <1>3, <1>14, <2>1 DEF Known, NoVersion
      <3>2. Begins(ant.seq, trail'[id])
        BY <1>3, <1>9, <1>23, BeginsTransitive
      <3>3. Pairs(ant.seq, 1, ant.version) = Pairs(trail'[id], 1, ant.version)
        BY <1>3, <1>9, <1>23, <3>2, PairsKept
      <3>4. deposits'[u][a] = deposits[v][id] \o NewPairs(v, ant)
        BY <1>26, <2>1
      <3> QED
        BY <1>25, <2>1, <3>1, <3>3, <3>4
    <2>2. CASE ~(u = v /\ a = id /\ IsNew(v, ant))
      <3>1. Known(u, a)' = Known(u, a)
        BY <1>14, <2>2 DEF Known
      <3>2. deposits'[u][a] = deposits[u][a]
        BY <1>26, <2>2
      <3>3. Pairs(trail[a], 1, Known(u, a)) = Pairs(trail'[a], 1, Known(u, a))
        BY <1>9, <1>22, PairsKept
      <3> QED
        BY <1>22, <3>1, <3>2, <3>3
    <2> QED
      BY <2>1, <2>2
  <1> QED
    BY <1>15, <1>19, <1>20, <1>21, <1>24, <1>27, <1>28 DEF AntInv

-------------------------------------------------------------------------------
(* The properties *)

\* All copies of an ant agree, one at most is live and has the newest list, and
\* what a vehicle recorded and deposited fits that list.
THEOREM AntsCorrect == Spec => []AntInv
  <1>1. Init => AntInv
    BY AntInit
  <1>2. AntInv /\ [Next]_vars => AntInv'
    <2> SUFFICES ASSUME AntInv, [Next]_vars PROVE AntInv'
      OBVIOUS
    <2>1. CASE \E v \in Launchers, here \in Junctions : \E fwd \in Forwarders(v) :
                  AntTimerExpire(v, here, fwd)
      BY <2>1, LaunchKeeps
    <2>2. CASE \E q \in queued : \E hearers \in SUBSET (Vehicles \ {q.by}) :
                  SendQueuedMessages(q, hearers)
      BY <2>2, SendKeeps
    <2>3. CASE \E m \in air : \E t \in Turns(m.to, m.ant) : ProcessAnt(m.to, m, t[1], t[2])
      BY <2>3, ProcessKeeps
    <2>4. CASE UNCHANGED vars
      <3>1. AntKinds' /\ AllAgree' /\ Unheard'
        BY <2>4 DEF vars, AntInv, AntKinds, AllAgree, Unheard
      <3>2. Single' /\ Newest'
        BY <2>4 DEF vars, AntInv, Single, Newest, LiveQueued, LiveAir
      <3>3. Recorded' /\ Deposited'
        BY <2>4 DEF vars, AntInv, Recorded, Deposited, Known
      <3> QED
        BY <3>1, <3>2, <3>3 DEF AntInv
    <2> QED
      BY <2>1, <2>2, <2>3, <2>4 DEF Next
  <1> QED
    BY <1>1, <1>2, PTL DEF Spec

\* Comparing versions is comparing lists, and the loop of update_matrix stays
\* inside the list.
THEOREM CopiesAlwaysAgree == Spec => []CopiesAgree
  <1>1. AntInv => CopiesAgree
    <2> SUFFICES ASSUME AntInv, NEW ant \in Copies
                 PROVE  /\ Len(ant.seq) = ant.version + 1 /\ Len(ant.seq) = ant.stamps
                        /\ IsPrefix(ant.seq, trail[ant.id])
                        /\ \A i, j \in DOMAIN ant.seq : ant.seq[i] = ant.seq[j] => i = j
      BY DEF CopiesAgree
    <2>1. AntKinds /\ AllAgree
      BY DEF AntInv
    <2>2. Agrees(ant, trail[ant.id]) /\ ant.seq \in Seq(Junctions) /\ ant.id \in AntIds
      BY <2>1, CopyKinds DEF Copies, AllAgree
    <2>3. IsPrefix(ant.seq, trail[ant.id])
      BY <2>1, <2>2, CopyKinds, PrefixIsBegins DEF Agrees
    <2> QED
      BY <2>2, <2>3 DEF Agrees, Distinct
  <1> QED
    BY <1>1, AntsCorrect, PTL

\* Whatever a vehicle hears or misses, update_matrix deposits exactly once on each
\* pair of the list up to the version recorded.
THEOREM DepositsAreSingle == Spec => []DepositedOnce
  <1>1. AntInv => DepositedOnce
    BY DEF AntInv, Deposited, DepositedOnce, Known, Pairs
  <1> QED
    BY <1>1, AntsCorrect, PTL

\* Broadcasting does not multiply ants.
THEOREM AtMostOneLives == Spec => []OneLiveCopy
  <1>1. AntInv => OneLiveCopy
    <2> SUFFICES ASSUME AntInv, NEW a \in AntIds PROVE Cardinality(LiveCopies(a)) <= 1
      BY DEF OneLiveCopy
    <2>1. LiveCopies(a) = LiveQueued(a) \cup LiveAir(a)
      BY DEF LiveCopies, LiveQueued, LiveAir
    <2>2. \A x, y \in LiveCopies(a) : x = y
      BY <2>1 DEF AntInv, Single
    <2>3. CASE LiveCopies(a) = {}
      BY <2>3, FS_EmptySet
    <2>4. CASE LiveCopies(a) # {}
      <3>1. PICK x : LiveCopies(a) = {x}
        BY <2>2, <2>4
      <3>2. Cardinality(LiveCopies(a)) = 1
        BY <3>1, FS_Singleton
      <3> QED
        BY <3>2
    <2> QED
      BY <2>3, <2>4
  <1> QED
    BY <1>1, AntsCorrect, PTL

\* An ant goes on only with a version that is new to its forwarder, and versions
\* stay below the number of junctions.
THEOREM AntsMakeProgress == Spec => PassingOnIsProgress
  <1> DEFINE Progress ==
                 \A a \in AntIds : \A q \in (LiveCopies(a)' \cap queued') \ queued :
                     \/ m_antSeqNum' # m_antSeqNum
                     \/ /\ m_received_last_ant[q.by][a] < m_received_last_ant'[q.by][a]
                        /\ m_received_last_ant'[q.by][a] < Cardinality(Junctions)
  <1>1. AntInv /\ [Next]_vars => [Progress]_vars
    <2> SUFFICES ASSUME AntInv, Next, NEW a \in AntIds,
                        NEW q \in (LiveCopies(a)' \cap queued') \ queued
                 PROVE  \/ m_antSeqNum' # m_antSeqNum
                        \/ /\ m_received_last_ant[q.by][a] < m_received_last_ant'[q.by][a]
                           /\ m_received_last_ant'[q.by][a] < Cardinality(Junctions)
      OBVIOUS
    <2>1. AntKinds /\ AllAgree
      BY DEF AntInv
    <2>2. CASE \E v \in Launchers, here \in Junctions : \E fwd \in Forwarders(v) :
                  AntTimerExpire(v, here, fwd)
      <3>1. PICK v \in Launchers : m_antSeqNum' = [m_antSeqNum EXCEPT ![v] = @ + 1]
        BY <2>2 DEF AntTimerExpire
      <3>2. m_antSeqNum'[v] = m_antSeqNum[v] + 1 /\ m_antSeqNum[v] \in Nat
        BY <2>1, <3>1, AntAssumption DEF AntKinds
      <3> QED
        BY <3>2
    <2>3. CASE \E s \in queued : \E hearers \in SUBSET (Vehicles \ {s.by}) :
                  SendQueuedMessages(s, hearers)
      BY <2>3 DEF SendQueuedMessages
    <2>4. CASE \E m \in air : \E h \in Turns(m.to, m.ant) : ProcessAnt(m.to, m, h[1], h[2])
      <3>1. PICK m \in air : \E h \in Turns(m.to, m.ant) : ProcessAnt(m.to, m, h[1], h[2])
        BY <2>4
      <3>0. PICK h \in Turns(m.to, m.ant) : ProcessAnt(m.to, m, h[1], h[2])
        BY <3>1
      <3> DEFINE v == m.to
                 ant == m.ant
      <3>2. /\ v \in Vehicles /\ ant \in Ant /\ ant.id \in AntIds /\ ant.version \in Nat
            /\ ant.seq \in Seq(Junctions) /\ Agrees(ant, trail[ant.id])
        BY <2>1, CopyKinds DEF AllAgree
      <3>3. /\ ant.next = v
            /\ q = [ant |-> IF IsNew(v, ant) THEN Advance(ant, h[1], h[2]) ELSE ant, by |-> v]
        BY <3>0 DEF ProcessAnt, ForwardQueue
      <3>4. q.by = v /\ q.ant = IF IsNew(v, ant) THEN Advance(ant, h[1], h[2]) ELSE ant
        BY <3>3
      <3>5. h[1] \in Junctions \cup {Segment} /\ h[2] \in Vehicles \cup {Loopback}
        BY DEF Turns, Forwarders
      <3>6. Advance(ant, h[1], h[2]).id = ant.id
        BY <3>2, <3>5, AdvanceKind
      <3>7. q \in LiveQueued(a)' \/ q \in LiveAir(a)'
        BY DEF LiveCopies, LiveQueued, LiveAir
      <3>8. q.ant.id = a /\ q.ant.next # q.by
        <4>1. q \notin air'
          <5>1. ASSUME q \in air' PROVE FALSE
            <6>1. q \in [ant : Ant, to : Vehicles]
              BY <2>1, <3>0, <5>1 DEF ProcessAnt, AntKinds
            <6>2. DOMAIN q = {"ant", "to"} /\ DOMAIN q = {"ant", "by"}
              BY <3>3, <6>1
            <6> QED
              BY <6>2
          <5> QED
            BY <5>1
        <4> QED
          BY <3>7, <4>1 DEF LiveQueued, LiveAir
      <3>9. a = ant.id /\ IsNew(v, ant)
        BY <3>3, <3>4, <3>6, <3>8
      <3>10. m_received_last_ant'[v][a] = ant.version
        <4>1. m_received_last_ant' = [m_received_last_ant EXCEPT ![v][ant.id] = ant.version]
          BY <3>0, <3>9 DEF ProcessAnt, update_matrix
        <4> QED
          BY <2>1, <3>2, <3>9, <4>1 DEF AntKinds
      <3>11. Len(ant.seq) <= Cardinality(Junctions) /\ Cardinality(Junctions) \in Nat
        BY <3>2, ListIsShort DEF Agrees
      <3>12. ant.version < Cardinality(Junctions)
        BY <3>2, <3>11 DEF Agrees
      <3> QED
        BY <3>4, <3>9, <3>10, <3>12 DEF IsNew
    <2> QED
      BY <2>2, <2>3, <2>4 DEF Next
  <1> QED
    BY <1>1, AntsCorrect, PTL DEF Spec, PassingOnIsProgress

==============================================================================
