---------------------------- MODULE GrpCarryProofs ----------------------------
(***************************************************************************)
(* The data plane, for any vehicles, packets, time to live and carry time:    *)
(* every packet is in one place, with the header and the time to live its      *)
(* place asks for, and the whole implements PacketLife.                       *)
(***************************************************************************)
EXTENDS GrpCarryLife, FiniteSetTheorems, WellFoundedInduction, TLAPS

-------------------------------------------------------------------------------
(* Induction over the naturals, from the well-foundedness of < *)

\* A non-empty set of naturals has a least element.
LEMMA LeastNatural ==
    ASSUME NEW T, T \subseteq Nat, T # {}
    PROVE  \E n \in T : \A m \in T : n <= m
  <1> DEFINE R == {ss \in Nat \X Nat : ss[1] < ss[2]}
  <1>1. IsWellFoundedOn(R, Nat)
    BY NatLessThanWellFounded DEF OpToRel
  <1>2. PICK x \in T : \A y \in T : <<y, x>> \notin R
    <2> HIDE DEF R
    <2> QED
      BY <1>1, WFMin
  <1>3. ASSUME NEW y \in T PROVE x <= y
    <2>1. x \in Nat /\ y \in Nat /\ <<y, x>> \in Nat \X Nat
      OBVIOUS
    <2>2. ~(y < x)
      BY <1>2, <2>1
    <2> QED
      BY <2>1, <2>2
  <1> QED
    BY <1>2, <1>3

\* A set that holds 0 and with each natural the next one holds them all.
LEMMA Induction ==
    ASSUME NEW S, 0 \in S, \A n \in Nat : n \in S => n + 1 \in S
    PROVE  Nat \subseteq S
  <1> SUFFICES ASSUME Nat \ S # {} PROVE FALSE
    OBVIOUS
  <1>1. PICK n \in Nat \ S : \A m \in Nat \ S : n <= m
    BY LeastNatural
  <1>2. n # 0 /\ n - 1 \in Nat
    BY <1>1
  <1>3. n - 1 \in S
    BY <1>1, <1>2
  <1> QED
    BY <1>1, <1>2, <1>3

-------------------------------------------------------------------------------
(* Counting packets *)

\* A packet joins an account, or several do.
LEMMA CountOne ==
    ASSUME NEW S \in SUBSET PacketIds, NEW p \in PacketIds, p \notin S
    PROVE  /\ IsFiniteSet(S) /\ Cardinality(S) \in Nat
           /\ Cardinality(S \cup {p}) = Cardinality(S) + 1
  <1>1. IsFiniteSet(S)
    BY CarryAssumption, FS_Subset
  <1> QED
    BY <1>1, FS_AddElement, FS_CardinalityType

LEMMA CountMany ==
    ASSUME NEW S \in SUBSET PacketIds, NEW T \in SUBSET PacketIds, S \cap T = {}
    PROVE  Cardinality(S \cup T) = Cardinality(S) + Cardinality(T)
  <1>1. IsFiniteSet(S) /\ IsFiniteSet(T)
    BY CarryAssumption, FS_Subset
  <1>2. Cardinality(S \cap T) = 0 /\ Cardinality(S) \in Nat /\ Cardinality(T) \in Nat
    BY <1>1, FS_EmptySet, FS_CardinalityType
  <1>3. Cardinality(S \cup T) = Cardinality(S) + Cardinality(T) - Cardinality(S \cap T)
    BY <1>1, FS_Union
  <1> QED
    BY <1>2, <1>3

-------------------------------------------------------------------------------
(* Queues of packets *)

\* The packets in a queue, and that none is in it twice.
Ids(s) == {s[i].id : i \in DOMAIN s}
Distinct(s) == \A i, j \in DOMAIN s : s[i].id = s[j].id => i = j

\* The packets of the entries of m_squeue.
Packets(q) == [i \in DOMAIN q |-> q[i].pkt]

\* What is on its way to a vehicle has the GRP header; what is stored may also be
\* sent twice more.
Headed  == {p \in Packet : p.hdr}
Lasting == {p \in Headed : p.ttl > 1}
Entry   == [pkt : Lasting, nexthop : Vehicles \cup {Sink}]
Times   == {NoTime} \cup 0 .. CarryTimeThreshold

LEMMA PacketKinds ==
    /\ Lasting \subseteq Headed /\ Headed \subseteq Packet
    /\ \A p \in Packet : p.id \in PacketIds /\ p.ttl \in Int
    /\ \A e \in Entry : e.pkt \in Lasting
  BY DEF Lasting, Headed, Packet, Entry

\* A packet joins at the end.
LEMMA Joins ==
    ASSUME NEW s \in Seq(Packet), NEW p \in Packet
    PROVE  /\ Ids(Append(s, p)) = Ids(s) \cup {p.id}
           /\ Distinct(s) /\ p.id \notin Ids(s) => Distinct(Append(s, p))
  <1>1. /\ Len(Append(s, p)) = Len(s) + 1 /\ DOMAIN s = 1 .. Len(s) /\ Len(s) \in Nat
        /\ DOMAIN Append(s, p) = 1 .. Len(s) + 1
        /\ \A i \in 1 .. Len(s) : Append(s, p)[i] = s[i]
        /\ Append(s, p)[Len(s) + 1] = p
    OBVIOUS
  <1> QED
    BY <1>1 DEF Ids, Distinct

\* The first packet leaves.
LEMMA FirstLeaves ==
    ASSUME NEW s \in Seq(Packet), s # <<>>, Distinct(s)
    PROVE  /\ Head(s) \in Packet /\ Head(s).id \in Ids(s)
           /\ Ids(Tail(s)) = Ids(s) \ {Head(s).id}
           /\ Distinct(Tail(s))
  <1>1. /\ Len(s) \in Nat \ {0} /\ DOMAIN s = 1 .. Len(s) /\ Head(s) = s[1]
        /\ DOMAIN Tail(s) = 1 .. Len(s) - 1
        /\ \A i \in 1 .. Len(s) - 1 : Tail(s)[i] = s[i + 1]
        /\ \A i \in 1 .. Len(s) : s[i] \in Packet
    OBVIOUS
  <1>2. ASSUME NEW x PROVE x \in Ids(Tail(s)) <=> x \in Ids(s) \ {Head(s).id}
    <2>1. ASSUME NEW i \in 1 .. Len(s) - 1, x = Tail(s)[i].id PROVE x \in Ids(s) \ {Head(s).id}
      BY <1>1, <2>1 DEF Ids, Distinct
    <2>2. ASSUME NEW i \in 1 .. Len(s), x = s[i].id, x # Head(s).id PROVE x \in Ids(Tail(s))
      <3>1. i # 1 /\ i - 1 \in 1 .. Len(s) - 1
        BY <1>1, <2>2
      <3>2. Tail(s)[i - 1] = s[(i - 1) + 1] /\ (i - 1) + 1 = i
        BY <1>1, <3>1
      <3> QED
        BY <1>1, <2>2, <3>1, <3>2 DEF Ids
    <2> QED
      BY <1>1, <2>1, <2>2 DEF Ids
  <1>3. Ids(Tail(s)) = Ids(s) \ {Head(s).id}
    BY <1>2
  <1>4. Distinct(Tail(s))
    BY <1>1 DEF Distinct
  <1>5. Head(s) \in Packet /\ Head(s).id \in Ids(s)
    BY <1>1 DEF Ids
  <1> QED
    BY <1>3, <1>4, <1>5

\* The last packet leaves.
LEMMA LastLeaves ==
    ASSUME NEW s \in Seq(Packet), s # <<>>, Distinct(s)
    PROVE  /\ Last(s) \in Packet /\ Last(s).id \in Ids(s)
           /\ Ids(Front(s)) = Ids(s) \ {Last(s).id}
           /\ Distinct(Front(s))
  <1>1. /\ Len(s) \in Nat \ {0} /\ DOMAIN s = 1 .. Len(s) /\ Last(s) = s[Len(s)]
        /\ DOMAIN Front(s) = 1 .. Len(s) - 1
        /\ \A i \in 1 .. Len(s) - 1 : Front(s)[i] = s[i]
        /\ \A i \in 1 .. Len(s) : s[i] \in Packet
    BY DEF Last, Front
  <1>2. ASSUME NEW x PROVE x \in Ids(Front(s)) <=> x \in Ids(s) \ {Last(s).id}
    <2>1. ASSUME NEW i \in 1 .. Len(s) - 1, x = Front(s)[i].id PROVE x \in Ids(s) \ {Last(s).id}
      BY <1>1, <2>1 DEF Ids, Distinct
    <2>2. ASSUME NEW i \in 1 .. Len(s), x = s[i].id, x # Last(s).id PROVE x \in Ids(Front(s))
      <3>1. i \in 1 .. Len(s) - 1
        BY <1>1, <2>2
      <3> QED
        BY <1>1, <2>2, <3>1 DEF Ids
    <2> QED
      BY <1>1, <2>1, <2>2 DEF Ids
  <1> QED
    BY <1>1, <1>2 DEF Ids, Distinct

\* m_squeue as a queue of packets.
LEMMA PacketsOfEntries ==
    ASSUME NEW q \in Seq(Entry)
    PROVE  /\ Packets(q) \in Seq(Lasting) /\ Packets(q) \in Seq(Packet)
           /\ Packets(q) = <<>> <=> q = <<>>
           /\ \A e \in Entry : Packets(Append(q, e)) = Append(Packets(q), e.pkt)
           /\ q # <<>> => /\ Front(q) \in Seq(Entry) /\ Last(q).pkt = Last(Packets(q))
                          /\ Last(q).pkt \in Lasting /\ Packets(Front(q)) = Front(Packets(q))
  <1>1. /\ Len(q) \in Nat /\ DOMAIN q = 1 .. Len(q) /\ \A i \in 1 .. Len(q) : q[i] \in Entry
        /\ \A e \in Entry : e.pkt \in Lasting /\ e.pkt \in Packet
    BY PacketKinds
  <1>2. Packets(q) = [i \in 1 .. Len(q) |-> q[i].pkt]
    BY <1>1 DEF Packets
  <1>3. Packets(q) \in Seq(Lasting) /\ Packets(q) \in Seq(Packet) /\ Len(Packets(q)) = Len(q)
    BY <1>1, <1>2
  <1>4. ASSUME NEW e \in Entry PROVE Packets(Append(q, e)) = Append(Packets(q), e.pkt)
    <2>1. /\ DOMAIN Append(q, e) = 1 .. Len(q) + 1
          /\ \A i \in 1 .. Len(q) + 1 : Append(q, e)[i] = IF i = Len(q) + 1 THEN e ELSE q[i]
      BY <1>1
    <2>2. /\ Append(Packets(q), e.pkt) \in Seq(Packet) /\ Len(Append(Packets(q), e.pkt)) = Len(q) + 1
          /\ \A i \in 1 .. Len(q) + 1 :
                Append(Packets(q), e.pkt)[i] = IF i = Len(q) + 1 THEN e.pkt ELSE q[i].pkt
      BY <1>1, <1>2, <1>3
    <2>3. Packets(Append(q, e)) = [i \in 1 .. Len(q) + 1 |-> Append(q, e)[i].pkt]
      BY <2>1 DEF Packets
    <2>4. Packets(Append(q, e)) \in Seq(Packet) /\ Len(Packets(Append(q, e))) = Len(q) + 1
      BY <1>1, <2>1, <2>3
    <2>5. \A i \in 1 .. Len(q) + 1 : Packets(Append(q, e))[i] = Append(Packets(q), e.pkt)[i]
      BY <2>1, <2>2, <2>3
    <2> QED
      BY <2>2, <2>4, <2>5
  <1>5. ASSUME q # <<>>
        PROVE  /\ Front(q) \in Seq(Entry) /\ Last(q).pkt = Last(Packets(q))
               /\ Last(q).pkt \in Lasting /\ Packets(Front(q)) = Front(Packets(q))
    <2>1. /\ Front(q) \in Seq(Entry) /\ DOMAIN Front(q) = 1 .. Len(q) - 1
          /\ Len(q) \in Nat \ {0}
          /\ \A i \in 1 .. Len(q) - 1 : Front(q)[i] = q[i]
      BY <1>1, <1>5 DEF Front
    <2>2. Packets(Front(q)) = [i \in 1 .. Len(q) - 1 |-> q[i].pkt]
      BY <2>1 DEF Packets
    <2>3. /\ Front(Packets(q)) \in Seq(Packet) /\ Len(Front(Packets(q))) = Len(q) - 1
          /\ \A i \in 1 .. Len(q) - 1 : Front(Packets(q))[i] = q[i].pkt
      BY <1>1, <1>2, <1>3, <2>1 DEF Front
    <2>4. Packets(Front(q)) \in Seq(Packet) /\ Len(Packets(Front(q))) = Len(q) - 1
      BY <1>1, <2>1, <2>2
    <2>5. Packets(Front(q)) = Front(Packets(q))
      BY <2>1, <2>2, <2>3, <2>4
    <2> QED
      BY <1>1, <1>2, <1>3, <2>1, <2>5 DEF Last
  <1>6. Packets(q) = <<>> <=> q = <<>>
    BY <1>1, <1>3
  <1> QED
    BY <1>3, <1>4, <1>5, <1>6

-------------------------------------------------------------------------------
(* The loop of CheckPacketQueue *)

\* The states of the loop over q.
IsLoop(f, q, start, h) ==
    f = [i \in 0 .. Len(q) |-> IF i = 0 THEN start ELSE Examine(q[Len(q) + 1 - i], f[i - 1], h)]

\* The recursion over 0 .. Len(q) does define a function.
LEMMA ExaminedIsLoop ==
    ASSUME NEW q, Len(q) \in Nat, NEW start, NEW h
    PROVE  \E f : IsLoop(f, q, start, h) /\ Examined(q, start, h) = f[Len(q)]
  <1> DEFINE Def(g, n) == [i \in 0 .. n |->
                              IF i = 0 THEN start ELSE Examine(q[Len(q) + 1 - i], g[i - 1], h)]
             Good == {n \in Nat : \E g : g = Def(g, n)}
  <1>1. 0 \in Good
    <2> DEFINE g == [i \in 0 .. 0 |-> start]
    <2>1. g = Def(g, 0)
      OBVIOUS
    <2> QED
      BY <2>1
  <1>2. ASSUME NEW n \in Nat, n \in Good PROVE n + 1 \in Good
    <2>1. PICK g : g = Def(g, n)
      BY <1>2
    <2> DEFINE h1 == [i \in 0 .. n + 1 |->
                         IF i = n + 1 THEN Examine(q[Len(q) + 1 - i], g[n], h) ELSE g[i]]
    <2>2. h1 = Def(h1, n + 1)
      BY <2>1
    <2> HIDE DEF h1, Def
    <2> QED
      BY <2>2
  <1>3. Nat \subseteq Good
    <2> HIDE DEF Good
    <2> QED
      BY <1>1, <1>2, Induction
  <1>4. \E g : g = Def(g, Len(q))
    BY <1>3
  <1> DEFINE f == CHOOSE g : g = Def(g, Len(q))
  <1>5. f = Def(f, Len(q))
    <2> HIDE DEF Def
    <2> QED
      BY <1>4
  <1>6. Examined(q, start, h) = f[Len(q)]
    BY DEF Examined
  <1>7. IsLoop(f, q, start, h)
    BY <1>5 DEF IsLoop
  <1> HIDE DEF f
  <1> QED
    BY <1>6, <1>7

\* The packets of q the loop has not come to after i turns.
Rest(q, i) == {q[k].id : k \in 1 .. Len(q) - i}

\* After i turns over q, with sq in m_squeue before: each packet is kept, on its
\* way, dropped or still to come, and a carry time belongs to one that may stay.
LoopKinds(s) ==
    /\ s \in [time : [Vehicles -> Times], wait : Seq(Lasting), send : Seq(Entry),
              drop : SUBSET PacketIds, drops : Nat]
    /\ s.drops = Cardinality(s.drop)
    /\ Distinct(s.wait) /\ Distinct(Packets(s.send))

LoopSplit(q, sq, i, s) ==
    LET wait == Ids(s.wait)
        send == Ids(Packets(s.send))
        rest == Rest(q, i)
    IN  /\ wait \cap send = {} /\ wait \cap s.drop = {} /\ wait \cap rest = {}
        /\ send \cap s.drop = {} /\ send \cap rest = {} /\ s.drop \cap rest = {}
        /\ wait \cup send \cup s.drop \cup rest = Ids(q) \cup Ids(Packets(sq))
        /\ Ids(Packets(sq)) \subseteq send

LoopTimes(q, i, s) ==
    \A v \in Vehicles : s.time[v] # NoTime => \E x \in Ids(s.wait) \cup Rest(q, i) : SourceOf[x] = v

LoopInv(q, sq, i, s) == LoopKinds(s) /\ LoopSplit(q, sq, i, s) /\ LoopTimes(q, i, s)

\* One turn of the loop.
LEMMA ExamineStep ==
    ASSUME NEW q \in Seq(Lasting), Distinct(q), NEW sq,
           NEW h, h # NoHop => h \in Vehicles \cup {Sink},
           NEW i \in 0 .. Len(q) - 1, NEW s, LoopInv(q, sq, i, s)
    PROVE  LoopInv(q, sq, i + 1, Examine(q[Len(q) + 1 - (i + 1)], s, h))
  <1> DEFINE k == Len(q) - i
             p == q[k]
             src == SourceOf[p.id]
  <1>1. /\ Len(q) \in Nat /\ k \in 1 .. Len(q) /\ Len(q) + 1 - (i + 1) = k
        /\ DOMAIN q = 1 .. Len(q) /\ p \in Lasting /\ p \in Packet /\ p.id \in PacketIds
    BY PacketKinds
  <1>2. src \in Vehicles
    BY <1>1, CarryAssumption
  <1>3. Rest(q, i) = Rest(q, i + 1) \cup {p.id} /\ p.id \notin Rest(q, i + 1)
    <2>1. 1 .. Len(q) - i = (1 .. Len(q) - (i + 1)) \cup {k} /\ k \notin 1 .. Len(q) - (i + 1)
      BY <1>1
    <2>2. \A j \in 1 .. Len(q) - (i + 1) : j \in 1 .. Len(q) /\ j # k
      BY <1>1
    <2>3. p.id \notin Rest(q, i + 1)
      BY <1>1, <2>2 DEF Rest, Distinct
    <2>4. Rest(q, i) = Rest(q, i + 1) \cup {p.id}
      BY <2>1 DEF Rest
    <2> QED
      BY <2>3, <2>4
  <1>4. /\ s = [time |-> s.time, wait |-> s.wait, send |-> s.send, drop |-> s.drop, drops |-> s.drops]
        /\ s.time \in [Vehicles -> Times] /\ s.wait \in Seq(Lasting) /\ s.send \in Seq(Entry)
        /\ s.drop \subseteq PacketIds /\ Distinct(s.wait) /\ Distinct(Packets(s.send))
        /\ s.drops \in Nat /\ s.drops = Cardinality(s.drop)
    BY DEF LoopInv, LoopKinds
  <1>5. s.wait \in Seq(Packet) /\ Packets(s.send) \in Seq(Packet)
    BY <1>4, PacketKinds, PacketsOfEntries
  <1>6. p.id \notin Ids(s.wait) /\ p.id \notin Ids(Packets(s.send)) /\ p.id \notin s.drop
    BY <1>3 DEF LoopInv, LoopSplit
  <1> HIDE DEF k, p, src
  <1>7. ASSUME NEW r, LoopKinds(r),
               \/ Ids(r.wait) = Ids(s.wait) /\ Ids(Packets(r.send)) = Ids(Packets(s.send))
                  /\ r.drop = s.drop \cup {p.id} /\ r.time = [s.time EXCEPT ![src] = NoTime]
               \/ Ids(r.wait) = Ids(s.wait) \cup {p.id} /\ Ids(Packets(r.send)) = Ids(Packets(s.send))
                  /\ r.drop = s.drop /\ r.time = s.time
               \/ Ids(r.wait) = Ids(s.wait) /\ Ids(Packets(r.send)) = Ids(Packets(s.send)) \cup {p.id}
                  /\ r.drop = s.drop /\ r.time = [s.time EXCEPT ![src] = NoTime]
        PROVE  LoopInv(q, sq, i + 1, r)
    <2>1. LoopSplit(q, sq, i + 1, r)
      BY <1>3, <1>6, <1>7 DEF LoopInv, LoopSplit
    <2>2. LoopTimes(q, i + 1, r)
      <3> SUFFICES ASSUME NEW v \in Vehicles, r.time[v] # NoTime
                   PROVE  \E x \in Ids(r.wait) \cup Rest(q, i + 1) : SourceOf[x] = v
        BY DEF LoopTimes
      <3>1. s.time[v] # NoTime /\ (v = src => p.id \in Ids(r.wait))
        BY <1>2, <1>4, <1>7
      <3>2. PICK x \in Ids(s.wait) \cup Rest(q, i) : SourceOf[x] = v
        BY <3>1 DEF LoopInv, LoopTimes
      <3>3. x = p.id => x \in Ids(r.wait)
        BY <3>1, <3>2 DEF src
      <3>4. Ids(s.wait) \subseteq Ids(r.wait)
        BY <1>7
      <3> QED
        BY <1>3, <3>2, <3>3, <3>4
    <2> QED
      BY <1>7, <2>1, <2>2 DEF LoopInv
  <1> DEFINE r == Examine(p, s, h)
             late == s.time[src] >= CarryTimeThreshold
  <1>8. CASE late
    <2>1. r = [time |-> [s.time EXCEPT ![src] = NoTime], wait |-> s.wait, send |-> s.send,
               drop |-> s.drop \cup {p.id}, drops |-> s.drops + 1]
      BY <1>4, <1>8 DEF Examine, src
    <2>2. Cardinality(s.drop \cup {p.id}) = s.drops + 1
      BY <1>1, <1>4, <1>6, CountOne
    <2>3. LoopKinds(r)
      BY <1>1, <1>2, <1>4, <2>1, <2>2 DEF LoopKinds, Times
    <2> QED
      BY <1>1, <1>7, <2>1, <2>3 DEF p
  <1>9. CASE ~late /\ h = NoHop
    <2>1. r = [time |-> s.time, wait |-> Append(s.wait, p), send |-> s.send, drop |-> s.drop,
               drops |-> s.drops]
      BY <1>4, <1>9 DEF Examine, src
    <2>2. Ids(r.wait) = Ids(s.wait) \cup {p.id} /\ Distinct(r.wait)
      BY <1>1, <1>4, <1>5, <1>6, <2>1, Joins
    <2>3. LoopKinds(r)
      BY <1>1, <1>4, <2>1, <2>2 DEF LoopKinds
    <2> QED
      BY <1>1, <1>7, <2>1, <2>2, <2>3 DEF p
  <1>10. CASE ~late /\ h # NoHop
    <2> DEFINE e == [pkt |-> p, nexthop |-> h]
    <2>1. r = [time |-> [s.time EXCEPT ![src] = NoTime], wait |-> s.wait,
               send |-> Append(s.send, e), drop |-> s.drop, drops |-> s.drops]
      BY <1>4, <1>10 DEF Examine, src
    <2>2. e \in Entry /\ e.pkt = p
      BY <1>1, <1>10 DEF Entry
    <2> HIDE DEF e
    <2>3. Packets(r.send) = Append(Packets(s.send), p)
      BY <1>4, <2>1, <2>2, PacketsOfEntries
    <2>4. Ids(Packets(r.send)) = Ids(Packets(s.send)) \cup {p.id} /\ Distinct(Packets(r.send))
      BY <1>1, <1>4, <1>5, <1>6, <2>3, Joins
    <2>5. LoopKinds(r)
      BY <1>1, <1>2, <1>4, <2>1, <2>2, <2>4 DEF LoopKinds, Times
    <2> QED
      BY <1>1, <1>7, <2>1, <2>4, <2>5 DEF p
  <1> QED
    BY <1>8, <1>9, <1>10

\* What the loop leaves behind.
LEMMA ExaminedCorrect ==
    ASSUME NEW q \in Seq(Lasting), Distinct(q), NEW sq \in Seq(Entry), Distinct(Packets(sq)),
           Ids(q) \cap Ids(Packets(sq)) = {}, NEW time \in [Vehicles -> Times],
           \A v \in Vehicles : time[v] # NoTime => \E x \in Ids(q) : SourceOf[x] = v,
           NEW h, h # NoHop => h \in Vehicles \cup {Sink}
    PROVE  LoopInv(q, sq, Len(q),
                   Examined(q, [time |-> time, wait |-> <<>>, send |-> sq, drop |-> {}, drops |-> 0], h))
           /\ Rest(q, Len(q)) = {}
  <1> DEFINE start == [time |-> time, wait |-> <<>>, send |-> sq, drop |-> {}, drops |-> 0]
  <1>1. Len(q) \in Nat /\ DOMAIN q = 1 .. Len(q)
    OBVIOUS
  <1>2. LoopInv(q, sq, 0, start)
    <2>1. Ids(start.wait) = {} /\ Distinct(start.wait) /\ start.wait \in Seq(Lasting)
      BY DEF Ids, Distinct
    <2>2. Rest(q, 0) = Ids(q)
      BY <1>1 DEF Rest, Ids
    <2>3. LoopKinds(start)
      BY <2>1, FS_EmptySet DEF LoopKinds
    <2>4. LoopSplit(q, sq, 0, start)
      BY <2>1, <2>2 DEF LoopSplit
    <2>5. LoopTimes(q, 0, start)
      BY <2>1, <2>2 DEF LoopTimes
    <2> QED
      BY <2>3, <2>4, <2>5 DEF LoopInv
  <1> HIDE DEF start
  <1>3. PICK f : IsLoop(f, q, start, h) /\ Examined(q, start, h) = f[Len(q)]
    BY <1>1, ExaminedIsLoop
  <1> DEFINE Good == {i \in Nat : i <= Len(q) => LoopInv(q, sq, i, f[i])}
  <1>4. 0 \in Good
    BY <1>1, <1>2, <1>3 DEF IsLoop
  <1>5. ASSUME NEW i \in Nat, i \in Good PROVE i + 1 \in Good
    <2> SUFFICES ASSUME i + 1 <= Len(q) PROVE LoopInv(q, sq, i + 1, f[i + 1])
      OBVIOUS
    <2>1. i \in 0 .. Len(q) - 1 /\ LoopInv(q, sq, i, f[i])
      BY <1>1, <1>5
    <2>2. f[i + 1] = Examine(q[Len(q) + 1 - (i + 1)], f[i], h)
      BY <1>1, <1>3, <2>1 DEF IsLoop
    <2>3. LoopInv(q, sq, i + 1, Examine(q[Len(q) + 1 - (i + 1)], f[i], h))
      BY <2>1, ExamineStep
    <2> QED
      BY <2>2, <2>3
  <1>6. Nat \subseteq Good
    <2> HIDE DEF Good
    <2> QED
      BY <1>4, <1>5, Induction
  <1>7. LoopInv(q, sq, Len(q), f[Len(q)])
    BY <1>1, <1>6
  <1>8. Rest(q, Len(q)) = {}
    BY <1>1 DEF Rest
  <1> QED
    BY <1>3, <1>7, <1>8 DEF start

-------------------------------------------------------------------------------
(* The invariant *)

\* The sink gets packets without the header, every vehicle with it.
Transmissions == {m \in [pkt : Packet, to : Vehicles \cup {Sink}] : m.pkt.hdr <=> m.to # Sink}

\* The type invariant, with header and time to live as each place asks for.
CarryKinds ==
    /\ unsent \subseteq PacketIds /\ delivered \subseteq PacketIds
    /\ dropped \subseteq PacketIds /\ lost \subseteq PacketIds /\ ttlExpired = {}
    /\ air \subseteq Transmissions
    /\ loopback \in [Vehicles -> Seq(Headed)]
    /\ m_pwaitqueue \in [Vehicles -> Seq(Lasting)]
    /\ m_squeue \in [Vehicles -> Seq(Entry)]
    /\ m_wTimeCache \in [Vehicles -> [Vehicles -> Times]]
    /\ sendEvents \in [Vehicles -> Nat]

\* No packet is twice in one place.
Alone ==
    /\ \A m, n \in air : m.pkt.id = n.pkt.id => m = n
    /\ \A v \in Vehicles : /\ Distinct(loopback[v]) /\ Distinct(m_pwaitqueue[v])
                           /\ Distinct(Packets(m_squeue[v]))

IdsOf(ms) == {m.pkt.id : m \in ms}

PlaceNames == {"unsent", "delivered", "dropped", "lost", "air", "loopback", "stored", "sending"}

\* place says in which kind of place each packet is, and at at which vehicle.
Located(place, at) ==
    \A x \in PacketIds :
        /\ x \in unsent      <=> place[x] = "unsent"
        /\ x \in delivered   <=> place[x] = "delivered"
        /\ x \in dropped     <=> place[x] = "dropped"
        /\ x \in lost        <=> place[x] = "lost"
        /\ x \in IdsOf(air)  <=> place[x] = "air"
        /\ \A v \in Vehicles :
              /\ x \in Ids(loopback[v])          <=> place[x] = "loopback" /\ at[x] = v
              /\ x \in Ids(m_pwaitqueue[v])      <=> place[x] = "stored" /\ at[x] = v
              /\ x \in Ids(Packets(m_squeue[v])) <=> place[x] = "sending" /\ at[x] = v

\* Every packet is in some place, and in one only.
Everywhere ==
    \E place \in [PacketIds -> PlaceNames], at \in [PacketIds -> Vehicles] : Located(place, at)

Settled  == CarryKinds /\ SendingQueueIsServed /\ NoStaleCarryTime /\ Alone
CarryInv == Settled /\ Everywhere

\* The carry time property in terms of the packets stored.
LEMMA StaleByIds ==
    NoStaleCarryTime <=>
        \A v, s \in Vehicles : m_wTimeCache[v][s] # NoTime =>
            \E x \in Ids(m_pwaitqueue[v]) : SourceOf[x] = s
  BY DEF NoStaleCarryTime, Ids

LEMMA CarryInit == ASSUME Init PROVE CarryInv
  <1>1. CarryKinds
    BY DEF Init, CarryKinds, Times
  <1>2. \A v \in Vehicles : loopback[v] = <<>> /\ m_pwaitqueue[v] = <<>> /\ m_squeue[v] = <<>>
    BY DEF Init
  <1>3. Ids(<<>>) = {} /\ Distinct(<<>>) /\ Packets(<<>>) = <<>>
    BY DEF Ids, Distinct, Packets
  <1>4. SendingQueueIsServed
    BY <1>2 DEF SendingQueueIsServed
  <1>5. NoStaleCarryTime
    BY DEF Init, NoStaleCarryTime
  <1>6. Alone
    BY <1>2, <1>3 DEF Init, Alone
  <1>7. Everywhere
    <2> DEFINE place == [x \in PacketIds |-> "unsent"]
    <2>1. place \in [PacketIds -> PlaceNames] /\ SourceOf \in [PacketIds -> Vehicles]
      BY CarryAssumption DEF PlaceNames
    <2>2. IdsOf(air) = {}
      BY DEF Init, IdsOf
    <2>3. Located(place, SourceOf)
      BY <1>2, <1>3, <2>2 DEF Init, Located
    <2> HIDE DEF place
    <2> QED
      BY <2>1, <2>3 DEF Everywhere
  <1> QED
    BY <1>1, <1>4, <1>5, <1>6, <1>7 DEF CarryInv, Settled

-------------------------------------------------------------------------------
(* One packet changes its place *)

\* Packet p is now in place to, of vehicle w if it is a queue, and no other
\* packet has moved.
Moved(p, to, w) ==
    \A x \in PacketIds :
        /\ x \in unsent'      <=> IF x = p THEN to = "unsent" ELSE x \in unsent
        /\ x \in delivered'   <=> IF x = p THEN to = "delivered" ELSE x \in delivered
        /\ x \in dropped'     <=> IF x = p THEN to = "dropped" ELSE x \in dropped
        /\ x \in lost'        <=> IF x = p THEN to = "lost" ELSE x \in lost
        /\ x \in IdsOf(air')  <=> IF x = p THEN to = "air" ELSE x \in IdsOf(air)
        /\ \A v \in Vehicles :
              /\ x \in Ids(loopback'[v]) <=>
                    IF x = p THEN to = "loopback" /\ w = v ELSE x \in Ids(loopback[v])
              /\ x \in Ids(m_pwaitqueue'[v]) <=>
                    IF x = p THEN to = "stored" /\ w = v ELSE x \in Ids(m_pwaitqueue[v])
              /\ x \in Ids(Packets(m_squeue'[v])) <=>
                    IF x = p THEN to = "sending" /\ w = v ELSE x \in Ids(Packets(m_squeue[v]))

\* A packet moves from a place of one kind to a place of another.
OneMoves(place, from, to) ==
    \E p \in PacketIds, t \in to, w \in Vehicles : place[p] \in from /\ Moved(p, t, w)

LEMMA NewPlace ==
    ASSUME NEW place \in [PacketIds -> PlaceNames], NEW at \in [PacketIds -> Vehicles],
           Located(place, at), NEW p \in PacketIds, NEW to \in PlaceNames, NEW w \in Vehicles,
           Moved(p, to, w)
    PROVE  Located([place EXCEPT ![p] = to], [at EXCEPT ![p] = w])'
  <1> DEFINE place2 == [place EXCEPT ![p] = to]
             at2 == [at EXCEPT ![p] = w]
  <1>1. \A x \in PacketIds : place2[x] = (IF x = p THEN to ELSE place[x])
                            /\ at2[x] = (IF x = p THEN w ELSE at[x])
    OBVIOUS
  <1> HIDE DEF place2, at2
  <1>2. Located(place2, at2)'
    BY <1>1 DEF Located, Moved
  <1> QED
    BY <1>2 DEF place2, at2

\* What the invariant says of the contents of each place.
LEMMA Contents ==
    ASSUME CarryKinds
    PROVE  /\ \A m \in air : m.pkt \in Packet /\ m.pkt.id \in PacketIds /\ m.to \in Vehicles \cup {Sink}
                             /\ (m.to \in Vehicles => m.pkt \in Headed)
           /\ \A v \in Vehicles :
                 /\ loopback[v] \in Seq(Headed) /\ loopback[v] \in Seq(Packet)
                 /\ m_pwaitqueue[v] \in Seq(Lasting) /\ m_pwaitqueue[v] \in Seq(Packet)
                 /\ m_squeue[v] \in Seq(Entry) /\ Packets(m_squeue[v]) \in Seq(Packet)
                 /\ m_wTimeCache[v] \in [Vehicles -> Times] /\ sendEvents[v] \in Nat
  <1>1. ASSUME NEW m \in air
        PROVE  m.pkt \in Packet /\ m.pkt.id \in PacketIds /\ m.to \in Vehicles \cup {Sink}
               /\ (m.to \in Vehicles => m.pkt \in Headed)
    <2>1. m \in Transmissions
      BY DEF CarryKinds
    <2>2. m.pkt \in Packet /\ m.to \in Vehicles \cup {Sink} /\ (m.pkt.hdr <=> m.to # Sink)
      BY <2>1 DEF Transmissions
    <2> QED
      BY <2>2, PacketKinds, CarryAssumption DEF Headed
  <1>2. ASSUME NEW v \in Vehicles
        PROVE  /\ loopback[v] \in Seq(Headed) /\ loopback[v] \in Seq(Packet)
               /\ m_pwaitqueue[v] \in Seq(Lasting) /\ m_pwaitqueue[v] \in Seq(Packet)
               /\ m_squeue[v] \in Seq(Entry) /\ Packets(m_squeue[v]) \in Seq(Packet)
               /\ m_wTimeCache[v] \in [Vehicles -> Times] /\ sendEvents[v] \in Nat
    <2>1. /\ loopback[v] \in Seq(Headed) /\ m_pwaitqueue[v] \in Seq(Lasting)
          /\ m_squeue[v] \in Seq(Entry)
          /\ m_wTimeCache[v] \in [Vehicles -> Times] /\ sendEvents[v] \in Nat
      BY DEF CarryKinds
    <2>2. Headed \subseteq Packet /\ Lasting \subseteq Packet
      BY PacketKinds
    <2>3. loopback[v] \in Seq(Packet) /\ m_pwaitqueue[v] \in Seq(Packet)
      BY <2>1, <2>2
    <2> QED
      BY <2>1, <2>3, PacketsOfEntries
  <1> QED
    BY <1>1, <1>2

\* The application sends a packet.
LEMMA RouteOutputMoves ==
    ASSUME Settled, NEW place, NEW at, Located(place, at),
           NEW v \in Vehicles, NEW id \in PacketIds, NEW h, RouteOutput(v, id, h)
    PROVE  Settled' /\ OneMoves(place, {"unsent"}, {"air", "loopback"})
  <1> DEFINE p == AddHeader(id)
  <1>1. id \in unsent /\ unsent' = unsent \ {id} /\ place[id] = "unsent"
    BY DEF RouteOutput, Located
  <1>2. p \in Headed /\ p \in Packet /\ p.id = id
    BY CarryAssumption DEF AddHeader, Headed, Packet
  <1>3. /\ m_pwaitqueue' = m_pwaitqueue /\ m_squeue' = m_squeue /\ m_wTimeCache' = m_wTimeCache
        /\ sendEvents' = sendEvents /\ delivered' = delivered /\ dropped' = dropped
        /\ lost' = lost /\ ttlExpired' = ttlExpired
    BY DEF RouteOutput
  <1>4. CarryKinds /\ SendingQueueIsServed /\ NoStaleCarryTime /\ Alone
    BY DEF Settled
  <1>5. SendingQueueIsServed' /\ NoStaleCarryTime'
    BY <1>3, <1>4 DEF SendingQueueIsServed, NoStaleCarryTime
  <1>6. /\ id \notin IdsOf(air) /\ id \notin delivered /\ id \notin dropped /\ id \notin lost
        /\ \A u \in Vehicles : /\ id \notin Ids(loopback[u]) /\ id \notin Ids(m_pwaitqueue[u])
                               /\ id \notin Ids(Packets(m_squeue[u]))
    BY <1>1 DEF Located
  <1> HIDE DEF p
  <1>7. CASE h \in Vehicles /\ air' = air \cup {[pkt |-> p, to |-> h]} /\ loopback' = loopback
    <2> DEFINE m == [pkt |-> p, to |-> h]
    <2>1. m \in Transmissions /\ m.pkt = p
      BY <1>2, <1>7, CarryAssumption DEF Transmissions, Headed
    <2> HIDE DEF m
    <2>2. air' = air \cup {m}
      BY <1>7 DEF m
    <2>3. CarryKinds'
      BY <1>1, <1>3, <1>4, <1>7, <2>1, <2>2 DEF CarryKinds
    <2>4. Alone'
      BY <1>2, <1>3, <1>4, <1>6, <1>7, <2>1, <2>2 DEF Alone, IdsOf
    <2>5. IdsOf(air') = IdsOf(air) \cup {id}
      BY <1>2, <2>1, <2>2 DEF IdsOf
    <2>6. Moved(id, "air", v)
      BY <1>1, <1>3, <1>6, <1>7, <2>5 DEF Moved
    <2> QED
      BY <1>1, <1>5, <2>3, <2>4, <2>6 DEF Settled, OneMoves
  <1>8. CASE loopback' = [loopback EXCEPT ![v] = Append(@, p)] /\ air' = air
    <2>1. loopback[v] \in Seq(Headed) /\ loopback[v] \in Seq(Packet) /\ loopback \in [Vehicles -> Seq(Headed)]
      BY <1>4, Contents DEF CarryKinds
    <2>2. /\ loopback' \in [Vehicles -> Seq(Headed)] /\ loopback'[v] = Append(loopback[v], p)
          /\ \A u \in Vehicles : u # v => loopback'[u] = loopback[u]
      BY <1>2, <1>8, <2>1
    <2>3. CarryKinds'
      BY <1>1, <1>3, <1>4, <1>8, <2>2 DEF CarryKinds
    <2>4. Ids(loopback'[v]) = Ids(loopback[v]) \cup {id} /\ Distinct(loopback'[v])
      BY <1>2, <1>4, <1>6, <2>1, <2>2, Joins DEF Alone
    <2>5. Alone'
      BY <1>3, <1>4, <1>8, <2>2, <2>4 DEF Alone
    <2>6. Moved(id, "loopback", v)
      BY <1>1, <1>3, <1>6, <1>8, <2>2, <2>4 DEF Moved
    <2> QED
      BY <1>1, <1>5, <2>3, <2>5, <2>6 DEF Settled, OneMoves
  <1> QED
    BY <1>7, <1>8 DEF RouteOutput, Output, p

\* RouteInput with the packet taken from where it was: others is what remains in
\* the air, and the packet has left the loopback devices.
LEMMA RouteInputMoves ==
    ASSUME Settled, NEW place, NEW at, Located(place, at), NEW v \in Vehicles, NEW h \in NextHops(v),
           NEW pkt \in Headed, place[pkt.id] \in {"air", "loopback"},
           NEW others, others \subseteq air, IdsOf(others) = IdsOf(air) \ {pkt.id},
           RouteInput(v, pkt, h, others),
           loopback' \in [Vehicles -> Seq(Headed)],
           \A u \in Vehicles : /\ Ids(loopback'[u]) = Ids(loopback[u]) \ {pkt.id}
                               /\ Distinct(loopback'[u]),
           UNCHANGED <<unsent, m_squeue, sendEvents, delivered, lost>>
    PROVE  Settled' /\ OneMoves(place, {"air", "loopback"}, {"air", "dropped", "stored"})
  <1> DEFINE id == pkt.id
  <1>1. pkt \in Packet /\ id \in PacketIds /\ SourceOf[id] \in Vehicles
    BY PacketKinds, CarryAssumption
  <1>2. /\ unsent' = unsent /\ m_squeue' = m_squeue /\ sendEvents' = sendEvents
        /\ delivered' = delivered /\ lost' = lost
    OBVIOUS
  <1>3. CarryKinds /\ SendingQueueIsServed /\ NoStaleCarryTime /\ Alone
    BY DEF Settled
  <1>4. /\ id \notin unsent /\ id \notin delivered /\ id \notin dropped /\ id \notin lost
        /\ \A u \in Vehicles : /\ id \notin Ids(m_pwaitqueue[u])
                               /\ id \notin Ids(Packets(m_squeue[u]))
    BY <1>1 DEF Located
  <1>5. SendingQueueIsServed'
    BY <1>2, <1>3 DEF SendingQueueIsServed
  <1> HIDE DEF id
  <1>6. CASE /\ dropped' = dropped \cup {id} /\ air' = others
             /\ UNCHANGED <<m_pwaitqueue, m_wTimeCache, ttlExpired>>
    <2>1. CarryKinds'
      BY <1>1, <1>2, <1>3, <1>6 DEF CarryKinds
    <2>2. NoStaleCarryTime' /\ Alone'
      BY <1>2, <1>3, <1>6 DEF NoStaleCarryTime, Alone
    <2>3. Moved(id, "dropped", v)
      BY <1>1, <1>2, <1>4, <1>6 DEF Moved, id
    <2> QED
      BY <1>1, <1>5, <2>1, <2>2, <2>3 DEF Settled, OneMoves, id
  <1>7. CASE /\ TtlAllows(pkt) /\ StorePacket(v, pkt) /\ air' = others
             /\ UNCHANGED <<dropped, ttlExpired>>
    <2>1. pkt \in Lasting
      BY <1>7 DEF TtlAllows, Lasting
    <2>2. m_pwaitqueue[v] \in Seq(Lasting) /\ m_pwaitqueue[v] \in Seq(Packet)
      BY <1>3, Contents
    <2>3. /\ m_pwaitqueue' \in [Vehicles -> Seq(Lasting)] /\ m_pwaitqueue'[v] = Append(m_pwaitqueue[v], pkt)
          /\ \A u \in Vehicles : u # v => m_pwaitqueue'[u] = m_pwaitqueue[u]
      BY <1>3, <1>7, <2>1, <2>2 DEF CarryKinds, StorePacket
    <2>4. Ids(m_pwaitqueue'[v]) = Ids(m_pwaitqueue[v]) \cup {id} /\ Distinct(m_pwaitqueue'[v])
      BY <1>1, <1>3, <1>4, <2>2, <2>3, Joins DEF Alone, id
    <2>5. m_wTimeCache \in [Vehicles -> [Vehicles -> Times]] /\ 0 \in Times
      BY <1>3, CarryAssumption DEF CarryKinds, Times
    <2>6. /\ m_wTimeCache' \in [Vehicles -> [Vehicles -> Times]]
          /\ \A u, s \in Vehicles : m_wTimeCache'[u][s] = m_wTimeCache[u][s] \/ (u = v /\ s = SourceOf[id])
      BY <1>1, <1>7, <2>5 DEF StorePacket, id
    <2>7. CarryKinds'
      BY <1>2, <1>3, <1>7, <2>3, <2>6 DEF CarryKinds
    <2>8. NoStaleCarryTime'
      <3> SUFFICES ASSUME NEW u \in Vehicles, NEW s \in Vehicles, m_wTimeCache'[u][s] # NoTime
                   PROVE  \E x \in Ids(m_pwaitqueue'[u]) : SourceOf[x] = s
        BY DEF NoStaleCarryTime, Ids
      <3>1. CASE u = v /\ s = SourceOf[id]
        BY <2>4, <3>1
      <3>2. CASE m_wTimeCache'[u][s] = m_wTimeCache[u][s]
        <4>1. PICK x \in Ids(m_pwaitqueue[u]) : SourceOf[x] = s
          BY <1>3, <3>2, StaleByIds
        <4> QED
          BY <2>3, <2>4, <4>1
      <3> QED
        BY <2>6, <3>1, <3>2
    <2>9. Alone'
      BY <1>2, <1>3, <1>7, <2>3, <2>4 DEF Alone
    <2>10. \A u \in Vehicles : \A x \in PacketIds :
              x \in Ids(m_pwaitqueue'[u]) <=> x \in Ids(m_pwaitqueue[u]) \/ (x = id /\ u = v)
      BY <2>3, <2>4
    <2>11. Moved(id, "stored", v)
      <3>1. IdsOf(air') = IdsOf(air) \ {id} /\ dropped' = dropped
        BY <1>7 DEF id
      <3>2. \A u \in Vehicles : Ids(loopback'[u]) = Ids(loopback[u]) \ {id}
        BY DEF id
      <3> QED
        BY <1>2, <1>4, <2>10, <3>1, <3>2 DEF Moved
    <2> QED
      BY <1>1, <1>5, <2>7, <2>8, <2>9, <2>11 DEF Settled, OneMoves, id
  <1>8. CASE /\ TtlAllows(pkt) /\ h # NoHop
             /\ IF Forwarded(pkt).ttl <= 0
                THEN ttlExpired' = ttlExpired \cup {id} /\ air' = others
                ELSE air' = others \cup {ForwardedTo(pkt, h)} /\ UNCHANGED ttlExpired
             /\ UNCHANGED <<m_pwaitqueue, m_wTimeCache, dropped>>
    <2> DEFINE m == ForwardedTo(pkt, h)
    <2>1. pkt = [id |-> id, ttl |-> pkt.ttl, hdr |-> pkt.hdr] /\ pkt.ttl \in 0 .. DefaultTtl /\ pkt.ttl > 1
      BY <1>1, <1>8 DEF Packet, TtlAllows, id
    <2>2. Forwarded(pkt) = [id |-> id, ttl |-> pkt.ttl - 1, hdr |-> pkt.hdr] /\ Forwarded(pkt).ttl > 0
      BY <2>1, CarryAssumption DEF Forwarded
    <2>3. m = [pkt |-> [id |-> id, ttl |-> pkt.ttl - 1, hdr |-> (h # Sink)], to |-> h]
      BY <2>2 DEF ForwardedTo
    <2>4. h \in Vehicles \cup {Sink}
      BY <1>8 DEF NextHops
    <2>5. m \in Transmissions /\ m.pkt.id = id
      <3>1. [id |-> id, ttl |-> pkt.ttl - 1, hdr |-> (h # Sink)] \in Packet
        BY <1>1, <2>1, CarryAssumption DEF Packet, id
      <3>2. m \in [pkt : Packet, to : Vehicles \cup {Sink}]
        BY <2>3, <2>4, <3>1
      <3>3. m.pkt.id = id /\ m.pkt.hdr = (h # Sink) /\ m.to = h
        BY <2>3
      <3> QED
        BY <3>2, <3>3 DEF Transmissions
    <2>6. air' = others \cup {m} /\ ttlExpired' = ttlExpired
      BY <1>8, <2>1, <2>2, CarryAssumption
    <2> HIDE DEF m
    <2>7. CarryKinds'
      BY <1>2, <1>3, <1>8, <2>5, <2>6 DEF CarryKinds
    <2>8. NoStaleCarryTime'
      BY <1>3, <1>8 DEF NoStaleCarryTime
    <2>9. IdsOf(air') = IdsOf(air) \cup {id} /\ id \notin IdsOf(others)
      <3>1. IdsOf(air') = IdsOf(others) \cup {id}
        BY <2>5, <2>6 DEF IdsOf
      <3> QED
        BY <3>1 DEF id
    <2>10. Alone'
      BY <1>2, <1>3, <1>8, <2>5, <2>6, <2>9 DEF Alone, IdsOf
    <2>11. Moved(id, "air", v)
      BY <1>1, <1>2, <1>4, <1>8, <2>9 DEF Moved, id
    <2> QED
      BY <1>1, <1>5, <2>7, <2>8, <2>10, <2>11 DEF Settled, OneMoves, id
  <1> QED
    BY <1>6, <1>7, <1>8 DEF RouteInput, id

LEMMA ReceiveLoopbackMoves ==
    ASSUME Settled, NEW place, NEW at, Located(place, at), NEW v \in Vehicles, NEW h \in NextHops(v),
           ReceiveLoopback(v, h)
    PROVE  Settled' /\ OneMoves(place, {"air", "loopback"}, {"air", "dropped", "stored"})
  <1> DEFINE pkt == Head(loopback[v])
  <1>1. CarryKinds /\ Alone
    BY DEF Settled
  <1>2. /\ loopback[v] # <<>> /\ loopback' = [loopback EXCEPT ![v] = Tail(@)]
        /\ RouteInput(v, pkt, h, air) /\ UNCHANGED <<unsent, m_squeue, sendEvents, delivered, lost>>
    BY DEF ReceiveLoopback
  <1>3. loopback[v] \in Seq(Headed) /\ loopback[v] \in Seq(Packet) /\ loopback \in [Vehicles -> Seq(Headed)]
    BY <1>1, Contents DEF CarryKinds
  <1>4. pkt \in Headed /\ pkt.id \in PacketIds
    BY <1>2, <1>3, PacketKinds
  <1>5. /\ pkt.id \in Ids(loopback[v]) /\ Ids(Tail(loopback[v])) = Ids(loopback[v]) \ {pkt.id}
        /\ Distinct(Tail(loopback[v]))
    BY <1>1, <1>2, <1>3, FirstLeaves DEF Alone
  <1> HIDE DEF pkt
  <1>6. place[pkt.id] = "loopback" /\ at[pkt.id] = v
    BY <1>4, <1>5 DEF Located
  <1>7. IdsOf(air) = IdsOf(air) \ {pkt.id}
    BY <1>4, <1>6 DEF Located
  <1>8. loopback' \in [Vehicles -> Seq(Headed)]
    BY <1>2, <1>3
  <1>9. \A u \in Vehicles : Ids(loopback'[u]) = Ids(loopback[u]) \ {pkt.id} /\ Distinct(loopback'[u])
    <2> SUFFICES ASSUME NEW u \in Vehicles
                 PROVE  Ids(loopback'[u]) = Ids(loopback[u]) \ {pkt.id} /\ Distinct(loopback'[u])
      OBVIOUS
    <2>1. CASE u = v
      BY <1>2, <1>3, <1>5, <2>1
    <2>2. CASE u # v
      <3>1. pkt.id \notin Ids(loopback[u]) /\ loopback'[u] = loopback[u]
        BY <1>2, <1>3, <1>4, <1>6, <2>2 DEF Located
      <3> QED
        BY <1>1, <3>1 DEF Alone
    <2> QED
      BY <2>1, <2>2
  <1> QED
    BY <1>2, <1>4, <1>6, <1>7, <1>8, <1>9, RouteInputMoves

\* A transmission leaves the air.
LEMMA LeavesTheAir ==
    ASSUME CarryKinds, Alone, NEW m \in air
    PROVE  IdsOf(air \ {m}) = IdsOf(air) \ {m.pkt.id}
  BY DEF Alone, IdsOf

LEMMA ReceiveAirMoves ==
    ASSUME Settled, NEW place, NEW at, Located(place, at), NEW m \in air, NEW h, ReceiveAir(m, h)
    PROVE  Settled' /\ OneMoves(place, {"air", "loopback"}, {"air", "dropped", "stored"})
  <1>1. CarryKinds /\ Alone
    BY DEF Settled
  <1>2. /\ m.to \in Vehicles /\ h \in NextHops(m.to) /\ RouteInput(m.to, m.pkt, h, air \ {m})
        /\ loopback' = loopback /\ UNCHANGED <<unsent, m_squeue, sendEvents, delivered, lost>>
    BY DEF ReceiveAir
  <1>3. m.pkt \in Headed /\ m.pkt.id \in PacketIds /\ m.pkt.id \in IdsOf(air)
    BY <1>1, <1>2, Contents DEF IdsOf
  <1>4. place[m.pkt.id] = "air"
    BY <1>3 DEF Located
  <1>5. IdsOf(air \ {m}) = IdsOf(air) \ {m.pkt.id}
    BY <1>1, LeavesTheAir
  <1>6. loopback' \in [Vehicles -> Seq(Headed)]
    BY <1>1, <1>2 DEF CarryKinds
  <1>7. \A u \in Vehicles : Ids(loopback'[u]) = Ids(loopback[u]) \ {m.pkt.id} /\ Distinct(loopback'[u])
    BY <1>1, <1>2, <1>3, <1>4 DEF Located, Alone
  <1>8. air \ {m} \subseteq air
    OBVIOUS
  <1> QED
    BY <1>2, <1>3, <1>4, <1>5, <1>6, <1>7, <1>8, RouteInputMoves

\* The sink receives a packet, or the radio loses it.
LEMMA DeliverMoves ==
    ASSUME Settled, NEW place, NEW at, Located(place, at), NEW m \in air, Deliver(m) \/ Lose(m)
    PROVE  Settled' /\ \/ Deliver(m) /\ OneMoves(place, {"air"}, {"delivered"})
                       \/ Lose(m) /\ OneMoves(place, {"air"}, {"lost"})
  <1>1. CarryKinds /\ SendingQueueIsServed /\ NoStaleCarryTime /\ Alone
    BY DEF Settled
  <1>2. /\ air' = air \ {m} /\ unsent' = unsent /\ loopback' = loopback
        /\ m_pwaitqueue' = m_pwaitqueue /\ m_squeue' = m_squeue /\ m_wTimeCache' = m_wTimeCache
        /\ sendEvents' = sendEvents /\ dropped' = dropped /\ ttlExpired' = ttlExpired
        /\ \/ Deliver(m) /\ delivered' = delivered \cup {m.pkt.id} /\ lost' = lost
           \/ Lose(m) /\ lost' = lost \cup {m.pkt.id} /\ delivered' = delivered
    BY DEF Deliver, Lose
  <1>3. m.pkt.id \in PacketIds /\ m.pkt.id \in IdsOf(air)
    BY <1>1, Contents DEF IdsOf
  <1>4. place[m.pkt.id] = "air"
    BY <1>3 DEF Located
  <1>5. /\ m.pkt.id \notin unsent /\ m.pkt.id \notin delivered
        /\ m.pkt.id \notin dropped /\ m.pkt.id \notin lost
        /\ \A u \in Vehicles : /\ m.pkt.id \notin Ids(loopback[u]) /\ m.pkt.id \notin Ids(m_pwaitqueue[u])
                               /\ m.pkt.id \notin Ids(Packets(m_squeue[u]))
    BY <1>3, <1>4 DEF Located
  <1>6. IdsOf(air') = IdsOf(air) \ {m.pkt.id}
    BY <1>1, <1>2, LeavesTheAir
  <1>7. CarryKinds'
    BY <1>1, <1>2, <1>3 DEF CarryKinds
  <1>8. SendingQueueIsServed' /\ NoStaleCarryTime' /\ Alone'
    BY <1>1, <1>2 DEF SendingQueueIsServed, NoStaleCarryTime, Alone
  <1>9. SourceOf[m.pkt.id] \in Vehicles
    BY <1>3, CarryAssumption
  <1>10. CASE Deliver(m) /\ delivered' = delivered \cup {m.pkt.id} /\ lost' = lost
    <2>1. Moved(m.pkt.id, "delivered", SourceOf[m.pkt.id])
      BY <1>2, <1>5, <1>6, <1>10 DEF Moved
    <2> QED
      BY <1>3, <1>4, <1>7, <1>8, <1>9, <1>10, <2>1 DEF Settled, OneMoves
  <1>11. CASE Lose(m) /\ lost' = lost \cup {m.pkt.id} /\ delivered' = delivered
    <2>1. Moved(m.pkt.id, "lost", SourceOf[m.pkt.id])
      BY <1>2, <1>5, <1>6, <1>11 DEF Moved
    <2> QED
      BY <1>3, <1>4, <1>7, <1>8, <1>9, <1>11, <2>1 DEF Settled, OneMoves
  <1> QED
    BY <1>2, <1>10, <1>11

-------------------------------------------------------------------------------
(* Sending and examining the stored packets *)

\* A packet that may be sent twice more survives being sent once.
LEMMA ForwardedKind ==
    ASSUME NEW p \in Lasting
    PROVE  /\ Forwarded(p) \in Headed /\ Forwarded(p) \in Packet
           /\ Forwarded(p).id = p.id /\ Forwarded(p).ttl > 0
  <1> DEFINE i == p.id
             t == p.ttl
             b == p.hdr
  <1>1. p = [id |-> i, ttl |-> t, hdr |-> b]
    BY DEF Lasting, Headed, Packet
  <1>2. i \in PacketIds /\ t \in 0 .. DefaultTtl /\ t > 1
    BY DEF Lasting, Headed, Packet
  <1>3. b /\ b \in BOOLEAN
    BY DEF Lasting, Headed, Packet
  <1> HIDE DEF i, t, b
  <1>4. Forwarded(p) = [id |-> i, ttl |-> t - 1, hdr |-> b]
    BY <1>1, <1>2 DEF Forwarded
  <1>5. t - 1 \in 0 .. DefaultTtl /\ t - 1 > 0
    BY <1>2, CarryAssumption
  <1>6. Forwarded(p) \in Packet
    BY <1>2, <1>3, <1>4, <1>5 DEF Packet
  <1>7. Forwarded(p).id = i /\ Forwarded(p).ttl = t - 1 /\ Forwarded(p).hdr = b
    BY <1>4
  <1> QED
    BY <1>3, <1>5, <1>6, <1>7 DEF Headed, i

\* SendFromSQueue on a queue q whose packets are not in the loopback device: at
\* most one of them moves there, and a call is scheduled for those that stay.
LEMMA SendLastEffect ==
    ASSUME CarryKinds, NEW v \in Vehicles, NEW q \in Seq(Entry), Distinct(Packets(q)),
           NEW events \in Nat, SendLast(v, q, events),
           Distinct(loopback[v]), Ids(loopback[v]) \cap Ids(Packets(q)) = {}
    PROVE  /\ ttlExpired' = ttlExpired
           /\ m_squeue' \in [Vehicles -> Seq(Entry)] /\ loopback' \in [Vehicles -> Seq(Headed)]
           /\ sendEvents' \in [Vehicles -> Nat]
           /\ \A u \in Vehicles \ {v} : /\ m_squeue'[u] = m_squeue[u] /\ loopback'[u] = loopback[u]
                                        /\ sendEvents'[u] = sendEvents[u]
           /\ Distinct(loopback'[v]) /\ Distinct(Packets(m_squeue'[v]))
           /\ m_squeue'[v] # <<>> => sendEvents'[v] > 0
           /\ \E last \in SUBSET PacketIds :
                 /\ last \subseteq Ids(Packets(q))
                 /\ last = {} \/ \E x \in PacketIds : last = {x}
                 /\ Ids(loopback'[v]) = Ids(loopback[v]) \cup last
                 /\ Ids(Packets(m_squeue'[v])) = Ids(Packets(q)) \ last
  <1>1. /\ m_squeue \in [Vehicles -> Seq(Entry)] /\ loopback \in [Vehicles -> Seq(Headed)]
        /\ sendEvents \in [Vehicles -> Nat] /\ loopback[v] \in Seq(Headed) /\ loopback[v] \in Seq(Packet)
    BY Contents DEF CarryKinds
  <1>2. CASE q = <<>>
    <2>1. /\ m_squeue' = [m_squeue EXCEPT ![v] = q] /\ sendEvents' = [sendEvents EXCEPT ![v] = events]
          /\ loopback' = loopback /\ ttlExpired' = ttlExpired
      BY <1>2 DEF SendLast
    <2>2. /\ m_squeue'[v] = <<>> /\ Distinct(Packets(m_squeue'[v]))
          /\ Ids(loopback'[v]) = Ids(loopback[v]) \cup {}
          /\ Ids(Packets(m_squeue'[v])) = Ids(Packets(q)) \ {}
      BY <1>1, <1>2, <2>1
    <2>3. {} \in SUBSET PacketIds /\ {} \subseteq Ids(Packets(q))
      OBVIOUS
    <2>4. /\ m_squeue' \in [Vehicles -> Seq(Entry)] /\ loopback' \in [Vehicles -> Seq(Headed)]
          /\ sendEvents' \in [Vehicles -> Nat]
          /\ \A u \in Vehicles \ {v} : /\ m_squeue'[u] = m_squeue[u] /\ loopback'[u] = loopback[u]
                                       /\ sendEvents'[u] = sendEvents[u]
      BY <1>1, <2>1
    <2> QED
      BY <2>1, <2>2, <2>3, <2>4
  <1>3. CASE q # <<>>
    <2> DEFINE p == Last(q).pkt
               f == Forwarded(p)
    <2>1. /\ Packets(q) \in Seq(Packet) /\ Packets(q) # <<>> /\ Front(q) \in Seq(Entry)
          /\ p = Last(Packets(q)) /\ p \in Lasting /\ Packets(Front(q)) = Front(Packets(q))
      BY <1>3, PacketsOfEntries
    <2>2. /\ p \in Packet /\ p.id \in PacketIds /\ p.id \in Ids(Packets(q))
          /\ Ids(Packets(Front(q))) = Ids(Packets(q)) \ {p.id} /\ Distinct(Packets(Front(q)))
      BY <2>1, LastLeaves, PacketKinds
    <2>3. f \in Headed /\ f \in Packet /\ f.id = p.id /\ f.ttl > 0
      BY <2>1, ForwardedKind
    <2>4. /\ m_squeue' = [m_squeue EXCEPT ![v] = Front(q)]
          /\ sendEvents' = [sendEvents EXCEPT ![v] = events + 1]
          /\ loopback' = [loopback EXCEPT ![v] = Append(@, f)] /\ ttlExpired' = ttlExpired
      <3>1. ~(f.ttl <= 0)
        <4>1. f.ttl \in Int
          BY <2>3 DEF Packet
        <4> QED
          BY <2>3, <4>1
      <3> QED
        BY <1>3, <3>1 DEF SendLast
    <2> HIDE DEF p, f
    <2>5. /\ m_squeue' \in [Vehicles -> Seq(Entry)] /\ loopback' \in [Vehicles -> Seq(Headed)]
          /\ sendEvents' \in [Vehicles -> Nat] /\ sendEvents'[v] = events + 1
          /\ m_squeue'[v] = Front(q) /\ loopback'[v] = Append(loopback[v], f)
          /\ \A u \in Vehicles \ {v} : /\ m_squeue'[u] = m_squeue[u] /\ loopback'[u] = loopback[u]
                                       /\ sendEvents'[u] = sendEvents[u]
      BY <1>1, <2>1, <2>3, <2>4
    <2>6. Ids(loopback'[v]) = Ids(loopback[v]) \cup {p.id} /\ Distinct(loopback'[v])
      BY <1>1, <2>2, <2>3, <2>5, Joins
    <2>7. /\ {p.id} \in SUBSET PacketIds /\ {p.id} \subseteq Ids(Packets(q))
          /\ \E x \in PacketIds : {p.id} = {x}
      BY <2>2
    <2>8. /\ Ids(Packets(m_squeue'[v])) = Ids(Packets(q)) \ {p.id} /\ Distinct(Packets(m_squeue'[v]))
          /\ sendEvents'[v] > 0
      BY <2>2, <2>5
    <2> QED
      BY <2>4, <2>5, <2>6, <2>7, <2>8
  <1> QED
    BY <1>2, <1>3

LEMMA SendFromSQueueMoves ==
    ASSUME Settled, NEW place, NEW at, Located(place, at), NEW v \in Vehicles, SendFromSQueue(v)
    PROVE  Settled' /\ (OneMoves(place, {"sending"}, {"loopback"}) \/ Located(place, at)')
  <1> DEFINE q == m_squeue[v]
  <1>1. CarryKinds /\ SendingQueueIsServed /\ NoStaleCarryTime /\ Alone
    BY DEF Settled
  <1>2. /\ sendEvents[v] > 0 /\ SendLast(v, q, sendEvents[v] - 1)
        /\ unsent' = unsent /\ air' = air /\ m_pwaitqueue' = m_pwaitqueue
        /\ m_wTimeCache' = m_wTimeCache /\ delivered' = delivered /\ dropped' = dropped /\ lost' = lost
    BY DEF SendFromSQueue
  <1>3. q \in Seq(Entry) /\ Packets(q) \in Seq(Packet) /\ sendEvents[v] - 1 \in Nat
    BY <1>1, <1>2, Contents
  <1>4. Distinct(loopback[v]) /\ Distinct(Packets(q))
    BY <1>1 DEF Alone
  <1>5. Ids(Packets(q)) \subseteq PacketIds
    BY <1>3, PacketKinds DEF Ids
  <1>6. Ids(loopback[v]) \cap Ids(Packets(q)) = {}
    BY <1>5 DEF Located
  <1>7. /\ ttlExpired' = ttlExpired
        /\ m_squeue' \in [Vehicles -> Seq(Entry)] /\ loopback' \in [Vehicles -> Seq(Headed)]
        /\ sendEvents' \in [Vehicles -> Nat]
        /\ \A u \in Vehicles \ {v} : /\ m_squeue'[u] = m_squeue[u] /\ loopback'[u] = loopback[u]
                                     /\ sendEvents'[u] = sendEvents[u]
        /\ Distinct(loopback'[v]) /\ Distinct(Packets(m_squeue'[v]))
        /\ m_squeue'[v] # <<>> => sendEvents'[v] > 0
    BY <1>1, <1>2, <1>3, <1>4, <1>6, SendLastEffect
  <1>8. PICK last \in SUBSET PacketIds :
            /\ last \subseteq Ids(Packets(q))
            /\ last = {} \/ \E x \in PacketIds : last = {x}
            /\ Ids(loopback'[v]) = Ids(loopback[v]) \cup last
            /\ Ids(Packets(m_squeue'[v])) = Ids(Packets(q)) \ last
    BY <1>1, <1>2, <1>3, <1>4, <1>6, SendLastEffect
  <1>9. CarryKinds'
    BY <1>1, <1>2, <1>7 DEF CarryKinds
  <1>10. SendingQueueIsServed' /\ NoStaleCarryTime' /\ Alone'
    BY <1>1, <1>2, <1>7 DEF SendingQueueIsServed, NoStaleCarryTime, Alone
  <1>11. CASE last = {}
    <2>1. \A u \in Vehicles : /\ Ids(loopback'[u]) = Ids(loopback[u])
                              /\ Ids(Packets(m_squeue'[u])) = Ids(Packets(m_squeue[u]))
      BY <1>7, <1>8, <1>11
    <2>2. Located(place, at)'
      BY <1>2, <2>1 DEF Located
    <2> QED
      BY <1>9, <1>10, <2>2 DEF Settled
  <1>12. ASSUME NEW x \in PacketIds, last = {x}
         PROVE  Settled' /\ OneMoves(place, {"sending"}, {"loopback"})
    <2>1. place[x] = "sending" /\ at[x] = v
      BY <1>8, <1>12 DEF Located
    <2>2. /\ x \notin unsent /\ x \notin delivered /\ x \notin dropped /\ x \notin lost
          /\ x \notin IdsOf(air)
          /\ \A u \in Vehicles : /\ x \notin Ids(loopback[u]) /\ x \notin Ids(m_pwaitqueue[u])
                                 /\ u # v => x \notin Ids(Packets(m_squeue[u]))
      BY <2>1 DEF Located
    <2>3. \A u \in Vehicles : \A y \in PacketIds :
             /\ y \in Ids(loopback'[u]) <=> y \in Ids(loopback[u]) \/ (y = x /\ u = v)
             /\ y \in Ids(Packets(m_squeue'[u])) <=> y # x /\ y \in Ids(Packets(m_squeue[u]))
      BY <1>7, <1>8, <1>12, <2>2
    <2>4. Moved(x, "loopback", v)
      BY <1>2, <2>2, <2>3 DEF Moved
    <2> QED
      BY <1>9, <1>10, <2>1, <2>4 DEF Settled, OneMoves
  <1> QED
    BY <1>8, <1>11, <1>12

\* What the scenario sees of a place: a packet under way, stored, or ended.
LifeOf(pl) == IF pl \in {"air", "loopback", "sending"} THEN "travelling" ELSE pl

\* Some stored packets are under way now, some dropped, and no other packet has
\* changed as the scenario sees it.
Reviewed(place, place2) ==
    \E sent, late \in SUBSET PacketIds :
        /\ sent \cap late = {}
        /\ \A x \in PacketIds :
              /\ x \in sent \cup late => place[x] = "stored"
              /\ LifeOf(place2[x]) = IF x \in sent THEN "travelling"
                                     ELSE IF x \in late THEN "dropped" ELSE LifeOf(place[x])

\* One call of m_DropPacketTrace for each packet that joins dropped.
DropsCounted ==
    \E late \in SUBSET PacketIds :
        /\ late \cap dropped = {} /\ dropped' = dropped \cup late
        /\ DropCount' = DropCount + Cardinality(late)

LEMMA CheckPacketQueueMoves ==
    ASSUME Settled, NEW place \in [PacketIds -> PlaceNames], NEW at \in [PacketIds -> Vehicles],
           Located(place, at), NEW v \in Vehicles, NEW h \in NextHops(v), CheckPacketQueue(v, h)
    PROVE  /\ Settled'
           /\ \E place2 \in [PacketIds -> PlaceNames], at2 \in [PacketIds -> Vehicles] :
                 Located(place2, at2)' /\ Reviewed(place, place2)
           /\ DropsCounted
  <1> DEFINE q == m_pwaitqueue[v]
             sq == m_squeue[v]
             s == Examined(q, [time |-> m_wTimeCache[v], wait |-> <<>>, send |-> sq,
                               drop |-> {}, drops |-> 0], h)
  <1>1. CarryKinds /\ SendingQueueIsServed /\ NoStaleCarryTime /\ Alone
    BY DEF Settled
  <1>2. /\ m_pwaitqueue' = [m_pwaitqueue EXCEPT ![v] = s.wait]
        /\ m_wTimeCache' = [m_wTimeCache EXCEPT ![v] = s.time]
        /\ dropped' = dropped \cup s.drop /\ DropCount' = DropCount + s.drops
        /\ SendLast(v, s.send, sendEvents[v])
        /\ unsent' = unsent /\ air' = air /\ delivered' = delivered /\ lost' = lost
    BY DEF CheckPacketQueue
  <1>3. /\ q \in Seq(Lasting) /\ q \in Seq(Packet) /\ sq \in Seq(Entry) /\ Packets(sq) \in Seq(Packet)
        /\ m_wTimeCache[v] \in [Vehicles -> Times] /\ sendEvents[v] \in Nat
        /\ loopback[v] \in Seq(Packet)
    BY <1>1, Contents
  <1>4. Ids(q) \subseteq PacketIds /\ Ids(Packets(sq)) \subseteq PacketIds
    BY <1>3, PacketKinds DEF Ids
  <1>5. Distinct(q) /\ Distinct(Packets(sq)) /\ Distinct(loopback[v])
    BY <1>1 DEF Alone
  <1>6. /\ Ids(q) \cap Ids(Packets(sq)) = {}
        /\ Ids(loopback[v]) \cap Ids(q) = {} /\ Ids(loopback[v]) \cap Ids(Packets(sq)) = {}
    BY <1>4 DEF Located
  <1>7. \A u \in Vehicles : m_wTimeCache[v][u] # NoTime => \E x \in Ids(q) : SourceOf[x] = u
    BY <1>1, StaleByIds
  <1>8. h # NoHop => h \in Vehicles \cup {Sink}
    BY DEF NextHops
  <1>9. LoopInv(q, sq, Len(q), s) /\ Rest(q, Len(q)) = {}
    BY <1>3, <1>5, <1>6, <1>7, <1>8, ExaminedCorrect
  <1> HIDE DEF q, sq, s
  <1> DEFINE wait == Ids(s.wait)
             send == Ids(Packets(s.send))
             drop == s.drop
  <1>10. /\ s.time \in [Vehicles -> Times] /\ s.wait \in Seq(Lasting) /\ s.send \in Seq(Entry)
         /\ drop \subseteq PacketIds /\ Distinct(s.wait) /\ Distinct(Packets(s.send))
         /\ s.drops = Cardinality(drop)
    BY <1>9 DEF LoopInv, LoopKinds
  <1>11. /\ wait \cap send = {} /\ wait \cap drop = {} /\ send \cap drop = {}
         /\ wait \cup send \cup drop = Ids(q) \cup Ids(Packets(sq)) /\ Ids(Packets(sq)) \subseteq send
    BY <1>9 DEF LoopInv, LoopSplit
  <1>12. \A u \in Vehicles : s.time[u] # NoTime => \E x \in wait : SourceOf[x] = u
    BY <1>9 DEF LoopInv, LoopTimes
  <1>13. Ids(loopback[v]) \cap send = {}
    BY <1>6, <1>11
  <1>14. /\ ttlExpired' = ttlExpired
         /\ m_squeue' \in [Vehicles -> Seq(Entry)] /\ loopback' \in [Vehicles -> Seq(Headed)]
         /\ sendEvents' \in [Vehicles -> Nat]
         /\ \A u \in Vehicles \ {v} : /\ m_squeue'[u] = m_squeue[u] /\ loopback'[u] = loopback[u]
                                      /\ sendEvents'[u] = sendEvents[u]
         /\ Distinct(loopback'[v]) /\ Distinct(Packets(m_squeue'[v]))
         /\ m_squeue'[v] # <<>> => sendEvents'[v] > 0
    BY <1>1, <1>2, <1>3, <1>5, <1>10, <1>13, SendLastEffect
  <1>15. PICK last \in SUBSET PacketIds :
             /\ last \subseteq send
             /\ Ids(loopback'[v]) = Ids(loopback[v]) \cup last
             /\ Ids(Packets(m_squeue'[v])) = send \ last
    BY <1>1, <1>2, <1>3, <1>5, <1>10, <1>13, SendLastEffect
  <1>16. /\ m_pwaitqueue' \in [Vehicles -> Seq(Lasting)] /\ m_pwaitqueue'[v] = s.wait
         /\ \A u \in Vehicles \ {v} : m_pwaitqueue'[u] = m_pwaitqueue[u]
         /\ m_wTimeCache' \in [Vehicles -> [Vehicles -> Times]] /\ m_wTimeCache'[v] = s.time
         /\ \A u \in Vehicles \ {v} : m_wTimeCache'[u] = m_wTimeCache[u]
    BY <1>1, <1>2, <1>10 DEF CarryKinds
  <1>17. CarryKinds'
    BY <1>1, <1>2, <1>10, <1>14, <1>16 DEF CarryKinds
  <1>18. SendingQueueIsServed'
    BY <1>1, <1>14 DEF SendingQueueIsServed
  <1>19. Alone'
    BY <1>1, <1>2, <1>10, <1>14, <1>16 DEF Alone
  <1>20. NoStaleCarryTime'
    <2> SUFFICES ASSUME NEW u \in Vehicles, NEW r \in Vehicles, m_wTimeCache'[u][r] # NoTime
                 PROVE  \E x \in Ids(m_pwaitqueue'[u]) : SourceOf[x] = r
      BY DEF NoStaleCarryTime, Ids
    <2>1. CASE u = v
      BY <1>12, <1>16, <2>1
    <2>2. CASE u # v
      <3>1. m_wTimeCache'[u] = m_wTimeCache[u] /\ m_pwaitqueue'[u] = m_pwaitqueue[u]
        BY <1>16, <2>2
      <3> QED
        BY <1>1, <3>1, StaleByIds
    <2> QED
      BY <2>1, <2>2
  <1>21. /\ \A x \in PacketIds : /\ x \in Ids(q) <=> place[x] = "stored" /\ at[x] = v
                                 /\ x \in Ids(Packets(sq)) <=> place[x] = "sending" /\ at[x] = v
    BY DEF Located, q, sq
  <1> HIDE DEF wait, send, drop
  <1>22. \A x \in PacketIds :
            /\ x \in wait => place[x] = "stored" /\ at[x] = v
            /\ x \in drop => place[x] = "stored" /\ at[x] = v
            /\ x \in send => place[x] \in {"stored", "sending"} /\ at[x] = v
            /\ place[x] = "stored" /\ at[x] = v /\ x \notin send /\ x \notin drop => x \in wait
            /\ place[x] = "sending" /\ at[x] = v => x \in send
            /\ x \in last => x \in send
            /\ ~(x \in wait /\ x \in send) /\ ~(x \in wait /\ x \in drop) /\ ~(x \in send /\ x \in drop)
    BY <1>6, <1>11, <1>15, <1>21
  <1>23. \A x \in PacketIds :
            /\ x \in dropped' <=> x \in dropped \/ x \in drop
            /\ \A u \in Vehicles :
                  /\ x \in Ids(loopback'[u]) <=> x \in Ids(loopback[u]) \/ (u = v /\ x \in last)
                  /\ x \in Ids(m_pwaitqueue'[u]) <=>
                        IF u = v THEN x \in wait ELSE x \in Ids(m_pwaitqueue[u])
                  /\ x \in Ids(Packets(m_squeue'[u])) <=>
                        IF u = v THEN x \in send /\ x \notin last ELSE x \in Ids(Packets(m_squeue[u]))
    BY <1>2, <1>14, <1>15, <1>16 DEF wait, drop
  <1>24. PICK place2 \in [PacketIds -> PlaceNames] : \A x \in PacketIds :
             place2[x] = IF x \in last THEN "loopback" ELSE IF x \in send THEN "sending"
                         ELSE IF x \in drop THEN "dropped" ELSE place[x]
    <2> DEFINE f == [x \in PacketIds |->
                        IF x \in last THEN "loopback" ELSE IF x \in send THEN "sending"
                        ELSE IF x \in drop THEN "dropped" ELSE place[x]]
    <2>1. f \in [PacketIds -> PlaceNames]
      BY DEF PlaceNames
    <2> QED
      BY <2>1
  <1>25. PICK at2 \in [PacketIds -> Vehicles] : \A x \in PacketIds :
             at2[x] = IF x \in send THEN v ELSE at[x]
    <2> DEFINE f == [x \in PacketIds |-> IF x \in send THEN v ELSE at[x]]
    <2>1. f \in [PacketIds -> Vehicles]
      OBVIOUS
    <2> QED
      BY <2>1
  <1>26. Located(place2, at2)'
    <2> SUFFICES ASSUME NEW x \in PacketIds
                 PROVE  /\ x \in unsent'      <=> place2[x] = "unsent"
                        /\ x \in delivered'   <=> place2[x] = "delivered"
                        /\ x \in dropped'     <=> place2[x] = "dropped"
                        /\ x \in lost'        <=> place2[x] = "lost"
                        /\ x \in IdsOf(air')  <=> place2[x] = "air"
                        /\ \A u \in Vehicles :
                              /\ x \in Ids(loopback'[u])          <=> place2[x] = "loopback" /\ at2[x] = u
                              /\ x \in Ids(m_pwaitqueue'[u])      <=> place2[x] = "stored" /\ at2[x] = u
                              /\ x \in Ids(Packets(m_squeue'[u])) <=> place2[x] = "sending" /\ at2[x] = u
      BY DEF Located
    <2>1. /\ x \in unsent      <=> place[x] = "unsent"
          /\ x \in delivered   <=> place[x] = "delivered"
          /\ x \in dropped     <=> place[x] = "dropped"
          /\ x \in lost        <=> place[x] = "lost"
          /\ x \in IdsOf(air)  <=> place[x] = "air"
          /\ \A u \in Vehicles :
                /\ x \in Ids(loopback[u])          <=> place[x] = "loopback" /\ at[x] = u
                /\ x \in Ids(m_pwaitqueue[u])      <=> place[x] = "stored" /\ at[x] = u
                /\ x \in Ids(Packets(m_squeue[u])) <=> place[x] = "sending" /\ at[x] = u
      BY DEF Located
    <2>2. CASE x \in send
      BY <1>2, <1>22, <1>23, <1>24, <1>25, <2>1, <2>2
    <2>3. CASE x \notin send /\ x \in drop
      BY <1>2, <1>22, <1>23, <1>24, <1>25, <2>1, <2>3
    <2>4. CASE x \notin send /\ x \notin drop
      BY <1>2, <1>22, <1>23, <1>24, <1>25, <2>1, <2>4
    <2> QED
      BY <2>2, <2>3, <2>4
  <1>27. Reviewed(place, place2)
    <2> DEFINE sent == {x \in send : place[x] = "stored"}
    <2>1. sent \in SUBSET PacketIds /\ drop \in SUBSET PacketIds /\ sent \cap drop = {}
      BY <1>4, <1>10, <1>11 DEF send, drop
    <2>2. \A x \in PacketIds :
             /\ x \in sent \cup drop => place[x] = "stored"
             /\ LifeOf(place2[x]) = IF x \in sent THEN "travelling"
                                    ELSE IF x \in drop THEN "dropped" ELSE LifeOf(place[x])
      BY <1>22, <1>24, <1>25 DEF LifeOf
    <2> HIDE DEF sent
    <2> QED
      BY <2>1, <2>2 DEF Reviewed
  <1>28. DropsCounted
    <2>1. drop \cap dropped = {}
      BY <1>10, <1>22 DEF Located
    <2> QED
      BY <1>2, <1>10, <2>1 DEF DropsCounted, drop
  <1> QED
    BY <1>1, <1>17, <1>18, <1>19, <1>20, <1>26, <1>27, <1>28 DEF Settled

\* Time passes, or nothing happens.
LEMMA TickMovesNothing ==
    ASSUME Settled, NEW place, NEW at, Located(place, at), Tick \/ UNCHANGED vars
    PROVE  Settled' /\ Located(place, at)' /\ UNCHANGED <<unsent, delivered, dropped>>
  <1>1. CarryKinds /\ SendingQueueIsServed /\ NoStaleCarryTime /\ Alone
    BY DEF Settled
  <1>2. /\ unsent' = unsent /\ loopback' = loopback /\ air' = air /\ m_pwaitqueue' = m_pwaitqueue
        /\ m_squeue' = m_squeue /\ sendEvents' = sendEvents /\ delivered' = delivered
        /\ dropped' = dropped /\ lost' = lost /\ ttlExpired' = ttlExpired
    BY DEF Tick, vars
  <1>3. /\ m_wTimeCache' \in [Vehicles -> [Vehicles -> Times]]
        /\ \A v, s \in Vehicles : m_wTimeCache'[v][s] # NoTime => m_wTimeCache[v][s] # NoTime
    <2>1. m_wTimeCache \in [Vehicles -> [Vehicles -> Times]]
      BY <1>1 DEF CarryKinds
    <2>2. CASE Tick
      <3>1. \A t \in Times : t \notin {NoTime, CarryTimeThreshold} => t + 1 \in Times
        BY CarryAssumption DEF Times
      <3>2. \A v, s \in Vehicles : m_wTimeCache[v][s] \in Times
        BY <2>1
      <3>3. m_wTimeCache' = [v \in Vehicles |-> [s \in Vehicles |->
                IF m_wTimeCache[v][s] \in {NoTime, CarryTimeThreshold}
                THEN m_wTimeCache[v][s] ELSE m_wTimeCache[v][s] + 1]]
        BY <2>2 DEF Tick
      <3> QED
        BY <3>1, <3>2, <3>3
    <2>3. CASE UNCHANGED vars
      BY <2>1, <2>3 DEF vars
    <2> QED
      BY <2>2, <2>3
  <1>4. CarryKinds'
    BY <1>1, <1>2, <1>3 DEF CarryKinds
  <1>5. SendingQueueIsServed' /\ NoStaleCarryTime' /\ Alone'
    BY <1>1, <1>2, <1>3 DEF SendingQueueIsServed, NoStaleCarryTime, Alone
  <1>6. Located(place, at)'
    BY <1>2 DEF Located
  <1> QED
    BY <1>2, <1>4, <1>5, <1>6 DEF Settled

-------------------------------------------------------------------------------
(* Every step *)

Hop(place, place2, from, to) ==
    \E p \in PacketIds, t \in to : place[p] \in from /\ place2 = [place EXCEPT ![p] = t]

\* The ways a packet may go: the only ones that a step takes.
Journey(place, place2) ==
    \/ Hop(place, place2, {"unsent"}, {"air", "loopback"})
    \/ Hop(place, place2, {"air", "loopback"}, {"air", "dropped", "stored"})
    \/ Hop(place, place2, {"air"}, {"delivered"})
    \/ Hop(place, place2, {"air"}, {"lost"})
    \/ Hop(place, place2, {"sending"}, {"loopback"})
    \/ Reviewed(place, place2)
    \/ place2 = place

LEMMA MoveIsHop ==
    ASSUME NEW place \in [PacketIds -> PlaceNames], NEW at \in [PacketIds -> Vehicles],
           Located(place, at), NEW from, NEW to \in SUBSET PlaceNames, OneMoves(place, from, to)
    PROVE  \E place2 \in [PacketIds -> PlaceNames], at2 \in [PacketIds -> Vehicles] :
              Located(place2, at2)' /\ Hop(place, place2, from, to)
  <1>1. PICK p \in PacketIds, t \in to, w \in Vehicles : place[p] \in from /\ Moved(p, t, w)
    BY DEF OneMoves
  <1>2. Located([place EXCEPT ![p] = t], [at EXCEPT ![p] = w])'
    BY <1>1, NewPlace
  <1>3. [place EXCEPT ![p] = t] \in [PacketIds -> PlaceNames] /\ [at EXCEPT ![p] = w] \in [PacketIds -> Vehicles]
    OBVIOUS
  <1>4. Hop(place, [place EXCEPT ![p] = t], from, to)
    BY <1>1 DEF Hop
  <1> QED
    BY <1>2, <1>3, <1>4

LEMMA EveryStep ==
    ASSUME Settled, NEW place \in [PacketIds -> PlaceNames], NEW at \in [PacketIds -> Vehicles],
           Located(place, at), [Next]_vars
    PROVE  /\ Settled'
           /\ \E place2 \in [PacketIds -> PlaceNames], at2 \in [PacketIds -> Vehicles] :
                 Located(place2, at2)' /\ Journey(place, place2)
  <1> DEFINE Moves(from, to) == Settled' /\ OneMoves(place, from, to)
             Goal == /\ Settled'
                     /\ \E place2 \in [PacketIds -> PlaceNames], at2 \in [PacketIds -> Vehicles] :
                           Located(place2, at2)' /\ Journey(place, place2)
  <1>1. /\ {"air", "loopback"} \in SUBSET PlaceNames /\ {"air", "dropped", "stored"} \in SUBSET PlaceNames
        /\ {"delivered"} \in SUBSET PlaceNames /\ {"lost"} \in SUBSET PlaceNames
        /\ {"loopback"} \in SUBSET PlaceNames
    BY DEF PlaceNames
  <1>2. CASE \E v \in Vehicles, id \in PacketIds : \E h \in NextHops(v) : RouteOutput(v, id, h)
    <2>1. Moves({"unsent"}, {"air", "loopback"})
      BY <1>2, RouteOutputMoves
    <2> QED
      BY <1>1, <2>1, MoveIsHop DEF Journey
  <1>3. CASE \E v \in Vehicles : \E h \in NextHops(v) : ReceiveLoopback(v, h)
    <2>1. Moves({"air", "loopback"}, {"air", "dropped", "stored"})
      BY <1>3, ReceiveLoopbackMoves
    <2> QED
      BY <1>1, <2>1, MoveIsHop DEF Journey
  <1>4. CASE \E m \in air : \E h \in NextHops(m.to) : ReceiveAir(m, h)
    <2>1. Moves({"air", "loopback"}, {"air", "dropped", "stored"})
      BY <1>4, ReceiveAirMoves
    <2> QED
      BY <1>1, <2>1, MoveIsHop DEF Journey
  <1>5. CASE \E m \in air : Deliver(m) \/ Lose(m)
    <2>1. Moves({"air"}, {"delivered"}) \/ Moves({"air"}, {"lost"})
      BY <1>5, DeliverMoves
    <2> QED
      BY <1>1, <2>1, MoveIsHop DEF Journey
  <1>6. CASE \E v \in Vehicles : \E h \in NextHops(v) : CheckPacketQueue(v, h)
    BY <1>6, CheckPacketQueueMoves DEF Journey
  <1>7. CASE \E v \in Vehicles : SendFromSQueue(v)
    <2>1. Moves({"sending"}, {"loopback"}) \/ (Settled' /\ Located(place, at)')
      BY <1>7, SendFromSQueueMoves
    <2> QED
      BY <1>1, <2>1, MoveIsHop DEF Journey
  <1>8. CASE Tick \/ UNCHANGED vars
    <2>1. Settled' /\ Located(place, at)'
      BY <1>8, TickMovesNothing
    <2> QED
      BY <2>1 DEF Journey
  <1> QED
    BY <1>2, <1>3, <1>4, <1>5, <1>6, <1>7, <1>8 DEF Next

\* Every packet of every reachable state is in one place, with the header and
\* the time to live that place asks for; the carry times and the scheduled calls
\* of SendFromSQueue fit the queues.
THEOREM CarryCorrect == Spec => []CarryInv
  <1>1. Init => CarryInv
    BY CarryInit
  <1>2. CarryInv /\ [Next]_vars => CarryInv'
    <2> SUFFICES ASSUME CarryInv, [Next]_vars PROVE CarryInv'
      OBVIOUS
    <2>1. PICK place \in [PacketIds -> PlaceNames], at \in [PacketIds -> Vehicles] : Located(place, at)
      BY DEF CarryInv, Everywhere
    <2>2. /\ Settled'
          /\ \E place2 \in [PacketIds -> PlaceNames], at2 \in [PacketIds -> Vehicles] :
                Located(place2, at2)'
      BY <2>1, EveryStep DEF CarryInv
    <2> QED
      BY <2>2 DEF CarryInv, Everywhere
  <1> QED
    BY <1>1, <1>2, PTL DEF Spec

-------------------------------------------------------------------------------
(* The counters of MyVanet *)

\* Each counter has counted every packet of its account once.
Counted ==
    /\ SendCount = Cardinality(PacketIds \ unsent)
    /\ recount = Cardinality(delivered)
    /\ DropCount = Cardinality(dropped)

LEMMA CountedStep ==
    ASSUME CarryInv, Counted, [Next]_vars PROVE Counted'
  <1>1. PICK place \in [PacketIds -> PlaceNames], at \in [PacketIds -> Vehicles] : Located(place, at)
    BY DEF CarryInv, Everywhere
  <1>2. /\ unsent \subseteq PacketIds /\ delivered \subseteq PacketIds /\ dropped \subseteq PacketIds
        /\ CarryKinds /\ Settled
    BY DEF CarryInv, Settled, CarryKinds
  <1>3. CASE \E v \in Vehicles, id \in PacketIds : \E h \in NextHops(v) : RouteOutput(v, id, h)
    <2>1. PICK v \in Vehicles, id \in PacketIds : \E h \in NextHops(v) : RouteOutput(v, id, h)
      BY <1>3
    <2>2. /\ id \in unsent /\ unsent' = unsent \ {id} /\ SendCount' = SendCount + 1
          /\ delivered' = delivered /\ dropped' = dropped /\ recount' = recount /\ DropCount' = DropCount
      BY <2>1 DEF RouteOutput
    <2>3. PacketIds \ unsent' = (PacketIds \ unsent) \cup {id} /\ id \notin PacketIds \ unsent
      BY <1>2, <2>2
    <2>4. Cardinality(PacketIds \ unsent') = Cardinality(PacketIds \ unsent) + 1
      BY <2>3, CountOne
    <2> QED
      BY <2>2, <2>4 DEF Counted
  <1>4. ASSUME NEW v \in Vehicles, NEW pkt, NEW h, NEW others, RouteInput(v, pkt, h, others),
               pkt.id \in PacketIds \ dropped,
               UNCHANGED <<unsent, delivered, SendCount, recount>>
        PROVE  Counted'
    <2>1. \/ dropped' = dropped \cup {pkt.id} /\ DropCount' = DropCount + 1
          \/ dropped' = dropped /\ DropCount' = DropCount
      BY <1>4 DEF RouteInput
    <2>2. Cardinality(dropped \cup {pkt.id}) = Cardinality(dropped) + 1
      BY <1>2, <1>4, CountOne
    <2> QED
      BY <1>4, <2>1, <2>2 DEF Counted
  <1>5. CASE \E v \in Vehicles : \E h \in NextHops(v) : ReceiveLoopback(v, h)
    <2>1. PICK v \in Vehicles : \E h \in NextHops(v) : ReceiveLoopback(v, h)
      BY <1>5
    <2>2. PICK h \in NextHops(v) : ReceiveLoopback(v, h)
      BY <2>1
    <2> DEFINE pkt == Head(loopback[v])
    <2>3. loopback[v] # <<>> /\ loopback[v] \in Seq(Packet)
      BY <1>2, <2>2, Contents DEF ReceiveLoopback
    <2>4. pkt = loopback[v][1] /\ 1 \in DOMAIN loopback[v] /\ pkt \in Packet
      BY <2>3
    <2>5. pkt.id \in PacketIds /\ pkt.id \in Ids(loopback[v])
      BY <2>4, PacketKinds DEF Ids
    <2>6. pkt.id \notin dropped
      BY <1>1, <2>5 DEF Located
    <2>7. RouteInput(v, pkt, h, air) /\ UNCHANGED <<unsent, delivered, SendCount, recount>>
      BY <2>2 DEF ReceiveLoopback
    <2> HIDE DEF pkt
    <2> QED
      BY <1>4, <2>5, <2>6, <2>7
  <1>6. CASE \E m \in air : \E h \in NextHops(m.to) : ReceiveAir(m, h)
    <2>1. PICK m \in air : \E h \in NextHops(m.to) : ReceiveAir(m, h)
      BY <1>6
    <2>2. PICK h \in NextHops(m.to) : ReceiveAir(m, h)
      BY <2>1
    <2>3. m.pkt.id \in PacketIds /\ m.pkt.id \in IdsOf(air)
      BY <1>2, Contents DEF IdsOf
    <2>4. m.pkt.id \notin dropped
      BY <1>1, <2>3 DEF Located
    <2>5. /\ m.to \in Vehicles /\ RouteInput(m.to, m.pkt, h, air \ {m})
          /\ UNCHANGED <<unsent, delivered, SendCount, recount>>
      BY <2>2 DEF ReceiveAir
    <2> QED
      BY <1>4, <2>3, <2>4, <2>5
  <1>7. CASE \E m \in air : Deliver(m)
    <2>1. PICK m \in air : Deliver(m)
      BY <1>7
    <2>2. m.pkt.id \in PacketIds /\ m.pkt.id \in IdsOf(air)
      BY <1>2, Contents DEF IdsOf
    <2>3. m.pkt.id \notin delivered
      BY <1>1, <2>2 DEF Located
    <2>4. /\ delivered' = delivered \cup {m.pkt.id} /\ recount' = recount + 1
          /\ unsent' = unsent /\ dropped' = dropped /\ SendCount' = SendCount /\ DropCount' = DropCount
      BY <2>1 DEF Deliver
    <2>5. Cardinality(delivered \cup {m.pkt.id}) = Cardinality(delivered) + 1
      BY <1>2, <2>2, <2>3, CountOne
    <2> QED
      BY <2>4, <2>5 DEF Counted
  <1>8. CASE \E v \in Vehicles : \E h \in NextHops(v) : CheckPacketQueue(v, h)
    <2>1. PICK v \in Vehicles : \E h \in NextHops(v) : CheckPacketQueue(v, h)
      BY <1>8
    <2>2. PICK h \in NextHops(v) : CheckPacketQueue(v, h)
      BY <2>1
    <2>3. DropsCounted
      BY <1>1, <1>2, <2>2, CheckPacketQueueMoves
    <2>4. PICK late \in SUBSET PacketIds :
              /\ late \cap dropped = {} /\ dropped' = dropped \cup late
              /\ DropCount' = DropCount + Cardinality(late)
      BY <2>3 DEF DropsCounted
    <2>5. Cardinality(dropped \cup late) = Cardinality(dropped) + Cardinality(late)
      BY <1>2, <2>4, CountMany
    <2>6. unsent' = unsent /\ delivered' = delivered /\ SendCount' = SendCount /\ recount' = recount
      BY <2>2 DEF CheckPacketQueue
    <2> QED
      BY <2>4, <2>5, <2>6 DEF Counted
  <1>9. CASE (\E m \in air : Lose(m)) \/ (\E v \in Vehicles : SendFromSQueue(v)) \/ Tick \/ UNCHANGED vars
    <2>1. /\ unsent' = unsent /\ delivered' = delivered /\ dropped' = dropped
          /\ SendCount' = SendCount /\ recount' = recount /\ DropCount' = DropCount
      BY <1>9 DEF Lose, SendFromSQueue, Tick, vars, counters
    <2> QED
      BY <2>1 DEF Counted
  <1> QED
    BY <1>3, <1>5, <1>6, <1>7, <1>8, <1>9 DEF Next

\* The counters of MyVanet count packets, not calls of its callbacks: no packet
\* is reported sent, received or dropped twice.
THEOREM CountersCorrect == Spec => []Counted
  <1>1. Init => Counted
    <2> SUFFICES ASSUME Init PROVE Counted
      OBVIOUS
    <2>1. PacketIds \ unsent = {} /\ delivered = {} /\ dropped = {}
          /\ SendCount = 0 /\ recount = 0 /\ DropCount = 0
      BY DEF Init
    <2> QED
      BY <2>1, FS_EmptySet DEF Counted
  <1>2. CarryInv /\ Counted /\ [Next]_vars => Counted'
    BY CountedStep
  <1> QED
    BY <1>1, <1>2, CarryCorrect, PTL DEF Spec

-------------------------------------------------------------------------------
(* The properties *)

\* Every variable holds packets, times and counters of the declared kinds.
THEOREM CarryTypes == Spec => []TypeOK
  <1>1. CarryInv /\ Counted => TypeOK
    <2> SUFFICES ASSUME CarryInv, Counted PROVE TypeOK
      OBVIOUS
    <2>1. CarryKinds
      BY DEF CarryInv, Settled
    <2>2. /\ Headed \subseteq Packet /\ Lasting \subseteq Packet
          /\ Entry \subseteq [pkt : Packet, nexthop : Vehicles \cup {Sink}]
      BY PacketKinds DEF Entry
    <2>3. /\ loopback \in [Vehicles -> Seq(Packet)] /\ m_pwaitqueue \in [Vehicles -> Seq(Packet)]
          /\ m_squeue \in [Vehicles -> Seq([pkt : Packet, nexthop : Vehicles \cup {Sink}])]
      <3>1. \A v \in Vehicles : /\ loopback[v] \in Seq(Packet) /\ m_pwaitqueue[v] \in Seq(Packet)
                                /\ m_squeue[v] \in Seq(Entry)
        BY <2>1, Contents
      <3>2. \A v \in Vehicles : m_squeue[v] \in Seq([pkt : Packet, nexthop : Vehicles \cup {Sink}])
        <4> DEFINE E == [pkt : Packet, nexthop : Vehicles \cup {Sink}]
        <4>1. Entry \subseteq E
          BY <2>2
        <4> HIDE DEF E
        <4>2. \A v \in Vehicles : m_squeue[v] \in Seq(E)
          BY <3>1, <4>1
        <4> QED
          BY <4>2 DEF E
      <3> QED
        BY <2>1, <3>1, <3>2 DEF CarryKinds
    <2>4. SendCount \in Nat /\ recount \in Nat /\ DropCount \in Nat
      <3>1. \A S \in SUBSET PacketIds : Cardinality(S) \in Nat
        BY CarryAssumption, FS_Subset, FS_CardinalityType
      <3> QED
        BY <2>1, <3>1 DEF Counted, CarryKinds
    <2> QED
      BY <2>1, <2>3, <2>4 DEF TypeOK, CarryKinds, Transmissions, Times
  <1> QED
    BY <1>1, CarryCorrect, CountersCorrect, PTL

\* RouteInput drops and reports a packet before IPv4 would discard it for its TTL.
THEOREM TtlReported == Spec => []TtlDropsAreReported
  <1>1. CarryInv => TtlDropsAreReported
    BY DEF CarryInv, Settled, CarryKinds, TtlDropsAreReported
  <1> QED
    BY <1>1, CarryCorrect, PTL

\* SendFromSQueue is scheduled as long as m_squeue holds a packet.
THEOREM QueueServed == Spec => []SendingQueueIsServed
  <1>1. CarryInv => SendingQueueIsServed
    BY DEF CarryInv, Settled
  <1> QED
    BY <1>1, CarryCorrect, PTL

\* A carry time in m_wTimeCache belongs to a packet of m_pwaitqueue.
THEOREM CarryTimesFresh == Spec => []NoStaleCarryTime
  <1>1. CarryInv => NoStaleCarryTime
    BY DEF CarryInv, Settled
  <1> QED
    BY <1>1, CarryCorrect, PTL

\* The header is taken off on the last hop, and on the last hop only.
THEOREM HeadersMatch == Spec => []HeaderMatchesReceiver
  <1>1. CarryInv => HeaderMatchesReceiver
    <2> SUFFICES ASSUME CarryInv PROVE HeaderMatchesReceiver
      OBVIOUS
    <2>1. CarryKinds
      BY DEF CarryInv, Settled
    <2>2. \A m \in air : m.pkt.hdr <=> m.to # Sink
      BY <2>1 DEF CarryKinds, Transmissions
    <2>3. ASSUME NEW v \in Vehicles
          PROVE  /\ \A i \in DOMAIN loopback[v] : loopback[v][i].hdr
                 /\ \A i \in DOMAIN m_pwaitqueue[v] : m_pwaitqueue[v][i].hdr
                 /\ \A i \in DOMAIN m_squeue[v] : m_squeue[v][i].pkt.hdr
      <3>1. /\ \A i \in DOMAIN loopback[v] : loopback[v][i] \in Headed
            /\ \A i \in DOMAIN m_pwaitqueue[v] : m_pwaitqueue[v][i] \in Lasting
            /\ \A i \in DOMAIN m_squeue[v] : m_squeue[v][i] \in Entry
        BY <2>1, Contents
      <3>2. (\A p \in Headed : p.hdr) /\ (\A p \in Lasting : p.hdr) /\ (\A e \in Entry : e.pkt.hdr)
        BY PacketKinds DEF Headed
      <3> QED
        BY <3>1, <3>2
    <2> QED
      BY <2>2, <2>3 DEF HeaderMatchesReceiver
  <1> QED
    BY <1>1, CarryCorrect, PTL

\* A packet that is in the queue of one vehicle w, or of none.
InOne(queue, name, id, w, pl) ==
    Distinct(queue[w]) /\ \A v \in Vehicles : id \in Ids(queue[v]) <=> pl = name /\ w = v

LEMMA InOneQueue ==
    ASSUME NEW queue, NEW name, NEW id, NEW w \in Vehicles, NEW pl, InOne(queue, name, id, w, pl)
    PROVE  IF pl = name THEN \E e : At(queue, name, id) = {e} ELSE At(queue, name, id) = {}
  <1> DEFINE here == pl = name
             Spots(v) == {j \in DOMAIN queue[v] : queue[v][j].id = id}
  <1>1. \A v \in Vehicles : Spots(v) # {} <=> here /\ w = v
    BY DEF InOne, Ids
  <1>2. At(queue, name, id) = UNION {{<<name, v, i>> : i \in Spots(v)} : v \in Vehicles}
    BY DEF At
  <1>3. CASE ~here
    <2>1. \A v \in Vehicles : Spots(v) = {}
      BY <1>1, <1>3
    <2> HIDE DEF Spots
    <2>2. \A e : e \notin At(queue, name, id)
      BY <1>2, <2>1
    <2> QED
      BY <1>3, <2>2
  <1>4. CASE here
    <2>1. PICK k : Spots(w) = {k}
      <3>1. PICK k \in Spots(w) : TRUE
        BY <1>1, <1>4
      <3>2. \A j \in Spots(w) : j = k
        BY <3>1 DEF InOne, Distinct
      <3> QED
        BY <3>1, <3>2
    <2>2. \A v \in Vehicles : v # w => Spots(v) = {}
      BY <1>1
    <2> HIDE DEF Spots
    <2>3. At(queue, name, id) = {<<name, w, k>>}
      BY <1>2, <2>1, <2>2
    <2> QED
      BY <1>4, <2>3
  <1> QED
    BY <1>3, <1>4

\* A packet that one of the accounts holds, or does not.
Noted(account, name, id) == {<<name>> : x \in account \cap {id}}

LEMMA InOneAccount ==
    ASSUME NEW account, NEW name, NEW id, NEW pl, id \in account <=> pl = name
    PROVE  IF pl = name THEN \E e : Noted(account, name, id) = {e} ELSE Noted(account, name, id) = {}
  <1>1. CASE pl = name
    <2>1. account \cap {id} = {id}
      BY <1>1
    <2>2. Noted(account, name, id) = {<<name>>}
      BY <2>1 DEF Noted
    <2> QED
      BY <1>1, <2>2
  <1>2. CASE pl # name
    BY <1>2 DEF Noted
  <1> QED
    BY <1>1, <1>2

LEMMA OnePlace ==
    ASSUME Settled, NEW place \in [PacketIds -> PlaceNames], NEW at \in [PacketIds -> Vehicles],
           Located(place, at), NEW id \in PacketIds
    PROVE  \E e : Whereabouts(id) = {e}
  <1> DEFINE pl == place[id]
             sending == [v \in Vehicles |-> Packets(m_squeue[v])]
             One(name, S) == IF pl = name THEN \E e : S = {e} ELSE S = {}
             unsentAt    == Noted(unsent, "unsent", id)
             deliveredAt == Noted(delivered, "delivered", id)
             droppedAt   == Noted(dropped, "dropped", id)
             lostAt      == Noted(lost, "lost", id)
             expiredAt   == Noted(ttlExpired, "ttlExpired", id)
             airAt       == {<<"air", m>> : m \in {m \in air : m.pkt.id = id}}
  <1>1. Alone /\ CarryKinds /\ at[id] \in Vehicles /\ pl \in PlaceNames
    BY DEF Settled
  <1>2. /\ id \in unsent <=> pl = "unsent"
        /\ id \in delivered <=> pl = "delivered"
        /\ id \in dropped <=> pl = "dropped"
        /\ id \in lost <=> pl = "lost"
    BY DEF Located
  <1>3. /\ One("unsent", unsentAt) /\ One("delivered", deliveredAt)
        /\ One("dropped", droppedAt) /\ One("lost", lostAt) /\ expiredAt = {}
    <2>1. One("unsent", unsentAt)
      BY <1>2, InOneAccount
    <2>2. One("delivered", deliveredAt)
      BY <1>2, InOneAccount
    <2>3. One("dropped", droppedAt)
      BY <1>2, InOneAccount
    <2>4. One("lost", lostAt)
      BY <1>2, InOneAccount
    <2>5. expiredAt = {}
      BY <1>1 DEF CarryKinds, Noted
    <2> QED
      BY <2>1, <2>2, <2>3, <2>4, <2>5
  <1>4. One("air", airAt)
    <2>1. id \in IdsOf(air) <=> pl = "air"
      BY DEF Located
    <2>2. CASE pl = "air"
      <3>1. PICK m \in air : m.pkt.id = id
        BY <2>1, <2>2 DEF IdsOf
      <3>2. airAt = {<<"air", m>>}
        BY <1>1, <3>1 DEF Alone
      <3> QED
        BY <2>2, <3>2
    <2>3. CASE pl # "air"
      BY <2>1, <2>3 DEF IdsOf
    <2> QED
      BY <2>2, <2>3
  <1>5. /\ InOne(loopback, "loopback", id, at[id], pl)
        /\ InOne(m_pwaitqueue, "stored", id, at[id], pl)
        /\ InOne(sending, "sending", id, at[id], pl)
    BY <1>1 DEF Located, Alone, InOne
  <1> HIDE DEF sending
  <1>6. One("loopback", At(loopback, "loopback", id))
    BY <1>1, <1>5, InOneQueue
  <1>7. One("stored", At(m_pwaitqueue, "stored", id))
    BY <1>1, <1>5, InOneQueue
  <1>8. One("sending", At(sending, "sending", id))
    BY <1>1, <1>5, InOneQueue
  <1>9. Whereabouts(id) = unsentAt \cup deliveredAt \cup droppedAt \cup lostAt \cup expiredAt \cup airAt
             \cup At(loopback, "loopback", id) \cup At(m_pwaitqueue, "stored", id)
             \cup At(sending, "sending", id)
    BY DEF Whereabouts, Noted, sending, Packets
  <1> HIDE DEF unsentAt, deliveredAt, droppedAt, lostAt, expiredAt, airAt, pl
  <1> QED
    BY <1>1, <1>3, <1>4, <1>6, <1>7, <1>8, <1>9 DEF PlaceNames

\* Storing, re-examining and sending through the loopback device neither
\* duplicate nor forget a packet.
THEOREM OneCopy == Spec => []OneCopyOfEachPacket
  <1>1. CarryInv => OneCopyOfEachPacket
    <2> SUFFICES ASSUME CarryInv, NEW id \in PacketIds PROVE Cardinality(Whereabouts(id)) = 1
      BY DEF OneCopyOfEachPacket
    <2>1. PICK e : Whereabouts(id) = {e}
      BY OnePlace DEF CarryInv, Everywhere
    <2> QED
      BY <2>1, FS_Singleton
  <1> QED
    BY <1>1, CarryCorrect, PTL

-------------------------------------------------------------------------------
(* The refinement of PacketLife *)

\* Where a packet is decides what the scenario sees of it.
LifeSeen ==
    \A place \in [PacketIds -> PlaceNames], at \in [PacketIds -> Vehicles] :
        Settled /\ Located(place, at) =>
            /\ \A p \in PacketIds : StatusOf(p) = LifeOf(place[p])
            /\ unsent = {p \in PacketIds : place[p] = "unsent"}
            /\ delivered = {p \in PacketIds : place[p] = "delivered"}
            /\ dropped = {p \in PacketIds : place[p] = "dropped"}

LEMMA LifeIsSeen == LifeSeen
  <1> SUFFICES ASSUME NEW place \in [PacketIds -> PlaceNames], NEW at \in [PacketIds -> Vehicles],
                      Settled, Located(place, at)
               PROVE  /\ \A p \in PacketIds : StatusOf(p) = LifeOf(place[p])
                      /\ unsent = {p \in PacketIds : place[p] = "unsent"}
                      /\ delivered = {p \in PacketIds : place[p] = "delivered"}
                      /\ dropped = {p \in PacketIds : place[p] = "dropped"}
    BY DEF LifeSeen
  <1>1. CarryKinds
    BY DEF Settled
  <1>2. /\ unsent = {p \in PacketIds : place[p] = "unsent"}
        /\ delivered = {p \in PacketIds : place[p] = "delivered"}
        /\ dropped = {p \in PacketIds : place[p] = "dropped"}
    BY <1>1 DEF CarryKinds, Located
  <1>3. ASSUME NEW p \in PacketIds PROVE StatusOf(p) = LifeOf(place[p])
    <2>1. Stored(p) <=> place[p] = "stored"
      <3>1. Stored(p) <=> \E v \in Vehicles : p \in Ids(m_pwaitqueue[v])
        BY DEF Stored, Ids
      <3> QED
        BY <3>1 DEF Located
    <2>2. /\ p \in unsent <=> place[p] = "unsent"
          /\ p \in delivered <=> place[p] = "delivered"
          /\ p \in dropped <=> place[p] = "dropped"
          /\ p \in lost <=> place[p] = "lost"
          /\ p \notin ttlExpired
      BY <1>1 DEF Located, CarryKinds
    <2>3. place[p] \in PlaceNames
      OBVIOUS
    <2> QED
      BY <2>1, <2>2, <2>3 DEF StatusOf, LifeOf, PlaceNames
  <1> QED
    BY <1>2, <1>3

LEMMA LifeIsSeenNext == LifeSeen'
  BY LifeIsSeen, PTL

\* A step of the data plane is a step of PacketLife, or none.
LEMMA LifeStep ==
    ASSUME CarryInv, Counted, [Next]_vars PROVE [Life!Next]_(Life!vars)
  <1> DEFINE status == [p \in PacketIds |-> StatusOf(p)]
             Keeps == unsent' = unsent /\ delivered' = delivered
  <1>1. PICK place \in [PacketIds -> PlaceNames], at \in [PacketIds -> Vehicles] : Located(place, at)
    BY DEF CarryInv, Everywhere
  <1>2. Settled /\ Settled'
    BY <1>1, EveryStep DEF CarryInv
  <1>3. PICK place2 \in [PacketIds -> PlaceNames], at2 \in [PacketIds -> Vehicles] :
            Located(place2, at2)' /\ Journey(place, place2)
    BY <1>1, EveryStep DEF CarryInv
  <1>4. /\ status = [p \in PacketIds |-> LifeOf(place[p])]
        /\ unsent = {p \in PacketIds : place[p] = "unsent"}
        /\ delivered = {p \in PacketIds : place[p] = "delivered"}
        /\ dropped = {p \in PacketIds : place[p] = "dropped"}
    BY <1>1, <1>2, LifeIsSeen DEF LifeSeen
  <1>5. /\ status' = [p \in PacketIds |-> LifeOf(place2[p])]
        /\ unsent' = {p \in PacketIds : place2[p] = "unsent"}
        /\ delivered' = {p \in PacketIds : place2[p] = "delivered"}
        /\ dropped' = {p \in PacketIds : place2[p] = "dropped"}
    BY <1>2, <1>3, LifeIsSeenNext DEF LifeSeen
  <1>6. /\ unsent \subseteq PacketIds /\ delivered \subseteq PacketIds /\ dropped \subseteq PacketIds
        /\ unsent \cap delivered = {}
    BY <1>4
  <1> DEFINE Count == /\ SendCount = Cardinality(PacketIds \ unsent)
                      /\ recount = Cardinality(delivered) /\ DropCount = Cardinality(dropped)
                      /\ SendCount' = Cardinality(PacketIds \ unsent')
                      /\ recount' = Cardinality(delivered') /\ DropCount' = Cardinality(dropped')
  <1>0. Count
    BY CountedStep DEF Counted
  <1>7. ASSUME Keeps, dropped' = dropped, status' = status PROVE UNCHANGED Life!vars
    BY <1>0, <1>7 DEF Life!vars
  <1>8. CASE Hop(place, place2, {"unsent"}, {"air", "loopback"})
    <2>1. PICK p \in PacketIds, t \in {"air", "loopback"} :
              place[p] = "unsent" /\ place2 = [place EXCEPT ![p] = t]
      BY <1>8 DEF Hop
    <2>2. /\ p \in unsent /\ unsent' = unsent \ {p} /\ delivered' = delivered /\ dropped' = dropped
          /\ p \notin delivered
      BY <1>4, <1>5, <2>1
    <2>3. status[p] = "unsent" /\ status' = [x \in PacketIds |-> IF x \in {p} THEN "travelling" ELSE status[x]]
      BY <1>4, <1>5, <2>1 DEF LifeOf
    <2>4. /\ PacketIds \ unsent' = (PacketIds \ unsent) \cup {p} /\ p \notin PacketIds \ unsent
          /\ PacketIds \ (unsent' \cup delivered') = (PacketIds \ (unsent \cup delivered)) \cup {p}
      BY <2>2
    <2>5. Cardinality(PacketIds \ unsent') = Cardinality(PacketIds \ unsent) + 1
      BY <2>4, CountOne
    <2> HIDE DEF status
    <2>6. Life!Moves("unsent", "travelling", {p})
      BY <2>3 DEF Life!Moves, status
    <2>7. Life!SendTestPacketToLC_DIS(p)
      BY <1>0, <2>2, <2>4, <2>5, <2>6 DEF Life!SendTestPacketToLC_DIS
    <2> QED
      BY <2>7 DEF Life!Next
  <1>9. CASE Hop(place, place2, {"air", "loopback"}, {"air", "dropped", "stored"})
    <2>1. PICK p \in PacketIds, t \in {"air", "dropped", "stored"} :
              place[p] \in {"air", "loopback"} /\ place2 = [place EXCEPT ![p] = t]
      BY <1>9 DEF Hop
    <2>2. /\ unsent' = unsent /\ delivered' = delivered /\ p \notin dropped
          /\ dropped' = IF t = "dropped" THEN dropped \cup {p} ELSE dropped
      BY <1>4, <1>5, <2>1
    <2>3. /\ status[p] = "travelling"
          /\ status' = [x \in PacketIds |-> IF x \in {p} THEN LifeOf(t) ELSE status[x]]
      BY <1>4, <1>5, <2>1 DEF LifeOf
    <2>4. CASE t = "air"
      <3>1. status' = status
        BY <1>4, <1>5, <2>1, <2>4 DEF LifeOf
      <3> HIDE DEF status
      <3> QED
        BY <1>7, <2>2, <2>4, <3>1
    <2>5. CASE t = "dropped"
      <3>1. Cardinality(dropped') = Cardinality(dropped) + 1
        BY <1>6, <2>2, <2>5, CountOne
      <3>2. Life!Moves("travelling", "dropped", {p})
        BY <2>3, <2>5 DEF Life!Moves, LifeOf
      <3>3. Life!DropPacket(p)
        BY <1>0, <2>2, <3>1, <3>2 DEF Life!DropPacket
      <3> QED
        BY <3>3 DEF Life!Next
    <2>6. CASE t = "stored"
      <3>1. Life!Moves("travelling", "stored", {p})
        BY <2>3, <2>6 DEF Life!Moves, LifeOf
      <3>2. Life!StorePacket(p)
        BY <1>0, <2>2, <2>6, <3>1 DEF Life!StorePacket
      <3> QED
        BY <3>2 DEF Life!Next
    <2> QED
      BY <2>4, <2>5, <2>6
  <1>10. CASE Hop(place, place2, {"air"}, {"delivered"})
    <2>1. PICK p \in PacketIds : place[p] = "air" /\ place2 = [place EXCEPT ![p] = "delivered"]
      BY <1>10 DEF Hop
    <2>2. /\ unsent' = unsent /\ delivered' = delivered \cup {p} /\ dropped' = dropped
          /\ p \notin delivered
      BY <1>4, <1>5, <2>1
    <2>3. /\ status[p] = "travelling"
          /\ status' = [x \in PacketIds |-> IF x \in {p} THEN "delivered" ELSE status[x]]
      BY <1>4, <1>5, <2>1 DEF LifeOf
    <2>4. Cardinality(delivered') = Cardinality(delivered) + 1
      BY <1>6, <2>2, CountOne
    <2>5. PacketIds \ (unsent' \cup delivered') = (PacketIds \ (unsent \cup delivered)) \ {p}
      BY <2>2
    <2>6. Life!Moves("travelling", "delivered", {p})
      BY <2>3 DEF Life!Moves
    <2>7. Life!ReceivePacket(p)
      BY <1>0, <2>2, <2>4, <2>5, <2>6 DEF Life!ReceivePacket
    <2> QED
      BY <2>7 DEF Life!Next
  <1>11. CASE Hop(place, place2, {"air"}, {"lost"})
    <2>1. PICK p \in PacketIds : place[p] = "air" /\ place2 = [place EXCEPT ![p] = "lost"]
      BY <1>11 DEF Hop
    <2>2. unsent' = unsent /\ delivered' = delivered /\ dropped' = dropped
      BY <1>4, <1>5, <2>1
    <2>3. /\ status[p] = "travelling"
          /\ status' = [x \in PacketIds |-> IF x \in {p} THEN "lost" ELSE status[x]]
      BY <1>4, <1>5, <2>1 DEF LifeOf
    <2>4. Life!Moves("travelling", "lost", {p})
      BY <2>3 DEF Life!Moves
    <2>5. Life!Lose(p)
      BY <1>0, <2>2, <2>4 DEF Life!Lose
    <2> QED
      BY <2>5 DEF Life!Next
  <1>12. CASE Hop(place, place2, {"sending"}, {"loopback"}) \/ place2 = place
    <2>1. \A x \in PacketIds : LifeOf(place2[x]) = LifeOf(place[x])
                              /\ (place2[x] \in {"unsent", "delivered", "dropped"} => place2[x] = place[x])
                              /\ (place[x] \in {"unsent", "delivered", "dropped"} => place2[x] = place[x])
      BY <1>12 DEF Hop, LifeOf
    <2>2. unsent' = unsent /\ delivered' = delivered /\ dropped' = dropped
      BY <1>4, <1>5, <2>1
    <2>3. status' = status
      BY <1>4, <1>5, <2>1
    <2> HIDE DEF status
    <2> QED
      BY <1>7, <2>2, <2>3
  <1>13. CASE Reviewed(place, place2)
    <2>1. PICK sent \in SUBSET PacketIds, late \in SUBSET PacketIds :
              /\ sent \cap late = {}
              /\ \A x \in PacketIds :
                    /\ x \in sent \cup late => place[x] = "stored"
                    /\ LifeOf(place2[x]) = IF x \in sent THEN "travelling"
                                           ELSE IF x \in late THEN "dropped" ELSE LifeOf(place[x])
      BY <1>13 DEF Reviewed
    <2>2. \A x \in PacketIds : /\ place2[x] = "unsent" <=> place[x] = "unsent"
                               /\ place2[x] = "delivered" <=> place[x] = "delivered"
                               /\ place2[x] = "dropped" <=> place[x] = "dropped" \/ x \in late
      BY <2>1 DEF LifeOf
    <2>3. unsent' = unsent /\ delivered' = delivered /\ dropped' = dropped \cup late
      BY <1>4, <1>5, <2>2
    <2>4. dropped \cap late = {}
      BY <1>4, <2>1
    <2>5. Cardinality(dropped') = Cardinality(dropped) + Cardinality(late)
      BY <1>6, <2>3, <2>4, CountMany
    <2>6. /\ \A x \in sent \cup late : status[x] = "stored"
          /\ status' = [x \in PacketIds |-> IF x \in sent THEN "travelling"
                                            ELSE IF x \in late THEN "dropped" ELSE status[x]]
      BY <1>4, <1>5, <2>1 DEF LifeOf
    <2>7. Life!Review(sent, late)
      <3>1. /\ UNCHANGED <<PacketIds \ (unsent \cup delivered), SendCount, recount>>
            /\ DropCount' = DropCount + Cardinality(late)
        BY <1>0, <2>3, <2>5
      <3>2. Life!Cardinality(late) = Cardinality(late)
        BY Zenon DEF Life!Cardinality, Cardinality
      <3> QED
        BY <2>1, <2>6, <3>1, <3>2 DEF Life!Review
    <2> QED
      BY <2>7 DEF Life!Next
  <1> QED
    BY <1>3, <1>8, <1>9, <1>10, <1>11, <1>12, <1>13 DEF Journey

\* Whatever the vehicles do with a packet, the scenario sees a legal life of it.
THEOREM Refinement == Spec => ImplementsPacketLife
  <1>1. Init => Life!Init
    <2> SUFFICES ASSUME Init PROVE Life!Init
      OBVIOUS
    <2>1. \A p \in PacketIds : StatusOf(p) = "unsent"
      <3>1. \A p \in PacketIds : /\ p \in unsent /\ p \notin delivered /\ p \notin dropped
                                 /\ p \notin lost /\ p \notin ttlExpired
        BY DEF Init
      <3>2. \A p \in PacketIds : ~Stored(p)
        BY DEF Init, Stored
      <3> QED
        BY <3>1, <3>2 DEF StatusOf
    <2>2. /\ PacketIds \ (unsent \cup delivered) = {} /\ PacketIds \ unsent = {}
          /\ SendCount = 0 /\ recount = 0 /\ DropCount = 0
      BY DEF Init
    <2> QED
      BY <2>1, <2>2 DEF Life!Init
  <1>2. CarryInv /\ Counted /\ [Next]_vars => [Life!Next]_(Life!vars)
    BY LifeStep
  <1> QED
    BY <1>1, <1>2, CarryCorrect, CountersCorrect, PTL DEF Spec, ImplementsPacketLife, Life!Spec

\* The scenario's counters count packets by their places: with every packet in
\* one place and none discarded unreported, they add up.
LEMMA InvBalances == CarryInv /\ Counted => Life!LedgerBalances
  <1> SUFFICES ASSUME CarryInv, Counted PROVE Life!LedgerBalances
    OBVIOUS
  <1> DEFINE status == [p \in PacketIds |-> StatusOf(p)]
             PLog   == PacketIds \ (unsent \cup delivered)
             Open   == {p \in PacketIds : status[p] \in {"stored", "travelling", "lost"}}
  <1>1. PICK place \in [PacketIds -> PlaceNames], at \in [PacketIds -> Vehicles] : Located(place, at)
    BY DEF CarryInv, Everywhere
  <1>2. /\ status = [p \in PacketIds |-> LifeOf(place[p])]
        /\ unsent = {p \in PacketIds : place[p] = "unsent"}
        /\ delivered = {p \in PacketIds : place[p] = "delivered"}
        /\ dropped = {p \in PacketIds : place[p] = "dropped"}
    BY <1>1, LifeIsSeen DEF LifeSeen, CarryInv
  <1>3. /\ PacketIds \ unsent = delivered \cup PLog /\ delivered \cap PLog = {}
        /\ delivered \in SUBSET PacketIds /\ PLog \in SUBSET PacketIds
    BY <1>2
  <1>4. /\ PLog = Open \cup dropped /\ Open \cap dropped = {}
        /\ Open \in SUBSET PacketIds /\ dropped \in SUBSET PacketIds
    BY <1>2 DEF LifeOf, PlaceNames
  <1> HIDE DEF PLog, Open
  <1>5. Cardinality(PacketIds \ unsent) = Cardinality(delivered) + Cardinality(PLog)
    BY <1>3, CountMany
  <1>6. Cardinality(PLog) = Cardinality(Open) + Cardinality(dropped)
    BY <1>4, CountMany
  <1>7. Cardinality(Open) \in Nat /\ Cardinality(dropped) \in Nat
    BY <1>4, CarryAssumption, FS_Subset, FS_CardinalityType
  <1>8. Cardinality(PLog) - Cardinality(dropped) = Cardinality(Open)
    BY <1>6, <1>7
  <1>9. Life!Cardinality(PLog) = Cardinality(PLog) /\ Life!Cardinality(Open) = Cardinality(Open)
    BY Zenon DEF Life!Cardinality, Cardinality
  <1> QED
    BY <1>5, <1>8, <1>9 DEF Life!LedgerBalances, PLog, Open, Counted

\* The numbers MyVanet prints add up, whatever vehicles and radio do: received and
\* logged packets are those sent, and "Store Error", the logged packets less the
\* drops, is the number of packets stored, on their way or lost.
THEOREM LedgerCorrect == Spec => []Life!LedgerBalances
  BY CarryCorrect, CountersCorrect, InvBalances, PTL

\* A packet that is delivered, dropped or lost stays so: no late copy is counted.
THEOREM EndsFinal == Spec => Life!EndsAreFinal
  <1>1. [Life!Next]_(Life!vars) => [Life!KeepsEnds]_(Life!vars)
    <2> DEFINE status == [q \in PacketIds |-> StatusOf(q)]
    <2> SUFFICES ASSUME Life!Next, NEW p \in PacketIds, status[p] \in Life!Ends
                 PROVE  status'[p] = status[p]
      BY DEF Life!KeepsEnds
    <2>1. status[p] # "unsent" /\ status[p] # "travelling" /\ status[p] # "stored"
      BY DEF Life!Ends
    <2>2. ASSUME NEW q \in PacketIds,
                 \/ Life!SendTestPacketToLC_DIS(q) \/ Life!ReceivePacket(q)
                 \/ Life!DropPacket(q) \/ Life!StorePacket(q) \/ Life!Lose(q)
          PROVE  status'[p] = status[p]
      <3>1. \E from, to : from \in {"unsent", "travelling"} /\ Life!Moves(from, to, {q})
        BY <2>2 DEF Life!SendTestPacketToLC_DIS, Life!ReceivePacket, Life!DropPacket,
                    Life!StorePacket, Life!Lose
      <3> QED
        BY <2>1, <3>1 DEF Life!Moves
    <2>3. ASSUME NEW sent \in SUBSET PacketIds, NEW late \in SUBSET PacketIds, Life!Review(sent, late)
          PROVE  status'[p] = status[p]
      BY <2>1, <2>3 DEF Life!Review
    <2> QED
      BY <2>2, <2>3 DEF Life!Next
  <1>2. CarryInv /\ Counted /\ [Next]_vars => [Life!Next]_(Life!vars)
    BY LifeStep
  <1> QED
    BY <1>1, <1>2, CarryCorrect, CountersCorrect, PTL DEF Spec, Life!EndsAreFinal

==============================================================================
