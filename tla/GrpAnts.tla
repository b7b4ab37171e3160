-------------------------------- MODULE GrpAnts --------------------------------
(***************************************************************************)
(* The ants of GRP.  A vehicle in a junction area launches an ant; forwarders *)
(* on the way pass it on, those in a new junction append that junction to its *)
(* list and raise its version (ProcessAnt).  Every vehicle that hears an ant  *)
(* deposits pheromone on the pairs of junctions it has not yet seen of that   *)
(* ant, by comparing versions (update_matrix).                                *)
(*                                                                          *)
(* An ant is broadcast with one next forwarder in it; any vehicle may hear it *)
(* or miss it.  Which neighbour becomes the forwarder depends on positions    *)
(* reported in beacons: here it is any other vehicle or none.  A vehicle may  *)
(* be in any junction area, or in none, whenever it processes an ant.  The    *)
(* amount of pheromone is left out; what counts is on which pairs, how often. *)
(* A message that is ignored because the neighbour table knows a newer one    *)
(* (GrpNeighbors) counts as missed.                                           *)
(***************************************************************************)
EXTENDS Integers, Sequences, FiniteSets, SequencesExt

CONSTANTS
    Vehicles,           \* the vehicles
    Launchers,          \* those that are in a junction area when their ant timer expires
    Junctions,          \* the junctions
    MaxPathLength,      \* max_path_length
    MaxAnts             \* ants a vehicle launches; below 2^16, so m_antSeqNum does not wrap

ASSUME AntAssumption ==
    /\ Launchers \subseteq Vehicles
    /\ IsFiniteSet(Junctions) /\ Cardinality(Junctions) < MaxPathLength
    /\ MaxPathLength \in Nat /\ MaxAnts \in 0 .. 2^16 - 1

VARIABLES
    m_antSeqNum,            \* per vehicle: the number of its last ant
    queued,                 \* ants that wait for the jitter timer of their vehicle
    air,                    \* ants on their way to a vehicle
    m_received_last_ant,    \* per vehicle and ant: the version recorded, or NoVersion
    deposits,               \* per vehicle and ant: the pairs given pheromone, in order
    trail                   \* per ant: the longest list any forwarder made of it

vars == <<m_antSeqNum, queued, air, m_received_last_ant, deposits, trail>>

NoVersion == -1
Loopback  == "127.0.0.1"
Segment   == "segment"                  \* m_JunAreaTag is false
AntIds    == Launchers \X (1 .. MaxAnts)

Forwarders(v) == {Loopback} \cup (Vehicles \ {v})

Init ==
    /\ m_antSeqNum = [v \in Launchers |-> 0]
    /\ queued = {} /\ air = {}
    /\ m_received_last_ant = [v \in Vehicles |-> [a \in AntIds |-> NoVersion]]
    /\ deposits = [v \in Vehicles |-> [a \in AntIds |-> <<>>]]
    /\ trail = [a \in AntIds |-> <<>>]

-------------------------------------------------------------------------------
(* Launching *)

\* GetNextForwarderInAnchor found a road with a neighbour on it; otherwise no
\* ant is launched.
AntTimerExpire(v, here, fwd) ==
    LET id  == <<v, m_antSeqNum[v] + 1>>
        ant == [id |-> id, version |-> 0, seq |-> <<here>>, stamps |-> 1, next |-> fwd]
    IN  /\ m_antSeqNum[v] < MaxAnts
        /\ fwd # Loopback
        /\ m_antSeqNum' = [m_antSeqNum EXCEPT ![v] = @ + 1]
        /\ queued' = queued \cup {[ant |-> ant, by |-> v]}
        /\ trail' = [trail EXCEPT ![id] = <<here>>]
        /\ UNCHANGED <<air, m_received_last_ant, deposits>>

\* SendQueuedMessages: the others hear the broadcast or not.
SendQueuedMessages(q, hearers) ==
    /\ q \in queued
    /\ queued' = queued \ {q}
    /\ air' = air \cup {[ant |-> q.ant, to |-> w] : w \in hearers}
    /\ UNCHANGED <<m_antSeqNum, m_received_last_ant, deposits, trail>>

-------------------------------------------------------------------------------
(* ProcessAnt *)

IsNew_SameAgain(v, ant) ==
    m_received_last_ant[v][ant.id] <= ant.version

IsNew(v, ant) ==
    m_received_last_ant[v][ant.id] < ant.version

\* update_matrix walks back from the end of the list, over the steps that were
\* added since the version recorded here.
NewPairs_WholeList(v, ant) ==
    [i \in 1 .. ant.version |-> <<ant.seq[Len(ant.seq) - i], ant.seq[Len(ant.seq) + 1 - i]>>]

NewPairs(v, ant) ==
    LET last == m_received_last_ant[v][ant.id]
        num  == IF last = NoVersion THEN ant.version ELSE ant.version - last
    IN  [i \in 1 .. num |-> <<ant.seq[Len(ant.seq) - i], ant.seq[Len(ant.seq) + 1 - i]>>]

update_matrix(v, ant) ==
    /\ m_received_last_ant' = [m_received_last_ant EXCEPT ![v][ant.id] = ant.version]
    /\ deposits' = [deposits EXCEPT ![v][ant.id] = @ \o NewPairs(v, ant)]

\* A junction that is not on the list yet is appended.
Extend(ant, here, fwd) ==
    LET longer == [ant EXCEPT !.seq = Append(@, here)]
    IN  IF Len(longer.seq) < MaxPathLength
        THEN [longer EXCEPT !.stamps = @ + 1, !.version = @ + 1, !.next = fwd]
        ELSE longer

\* The ant after its forwarder, in junction area `here', has treated it.  In a
\* junction that is on the list it is left alone: it still names the forwarder.
Advance_Revisit(ant, here, fwd) ==
    IF here = Segment THEN [ant EXCEPT !.next = fwd] ELSE Extend(ant, here, fwd)

Advance(ant, here, fwd) ==
    IF here = Segment THEN [ant EXCEPT !.next = fwd]
    ELSE IF here \in ToSet(ant.seq) THEN ant
    ELSE Extend(ant, here, fwd)

ForwardQueue_Everyone(v, ant, here, fwd) ==
    queued \cup {[ant |-> IF ant.next = v /\ IsNew(v, ant) THEN Advance(ant, here, fwd) ELSE ant,
                  by  |-> v]}

\* The forwarder sends the ant on in any case, also when it had recorded this
\* version before: then as it came, and nobody is named but itself.
ForwardQueue(v, ant, here, fwd) ==
    IF ant.next # v THEN queued
    ELSE queued \cup {[ant |-> IF IsNew(v, ant) THEN Advance(ant, here, fwd) ELSE ant,
                       by  |-> v]}

ProcessAnt(v, m, here, fwd) ==
    LET ant    == m.ant
        onward == Advance(ant, here, fwd)
    IN  /\ m \in air /\ m.to = v
        /\ air' = air \ {m}
        /\ IF IsNew(v, ant) THEN update_matrix(v, ant)
           ELSE UNCHANGED <<m_received_last_ant, deposits>>
        /\ queued' = ForwardQueue(v, ant, here, fwd)
        /\ trail' = IF ant.next = v /\ IsNew(v, ant) /\ Len(onward.seq) > Len(trail[ant.id])
                    THEN [trail EXCEPT ![ant.id] = onward.seq] ELSE trail
        /\ UNCHANGED m_antSeqNum

\* Where the forwarder is and which next one it finds; both play no role for
\* anybody else.
Turns(v, ant) ==
    IF ant.next = v /\ IsNew(v, ant)
    THEN (Junctions \cup {Segment}) \X Forwarders(v)
    ELSE {<<Segment, Loopback>>}

Next ==
    \/ \E v \in Launchers, here \in Junctions : \E fwd \in Forwarders(v) :
          AntTimerExpire(v, here, fwd)
    \/ \E q \in queued : \E hearers \in SUBSET (Vehicles \ {q.by}) :
          SendQueuedMessages(q, hearers)
    \/ \E m \in air : \E t \in Turns(m.to, m.ant) : ProcessAnt(m.to, m, t[1], t[2])

Spec == Init /\ [][Next]_vars

-------------------------------------------------------------------------------
(* Properties *)

Copies == {q.ant : q \in queued} \cup {m.ant : m \in air}

\* However many copies of an ant are around, old and new, their lists are
\* beginnings of one list without a repeated junction, and the version is one
\* less than its length: comparing versions is comparing lists, and the loop of
\* update_matrix stays inside the list, only because of this.  There is a time
\* stamp per junction, as update_matrix asserts.
CopiesAgree ==
    \A ant \in Copies : /\ Len(ant.seq) = ant.version + 1 /\ Len(ant.seq) = ant.stamps
                        /\ IsPrefix(ant.seq, trail[ant.id])
                        /\ \A i, j \in DOMAIN ant.seq : ant.seq[i] = ant.seq[j] => i = j

\* Whatever a vehicle hears or misses, twice or out of order: it has deposited
\* exactly once on each pair of the ant's list up to the version it recorded.
DepositedOnce ==
    \A v \in Vehicles, a \in AntIds :
        LET n == IF m_received_last_ant[v][a] = NoVersion THEN 0 ELSE m_received_last_ant[v][a]
        IN  /\ Len(deposits[v][a]) = n
            /\ ToSet(deposits[v][a]) = {<<trail[a][i], trail[a][i + 1]>> : i \in 1 .. n}

\* A copy that will still be forwarded: waiting to be sent to somebody else, or
\* on its way to the forwarder it names.
LiveCopies(a) ==
    {q \in queued : q.ant.id = a /\ q.ant.next \in Vehicles \ {q.by}}
    \cup {m \in air : m.ant.id = a /\ m.ant.next = m.to}

\* Broadcasting does not multiply ants: at most one copy of an ant goes on.
OneLiveCopy == \A a \in AntIds : Cardinality(LiveCopies(a)) <= 1

\* No ant circulates for ever, although it has no hop limit and may come back to
\* vehicles that had it: a vehicle passes an ant on to another one only while the
\* version it has recorded of it rises, and versions stay below the number of
\* junctions.
PassingOnIsProgress ==
    [][\A a \in AntIds : \A q \in (LiveCopies(a)' \cap queued') \ queued :
          \/ m_antSeqNum' # m_antSeqNum
          \/ /\ m_received_last_ant[q.by][a] < m_received_last_ant'[q.by][a]
             /\ m_received_last_ant'[q.by][a] < Cardinality(Junctions)]_vars

==============================================================================
