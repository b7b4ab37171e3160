-------------------------------- MODULE GrpPath --------------------------------
(***************************************************************************)
(* The junction list in the header of a data packet: planned at the source   *)
(* (AddHeader), walked and re-planned hop by hop (RouteInput) and re-planned *)
(* while the packet is carried (CheckPacketQueue).  One packet is followed;  *)
(* packets do not influence each other's headers.  GrpCarry says in which    *)
(* queues packets are, with which TTL; here only the last queue is kept.     *)
(*                                                                          *)
(* A plan is what DijkstraAlgorithm returns on the pheromone graph of the    *)
(* vehicle at hand: pheromone differs between vehicles and changes, so it is *)
(* any simple road path to the RSU's junction, or none (GrpRoads models the  *)
(* search itself).  Which next hop is found is free, as in GrpCarry.         *)
(***************************************************************************)
EXTENDS Integers, Sequences, FiniteSets

CONSTANTS
    Junctions,      \* the junctions of the map
    Roads,          \* pairs of junctions joined by a road segment, both ways
    Rsu,            \* m_rsujid, the junction of the sink
    OffMap          \* what a read past the end of the list may yield besides a junction

ASSUME PathAssumption ==
    /\ IsFiniteSet(Junctions) /\ Rsu \in Junctions /\ OffMap \notin Junctions
    /\ Roads \subseteq Junctions \X Junctions
    /\ \A r \in Roads : r[1] # r[2] /\ <<r[2], r[1]>> \in Roads

VARIABLES
    place,      \* where the packet is
    path,       \* path in its header
    idx,        \* next_jid_idx in its header
    pos,        \* the vehicle that holds it: m_currentJID, m_nextJID, m_JunAreaTag
    aim         \* the last junction IntraPathRouting was called for, and from where

vars == <<place, path, idx, pos, aim>>

Places    == {"app", "loopback", "air", "stored", "squeue", "sink"}
Hops      == {"none", "vehicle", "dest"}
Positions == {[cur |-> r[1], nxt |-> r[2], jun |-> b] : r \in Roads, b \in BOOLEAN}

\* Simple road paths to the RSU.
Routes ==
    {s \in UNION {[1 .. n -> Junctions] : n \in 1 .. Cardinality(Junctions)} :
        /\ s[Len(s)] = Rsu
        /\ \A i \in 1 .. Len(s) - 1 : <<s[i], s[i + 1]>> \in Roads
        /\ \A i, j \in 1 .. Len(s) : s[i] = s[j] => i = j}

\* What the vehicle's search may return: from m_currentJID, which is left out of
\* the list, or from the vehicle itself, an extra vertex joined to both ends of
\* its segment.
Plans(p) ==
    IF p.jun
    THEN IF p.cur = Rsu
         THEN {<<Rsu>>}
         ELSE {<<>>} \cup {s \in Routes : /\ <<p.cur, s[1]>> \in Roads
                                          /\ \A i \in 1 .. Len(s) : s[i] # p.cur}
    ELSE {<<>>} \cup {s \in Routes : s[1] \in {p.cur, p.nxt}}

\* path[i] in C++, which may lie behind the end.
Read(s, i) == IF i < Len(s) THEN {s[i + 1]} ELSE Junctions \cup {OffMap}

Aim(jid, p) == [jid |-> jid, cur |-> p.cur, jun |-> p.jun]

Init ==
    /\ place = "app" /\ path = <<>> /\ idx = 0
    /\ pos \in Positions
    /\ aim = Aim(pos.cur, [pos EXCEPT !.jun = FALSE])

-------------------------------------------------------------------------------
(* RouteOutput chooses the route, AddHeader plans again on the same graph.  A   *)
(* packet without a plan aims at the nearer end of the segment; in a junction   *)
(* area it takes the loopback device whatever was found.                        *)

RouteOutput(plan, hop) ==
    /\ place = "app"
    /\ path' = plan /\ idx' = 0
    /\ \E jid \in IF plan = <<>> THEN {pos.cur, pos.nxt} ELSE {plan[1]} :
          aim' = IF plan = <<>> /\ pos.jun THEN aim ELSE Aim(jid, pos)
    /\ place' = IF hop = "vehicle" /\ ~(plan = <<>> /\ pos.jun) THEN "air" ELSE "loopback"
    /\ UNCHANGED pos

-------------------------------------------------------------------------------
(* RouteInput *)

\* In a junction area: go on along the list if it led here, else plan anew.
\* The result is a list and an index.
JunctionStep_NoRsuTest(s, i, jid, p, plan) ==
    IF ~p.jun THEN <<s, i>>
    ELSE IF jid = p.cur /\ i < Len(s) THEN <<s, i + 1>>
    ELSE <<plan, IF plan = <<>> THEN i ELSE 0>>

JunctionStep(s, i, jid, p, plan) ==
    IF ~p.jun THEN <<s, i>>
    ELSE IF jid = p.cur /\ p.cur # Rsu /\ i < Len(s) THEN <<s, i + 1>>
    ELSE <<plan, IF plan = <<>> THEN i ELSE 0>>

\* A packet without a list is planned for; without a plan it is stored, with a
\* fresh header.
Store == place' = "stored" /\ path' = <<>> /\ idx' = 0 /\ UNCHANGED aim

\* The rest of RouteInput at position p, with list s and index i.
Forward(s, i, p, plan, hop) ==
    \E jid \in Read(s, i) :
        LET step == JunctionStep(s, i, jid, p, plan)
        IN  IF step[1] = <<>>
            THEN Store
            ELSE /\ \E next \in IF p.jun THEN Read(step[1], step[2]) ELSE {jid} :
                        aim' = Aim(next, p)
                 /\ path' = step[1] /\ idx' = step[2]
                 /\ place' = CASE hop = "none"    -> "stored"
                               [] hop = "vehicle" -> "air"
                               [] hop = "dest"    -> "sink"

RouteInput(p, plan, hop) ==
    /\ IF path # <<>> THEN Forward(path, idx, p, plan, hop)
       ELSE IF plan # <<>> THEN Forward(plan, 0, p, plan, hop)
       ELSE Store
    /\ pos' = p

ReceiveLoopback(plan, hop) == place = "loopback" /\ RouteInput(pos, plan, hop)
ReceiveAir(p, plan, hop)   == place = "air" /\ RouteInput(p, plan, hop)

-------------------------------------------------------------------------------
(* The stored packet *)

\* The list is planned anew; the index is advanced if its first junction is the
\* one the vehicle is in.
CheckIndex_NoReset(plan, i) ==
    IF pos.jun /\ plan[1] = pos.cur /\ 0 < Len(plan) THEN 1 ELSE i

CheckIndex(plan, i) ==
    IF pos.jun /\ plan[1] = pos.cur /\ 0 < Len(plan) THEN 1 ELSE 0

CheckPacketQueue(plan, hop) ==
    /\ place = "stored"
    /\ path' = plan
    /\ \/ /\ plan = <<>>
          /\ UNCHANGED <<place, idx, aim>>
       \/ /\ plan # <<>>
          /\ idx' = CheckIndex(plan, idx)
          /\ \E jid \in Read(plan, idx') : aim' = Aim(jid, pos)
          /\ place' = IF hop = "none" THEN "stored" ELSE "squeue"
    /\ UNCHANGED pos

SendFromSQueue == place = "squeue" /\ place' = "loopback" /\ UNCHANGED <<path, idx, pos, aim>>

\* The vehicle drives on: into the area of the next junction (which a check may
\* leave unmarked at its very edge) or out of the area it is in.
Move ==
    /\ place # "loopback"
    /\ \/ /\ pos.jun
          /\ pos' = [pos EXCEPT !.jun = FALSE]
       \/ /\ ~pos.jun
          /\ \E r \in Roads, b \in BOOLEAN :
                r[1] = pos.nxt /\ pos' = [cur |-> r[1], nxt |-> r[2], jun |-> b]
    /\ UNCHANGED <<place, path, idx, aim>>

Next ==
    \/ \E plan \in Plans(pos), hop \in Hops : RouteOutput(plan, hop)
    \/ \E plan \in Plans(pos), hop \in Hops : ReceiveLoopback(plan, hop)
    \/ \E p \in Positions : \E plan \in Plans(p), hop \in Hops : ReceiveAir(p, plan, hop)
    \/ \E plan \in Plans(pos), hop \in Hops : CheckPacketQueue(plan, hop)
    \/ SendFromSQueue
    \/ Move

Spec == Init /\ [][Next]_vars

-------------------------------------------------------------------------------
(* Properties *)

\* The header holds no list or a road path to the RSU; positions are on the map.
TypeOK ==
    /\ place \in Places
    /\ path \in {<<>>} \cup Routes
    /\ idx \in Nat
    /\ pos \in Positions
    /\ aim \in [jid : Junctions \cup {OffMap}, cur : Junctions, jun : BOOLEAN]

\* The index in a header is inside its list, over all hops, re-plans and
\* carries, except for one case: the packet was looked at in the RSU's own
\* junction, where the list is that junction alone.
OverrunOnlyAtRsu ==
    path # <<>> => \/ idx < Len(path)
                   \/ idx = 1 /\ path = <<Rsu>>

\* In a junction area, other than the RSU's, the packet is sent along a road
\* that leaves this junction and from whose other end the list goes on to the
\* RSU, although the list may have been planned by another vehicle elsewhere.
JunctionAimLeadsToRsu ==
    aim.jun /\ aim.cur # Rsu =>
        /\ <<aim.cur, aim.jid>> \in Roads
        /\ path # <<>> => idx < Len(path) /\ path[idx + 1] = aim.jid

==============================================================================
