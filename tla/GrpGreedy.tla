-------------------------------- MODULE GrpGreedy --------------------------------
(***************************************************************************)
(* The geometry of forwarding (IntraPathRouting, isBetweenSegment,             *)
(* GetDirection and GetNearestJID of grp.cc) under RouteOutput and RouteInput:  *)
(* how a packet is handed from vehicle to vehicle on its way to a junction,     *)
(* each choosing among the positions its neighbours have announced.            *)
(*                                                                          *)
(* The map has junction A with roads to B, where the sink stands, and to C.     *)
(* A packet takes milliseconds over a hop, so vehicles stand still; what a      *)
(* vehicle knows of a neighbour is nothing, or a place where the neighbour is   *)
(* or was a little earlier.  The table of a vehicle is drawn when the packet    *)
(* first reaches it.  Neighbours that are not symmetric, and those whose place  *)
(* was read out of an ant, count as unknown.  Distances are compared squared.   *)
(***************************************************************************)
EXTENDS Integers, Sequences, SequencesExt, FiniteSetsExt

CONSTANTS
    N,                      \* vehicles 1 .. N, in the order of their addresses
    RoadLength,             \* distance between junctions
    Places,                 \* where vehicles can be on a road: distances from A
    RSSIDistanceThreshold,  \* how far a neighbour may be
    RoadWidth, JunAreaRadius,
    Drift,                  \* how far a vehicle drives within the hold time
    MaxHops                 \* the time to live of a packet

ASSUME GreedyAssumption ==
    /\ N \in Nat \ {0} /\ RoadLength \in Nat /\ Places \subseteq 0 .. RoadLength
    /\ RSSIDistanceThreshold \in Nat /\ Drift \in Nat /\ MaxHops \in Nat \ {0}
    /\ JunAreaRadius \in Nat /\ RoadWidth \in Nat
    /\ 2 * JunAreaRadius < RoadLength /\ RoadWidth < JunAreaRadius

VARIABLES
    pos,        \* where each vehicle is
    m_neiTable, \* what each vehicle knows of the others
    trail,      \* the vehicles that had the packet
    goals,      \* the junctions they sent it to
    ahead,      \* the list in the packet's header from next_jid_idx on
    end         \* stored, delivered or dropped, or none of these yet

greedyVars == <<pos, m_neiTable, trail, goals, ahead, end>>

Vehicles == 1 .. N
Sink == 0
NoHop == -1
Unknown == <<-1, -1>>

m_map == [A |-> <<0, 0>>, B |-> <<RoadLength, 0>>, C |-> <<0, RoadLength>>]
m_rsujid == "B"

RoadTo(jid) == {IF jid = "B" THEN <<d, 0>> ELSE <<0, d>> : d \in Places}
Roads == RoadTo("B") \cup RoadTo("C")

Square(x) == x * x
Dis2(p, q) == Square(p[1] - q[1]) + Square(p[2] - q[2])

\* The junction whose area a vehicle is in (m_JunAreaTag), or none.
Areas(p) == {j \in DOMAIN m_map : Dis2(p, m_map[j]) < Square(JunAreaRadius)}

\* m_currentJID and m_nextJID: either way on a road, from the junction in its area.
Segments(p) ==
    {s \in {<<"A", "B">>, <<"B", "A">>, <<"A", "C">>, <<"C", "A">>} :
        /\ p \in RoadTo(IF s[1] = "A" THEN s[2] ELSE s[1])
        /\ Areas(p) \subseteq {s[1]}}

-------------------------------------------------------------------------------
(* Geometry *)

GetDirection(currentJID, nextJID) ==
    LET c == m_map[currentJID]
        n == m_map[nextJID]
    IN  IF n[2] = c[2] THEN IF n[1] > c[1] THEN 0 ELSE 2
        ELSE IF n[2] > c[2] THEN 1 ELSE 3

GetNearestJID(p, currentJID, nextJID) ==
    IF Dis2(p, m_map[currentJID]) < Dis2(p, m_map[nextJID]) THEN currentJID ELSE nextJID

isBetweenSegment(p, cjid, djid) ==
    LET wide == 2 - (GetDirection(cjid, djid) % 2)      \* the coordinate across the road
        Margin(i) == IF i = wide THEN RoadWidth ELSE 0
    IN  \A i \in 1 .. 2 :
            /\ p[i] >= Min({m_map[cjid][i], m_map[djid][i]}) - Margin(i)
            /\ p[i] <= Max({m_map[cjid][i], m_map[djid][i]}) + Margin(i)

\* One turn of the loop over the neighbour table of a vehicle at p.
Closer_OrEqual(p, cjid, dstjid, i, at, best) ==
    IF /\ at # Unknown
       /\ Dis2(at, m_map[dstjid]) <= best.mindis
       /\ Dis2(at, p) < Square(RSSIDistanceThreshold)
       /\ Areas(p) = {} \/ isBetweenSegment(at, cjid, dstjid)
    THEN [mindis |-> Dis2(at, m_map[dstjid]), nextHop |-> i] ELSE best

Closer_AnyNearer(p, cjid, dstjid, i, at, best) ==
    IF /\ at # Unknown
       /\ Dis2(at, m_map[dstjid]) < Dis2(p, m_map[dstjid])
       /\ Dis2(at, p) < Square(RSSIDistanceThreshold)
       /\ Areas(p) = {} \/ isBetweenSegment(at, cjid, dstjid)
    THEN [mindis |-> Dis2(at, m_map[dstjid]), nextHop |-> i] ELSE best

Closer(p, cjid, dstjid, i, at, best) ==
    IF /\ at # Unknown
       /\ Dis2(at, m_map[dstjid]) < best.mindis
       /\ Dis2(at, p) < Square(RSSIDistanceThreshold)
       /\ Areas(p) = {} \/ isBetweenSegment(at, cjid, dstjid)
    THEN [mindis |-> Dis2(at, m_map[dstjid]), nextHop |-> i] ELSE best

\* The loop in the order of the addresses.
Best(p, table, cjid, dstjid, start) ==
    LET best[i \in 0 .. N] == IF i = 0 THEN start
                              ELSE Closer(p, cjid, dstjid, i, table[i], best[i - 1])
    IN  best[N]

IntraPathRouting_Anyone(p, table, cjid, dstjid) ==
    IF Dis2(p, m_map[m_rsujid]) < Square(RSSIDistanceThreshold) THEN Sink
    ELSE Best(p, table, cjid, dstjid,
              [mindis |-> 4 * Square(RoadLength), nextHop |-> NoHop]).nextHop

IntraPathRouting(p, table, cjid, dstjid) ==
    IF Dis2(p, m_map[m_rsujid]) < Square(RSSIDistanceThreshold) THEN Sink
    ELSE Best(p, table, cjid, dstjid,
              [mindis |-> Dis2(p, m_map[dstjid]), nextHop |-> NoHop]).nextHop

-------------------------------------------------------------------------------
(* The way of a packet *)

\* What a vehicle may know of the others.
Tables(v) ==
    {t \in [Vehicles -> Roads \cup {Unknown}] :
        /\ t[v] = Unknown
        /\ \A u \in Vehicles : t[u] = Unknown \/ Dis2(t[u], pos[u]) <= Square(Drift)}

NoTable == [u \in Vehicles |-> Unknown]

\* What DijkstraAlgorithm may return at p: a road that no ant has told this vehicle
\* of is not in its graph, the vehicle's own way to both ends of its segment is.  A
\* detour is never shorter: weights are lengths divided by pheromone below 1.
Plans(p) ==
    IF "A" \in Areas(p) THEN {<<"B">>, <<>>}
    ELSE IF p \in RoadTo("B") THEN {<<"B">>} ELSE {<<"A", "B">>, <<>>}

GreedyInit ==
    /\ pos \in [Vehicles -> Roads]
    /\ \E v \in Vehicles : trail = <<v>>
    /\ m_neiTable = [v \in Vehicles |-> NoTable]
    /\ goals = <<>> /\ ahead = <<>> /\ end = "none"

HandOn(goal, nextHop) ==
    /\ goals' = Append(goals, goal) /\ trail' = Append(trail, nextHop)
    /\ UNCHANGED end

Finish(how) == end' = how /\ UNCHANGED <<trail, goals>>

\* The end of RouteInput: the next hop towards the first junction of the list.
Forward(v, list, segment) ==
    LET nextHop == IntraPathRouting(pos[v], m_neiTable'[v],
                                    GetNearestJID(pos[v], segment[1], segment[2]), Head(list))
    IN  /\ ahead' = list
        /\ CASE nextHop = NoHop -> Finish("stored")
             [] nextHop = Sink  -> Finish("delivered")
             [] OTHER           -> HandOn(Head(list), nextHop)

\* RouteOutput and AddHeader at the source, with RouteInput behind the loopback
\* device, to which a packet for the sink or without next hop goes.  Without a plan
\* the packet is sent to the nearer end of the segment, with an empty list.
RouteOutput(v, plan, segment) ==
    LET goal == GetNearestJID(pos[v], segment[1], segment[2])
        nextHop == IntraPathRouting(pos[v], m_neiTable'[v], goal, goal)
    IN  /\ Len(trail) = 1
        /\ IF plan # <<>> THEN Forward(v, plan, segment)
           ELSE /\ ahead' = <<>>
                /\ IF Areas(pos[v]) = {} /\ nextHop \in Vehicles THEN HandOn(goal, nextHop)
                   ELSE Finish("stored")

\* A packet without a list is planned for.  In a junction's area it goes on along
\* the list if that led here, else it is planned for anew.
NextList(v, plan) ==
    LET list == IF ahead = <<>> THEN plan ELSE ahead
    IN  IF Areas(pos[v]) = {} \/ list = <<>> THEN list
        ELSE IF Head(list) \in Areas(pos[v]) /\ m_rsujid \notin Areas(pos[v]) THEN Tail(list)
        ELSE plan

RouteInput(v, plan, segment) ==
    /\ Len(trail) \in 2 .. MaxHops
    /\ IF NextList(v, plan) # <<>> THEN Forward(v, NextList(v, plan), segment)
       ELSE ahead' = <<>> /\ Finish("stored")

\* The time to live is over: RouteInput drops the packet before it looks at it.
Drop == Len(trail) > MaxHops /\ Finish("dropped") /\ UNCHANGED <<ahead, m_neiTable>>

GreedyNext ==
    /\ end = "none" /\ UNCHANGED pos
    /\ \/ \E v \in {Last(trail)} :
          /\ \E table \in IF v \in ToSet(Front(trail)) THEN {m_neiTable[v]} ELSE Tables(v) :
                m_neiTable' = [m_neiTable EXCEPT ![v] = table]
          /\ \E plan \in Plans(pos[v]), segment \in Segments(pos[v]) :
                RouteOutput(v, plan, segment) \/ RouteInput(v, plan, segment)
       \/ Drop

GreedySpec == GreedyInit /\ [][GreedyNext]_greedyVars

-------------------------------------------------------------------------------
(* Properties *)

Steps == 1 .. Len(trail) - 1
ToGoal(k, p) == Dis2(p, m_map[goals[k]])
Announced(k, u) == m_neiTable[trail[k]][u]

\* On the road between A and a junction; near A the roads overlap.
On(jid) == RoadTo(jid) \cup {p \in Roads : p[1] <= RoadWidth /\ p[2] <= RoadWidth}

\* In reach and, seen from a junction, on the road ahead: with goal A that is the
\* road from C.
Eligible(k, at) ==
    /\ at # Unknown /\ Dis2(at, pos[trail[k]]) < Square(RSSIDistanceThreshold)
    /\ Areas(pos[trail[k]]) # {} => at \in On(IF goals[k] = "A" THEN "C" ELSE "B")

\* The loop finds the best neighbour: the one the packet is given to has announced
\* a place nearer than the vehicle itself, in reach and, seen from a junction, not
\* on another road; no other such neighbour is nearer to the goal.
BestNeighbour ==
    \A k \in Steps :
        LET chosen == Announced(k, trail[k + 1])
        IN  /\ Eligible(k, chosen)
            /\ ToGoal(k, chosen) < ToGoal(k, pos[trail[k]])
            /\ \A u \in Vehicles : Eligible(k, Announced(k, u))
                    => ToGoal(k, Announced(k, u)) >= ToGoal(k, chosen)

Fresh == \A v, u \in Vehicles : m_neiTable[v][u] \in {Unknown, pos[u]}

\* The order in which a packet is sent to the junctions.
Rank == [A |-> 2, B |-> 3, C |-> 1]

\* While the announced places are right, greedy forwarding brings a packet back to
\* a vehicle only if it was meanwhile sent on to a further junction: behind A, or
\* by the first vehicle that has a plan.  So it never goes round in a circle.
ReturnsOnlyWithNewGoal ==
    Fresh => \A a, b \in 1 .. Len(trail) :
        a < b /\ trail[a] = trail[b] => Rank[goals[a]] < Rank[goals[b - 1]]

\* What the comment in IntraPathRouting says of its test: the packet is not handed
\* from one road to a vehicle on another.
KeepsToRoad ==
    \A k \in Steps :
        LET at == Announced(k, trail[k + 1])
        IN  Areas(pos[trail[k]]) = {} /\ Areas(at) = {} =>
                (pos[trail[k]] \in RoadTo("B") <=> at \in RoadTo("B"))

\* The square roots of a and b differ by less than h.
Within(a, b, h) == a + b - h * h < 0 \/ Square(a + b - h * h) < 4 * a * b

\* Vehicles that pass a packet back and forth on its way to a junction are
\* equally far from it, give or take what they have driven since their beacons:
\* an old position cannot draw a packet into a circle any larger.
LoopsAreShort ==
    \A k \in 1 .. Len(trail) - 2 :
        (trail[k] = trail[k + 2] /\ goals[k] = goals[k + 1])
            => Within(ToGoal(k, pos[trail[k]]), ToGoal(k, pos[trail[k + 1]]), Drift)

==============================================================================
