-------------------------------- MODULE GrpRoads --------------------------------
(***************************************************************************)
(* The search for the route of a data packet over the junctions              *)
(* (DijkstraAlgorithm and its callers in grp.cc).  A vehicle on a segment     *)
(* enters itself as an extra vertex, number m_JuncNum, with an edge to both    *)
(* ends of the segment, searches, and takes the edges out again; in a          *)
(* junction it searches from the junction.  One step is one turn of the outer  *)
(* loop or one step back along parent.  Between searches ants change the       *)
(* weights.                                                                  *)
(*                                                                          *)
(* The code declares its arrays with m_JuncNum elements and uses element       *)
(* m_JuncNum too; here that element exists.                                   *)
(***************************************************************************)
EXTENDS Integers, Sequences, SequencesExt, FiniteSetsExt

CONSTANTS
    JuncNum,        \* m_JuncNum, junctions 0 .. JuncNum - 1
    rsujid,         \* m_rsujid, the junction of the RSU
    Weights,        \* the weights a road can have once an ant has passed
    INF             \* the weight of no road

ASSUME RoadsAssumption ==
    /\ JuncNum \in Nat \ {0} /\ rsujid \in 0 .. JuncNum - 1
    /\ Weights \subseteq Nat \ {0}
    /\ INF \in Nat /\ \A w \in Weights : w * (JuncNum + 1) < INF

VARIABLES
    Graph,      \* the adjacency matrix
    pc,         \* idle, search, trace or done
    srcjid,     \* the vertex the search starts from
    segment,    \* {m_currentJID, m_nextJID} of a vehicle on a segment, else empty
    visited, distance, parent,  \* the arrays of the search
    jid,        \* the loop variable of the way back
    path        \* the result

search == <<srcjid, segment, visited, distance, parent, jid, path>>
vars == <<Graph, pc, search>>

Junctions == 0 .. JuncNum - 1
Vehicle == JuncNum
Vertices == 0 .. JuncNum

NoRoads == [x \in 0 .. JuncNum |-> [y \in 0 .. JuncNum |-> INF]]

Connect(g, x, y, w) == [g EXCEPT ![x][y] = w, ![y][x] = w]

Init ==
    /\ Graph = NoRoads /\ pc = "idle"
    /\ srcjid = Vehicle /\ segment = {} /\ visited = {}
    /\ distance = [v \in Vertices |-> INF] /\ parent = [v \in Vertices |-> -1]
    /\ jid = -1 /\ path = <<>>

\* update_matrix: length divided by pheromone, in both directions.
UpdateGraph(x, y, w) ==
    /\ pc = "idle"
    /\ Graph' = Connect(Graph, x, y, w)
    /\ UNCHANGED <<pc, search>>

\* The start of DijkstraAlgorithm, after its callers have set the source.
Start(src, ends) ==
    /\ srcjid' = src /\ segment' = ends
    /\ visited' = {}
    /\ distance' = [v \in Vertices |-> IF v = src THEN 0 ELSE INF]
    /\ parent' = [v \in Vertices |-> -1]
    /\ jid' = rsujid
    /\ IF src = rsujid THEN path' = <<rsujid>> /\ pc' = "done"
                       ELSE path' = <<>> /\ pc' = "search"

PlanFromJunction(currentJID) ==
    /\ pc = "idle"
    /\ Start(currentJID, {})
    /\ UNCHANGED Graph

PlanFromSegment(currentJID, nextJID, w1, w2) ==
    /\ pc = "idle"
    /\ Graph' = Connect(Connect(Graph, Vehicle, currentJID, w1), Vehicle, nextJID, w2)
    /\ Start(Vehicle, {currentJID, nextJID})

Nearest_Again ==
    LET best == Min({distance[v] : v \in Vertices})
    IN  Min({v \in Vertices : distance[v] = best})

\* The unvisited vertex with the least distance, the lowest-numbered of several.
Nearest ==
    LET rest == Vertices \ visited
        best == Min({distance[v] : v \in rest})
    IN  Min({v \in rest : distance[v] = best})

Relaxed(t) == {j \in Vertices : Graph[t][j] # INF /\ distance[t] + Graph[t][j] < distance[j]}

Search ==
    /\ pc = "search"
    /\ IF visited = Vertices \/ Nearest = rsujid
       THEN /\ pc' = IF distance[rsujid] = INF THEN "done" ELSE "trace"
            /\ UNCHANGED <<visited, distance, parent>>
       ELSE \E t \in {Nearest} :
            /\ visited' = visited \cup {t}
            /\ distance' = [j \in Vertices |->
                  IF j \in Relaxed(t) THEN distance[t] + Graph[t][j] ELSE distance[j]]
            /\ parent' = [j \in Vertices |-> IF j \in Relaxed(t) THEN t ELSE parent[j]]
            /\ UNCHANGED pc
    /\ UNCHANGED <<Graph, srcjid, segment, jid, path>>

TraceBack_Backwards ==
    /\ pc = "trace"
    /\ IF jid = srcjid
       THEN pc' = "done" /\ UNCHANGED <<path, jid>>
       ELSE path' = Append(path, jid) /\ jid' = parent[jid] /\ UNCHANGED pc
    /\ UNCHANGED <<Graph, srcjid, segment, visited, distance, parent>>

\* push_back for every vertex up to the source, then std::reverse.
TraceBack ==
    /\ pc = "trace"
    /\ IF jid = srcjid
       THEN path' = Reverse(path) /\ pc' = "done" /\ UNCHANGED jid
       ELSE path' = Append(path, jid) /\ jid' = parent[jid] /\ UNCHANGED pc
    /\ UNCHANGED <<Graph, srcjid, segment, visited, distance, parent>>

\* Back in the caller, which takes the vehicle's edges out.
Cleared_OneEnd ==
    IF segment = {} THEN Graph ELSE Connect(Graph, Vehicle, Min(segment), INF)

Cleared ==
    [x \in 0 .. JuncNum |-> [y \in 0 .. JuncNum |->
        IF {x, y} \in {{Vehicle, e} : e \in segment} THEN INF ELSE Graph[x][y]]]

Return ==
    /\ pc = "done"
    /\ Graph' = Cleared
    /\ pc' = "idle"
    /\ srcjid' = Vehicle /\ segment' = {} /\ visited' = {}
    /\ distance' = [v \in Vertices |-> INF] /\ parent' = [v \in Vertices |-> -1]
    /\ jid' = -1 /\ path' = <<>>

Next ==
    \/ \E x, y \in Junctions, w \in Weights : x # y /\ UpdateGraph(x, y, w)
    \/ \E c \in Junctions : PlanFromJunction(c)
    \/ \E c, n \in Junctions, w1, w2 \in Weights : c # n /\ PlanFromSegment(c, n, w1, w2)
    \/ Search
    \/ TraceBack
    \/ Return

\* The search is a loop within one event: once called it runs to its end.
Spec == Init /\ [][Next]_vars /\ WF_vars(Search \/ TraceBack)

-------------------------------------------------------------------------------
(* Reference: every way without a repeated junction.                          *)

Ways == UNION {{p \in [1 .. n -> 0 .. JuncNum] : IsInjective(p)} : n \in 1 .. JuncNum + 1}

WaysBetween == [ends \in (0 .. JuncNum) \X (0 .. JuncNum) |->
    {p \in Ways : p[1] = ends[1] /\ Last(p) = ends[2]}]

Follows(p) == \A k \in 1 .. Len(p) - 1 : Graph[p[k]][p[k + 1]] # INF

Length(p) ==
    LET upto[k \in 1 .. Len(p)] == IF k = 1 THEN 0 ELSE upto[k - 1] + Graph[p[k - 1]][p[k]]
    IN  upto[Len(p)]

\* The length of the shortest way from the source to v.
Shortest(v) == Min({INF} \cup {Length(p) : p \in {p \in WaysBetween[srcjid, v] : Follows(p)}})

-------------------------------------------------------------------------------
(* Properties *)

\* What the comment on DijkstraAlgorithm promises: the junctions handed to the
\* packet are roads from the vehicle to the RSU, and no other way is shorter.
\* Without any way the path is empty.
PathIsShortest ==
    (pc = "done" /\ srcjid # rsujid) =>
        IF Shortest(rsujid) = INF THEN path = <<>>
        ELSE /\ Follows(<<srcjid>> \o path)
             /\ Last(path) = rsujid
             /\ Length(<<srcjid>> \o path) = Shortest(rsujid)

\* The vehicle is on the map only while it searches: later searches never route
\* through the place where it once was, and a vehicle on a segment is sent to
\* one of the two ends of that segment.
RoutesUseRoads ==
    /\ pc = "idle" => \A v \in Vertices : Graph[Vehicle][v] = INF
    /\ pc = "done" => Vehicle \notin ToSet(path)
    /\ (pc = "done" /\ segment # {} /\ path # <<>>) => path[1] \in segment

\* The way back along parent is no circle: every search returns.
SearchEnds == pc = "search" ~> pc = "done"

==============================================================================
