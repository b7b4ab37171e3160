----------------------------- MODULE GrpRoadsProofs -----------------------------
(***************************************************************************)
(* DijkstraAlgorithm finds a shortest route, for every road map, every set of   *)
(* weights and every place of the vehicle, and the vehicle leaves no trace on   *)
(* the map.                                                                  *)
(***************************************************************************)
EXTENDS GrpRoads, FiniteSetTheorems, WellFoundedInduction, TLAPS

\* The adjacency matrices.
Maps == [Vertices -> [Vertices -> Weights \cup {INF}]]

\* The arrays of the search and the map have values of their kind.
RoadKinds ==
    /\ Graph \in Maps
    /\ pc \in {"idle", "search", "trace", "done"}
    /\ srcjid \in Vertices /\ segment \subseteq Junctions /\ visited \subseteq Vertices
    /\ distance \in [Vertices -> 0 .. INF]
    /\ parent \in [Vertices -> Vertices \cup {-1}]
    /\ path \in Seq(Vertices)

\* The vehicle is connected to the ends of its segment only, and is the source
\* if it has one.
OffTheMap ==
    /\ \A v \in Vertices : Graph[Vehicle][v] # INF \/ Graph[v][Vehicle] # INF => v \in segment
    /\ pc = "idle" => segment = {}
    /\ pc # "idle" => (segment # {} <=> srcjid = Vehicle)

\* How a vertex other than the source got its distance.
Reached(v) ==
    /\ parent[v] \in visited
    /\ Graph[parent[v]][v] # INF
    /\ distance[v] = distance[parent[v]] + Graph[parent[v]][v]

\* The state of the search: distances are those of ways along parent, vertices
\* are visited in the order of their distances, and all roads that leave a
\* visited vertex have been tried.
Tree ==
    /\ distance[srcjid] = 0
    /\ \A v \in Vertices \ {srcjid} : distance[v] # INF => Reached(v)
    /\ \A v \in visited : \A u \in Vertices \ visited : distance[v] <= distance[u]
    /\ \A v \in visited : \A u \in Vertices :
            Graph[v][u] # INF => distance[u] <= distance[v] + Graph[v][u]

\* The loop has stopped at the RSU: what is not visited is no nearer.
Finished == \A u \in Vertices \ visited : distance[rsujid] <= distance[u]

\* The way back: each vertex after the first is the parent of the one before.
BackFrom(p, last) ==
    /\ p = <<>> => last = rsujid
    /\ p # <<>> => p[1] = rsujid /\ last = parent[p[Len(p)]]
    /\ \A i \in 1 .. Len(p) : p[i] # srcjid /\ distance[p[i]] # INF
    /\ \A i \in 1 .. Len(p) - 1 : p[i + 1] = parent[p[i]]

\* The way forth.
Forth(p) ==
    /\ p # <<>> /\ p[Len(p)] = rsujid
    /\ \A i \in 1 .. Len(p) : p[i] # srcjid /\ distance[p[i]] # INF
    /\ parent[p[1]] = srcjid
    /\ \A i \in 1 .. Len(p) - 1 : p[i] = parent[p[i + 1]]

Stage ==
    /\ pc = "search" => path = <<>> /\ jid = rsujid /\ srcjid # rsujid
    /\ pc = "trace" =>
          /\ srcjid # rsujid /\ Finished
          /\ jid \in Vertices /\ distance[jid] # INF /\ distance[rsujid] # INF
          /\ BackFrom(path, jid)
    /\ pc = "done" /\ srcjid # rsujid =>
          /\ Finished
          /\ IF distance[rsujid] = INF THEN path = <<>> ELSE Forth(path)
    /\ pc = "done" /\ srcjid = rsujid => path = <<rsujid>>

RoadInv == RoadKinds /\ OffTheMap /\ (pc # "idle" => Tree) /\ Stage

-------------------------------------------------------------------------------
(* Facts about the operators *)

\* The vehicle is one more vertex than the junctions; weights are positive.
LEMMA RoadFacts ==
    /\ JuncNum \in Nat /\ INF \in Nat /\ Vertices \subseteq Nat
    /\ Vehicle \in Vertices /\ Junctions \subseteq Vertices /\ Vehicle \notin Junctions
    /\ rsujid \in Junctions
    /\ \A w \in Weights : w \in Nat /\ w > 0
  BY RoadsAssumption DEF Vertices, Vehicle, Junctions

\* A non-empty set of natural numbers has a least element.
LEMMA LeastNatural ==
    ASSUME NEW T, T \subseteq Nat, T # {}
    PROVE  \E n \in T : \A m \in T : n <= m
  <1> DEFINE R == {ss \in Nat \X Nat : ss[1] < ss[2]}
  <1>1. IsWellFoundedOn(R, Nat)
    BY NatLessThanWellFounded DEF OpToRel
  <1>2. PICK x \in T : \A y \in T : <<y, x>> \notin R
    <2> HIDE DEF R
    <2> QED BY <1>1, WFMin
  <1>3. ASSUME NEW y \in T PROVE x <= y
    <2>1. x \in Nat /\ y \in Nat /\ <<y, x>> \in Nat \X Nat
      OBVIOUS
    <2>2. ~(y < x)
      BY <1>2, <2>1
    <2> QED
      BY <2>1, <2>2
  <1> QED
    BY <1>2, <1>3

\* Induction over the natural numbers.
LEMMA Induction ==
    ASSUME NEW S, 0 \in S, \A n \in Nat : n \in S => n + 1 \in S
    PROVE  Nat \subseteq S
  <1> SUFFICES ASSUME Nat \ S # {} PROVE FALSE
    OBVIOUS
  <1>1. PICK n \in Nat \ S : \A m \in Nat \ S : n <= m
    BY LeastNatural
  <1>2. n # 0 /\ n - 1 \in Nat
    BY <1>1
  <1>3. n - 1 \in S
    BY <1>1, <1>2
  <1> QED
    BY <1>1, <1>2, <1>3

\* Min takes the least element.
LEMMA MinIsLeast ==
    ASSUME NEW T, T \subseteq Nat, T # {}
    PROVE  Min(T) \in T /\ \A m \in T : Min(T) <= m
  <1>1. \E n \in T : \A m \in T : n <= m
    BY LeastNatural
  <1> QED
    BY <1>1 DEF Min

\* What Connect writes: one weight, at both places.
LEMMA ConnectValue ==
    ASSUME NEW g \in Maps, NEW x \in Vertices, NEW y \in Vertices,
           x # y, NEW w \in Weights \cup {INF}
    PROVE  /\ Connect(g, x, y, w) \in Maps
           /\ \A a, b \in Vertices : Connect(g, x, y, w)[a][b] =
                    IF (a = x /\ b = y) \/ (a = y /\ b = x) THEN w ELSE g[a][b]
  <1> DEFINE h == [g EXCEPT ![x][y] = w]
  <1>0. g \in [Vertices -> [Vertices -> Weights \cup {INF}]]
    BY DEF Maps
  <1>1. /\ h \in Maps
        /\ \A a, b \in Vertices : h[a][b] = IF a = x /\ b = y THEN w ELSE g[a][b]
    BY <1>0 DEF Maps
  <1>2. Connect(g, x, y, w) = [h EXCEPT ![y][x] = w]
    BY DEF Connect
  <1> HIDE DEF h
  <1>3. /\ [h EXCEPT ![y][x] = w] \in Maps
        /\ \A a, b \in Vertices : [h EXCEPT ![y][x] = w][a][b] = IF a = y /\ b = x THEN w ELSE h[a][b]
    BY <1>1 DEF Maps
  <1>4. ASSUME NEW a \in Vertices, NEW b \in Vertices
        PROVE  Connect(g, x, y, w)[a][b] = IF (a = x /\ b = y) \/ (a = y /\ b = x) THEN w ELSE g[a][b]
    <2>1. Connect(g, x, y, w)[a][b] = IF a = y /\ b = x THEN w ELSE h[a][b]
      BY <1>2, <1>3
    <2>2. h[a][b] = IF a = x /\ b = y THEN w ELSE g[a][b]
      BY <1>1
    <2> QED
      BY <2>1, <2>2
  <1> QED
    BY <1>2, <1>3, <1>4

\* The loop of the search takes an unvisited vertex, and none is nearer.
LEMMA NearestIsNearest ==
    ASSUME RoadKinds, visited # Vertices
    PROVE  /\ Nearest \in Vertices \ visited
           /\ \A u \in Vertices \ visited : distance[Nearest] <= distance[u]
  <1> DEFINE rest == Vertices \ visited
             ds == {distance[v] : v \in rest}
             best == Min(ds)
             vs == {v \in rest : distance[v] = best}
  <1>1. rest # {} /\ rest \subseteq Nat /\ \A v \in rest : distance[v] \in Nat
    <2>1. visited \subseteq Vertices /\ Vertices \subseteq Nat
      BY RoadFacts DEF RoadKinds
    <2>2. \A v \in Vertices : distance[v] \in 0 .. INF
      BY DEF RoadKinds
    <2>3. \A d \in 0 .. INF : d \in Nat
      BY RoadFacts
    <2> QED
      BY <2>1, <2>2, <2>3
  <1>2. ds \subseteq Nat /\ ds # {}
    BY <1>1
  <1>3. best \in ds /\ \A d \in ds : best <= d
    <2> HIDE DEF ds
    <2> QED
      BY <1>2, MinIsLeast
  <1>4. vs # {} /\ vs \subseteq Nat
    <2> HIDE DEF best
    <2> QED
      BY <1>1, <1>3
  <1>5. Min(vs) \in vs
    <2> HIDE DEF vs
    <2> QED
      BY <1>4, MinIsLeast
  <1>6. Nearest = Min(vs)
    BY DEF Nearest
  <1>7. Nearest \in rest /\ distance[Nearest] = best
    BY <1>5, <1>6
  <1> HIDE DEF best
  <1> QED
    BY <1>3, <1>7

-------------------------------------------------------------------------------
(* The invariant *)

\* The map is empty at first.
LEMMA RoadInit == ASSUME Init PROVE RoadInv
  <1>1. /\ Graph = [x \in Vertices |-> [y \in Vertices |-> INF]]
        /\ pc = "idle" /\ srcjid = Vehicle /\ segment = {} /\ visited = {}
        /\ distance = [v \in Vertices |-> INF] /\ parent = [v \in Vertices |-> -1] /\ path = <<>>
    BY DEF Init, NoRoads, Vertices
  <1>2. RoadKinds
    BY <1>1, RoadFacts DEF RoadKinds, Maps
  <1>3. OffTheMap
    BY <1>1, RoadFacts DEF OffTheMap
  <1> QED
    BY <1>1, <1>2, <1>3 DEF RoadInv, Stage

\* The start of a search: only the source has a distance.
LEMMA StartKeeps ==
    ASSUME NEW src \in Vertices, NEW ends \in SUBSET Junctions, Start(src, ends),
           Graph' \in Maps, OffTheMap',
           src = Vehicle => ends # {}
    PROVE  RoadInv'
  <1>1. /\ srcjid' = src /\ segment' = ends /\ visited' = {} /\ jid' = rsujid
        /\ distance' = [v \in Vertices |-> IF v = src THEN 0 ELSE INF]
        /\ parent' = [v \in Vertices |-> -1]
    BY DEF Start
  <1>2. \/ src = rsujid /\ path' = <<rsujid>> /\ pc' = "done"
        \/ src # rsujid /\ path' = <<>> /\ pc' = "search"
    BY DEF Start
  <1>3. RoadKinds'
    <2>1. distance' \in [Vertices -> 0 .. INF] /\ parent' \in [Vertices -> Vertices \cup {-1}]
      BY <1>1, RoadFacts
    <2>2. path' \in Seq(Vertices) /\ pc' \in {"idle", "search", "trace", "done"}
      <3>1. rsujid \in Vertices
        BY RoadFacts
      <3>2. <<rsujid>> \in Seq(Vertices) /\ <<>> \in Seq(Vertices)
        BY <3>1
      <3> QED
        BY <1>2, <3>2
    <2> QED
      BY <1>1, <2>1, <2>2 DEF RoadKinds
  <1>4. Tree'
    BY <1>1 DEF Tree
  <1>5. Stage'
    BY <1>1, <1>2 DEF Stage
  <1> QED
    BY <1>3, <1>4, <1>5 DEF RoadInv

\* Ants change weights of roads, never the vehicle's edges.
LEMMA UpdateGraphKeeps ==
    ASSUME RoadInv, NEW x \in Junctions, NEW y \in Junctions, x # y, NEW w \in Weights,
           UpdateGraph(x, y, w)
    PROVE  RoadInv'
  <1>1. /\ pc = "idle" /\ pc' = "idle" /\ Graph' = Connect(Graph, x, y, w)
        /\ UNCHANGED <<srcjid, segment, visited, distance, parent, jid, path>>
    BY DEF UpdateGraph, search
  <1>2. /\ Graph \in Maps /\ x \in Vertices /\ y \in Vertices
        /\ w \in Weights \cup {INF}
    BY RoadFacts DEF RoadInv, RoadKinds
  <1>3. /\ Graph' \in Maps
        /\ \A a, b \in Vertices : Graph'[a][b] =
                IF (a = x /\ b = y) \/ (a = y /\ b = x) THEN w ELSE Graph[a][b]
    BY <1>1, <1>2, ConnectValue
  <1>4. RoadKinds'
    BY <1>1, <1>3 DEF RoadInv, RoadKinds
  <1>5. \A v \in Vertices : /\ Graph'[Vehicle][v] = Graph[Vehicle][v]
                            /\ Graph'[v][Vehicle] = Graph[v][Vehicle]
    BY <1>3, RoadFacts
  <1>6. OffTheMap'
    BY <1>1, <1>5 DEF RoadInv, OffTheMap
  <1>7. Stage'
    BY <1>1 DEF Stage
  <1> QED
    BY <1>1, <1>4, <1>6, <1>7 DEF RoadInv

\* A search from a junction leaves the map alone.
LEMMA PlanFromJunctionKeeps ==
    ASSUME RoadInv, NEW c \in Junctions, PlanFromJunction(c)
    PROVE  RoadInv'
  <1>1. pc = "idle" /\ Start(c, {}) /\ UNCHANGED Graph
    BY DEF PlanFromJunction
  <1>2. c \in Vertices /\ c # Vehicle
    BY RoadFacts
  <1>3. srcjid' = c /\ segment' = {} /\ segment = {}
    BY <1>1 DEF Start, RoadInv, OffTheMap
  <1>4. OffTheMap'
    BY <1>1, <1>2, <1>3 DEF RoadInv, OffTheMap, Start
  <1> QED
    BY <1>1, <1>2, <1>4, StartKeeps DEF RoadInv, RoadKinds

\* A vehicle on a segment connects itself to the two ends.
LEMMA PlanFromSegmentKeeps ==
    ASSUME RoadInv, NEW c \in Junctions, NEW n \in Junctions, c # n,
           NEW w1 \in Weights, NEW w2 \in Weights, PlanFromSegment(c, n, w1, w2)
    PROVE  RoadInv'
  <1> DEFINE g == Connect(Graph, Vehicle, c, w1)
  <1>1. pc = "idle" /\ Start(Vehicle, {c, n}) /\ Graph' = Connect(g, Vehicle, n, w2)
    BY DEF PlanFromSegment
  <1>2. /\ Graph \in Maps
        /\ c \in Vertices /\ n \in Vertices /\ Vehicle \in Vertices /\ c # Vehicle /\ n # Vehicle
        /\ w1 \in Weights \cup {INF} /\ w2 \in Weights \cup {INF}
    BY RoadFacts DEF RoadInv, RoadKinds
  <1>3. /\ g \in Maps
        /\ \A a, b \in Vertices : g[a][b] =
                IF (a = Vehicle /\ b = c) \/ (a = c /\ b = Vehicle) THEN w1 ELSE Graph[a][b]
    BY <1>2, ConnectValue
  <1> HIDE DEF g
  <1>4. /\ Graph' \in Maps
        /\ \A a, b \in Vertices : Graph'[a][b] =
                IF (a = Vehicle /\ b = n) \/ (a = n /\ b = Vehicle) THEN w2 ELSE g[a][b]
    <2>1. /\ Connect(g, Vehicle, n, w2) \in Maps
          /\ \A a, b \in Vertices : Connect(g, Vehicle, n, w2)[a][b] =
                  IF (a = Vehicle /\ b = n) \/ (a = n /\ b = Vehicle) THEN w2 ELSE g[a][b]
      <3>1. g \in Maps
        BY <1>3
      <3> QED
        BY <1>2, <3>1, ConnectValue
    <2> QED
      BY <1>1, <2>1
  <1>5. \A v \in Vertices : v \notin {c, n} =>
            Graph'[Vehicle][v] = Graph[Vehicle][v] /\ Graph'[v][Vehicle] = Graph[v][Vehicle]
    BY <1>2, <1>3, <1>4
  <1>6. \A v \in Vertices : Graph[Vehicle][v] = INF /\ Graph[v][Vehicle] = INF
    BY <1>1 DEF RoadInv, OffTheMap
  <1>7. srcjid' = Vehicle /\ segment' = {c, n} /\ pc' # "idle"
    BY <1>1 DEF Start
  <1>8. OffTheMap'
    BY <1>5, <1>6, <1>7 DEF OffTheMap
  <1>9. {c, n} \in SUBSET Junctions /\ {c, n} # {}
    OBVIOUS
  <1> QED
    BY <1>1, <1>2, <1>4, <1>8, <1>9, StartKeeps

\* The caller takes both edges out again.
LEMMA ReturnKeeps == ASSUME RoadInv, Return PROVE RoadInv'
  <1>1. /\ Graph' = Cleared /\ pc' = "idle" /\ srcjid' = Vehicle /\ segment' = {} /\ visited' = {}
        /\ distance' = [v \in Vertices |-> INF] /\ parent' = [v \in Vertices |-> -1] /\ path' = <<>>
    BY DEF Return
  <1>2. /\ Graph \in Maps
        /\ \A v \in Vertices : Graph[Vehicle][v] # INF \/ Graph[v][Vehicle] # INF => v \in segment
    BY DEF RoadInv, RoadKinds, OffTheMap
  <1>3. \A x, y \in Vertices : Graph'[x][y] =
            IF {x, y} \in {{Vehicle, e} : e \in segment} THEN INF ELSE Graph[x][y]
    BY <1>1 DEF Cleared, Vertices
  <1>4. Graph' \in Maps
    BY <1>1, <1>2 DEF Cleared, Vertices, Maps
  <1>5. \A v \in Vertices : Graph'[Vehicle][v] = INF /\ Graph'[v][Vehicle] = INF
    <2> TAKE v \in Vertices
    <2>1. Vehicle \in Vertices /\ {v, Vehicle} = {Vehicle, v}
      BY RoadFacts
    <2>2. CASE v \in segment
      BY <1>3, <2>1, <2>2
    <2>3. CASE v \notin segment
      BY <1>2, <1>3, <2>1, <2>3
    <2> QED
      BY <2>2, <2>3
  <1>6. RoadKinds'
    BY <1>1, <1>4, RoadFacts DEF RoadKinds
  <1>7. OffTheMap'
    BY <1>1, <1>5 DEF OffTheMap
  <1>8. Stage'
    BY <1>1 DEF Stage
  <1> QED
    BY <1>1, <1>6, <1>7, <1>8 DEF RoadInv

\* The values that the search compares are natural numbers.
LEMMA Numbers ==
    ASSUME RoadKinds
    PROVE  /\ \A v \in Vertices : distance[v] \in Nat /\ distance[v] <= INF
           /\ \A v, u \in Vertices : Graph[v][u] \in Nat
           /\ \A v, u \in Vertices : Graph[v][u] # INF => Graph[v][u] > 0
           /\ INF \in Nat
  <1>1. INF \in Nat /\ \A w \in Weights : w \in Nat /\ w > 0
    BY RoadFacts
  <1>2. \A v \in Vertices : distance[v] \in 0 .. INF
    BY DEF RoadKinds
  <1>3. \A v, u \in Vertices : Graph[v][u] \in Weights \cup {INF}
    BY DEF RoadKinds, Maps
  <1> QED
    BY <1>1, <1>2, <1>3

\* The loop stops at the RSU, or when every vertex is visited.
LEMMA StopKeeps ==
    ASSUME RoadInv, Search, visited = Vertices \/ Nearest = rsujid
    PROVE  RoadInv'
  <1>1. /\ pc = "search"
        /\ pc' = IF distance[rsujid] = INF THEN "done" ELSE "trace"
        /\ UNCHANGED <<visited, distance, parent, Graph, srcjid, segment, jid, path>>
    BY DEF Search
  <1>2. Tree /\ path = <<>> /\ jid = rsujid /\ srcjid # rsujid /\ RoadKinds
    BY <1>1 DEF RoadInv, Stage
  <1>3. Finished
    <2>1. CASE visited = Vertices
      BY <2>1 DEF Finished
    <2>2. CASE visited # Vertices
      BY <1>2, <2>2, NearestIsNearest DEF Finished
    <2> QED
      BY <2>1, <2>2
  <1>4. RoadKinds'
    BY <1>1 DEF RoadInv, RoadKinds
  <1>5. OffTheMap'
    BY <1>1 DEF RoadInv, OffTheMap
  <1>6. Tree'
    BY <1>1, <1>2 DEF Tree, Reached
  <1>7. Finished'
    BY <1>1, <1>3 DEF Finished
  <1>8. BackFrom(<<>>, rsujid)'
    BY DEF BackFrom
  <1>9. jid' \in Vertices
    BY <1>1, <1>2, RoadFacts
  <1>10. Stage'
    BY <1>1, <1>2, <1>7, <1>8, <1>9 DEF Stage
  <1> QED
    BY <1>4, <1>5, <1>6, <1>10 DEF RoadInv

\* One turn of the loop: the nearest vertex is visited, and the distances of the
\* visited ones stay as they are.
LEMMA VisitKeeps ==
    ASSUME RoadInv, Search, visited # Vertices, Nearest # rsujid
    PROVE  RoadInv'
  <1> DEFINE t == Nearest
  <1>1. /\ pc = "search" /\ pc' = "search"
        /\ visited' = visited \cup {t}
        /\ distance' = [j \in Vertices |->
                  IF j \in Relaxed(t) THEN distance[t] + Graph[t][j] ELSE distance[j]]
        /\ parent' = [j \in Vertices |-> IF j \in Relaxed(t) THEN t ELSE parent[j]]
        /\ UNCHANGED <<Graph, srcjid, segment, jid, path>>
    BY DEF Search
  <1>2. Tree /\ RoadKinds
    BY <1>1 DEF RoadInv
  <1>3. t \in Vertices \ visited /\ \A u \in Vertices \ visited : distance[t] <= distance[u]
    BY <1>2, NearestIsNearest
  <1> HIDE DEF t
  <1>4. /\ \A v \in Vertices : distance[v] \in Nat /\ distance[v] <= INF
        /\ \A v, u \in Vertices : Graph[v][u] \in Nat
        /\ \A v, u \in Vertices : Graph[v][u] # INF => Graph[v][u] > 0
        /\ INF \in Nat
    BY <1>2, Numbers
  <1>5. /\ visited \subseteq Vertices /\ srcjid \in Vertices
        /\ parent \in [Vertices -> Vertices \cup {-1}]
    BY <1>2 DEF RoadKinds
  <1>6. \A j \in Relaxed(t) : /\ j \in Vertices /\ Graph[t][j] # INF
                              /\ distance[t] + Graph[t][j] < distance[j]
    BY DEF Relaxed
  <1>7. \A j \in Vertices : j \notin Relaxed(t) /\ Graph[t][j] # INF =>
            ~(distance[t] + Graph[t][j] < distance[j])
    BY DEF Relaxed
  <1>8. \A v \in visited \cup {t} : v \notin Relaxed(t)
    <2> SUFFICES ASSUME NEW v \in visited \cup {t}, v \in Relaxed(t) PROVE FALSE
      OBVIOUS
    <2>1. distance[t] + Graph[t][v] < distance[v]
      BY <1>6
    <2>2. v \in Vertices /\ t \in Vertices
      BY <1>3, <1>5
    <2>3. distance[v] <= distance[t]
      <3>1. CASE v = t
        BY <1>4, <2>2, <3>1
      <3>2. CASE v \in visited
        BY <1>2, <1>3, <3>2 DEF Tree
      <3> QED
        BY <3>1, <3>2
    <2>4. distance[v] \in Nat /\ distance[t] \in Nat /\ Graph[t][v] \in Nat
      BY <1>4, <2>2
    <2> QED
      BY <2>1, <2>3, <2>4
  <1>9. \A v \in Vertices : v \notin Relaxed(t) => distance'[v] = distance[v] /\ parent'[v] = parent[v]
    BY <1>1
  <1>10. \A v \in Relaxed(t) : distance'[v] = distance[t] + Graph[t][v] /\ parent'[v] = t
    BY <1>1, <1>6
  <1>11. \A v \in Vertices : distance'[v] \in Nat /\ distance'[v] <= distance[v]
    <2> TAKE v \in Vertices
    <2>1. CASE v \in Relaxed(t)
      <3>1. distance[t] \in Nat /\ Graph[t][v] \in Nat /\ distance[v] \in Nat
        BY <1>3, <1>4
      <3> QED
        BY <1>6, <1>10, <2>1, <3>1
    <2>2. CASE v \notin Relaxed(t)
      BY <1>4, <1>9, <2>2
    <2> QED
      BY <2>1, <2>2
  <1>12. RoadKinds'
    <2>1. distance' \in [Vertices -> 0 .. INF]
      <3>1. \A v \in Vertices : distance'[v] \in 0 .. INF
        BY <1>4, <1>11
      <3>2. distance' = [v \in Vertices |-> distance'[v]]
        BY <1>1
      <3> QED
        BY <3>1, <3>2
    <2>2. parent' \in [Vertices -> Vertices \cup {-1}]
      BY <1>1, <1>3, <1>5
    <2> QED
      BY <1>1, <1>2, <1>3, <2>1, <2>2 DEF RoadKinds
  <1>13. OffTheMap'
    BY <1>1 DEF RoadInv, OffTheMap
  <1>14. Stage'
    BY <1>1 DEF RoadInv, Stage
  <1>15. Tree'
    <2>1. distance'[srcjid'] = 0
      <3>1. srcjid \notin Relaxed(t)
        <4>1. distance[srcjid] = 0 /\ distance[t] \in Nat /\ Graph[t][srcjid] \in Nat
          BY <1>2, <1>3, <1>4, <1>5 DEF Tree
        <4> QED
          BY <1>6, <4>1
      <3> QED
        BY <1>1, <1>2, <1>5, <1>9, <3>1 DEF Tree
    <2>2. ASSUME NEW v \in Vertices \ {srcjid'}, distance'[v] # INF PROVE Reached(v)'
      <3>1. CASE v \in Relaxed(t)
        <4>1. parent'[v] = t /\ distance'[v] = distance[t] + Graph[t][v] /\ distance'[t] = distance[t]
          BY <1>3, <1>8, <1>9, <1>10, <3>1
        <4> QED
          BY <1>1, <1>6, <3>1, <4>1 DEF Reached
      <3>2. CASE v \notin Relaxed(t)
        <4>1. parent'[v] = parent[v] /\ distance'[v] = distance[v]
          BY <1>9, <3>2
        <4>2. Reached(v)
          BY <1>1, <1>2, <2>2, <4>1 DEF Tree
        <4>3. parent[v] \in visited /\ distance'[parent[v]] = distance[parent[v]]
          BY <1>5, <1>8, <1>9, <4>2 DEF Reached
        <4> QED
          BY <1>1, <4>1, <4>2, <4>3 DEF Reached
      <3> QED
        BY <3>1, <3>2
    <2>3. ASSUME NEW v \in visited', NEW u \in Vertices \ visited'
          PROVE  distance'[v] <= distance'[u]
      <3>1. /\ v \in visited \cup {t} /\ u \notin visited /\ u # t /\ v \in Vertices
            /\ distance'[v] = distance[v]
        BY <1>1, <1>3, <1>5, <1>8, <1>9
      <3>2. distance[v] <= distance[t] /\ distance[t] <= distance[u]
        <4>1. CASE v = t
          BY <1>3, <1>4, <3>1, <4>1
        <4>2. CASE v \in visited
          BY <1>2, <1>3, <3>1, <4>2 DEF Tree
        <4> QED
          BY <3>1, <4>1, <4>2
      <3>3. distance[t] <= distance'[u]
        <4>1. CASE u \in Relaxed(t)
          <5>1. distance[t] \in Nat /\ Graph[t][u] \in Nat
            BY <1>3, <1>4
          <5> QED
            BY <1>10, <4>1, <5>1
        <4>2. CASE u \notin Relaxed(t)
          BY <1>9, <3>2, <4>2
        <4> QED
          BY <4>1, <4>2
      <3>4. distance[v] \in Nat /\ distance[t] \in Nat /\ distance'[u] \in Nat
        BY <1>3, <1>4, <1>11, <3>1
      <3> QED
        BY <3>1, <3>2, <3>3, <3>4
    <2>4. ASSUME NEW v \in visited', NEW u \in Vertices, Graph'[v][u] # INF
          PROVE  distance'[u] <= distance'[v] + Graph'[v][u]
      <3>1. /\ v \in visited \cup {t} /\ v \in Vertices /\ Graph' = Graph
            /\ distance'[v] = distance[v]
        BY <1>1, <1>3, <1>5, <1>8, <1>9
      <3>2. /\ distance[v] \in Nat /\ distance[u] \in Nat /\ distance'[u] \in Nat
            /\ Graph[v][u] \in Nat /\ distance'[u] <= distance[u]
        BY <1>4, <1>11, <3>1
      <3>3. CASE v \in visited
        <4>1. distance[u] <= distance[v] + Graph[v][u]
          BY <1>2, <2>4, <3>1, <3>3 DEF Tree
        <4> QED
          BY <3>1, <3>2, <4>1
      <3>4. CASE v = t /\ u \in Relaxed(t)
        BY <1>10, <3>1, <3>2, <3>4
      <3>5. CASE v = t /\ u \notin Relaxed(t)
        BY <1>7, <2>4, <3>1, <3>2, <3>5
      <3> QED
        BY <3>1, <3>3, <3>4, <3>5
    <2> QED
      BY <2>1, <2>2, <2>3, <2>4 DEF Tree
  <1> QED
    BY <1>12, <1>13, <1>14, <1>15 DEF RoadInv

\* The vertex a search came from is nearer than the vertex.
LEMMA ParentIsNearer ==
    ASSUME RoadKinds, Tree, NEW v \in Vertices, v # srcjid, distance[v] # INF
    PROVE  /\ parent[v] \in visited /\ parent[v] \in Vertices
           /\ Graph[parent[v]][v] # INF
           /\ distance[v] = distance[parent[v]] + Graph[parent[v]][v]
           /\ distance[parent[v]] < distance[v] /\ distance[parent[v]] < INF
  <1>1. /\ parent[v] \in visited /\ Graph[parent[v]][v] # INF
        /\ distance[v] = distance[parent[v]] + Graph[parent[v]][v]
    BY DEF Tree, Reached
  <1>2. parent[v] \in Vertices
    BY <1>1 DEF RoadKinds
  <1>3. /\ distance[v] \in Nat /\ distance[v] <= INF /\ distance[parent[v]] \in Nat /\ INF \in Nat
        /\ Graph[parent[v]][v] \in Nat /\ Graph[parent[v]][v] > 0
    BY <1>1, <1>2, Numbers
  <1> QED
    BY <1>1, <1>2, <1>3

\* A step back appends a vertex, the last one reverses the list.
LEMMA TraceBackKeeps == ASSUME RoadInv, TraceBack PROVE RoadInv'
  <1>1. /\ pc = "trace" /\ UNCHANGED <<Graph, srcjid, segment, visited, distance, parent>>
        /\ \/ jid = srcjid /\ path' = Reverse(path) /\ pc' = "done" /\ UNCHANGED jid
           \/ jid # srcjid /\ path' = Append(path, jid) /\ jid' = parent[jid] /\ UNCHANGED pc
    BY DEF TraceBack
  <1>2. /\ srcjid # rsujid /\ Finished /\ jid \in Vertices /\ distance[jid] # INF
        /\ distance[rsujid] # INF /\ BackFrom(path, jid)
    BY <1>1 DEF RoadInv, Stage
  <1>3. Tree /\ RoadKinds /\ path \in Seq(Vertices)
    BY <1>1 DEF RoadInv, RoadKinds
  <1>4. Tree' /\ Finished' /\ pc' # "idle"
    BY <1>1, <1>2, <1>3 DEF Tree, Reached, Finished
  <1>5. OffTheMap'
    BY <1>1 DEF RoadInv, OffTheMap
  <1>6. CASE jid = srcjid
    <2>1. path' = Reverse(path) /\ pc' = "done"
      BY <1>1, <1>6
    <2>2. path # <<>>
      BY <1>2, <1>6 DEF BackFrom
    <2>3. Len(path) \in Nat /\ Len(path) > 0 /\ \A i \in 1 .. Len(path) : path[i] \in Vertices
      BY <1>3, <2>2
    <2>4. /\ path' \in Seq(Vertices) /\ Len(path') = Len(path)
          /\ \A i \in 1 .. Len(path) : path'[i] = path[(Len(path) - i) + 1]
      <3>1. path' = [i \in 1 .. Len(path) |-> path[(Len(path) - i) + 1]]
        BY <2>1 DEF Reverse
      <3>2. \A i \in 1 .. Len(path) : (Len(path) - i) + 1 \in 1 .. Len(path)
        BY <2>3
      <3> QED
        BY <2>3, <3>1, <3>2
    <2>5. /\ path[1] = rsujid /\ srcjid = parent[path[Len(path)]]
          /\ \A i \in 1 .. Len(path) : path[i] # srcjid /\ distance[path[i]] # INF
          /\ \A i \in 1 .. Len(path) - 1 : path[i + 1] = parent[path[i]]
      BY <1>2, <1>6, <2>2 DEF BackFrom
    <2>6. path' # <<>> /\ path'[Len(path')] = rsujid
      <3>1. path'[Len(path)] = path[(Len(path) - Len(path)) + 1]
        BY <2>3, <2>4
      <3> QED
        BY <2>3, <2>4, <2>5, <3>1
    <2>7. ASSUME NEW i \in 1 .. Len(path') PROVE path'[i] # srcjid /\ distance[path'[i]] # INF
      <3>1. i \in 1 .. Len(path)
        BY <2>4
      <3>2. (Len(path) - i) + 1 \in 1 .. Len(path)
        BY <2>3, <3>1
      <3>3. path'[i] = path[(Len(path) - i) + 1]
        BY <2>4, <3>1
      <3> QED
        BY <2>5, <3>2, <3>3
    <2>8. parent[path'[1]] = srcjid
      <3>1. path'[1] = path[(Len(path) - 1) + 1] /\ (Len(path) - 1) + 1 = Len(path)
        BY <2>3, <2>4
      <3> QED
        BY <2>5, <3>1
    <2>9. ASSUME NEW i \in 1 .. Len(path') - 1 PROVE path'[i] = parent[path'[i + 1]]
      <3>0. i \in 1 .. Len(path) - 1
        BY <2>4
      <3>1. PICK k \in 1 .. Len(path) - 1 : k = Len(path) - i
        <4>1. Len(path) - i \in 1 .. Len(path) - 1
          BY <2>3, <3>0
        <4> QED
          BY <4>1
      <3>2. path'[i] = path[k + 1] /\ path'[i + 1] = path[k]
        <4>1. i \in 1 .. Len(path) /\ i + 1 \in 1 .. Len(path)
          BY <2>3, <3>0
        <4>2. (Len(path) - i) + 1 = k + 1 /\ (Len(path) - (i + 1)) + 1 = k
          BY <2>3, <3>1
        <4>3. path'[i] = path[(Len(path) - i) + 1] /\ path'[i + 1] = path[(Len(path) - (i + 1)) + 1]
          BY <2>4, <4>1
        <4> QED
          BY <4>2, <4>3
      <3> QED
        BY <2>5, <3>2
    <2>10. Forth(path)'
      BY <1>1, <2>6, <2>7, <2>8, <2>9 DEF Forth
    <2>11. RoadKinds'
      BY <1>1, <1>3, <2>1, <2>4 DEF RoadKinds
    <2>12. Stage'
      BY <1>1, <1>2, <1>4, <2>1, <2>10 DEF Stage
    <2> QED
      BY <1>4, <1>5, <2>11, <2>12 DEF RoadInv
  <1>7. CASE jid # srcjid
    <2>1. path' = Append(path, jid) /\ jid' = parent[jid] /\ pc' = "trace"
      BY <1>1, <1>7
    <2>2. parent[jid] \in Vertices /\ distance[parent[jid]] # INF
      <3>1. parent[jid] \in Vertices /\ distance[parent[jid]] < INF
        BY <1>2, <1>3, <1>7, ParentIsNearer
      <3>2. distance[parent[jid]] \in Nat /\ INF \in Nat
        BY <1>3, <3>1, Numbers
      <3> QED
        BY <3>1, <3>2
    <2>3. /\ path' \in Seq(Vertices) /\ Len(path') = Len(path) + 1 /\ Len(path) \in Nat
          /\ \A i \in 1 .. Len(path) : path'[i] = path[i]
          /\ path'[Len(path) + 1] = jid
      BY <1>2, <1>3, <2>1
    <2>4. /\ \A i \in 1 .. Len(path) : path[i] # srcjid /\ distance[path[i]] # INF
          /\ \A i \in 1 .. Len(path) - 1 : path[i + 1] = parent[path[i]]
      BY <1>2 DEF BackFrom
    <2>5. path' # <<>> /\ path'[1] = rsujid /\ jid' = parent[path'[Len(path')]]
      <3>1. CASE path = <<>>
        BY <1>2, <2>1, <2>3, <3>1 DEF BackFrom
      <3>2. CASE path # <<>>
        <4>1. Len(path) > 0 /\ path[1] = rsujid
          BY <1>2, <1>3, <3>2 DEF BackFrom
        <4> QED
          BY <2>1, <2>3, <4>1
      <3> QED
        BY <3>1, <3>2
    <2>6. \A i \in 1 .. Len(path') : path'[i] # srcjid /\ distance[path'[i]] # INF
      BY <1>2, <1>7, <2>3, <2>4
    <2>7. ASSUME NEW i \in 1 .. Len(path') - 1 PROVE path'[i + 1] = parent[path'[i]]
      <3>1. CASE i < Len(path)
        BY <2>3, <2>4, <3>1
      <3>2. CASE i = Len(path)
        <4>1. path # <<>> /\ i + 1 = Len(path) + 1 /\ path'[i] = path[Len(path)]
          BY <2>3, <3>2
        <4>2. jid = parent[path[Len(path)]]
          BY <1>2, <4>1 DEF BackFrom
        <4> QED
          BY <2>3, <4>1, <4>2
      <3> QED
        BY <2>3, <3>1, <3>2
    <2>8. BackFrom(path, jid)'
      BY <1>1, <2>5, <2>6, <2>7 DEF BackFrom
    <2>9. RoadKinds'
      BY <1>1, <1>3, <2>1, <2>3 DEF RoadKinds
    <2>10. Stage'
      BY <1>1, <1>2, <1>4, <2>1, <2>2, <2>8 DEF Stage
    <2> QED
      BY <1>4, <1>5, <2>9, <2>10 DEF RoadInv
  <1> QED
    BY <1>6, <1>7

\* Every step keeps the invariant.
LEMMA RoadStep == ASSUME RoadInv, [Next]_vars PROVE RoadInv'
  <1>1. ASSUME NEW x \in Junctions, NEW y \in Junctions, NEW w \in Weights, x # y,
               UpdateGraph(x, y, w)
        PROVE  RoadInv'
    BY <1>1, UpdateGraphKeeps
  <1>2. ASSUME NEW c \in Junctions, PlanFromJunction(c) PROVE RoadInv'
    BY <1>2, PlanFromJunctionKeeps
  <1>3. ASSUME NEW c \in Junctions, NEW n \in Junctions, NEW w1 \in Weights, NEW w2 \in Weights,
               c # n, PlanFromSegment(c, n, w1, w2)
        PROVE  RoadInv'
    BY <1>3, PlanFromSegmentKeeps
  <1>4. CASE Search
    BY <1>4, StopKeeps, VisitKeeps
  <1>5. CASE TraceBack
    BY <1>5, TraceBackKeeps
  <1>6. CASE Return
    BY <1>6, ReturnKeeps
  <1>7. CASE UNCHANGED vars
    BY <1>7 DEF vars, search, RoadInv, RoadKinds, OffTheMap, Tree, Reached, Stage, Finished,
                BackFrom, Forth
  <1> QED
    BY <1>1, <1>2, <1>3, <1>4, <1>5, <1>6, <1>7 DEF Next

\* The invariant of the search: at every turn of the loop of DijkstraAlgorithm the
\* distances are those of ways along parent and visited vertices are final; when
\* it stops nothing unvisited is nearer than the RSU; the vehicle is on the map
\* only while it searches.
THEOREM RoadsCorrect == Spec => []RoadInv
  <1>1. Init => RoadInv
    BY RoadInit
  <1>2. RoadInv /\ [Next]_vars => RoadInv'
    BY RoadStep
  <1> QED
    BY <1>1, <1>2, PTL DEF Spec

\* The invariant keeps the vehicle out of the routes: no road leads to it, unless
\* the route starts there.
LEMMA InvUsesRoads == RoadInv => RoutesUseRoads
  <1> SUFFICES ASSUME RoadInv PROVE RoutesUseRoads
    OBVIOUS
  <1>1. RoadKinds /\ OffTheMap /\ Stage /\ path \in Seq(Vertices) /\ Vehicle \in Vertices
    BY RoadFacts DEF RoadInv, RoadKinds
  <1>2. ASSUME pc = "idle" PROVE \A v \in Vertices : Graph[Vehicle][v] = INF
    BY <1>1, <1>2 DEF OffTheMap
  <1>3. ASSUME pc = "done", srcjid = rsujid
        PROVE  Vehicle \notin ToSet(path) /\ segment = {}
    <2>1. path = <<rsujid>> /\ rsujid # Vehicle
      BY <1>1, <1>3, RoadFacts DEF Stage
    <2> QED
      BY <1>1, <1>3, <2>1 DEF OffTheMap, ToSet
  <1>4. ASSUME pc = "done", srcjid # rsujid, path # <<>>
        PROVE  Vehicle \notin ToSet(path) /\ (segment # {} => path[1] \in segment)
    <2>1. Forth(path) /\ Tree
      BY <1>1, <1>4 DEF Stage, RoadInv
    <2>2. Len(path) \in Nat /\ Len(path) > 0 /\ DOMAIN path = 1 .. Len(path)
      BY <1>1, <1>4
    <2>3. ASSUME NEW i \in 1 .. Len(path), path[i] = Vehicle PROVE FALSE
      <3>1. srcjid # Vehicle /\ distance[Vehicle] # INF
        BY <2>1, <2>3 DEF Forth
      <3>2. segment = {}
        BY <1>1, <1>4, <3>1 DEF OffTheMap
      <3>3. parent[Vehicle] \in Vertices /\ Graph[parent[Vehicle]][Vehicle] # INF
        BY <1>1, <2>1, <3>1, ParentIsNearer
      <3> QED
        BY <1>1, <3>2, <3>3 DEF OffTheMap
    <2>4. ASSUME segment # {} PROVE path[1] \in segment
      <3>1. path[1] \in Vertices /\ path[1] # srcjid /\ distance[path[1]] # INF
            /\ parent[path[1]] = srcjid
        BY <1>1, <2>1, <2>2 DEF Forth
      <3>2. Graph[srcjid][path[1]] # INF
        BY <1>1, <2>1, <3>1, ParentIsNearer
      <3>3. srcjid = Vehicle
        BY <1>1, <1>4, <2>4 DEF OffTheMap
      <3> QED
        BY <1>1, <3>1, <3>2, <3>3 DEF OffTheMap
    <2> QED
      BY <2>2, <2>3, <2>4 DEF ToSet
  <1>5. path = <<>> => Vehicle \notin ToSet(path)
    BY DEF ToSet
  <1> QED
    BY <1>2, <1>3, <1>4, <1>5 DEF RoutesUseRoads

\* Routes use roads (the edges of m_currentJID and m_nextJID are taken out after
\* the search): an idle map has no edge of the vehicle, no route leads through
\* the place where it once was, and a vehicle on a segment is sent to an end of it.
THEOREM RoutesCorrect == Spec => []RoutesUseRoads
  BY RoadsCorrect, InvUsesRoads, PTL

-------------------------------------------------------------------------------
(* The shortest way *)

\* Induction along a list of n elements.
LEMMA AlongList ==
    ASSUME NEW n \in Nat, NEW S, 1 \in S, \A k \in 1 .. n - 1 : k \in S => k + 1 \in S
    PROVE  1 .. n \subseteq S
  <1> DEFINE R == {m \in Nat : m + 1 <= n => m + 1 \in S}
  <1>1. 0 \in R
    OBVIOUS
  <1>2. ASSUME NEW m \in Nat, m \in R PROVE m + 1 \in R
    <2> SUFFICES ASSUME (m + 1) + 1 <= n PROVE (m + 1) + 1 \in S
      OBVIOUS
    <2>1. m + 1 \in 1 .. n - 1 /\ m + 1 <= n
      OBVIOUS
    <2>2. m + 1 \in S
      BY <1>2, <2>1
    <2> QED
      BY <2>1, <2>2
  <1>3. Nat \subseteq R
    <2> HIDE DEF R
    <2> QED
      BY <1>1, <1>2, Induction
  <1>4. ASSUME NEW k \in 1 .. n PROVE k \in S
    <2>1. k - 1 \in Nat /\ (k - 1) + 1 = k /\ k <= n
      OBVIOUS
    <2>2. k - 1 \in R
      BY <1>3, <2>1
    <2> QED
      BY <2>1, <2>2
  <1> QED
    BY <1>4

\* The sums of the weights along p.
Sums(f, p) ==
    f = [k \in 1 .. Len(p) |-> IF k = 1 THEN 0 ELSE f[k - 1] + Graph[p[k - 1]][p[k]]]

\* The recursion over 1 .. Len(p) does define a function.
LEMMA LengthIsSum ==
    ASSUME NEW p, Len(p) \in Nat
    PROVE  \E f : Sums(f, p) /\ Length(p) = f[Len(p)]
  <1> DEFINE Def(g, n) == [k \in 1 .. n |->
                              IF k = 1 THEN 0 ELSE g[k - 1] + Graph[p[k - 1]][p[k]]]
             Good == {n \in Nat : \E g : g = Def(g, n)}
  <1>1. 0 \in Good
    <2> DEFINE g == [k \in 1 .. 0 |-> 0]
    <2>1. g = Def(g, 0)
      OBVIOUS
    <2> QED
      BY <2>1
  <1>2. ASSUME NEW n \in Nat, n \in Good PROVE n + 1 \in Good
    <2>1. PICK g : g = Def(g, n)
      BY <1>2
    <2> DEFINE h == [k \in 1 .. n + 1 |->
                        IF k = n + 1 THEN (IF k = 1 THEN 0 ELSE g[n] + Graph[p[n]][p[n + 1]])
                                     ELSE g[k]]
    <2>2. ASSUME NEW k \in 1 .. n + 1
          PROVE  h[k] = IF k = 1 THEN 0 ELSE h[k - 1] + Graph[p[k - 1]][p[k]]
      <3>1. CASE k = 1
        BY <2>1, <3>1
      <3>2. CASE k # 1 /\ k = n + 1
        <4>1. h[k] = g[n] + Graph[p[n]][p[n + 1]] /\ h[n] = g[n] /\ k - 1 = n
          BY <3>2
        <4> QED
          BY <3>2, <4>1
      <3>3. CASE k # 1 /\ k # n + 1
        <4>1. h[k] = g[k] /\ h[k - 1] = g[k - 1] /\ k \in 1 .. n
          BY <3>3
        <4>2. g[k] = g[k - 1] + Graph[p[k - 1]][p[k]]
          BY <2>1, <3>3, <4>1
        <4> QED
          BY <3>3, <4>1, <4>2
      <3> QED
        BY <3>1, <3>2, <3>3
    <2>3. h = Def(h, n + 1)
      BY <2>2
    <2> HIDE DEF h, Def
    <2> QED
      BY <2>3
  <1>3. Nat \subseteq Good
    <2> HIDE DEF Good
    <2> QED
      BY <1>1, <1>2, Induction
  <1>4. \E g : g = Def(g, Len(p))
    BY <1>3
  <1> DEFINE f == CHOOSE g : g = Def(g, Len(p))
  <1>5. f = Def(f, Len(p))
    <2> HIDE DEF Def
    <2> QED
      BY <1>4
  <1>6. Length(p) = f[Len(p)]
    BY DEF Length
  <1>7. Sums(f, p)
    BY <1>5 DEF Sums
  <1> HIDE DEF f
  <1> QED
    BY <1>6, <1>7

\* The sums, one road at a time.
LEMMA SumsStep ==
    ASSUME NEW p, Len(p) \in Nat, NEW f, Sums(f, p), Len(p) > 0
    PROVE  /\ f[1] = 0
           /\ \A k \in 1 .. Len(p) - 1 : f[k + 1] = f[k] + Graph[p[k]][p[k + 1]]
  <1>1. f[1] = 0
    BY DEF Sums
  <1>2. ASSUME NEW k \in 1 .. Len(p) - 1 PROVE f[k + 1] = f[k] + Graph[p[k]][p[k + 1]]
    <2>1. k + 1 \in 1 .. Len(p) /\ k + 1 # 1 /\ (k + 1) - 1 = k
      OBVIOUS
    <2>2. f[k + 1] = f[(k + 1) - 1] + Graph[p[(k + 1) - 1]][p[k + 1]]
      BY <2>1 DEF Sums
    <2> QED
      BY <2>1, <2>2
  <1> QED
    BY <1>1, <1>2

\* No way to the RSU is shorter than its distance when the search has stopped: along
\* the way the sum stays above the distance of the vertex or above that of the RSU.
LEMMA WaysAreLonger ==
    ASSUME RoadKinds, Tree, Finished, NEW p \in Seq(Vertices), Len(p) > 0,
           p[1] = srcjid, p[Len(p)] = rsujid, Follows(p)
    PROVE  Length(p) \in Nat /\ distance[rsujid] <= Length(p)
  <1>1. Len(p) \in Nat /\ \A k \in 1 .. Len(p) : p[k] \in Vertices
    OBVIOUS
  <1>2. PICK f : Sums(f, p) /\ Length(p) = f[Len(p)]
    BY <1>1, LengthIsSum
  <1>3. f[1] = 0 /\ \A k \in 1 .. Len(p) - 1 : f[k + 1] = f[k] + Graph[p[k]][p[k + 1]]
    BY <1>1, <1>2, SumsStep
  <1> DEFINE D == distance[rsujid]
             Above == {k \in 1 .. Len(p) : f[k] \in Nat /\ (distance[p[k]] <= f[k] \/ D <= f[k])}
  <1>4. /\ \A v \in Vertices : distance[v] \in Nat
        /\ \A v, u \in Vertices : Graph[v][u] \in Nat
        /\ D \in Nat /\ rsujid \in Vertices
    BY Numbers, RoadFacts
  <1> HIDE DEF D
  <1>5. 1 \in Above
    BY <1>1, <1>3 DEF Tree
  <1>6. ASSUME NEW k \in 1 .. Len(p) - 1, k \in Above PROVE k + 1 \in Above
    <2>1. k + 1 \in 1 .. Len(p) /\ p[k] \in Vertices /\ p[k + 1] \in Vertices
      BY <1>1
    <2>2. /\ f[k + 1] = f[k] + Graph[p[k]][p[k + 1]] /\ f[k] \in Nat
          /\ Graph[p[k]][p[k + 1]] \in Nat /\ Graph[p[k]][p[k + 1]] # INF
          /\ distance[p[k]] \in Nat /\ distance[p[k + 1]] \in Nat
      BY <1>3, <1>4, <1>6, <2>1 DEF Follows
    <2>3. CASE D <= f[k]
      BY <1>4, <2>1, <2>2, <2>3
    <2>4. CASE ~(D <= f[k])
      <3>1. distance[p[k]] <= f[k]
        BY <1>6, <2>4
      <3>2. ~(D <= distance[p[k]])
        BY <1>4, <2>2, <2>4, <3>1
      <3>3. p[k] \in visited
        BY <2>1, <3>2 DEF Finished, D
      <3>4. distance[p[k + 1]] <= distance[p[k]] + Graph[p[k]][p[k + 1]]
        BY <2>1, <2>2, <3>3 DEF Tree
      <3> QED
        BY <2>1, <2>2, <3>1, <3>4
    <2> QED
      BY <2>3, <2>4
  <1>7. 1 .. Len(p) \subseteq Above
    <2> HIDE DEF Above
    <2> QED
      BY <1>1, <1>5, <1>6, AlongList
  <1>8. Len(p) \in Above
    BY <1>1, <1>7
  <1> QED
    BY <1>2, <1>8 DEF D

\* The way the search has found: its sums are the distances, it follows roads and
\* visits no vertex twice.
LEMMA FoundWay ==
    ASSUME RoadKinds, Tree, path \in Seq(Vertices), Forth(path), NEW q, q = <<srcjid>> \o path
    PROVE  /\ q \in Ways /\ q[1] = srcjid /\ Last(q) = rsujid /\ Follows(q)
           /\ Length(q) = distance[rsujid]
  <1> DEFINE n == Len(path)
  <1>1. n \in Nat /\ n > 0 /\ srcjid \in Vertices
    BY DEF Forth, RoadKinds
  <1>2. /\ q \in Seq(Vertices) /\ Len(q) = n + 1 /\ q[1] = srcjid
        /\ \A k \in 1 .. n : q[k + 1] = path[k] /\ path[k] \in Vertices
    <2>1. <<srcjid>> \in Seq(Vertices) /\ Len(<<srcjid>>) = 1
      BY <1>1
    <2> QED
      BY <1>1, <2>1
  <1>3. ASSUME NEW k \in 1 .. n
        PROVE  /\ q[k] \in Vertices /\ q[k + 1] \in Vertices /\ parent[q[k + 1]] = q[k]
               /\ q[k + 1] # srcjid /\ distance[q[k + 1]] # INF
    <2>1. /\ q[k + 1] = path[k] /\ path[k] \in Vertices
          /\ path[k] # srcjid /\ distance[path[k]] # INF
      BY <1>2 DEF Forth
    <2>2. CASE k = 1
      BY <1>1, <1>2, <2>1, <2>2 DEF Forth
    <2>3. CASE k # 1
      <3>1. k - 1 \in 1 .. n /\ k - 1 \in 1 .. n - 1 /\ (k - 1) + 1 = k
        BY <1>1, <2>3
      <3>2. q[k] = path[k - 1] /\ path[k - 1] \in Vertices
        BY <1>2, <3>1
      <3>3. path[k - 1] = parent[path[k]]
        BY <3>1 DEF Forth
      <3> QED
        BY <2>1, <3>2, <3>3
    <2> QED
      BY <2>2, <2>3
  <1>4. \A k \in 1 .. n : /\ Graph[q[k]][q[k + 1]] # INF
                          /\ distance[q[k + 1]] = distance[q[k]] + Graph[q[k]][q[k + 1]]
                          /\ distance[q[k]] < distance[q[k + 1]]
    <2> TAKE k \in 1 .. n
    <2>1. /\ q[k + 1] \in Vertices /\ q[k + 1] # srcjid /\ distance[q[k + 1]] # INF
          /\ parent[q[k + 1]] = q[k]
      BY <1>3
    <2> QED
      BY <2>1, ParentIsNearer
  <1>5. Follows(q)
    <2>1. 1 .. Len(q) - 1 = 1 .. n
      BY <1>1, <1>2
    <2> QED
      BY <1>4, <2>1 DEF Follows
  <1>6. Last(q) = rsujid
    <2>1. q[n + 1] = path[n] /\ path[n] = rsujid
      BY <1>1, <1>2 DEF Forth
    <2> QED
      BY <1>2, <2>1 DEF Last
  <1>7. Length(q) = distance[rsujid]
    <2>1. Len(q) \in Nat /\ Len(q) > 0 /\ Len(q) - 1 = n
      BY <1>1, <1>2
    <2>2. PICK f : Sums(f, q) /\ Length(q) = f[Len(q)]
      BY <2>1, LengthIsSum
    <2>3. f[1] = 0 /\ \A k \in 1 .. Len(q) - 1 : f[k + 1] = f[k] + Graph[q[k]][q[k + 1]]
      BY <2>1, <2>2, SumsStep
    <2> DEFINE Same == {k \in 1 .. Len(q) : f[k] = distance[q[k]]}
    <2>4. 1 \in Same
      BY <1>2, <2>1, <2>3 DEF Tree
    <2>5. ASSUME NEW k \in 1 .. Len(q) - 1, k \in Same PROVE k + 1 \in Same
      <3>1. k \in 1 .. n /\ k + 1 \in 1 .. Len(q)
        BY <2>1
      <3> QED
        BY <1>4, <2>3, <2>5, <3>1
    <2>6. 1 .. Len(q) \subseteq Same
      <3> HIDE DEF Same
      <3> QED
        BY <2>1, <2>4, <2>5, AlongList
    <2>7. Len(q) \in Same
      <3>1. Len(q) \in 1 .. Len(q)
        BY <2>1
      <3> QED
        BY <2>6, <3>1
    <2> QED
      BY <1>6, <2>2, <2>7 DEF Last
  <1>8. ASSUME NEW a \in 1 .. n + 1, NEW b \in 1 .. n + 1, a < b PROVE q[a] # q[b]
    <2> DEFINE Further == {d \in 1 .. n + 1 - a : distance[q[a]] < distance[q[a + d]]}
    <2>1. /\ \A k \in 1 .. n + 1 : distance[q[k]] \in Nat
          /\ a \in 1 .. n
      <3>1. \A k \in 1 .. n + 1 : q[k] \in Vertices
        BY <1>2
      <3> QED
        BY <1>1, <1>8, <3>1, Numbers
    <2>2. 1 \in Further
      BY <1>1, <1>4, <2>1
    <2>3. ASSUME NEW d \in 1 .. (n + 1 - a) - 1, d \in Further PROVE d + 1 \in Further
      <3>1. PICK k \in 1 .. n : k = a + d
        <4>1. a + d \in 1 .. n
          BY <1>1, <2>1
        <4> QED
          BY <4>1
      <3>2. a + (d + 1) = k + 1 /\ d + 1 \in 1 .. n + 1 - a /\ k \in 1 .. n + 1 /\ k + 1 \in 1 .. n + 1
        BY <1>1, <2>1, <3>1
      <3>3. distance[q[a]] < distance[q[k]] /\ distance[q[k]] < distance[q[k + 1]]
        BY <1>4, <2>3, <3>1
      <3>4. distance[q[a]] \in Nat /\ distance[q[k]] \in Nat /\ distance[q[k + 1]] \in Nat
        BY <2>1, <3>2
      <3>5. distance[q[a]] < distance[q[k + 1]]
        <4>1. \A x, y, z \in Nat : x < y /\ y < z => x < z
          OBVIOUS
        <4> QED
          BY <3>3, <3>4, <4>1
      <3> QED
        BY <3>2, <3>5
    <2>4. 1 .. n + 1 - a \subseteq Further
      <3>1. n + 1 - a \in Nat
        BY <1>1, <2>1
      <3> HIDE DEF Further
      <3> QED
        BY <2>2, <2>3, <3>1, AlongList
    <2>5. b - a \in 1 .. n + 1 - a /\ a + (b - a) = b
      BY <1>1, <1>8
    <2>6. distance[q[a]] < distance[q[b]]
      BY <2>4, <2>5
    <2> QED
      BY <2>1, <2>6
  <1>9. IsInjective(q) /\ q \in [1 .. n + 1 -> Vertices]
    <2>1. DOMAIN q = 1 .. n + 1 /\ q \in [1 .. n + 1 -> Vertices]
      <3>1. \A s \in Seq(Vertices) : DOMAIN s = 1 .. Len(s) /\ s \in [1 .. Len(s) -> Vertices]
        OBVIOUS
      <3> QED
        BY <1>2, <3>1
    <2>2. ASSUME NEW a \in 1 .. n + 1, NEW b \in 1 .. n + 1, q[a] = q[b] PROVE a = b
      <3>1. ~(a < b) /\ ~(b < a)
        BY <1>8, <2>2
      <3> QED
        BY <1>1, <3>1
    <2> QED
      BY <2>1, <2>2 DEF IsInjective
  <1>10. n + 1 <= JuncNum + 1
    <2>1. q \in Injection(1 .. n + 1, Vertices)
      BY <1>9 DEF Injection
    <2>2. IsFiniteSet(Vertices) /\ Cardinality(Vertices) = JuncNum + 1
      <3>1. 0 \in Int /\ JuncNum \in Int /\ JuncNum >= 0
        BY RoadFacts
      <3> QED
        BY <3>1, FS_Interval DEF Vertices
    <2>3. Cardinality(1 .. n + 1) <= Cardinality(Vertices)
      BY <2>1, <2>2, FS_Injection
    <2>4. Cardinality(1 .. n + 1) = n + 1
      BY <1>1, FS_Interval
    <2> QED
      BY <2>2, <2>3, <2>4
  <1>11. q \in Ways
    <2>1. n + 1 \in 1 .. JuncNum + 1
      BY <1>1, <1>10, RoadFacts
    <2> QED
      BY <1>9, <2>1 DEF Ways, Vertices
  <1> QED
    BY <1>2, <1>5, <1>6, <1>7, <1>11

\* When the search is done, the distance of the RSU is the length of the shortest way.
LEMMA DistanceIsShortest ==
    ASSUME RoadInv, pc = "done", srcjid # rsujid
    PROVE  Shortest(rsujid) = distance[rsujid]
  <1>1. RoadKinds /\ Tree /\ Finished /\ srcjid \in Vertices /\ path \in Seq(Vertices)
    BY DEF RoadInv, Stage, RoadKinds
  <1>2. rsujid \in Vertices /\ distance[rsujid] \in Nat /\ distance[rsujid] <= INF /\ INF \in Nat
    BY <1>1, RoadFacts, Numbers
  <1> DEFINE Found == {p \in WaysBetween[srcjid, rsujid] : Follows(p)}
             Lengths == {INF} \cup {Length(p) : p \in Found}
  <1>3. Found = {p \in Ways : p[1] = srcjid /\ Last(p) = rsujid /\ Follows(p)}
    <2>1. WaysBetween[srcjid, rsujid] = {p \in Ways : p[1] = srcjid /\ Last(p) = rsujid}
      BY <1>1, <1>2 DEF WaysBetween, Vertices
    <2> QED
      BY <2>1
  <1> HIDE DEF Found
  <1>4. \A p \in Found : Length(p) \in Nat /\ distance[rsujid] <= Length(p)
    <2> TAKE p \in Found
    <2>1. PICK n \in 1 .. JuncNum + 1 : p \in [1 .. n -> Vertices]
      BY <1>3 DEF Ways, Vertices
    <2>2. p \in Seq(Vertices) /\ Len(p) = n /\ n > 0
      BY <2>1, RoadFacts
    <2>3. p[1] = srcjid /\ p[Len(p)] = rsujid /\ Follows(p)
      BY <1>3 DEF Last
    <2> QED
      BY <1>1, <2>2, <2>3, WaysAreLonger
  <1>5. Lengths \subseteq Nat /\ Lengths # {} /\ \A l \in Lengths : distance[rsujid] <= l
    BY <1>2, <1>4
  <1>6. distance[rsujid] \in Lengths
    <2>1. CASE distance[rsujid] = INF
      BY <2>1
    <2>2. CASE distance[rsujid] # INF
      <3>1. Forth(path)
        BY <2>2 DEF RoadInv, Stage
      <3>2. PICK q : q = <<srcjid>> \o path
        OBVIOUS
      <3>3. /\ q \in Ways /\ q[1] = srcjid /\ Last(q) = rsujid /\ Follows(q)
            /\ Length(q) = distance[rsujid]
        BY <1>1, <3>1, <3>2, FoundWay
      <3>4. q \in Found
        BY <1>3, <3>3
      <3> QED
        BY <3>3, <3>4
    <2> QED
      BY <2>1, <2>2
  <1>7. Shortest(rsujid) = Min(Lengths)
    BY DEF Shortest, Found
  <1> HIDE DEF Lengths
  <1>8. Min(Lengths) \in Lengths /\ \A l \in Lengths : Min(Lengths) <= l
    BY <1>5, MinIsLeast
  <1>9. Min(Lengths) \in Nat /\ Min(Lengths) <= distance[rsujid] /\ distance[rsujid] <= Min(Lengths)
    BY <1>5, <1>6, <1>8
  <1> QED
    BY <1>2, <1>7, <1>9

\* The invariant makes the result of a finished search a shortest way.
LEMMA InvIsShortest == RoadInv => PathIsShortest
  <1> SUFFICES ASSUME RoadInv, pc = "done", srcjid # rsujid
               PROVE  IF Shortest(rsujid) = INF THEN path = <<>>
                      ELSE /\ Follows(<<srcjid>> \o path)
                           /\ Last(path) = rsujid
                           /\ Length(<<srcjid>> \o path) = Shortest(rsujid)
    BY DEF PathIsShortest
  <1>1. Shortest(rsujid) = distance[rsujid]
    BY DistanceIsShortest
  <1>2. CASE distance[rsujid] = INF
    BY <1>1, <1>2 DEF RoadInv, Stage
  <1>3. CASE distance[rsujid] # INF
    <2>1. Forth(path) /\ RoadKinds /\ Tree /\ path \in Seq(Vertices)
      BY <1>3 DEF RoadInv, Stage, RoadKinds
    <2>2. PICK q : q = <<srcjid>> \o path
      OBVIOUS
    <2>3. Follows(q) /\ Length(q) = distance[rsujid]
      BY <2>1, <2>2, FoundWay
    <2>4. Last(path) = rsujid
      BY <2>1 DEF Forth, Last
    <2> QED
      BY <1>1, <1>3, <2>2, <2>3, <2>4
  <1> QED
    BY <1>2, <1>3

\* DijkstraAlgorithm is correct ("the shortest path" of its comment): for every
\* road map, weights and place of the vehicle, the junctions it returns are roads
\* from the vehicle to the RSU, no other way is shorter, and the list is empty only
\* when there is no way.
THEOREM ShortestCorrect == Spec => []PathIsShortest
  BY RoadsCorrect, InvIsShortest, PTL

-------------------------------------------------------------------------------
(* Termination.  What a search still has to do is counted; that it goes on at     *)
(* all is the fairness of Spec.                                                  *)

\* What is left of a search: the vertices to visit, above any length of the way
\* back; then the distance still to go back to the source.
LeftToDo ==
    IF pc = "search" THEN INF + 2 + Cardinality(Vertices \ visited)
    ELSE IF pc = "trace" THEN 1 + distance[jid]
    ELSE 0

\* A step of a search that is under way leaves less to do.
LessToDo ==
    pc \in {"search", "trace"} => LeftToDo \in Nat /\ LeftToDo' \in Nat /\ LeftToDo' < LeftToDo

\* The number of vertices that are not visited, and what a visit makes of it.
LEMMA FewerToVisit ==
    ASSUME RoadKinds
    PROVE  /\ Cardinality(Vertices \ visited) \in Nat
           /\ \A t \in Vertices \ visited :
                 /\ Cardinality(Vertices \ (visited \cup {t})) \in Nat
                 /\ Cardinality(Vertices \ (visited \cup {t})) < Cardinality(Vertices \ visited)
  <1> DEFINE rest == Vertices \ visited
  <1>1. IsFiniteSet(Vertices)
    BY RoadFacts, FS_Interval DEF Vertices
  <1>2. IsFiniteSet(rest)
    BY <1>1, FS_Subset
  <1>3. Cardinality(rest) \in Nat
    BY <1>2, FS_CardinalityType
  <1>4. ASSUME NEW t \in rest
        PROVE  /\ Cardinality(Vertices \ (visited \cup {t})) \in Nat
               /\ Cardinality(Vertices \ (visited \cup {t})) < Cardinality(rest)
    <2>1. Vertices \ (visited \cup {t}) = rest \ {t}
      OBVIOUS
    <2> HIDE DEF rest
    <2>2. /\ IsFiniteSet(rest \ {t})
          /\ Cardinality(rest \ {t}) = IF t \in rest THEN Cardinality(rest) - 1 ELSE Cardinality(rest)
      BY <1>2, FS_RemoveElement
    <2>3. Cardinality(rest \ {t}) \in Nat
      BY <2>2, FS_CardinalityType
    <2> QED
      BY <1>3, <2>1, <2>2, <2>3
  <1> QED
    BY <1>3, <1>4

\* A turn of the loop leaves fewer vertices, its end only the way back.
LEMMA SearchLessens ==
    ASSUME RoadInv, Search
    PROVE  LeftToDo \in Nat /\ LeftToDo' \in Nat /\ LeftToDo' < LeftToDo
  <1>1. pc = "search" /\ RoadKinds /\ jid = rsujid /\ jid' = jid
    BY DEF Search, RoadInv, Stage
  <1>2. PICK n \in Nat : n = Cardinality(Vertices \ visited)
    BY <1>1, FewerToVisit
  <1>3. INF \in Nat /\ rsujid \in Vertices /\ distance[rsujid] \in Nat /\ distance[rsujid] <= INF
    BY <1>1, RoadFacts, Numbers
  <1>4. LeftToDo = INF + 2 + n
    BY <1>1, <1>2 DEF LeftToDo
  <1>5. CASE visited = Vertices \/ Nearest = rsujid
    <2>1. pc' \in {"done", "trace"} /\ distance' = distance
      BY <1>5 DEF Search
    <2>2. LeftToDo' \in {0, 1 + distance[rsujid]}
      BY <1>1, <2>1 DEF LeftToDo
    <2> QED
      BY <1>2, <1>3, <1>4, <2>2
  <1>6. CASE ~(visited = Vertices \/ Nearest = rsujid)
    <2>1. pc' = "search" /\ visited' = visited \cup {Nearest}
      BY <1>1, <1>6 DEF Search
    <2>2. Nearest \in Vertices \ visited
      BY <1>1, <1>6, NearestIsNearest
    <2>3. PICK m \in Nat : m = Cardinality(Vertices \ (visited \cup {Nearest})) /\ m < n
      BY <1>1, <1>2, <2>2, FewerToVisit
    <2>4. LeftToDo' = INF + 2 + m
      BY <2>1, <2>3 DEF LeftToDo, Vertices
    <2> QED
      BY <1>2, <1>3, <1>4, <2>3, <2>4
  <1> QED
    BY <1>5, <1>6

\* A step back along parent leads to a nearer vertex.
LEMMA TraceLessens ==
    ASSUME RoadInv, TraceBack
    PROVE  LeftToDo \in Nat /\ LeftToDo' \in Nat /\ LeftToDo' < LeftToDo
  <1>1. pc = "trace" /\ Tree /\ RoadKinds /\ jid \in Vertices /\ distance[jid] # INF
    BY DEF TraceBack, RoadInv, Stage
  <1>2. distance' = distance /\ distance[jid] \in Nat /\ LeftToDo = 1 + distance[jid]
    BY <1>1, Numbers DEF TraceBack, LeftToDo
  <1>3. CASE jid = srcjid
    <2>1. LeftToDo' = 0
      BY <1>3 DEF TraceBack, LeftToDo
    <2> QED
      BY <1>2, <2>1
  <1>4. CASE jid # srcjid
    <2>1. parent[jid] \in Vertices /\ distance[parent[jid]] < distance[jid]
      BY <1>1, <1>4, ParentIsNearer
    <2>2. distance[parent[jid]] \in Nat
      BY <1>1, <2>1, Numbers
    <2>3. LeftToDo' = 1 + distance[parent[jid]]
      BY <1>1, <1>2, <1>4 DEF TraceBack, LeftToDo
    <2> QED
      BY <1>2, <2>1, <2>2, <2>3
  <1> QED
    BY <1>3, <1>4

\* The loops of DijkstraAlgorithm cannot go on for ever: while it searches or goes
\* back along parent, every step lessens a natural number.  Parent is no circle.
THEOREM SearchShrinks == Spec => [][LessToDo]_vars
  <1>1. RoadInv /\ [Next]_vars => [LessToDo]_vars
    <2> SUFFICES ASSUME RoadInv, Next, pc \in {"search", "trace"}
                 PROVE  LeftToDo \in Nat /\ LeftToDo' \in Nat /\ LeftToDo' < LeftToDo
      BY DEF LessToDo
    <2>1. Search \/ TraceBack
      BY DEF Next, UpdateGraph, PlanFromJunction, PlanFromSegment, Return
    <2> QED
      BY <2>1, SearchLessens, TraceLessens
  <1> QED
    BY <1>1, RoadsCorrect, PTL DEF Spec

==============================================================================
