---------------------------- MODULE GrpGreedyProofs ----------------------------
(***************************************************************************)
(* Greedy forwarding around a junction, for any number of vehicles, any places, *)
(* ranges, widths and speeds: the best neighbour is chosen, and what it takes   *)
(* to bring a packet back to a vehicle that had it.                            *)
(***************************************************************************)
EXTENDS GrpGreedy, WellFoundedInduction, TLAPS

-------------------------------------------------------------------------------
(* Induction *)

\* A non-empty set of naturals has a least element.
LEMMA LeastNatural ==
    ASSUME NEW T, T \subseteq Nat, T # {}
    PROVE  \E n \in T : \A m \in T : n <= m
  <1> DEFINE R == {ss \in Nat \X Nat : ss[1] < ss[2]}
  <1>1. IsWellFoundedOn(R, Nat)
    BY NatLessThanWellFounded DEF OpToRel
  <1>2. PICK x \in T : \A y \in T : <<y, x>> \notin R
    <2> HIDE DEF R
    <2> QED BY <1>1, WFMin
  <1>3. ASSUME NEW y \in T PROVE x <= y
    <2>1. x \in Nat /\ y \in Nat /\ <<y, x>> \in Nat \X Nat
      OBVIOUS
    <2>2. ~(y < x)
      BY <1>2, <2>1
    <2> QED
      BY <2>1, <2>2
  <1> QED
    BY <1>2, <1>3

\* A set that holds 0 and with each natural the next one holds them all.
LEMMA Induction ==
    ASSUME NEW S, 0 \in S, \A n \in Nat : n \in S => n + 1 \in S
    PROVE  Nat \subseteq S
  <1> SUFFICES ASSUME Nat \ S # {} PROVE FALSE
    OBVIOUS
  <1>1. PICK n \in Nat \ S : \A m \in Nat \ S : n <= m
    BY LeastNatural
  <1>2. n # 0 /\ n - 1 \in Nat
    BY <1>1
  <1>3. n - 1 \in S
    BY <1>1, <1>2
  <1> QED
    BY <1>1, <1>2, <1>3

-------------------------------------------------------------------------------
(* Squares and distances *)

Points == Nat \X Nat

LEMMA SquareLess ==
    ASSUME NEW x \in Nat, NEW y \in Nat
    PROVE  /\ Square(x) \in Nat
           /\ x < y <=> Square(x) < Square(y)
           /\ x <= y <=> Square(x) <= Square(y)
  <1>1. x < y => x * x < y * y
    OBVIOUS
  <1>2. y <= x => y * y <= x * x
    OBVIOUS
  <1>3. x * x \in Nat /\ y * y \in Nat
    OBVIOUS
  <1>4. x <= y => x * x <= y * y
    OBVIOUS
  <1>5. y < x => y * y < x * x
    OBVIOUS
  <1> QED
    BY <1>1, <1>2, <1>3, <1>4, <1>5 DEF Square

\* The square of a difference does not depend on its sign.
LEMMA SquareOfDifference ==
    ASSUME NEW x \in Int, NEW y \in Int
    PROVE  Square(x - y) = Square(y - x) /\ Square(x - y) \in Nat
  <1>1. (x - y) * (x - y) = (y - x) * (y - x)
    OBVIOUS
  <1>2. PICK z \in Int : z = x - y
    OBVIOUS
  <1>3. z * z \in Nat
    OBVIOUS
  <1> QED
    BY <1>1, <1>2, <1>3 DEF Square

\* Squared distances are naturals.
LEMMA DistanceType == \A p, q \in Points : Dis2(p, q) \in Nat
  <1> SUFFICES ASSUME NEW p \in Points, NEW q \in Points PROVE Dis2(p, q) \in Nat
    OBVIOUS
  <1>1. p[1] \in Int /\ p[2] \in Int /\ q[1] \in Int /\ q[2] \in Int
    BY DEF Points
  <1>2. Square(p[1] - q[1]) \in Nat /\ Square(p[2] - q[2]) \in Nat
    BY <1>1, SquareOfDifference
  <1> QED
    BY <1>2 DEF Dis2

-------------------------------------------------------------------------------
(* The map *)

L == RoadLength
R == JunAreaRadius

LEMMA Sizes ==
    /\ L \in Nat /\ R \in Nat /\ RoadWidth \in Nat /\ 2 * R < L /\ RoadWidth < R /\ 0 < L
    /\ RSSIDistanceThreshold \in Nat /\ Drift \in Nat /\ N \in Nat \ {0} /\ MaxHops \in Nat \ {0}
  BY GreedyAssumption DEF L, R

LEMMA MapValue ==
    /\ m_map["A"] = <<0, 0>> /\ m_map["B"] = <<L, 0>> /\ m_map["C"] = <<0, L>>
    /\ DOMAIN m_map = {"A", "B", "C"}
    /\ \A j \in {"A", "B", "C"} : m_map[j] \in Points
  <1>1. /\ m_map["A"] = <<0, 0>> /\ m_map["B"] = <<L, 0>> /\ m_map["C"] = <<0, L>>
        /\ DOMAIN m_map = {"A", "B", "C"}
    BY DEF m_map, L
  <1>2. <<0, 0>> \in Points /\ <<L, 0>> \in Points /\ <<0, L>> \in Points
    BY Sizes DEF Points
  <1> QED
    BY <1>1, <1>2

\* The two roads are on the axes.
LEMMA RoadPlaces ==
    /\ \A p \in RoadTo("B") : \E d \in Places : d \in 0 .. L /\ p = <<d, 0>>
    /\ \A p \in RoadTo("C") : \E d \in Places : d \in 0 .. L /\ p = <<0, d>>
    /\ \A d \in Places : <<d, 0>> \in RoadTo("B") /\ <<0, d>> \in RoadTo("C")
    /\ Roads \subseteq Points /\ Unknown \notin Roads
    /\ \A p \in Roads : \E d \in 0 .. L : p = <<d, 0>> \/ p = <<0, d>>
  <1>1. Places \subseteq 0 .. L /\ L \in Nat
    BY GreedyAssumption DEF L
  <1>2. RoadTo("B") = {<<d, 0>> : d \in Places} /\ RoadTo("C") = {<<0, d>> : d \in Places}
    BY DEF RoadTo
  <1>3. Roads = {<<d, 0>> : d \in Places} \cup {<<0, d>> : d \in Places}
    BY <1>2 DEF Roads
  <1>4. \A p \in Roads : \E d \in 0 .. L : p = <<d, 0>> \/ p = <<0, d>>
    BY <1>1, <1>3
  <1>5. Roads \subseteq Points
    BY <1>1, <1>4 DEF Points
  <1>6. Unknown \notin Roads
    BY <1>5 DEF Unknown, Points
  <1> QED
    BY <1>1, <1>2, <1>4, <1>5, <1>6

\* Squared distances to the junctions from the two roads.
LEMMA RoadDistances ==
    ASSUME NEW d \in 0 .. L
    PROVE  /\ Dis2(<<d, 0>>, m_map["A"]) = Square(d) /\ Dis2(<<0, d>>, m_map["A"]) = Square(d)
           /\ Dis2(<<d, 0>>, m_map["B"]) = Square(L - d) /\ Dis2(<<0, d>>, m_map["C"]) = Square(L - d)
           /\ Dis2(<<0, d>>, m_map["B"]) = Square(L) + Square(d)
           /\ Dis2(<<d, 0>>, m_map["C"]) = Square(L) + Square(d)
           /\ d \in Nat /\ L - d \in Nat
  <1>1. L \in Nat /\ d \in Nat /\ L - d \in Nat
    BY Sizes
  <1>2. /\ Square(0 - 0) = 0 /\ Square(d - 0) = Square(d) /\ Square(0 - d) = Square(d)
        /\ Square(d - L) = Square(L - d) /\ Square(0 - L) = Square(L)
        /\ Square(d) \in Nat /\ Square(L - d) \in Nat /\ Square(L) \in Nat
    <2>1. Square(0 - 0) = 0
      BY DEF Square
    <2>2. d - 0 = d /\ L - 0 = L /\ d \in Int /\ L \in Int /\ 0 \in Int
      BY <1>1
    <2> QED
      BY <1>1, <2>1, <2>2, SquareOfDifference, SquareLess
  <1> HIDE DEF Square
  <1> QED
    BY <1>1, <1>2, MapValue DEF Dis2

\* A vehicle is in the area of at most one junction, on a road of that junction.
LEMMA AreaFacts ==
    ASSUME NEW p \in Roads
    PROVE  /\ Areas(p) \subseteq {"A", "B", "C"}
           /\ "A" \in Areas(p) => p[1] < R /\ p[2] < R
           /\ "B" \in Areas(p) => p[2] = 0 /\ p[1] > L - R
           /\ "C" \in Areas(p) => p[1] = 0 /\ p[2] > L - R
  <1>1. PICK d \in 0 .. L : p = <<d, 0>> \/ p = <<0, d>>
    BY RoadPlaces
  <1>2. d \in Nat /\ L \in Nat /\ R \in Nat /\ L - d \in Nat /\ R < L
    BY RoadDistances, Sizes
  <1>3. /\ Square(d) < Square(R) <=> d < R
        /\ Square(L - d) < Square(R) <=> L - d < R
        /\ ~(Square(L) + Square(d) < Square(R))
    <2>1. Square(d) \in Nat /\ Square(L) \in Nat /\ Square(R) \in Nat /\ Square(R) < Square(L)
      BY <1>2, SquareLess
    <2> QED
      BY <1>2, <2>1, SquareLess
  <1>4. \A j \in {"A", "B", "C"} : j \in Areas(p) <=> Dis2(p, m_map[j]) < Square(R)
    BY MapValue DEF Areas, R
  <1>5. CASE p = <<d, 0>>
    <2>1. Dis2(p, m_map["A"]) = Square(d) /\ Dis2(p, m_map["B"]) = Square(L - d)
          /\ Dis2(p, m_map["C"]) = Square(L) + Square(d)
      BY <1>5, RoadDistances
    <2>2. ("A" \in Areas(p) => d < R) /\ ("B" \in Areas(p) => L - d < R) /\ "C" \notin Areas(p)
      BY <1>3, <1>4, <2>1
    <2>3. p[1] = d /\ p[2] = 0
      BY <1>5
    <2> QED
      BY <1>2, <2>2, <2>3, Sizes, MapValue DEF Areas
  <1>6. CASE p = <<0, d>>
    <2>1. Dis2(p, m_map["A"]) = Square(d) /\ Dis2(p, m_map["C"]) = Square(L - d)
          /\ Dis2(p, m_map["B"]) = Square(L) + Square(d)
      BY <1>6, RoadDistances
    <2>2. ("A" \in Areas(p) => d < R) /\ ("C" \in Areas(p) => L - d < R) /\ "B" \notin Areas(p)
      BY <1>3, <1>4, <2>1
    <2>3. p[1] = 0 /\ p[2] = d
      BY <1>6
    <2> QED
      BY <1>2, <2>2, <2>3, Sizes, MapValue DEF Areas
  <1> QED
    BY <1>1, <1>5, <1>6

\* The ends of a segment, and which of them GetNearestJID takes for the vehicle's own:
\* the one whose area it is in.
LEMMA NearestJunction ==
    ASSUME NEW p \in Roads, NEW segment \in Segments(p), NEW near,
           near = GetNearestJID(p, segment[1], segment[2])
    PROVE  /\ p \in RoadTo("B") \/ near \in {"A", "C"}
           /\ near \in {"A", "B", "C"}
           /\ \A j \in Areas(p) : near = j
  <1>1. /\ segment \in {<<"A", "B">>, <<"B", "A">>, <<"A", "C">>, <<"C", "A">>}
        /\ p \in RoadTo(IF segment[1] = "A" THEN segment[2] ELSE segment[1])
        /\ Areas(p) \subseteq {segment[1]}
    BY DEF Segments
  <1>2. PICK jid \in {"B", "C"} :
            p \in RoadTo(jid) /\ (segment = <<"A", jid>> \/ segment = <<jid, "A">>)
    BY <1>1
  <1>3. PICK d \in 0 .. L : p = IF jid = "B" THEN <<d, 0>> ELSE <<0, d>>
    <2>1. CASE jid = "B"
      BY <1>2, <2>1, RoadPlaces
    <2>2. CASE jid = "C"
      BY <1>2, <2>2, RoadPlaces
    <2> QED
      BY <2>1, <2>2
  <1>4. d \in Nat /\ L - d \in Nat /\ L \in Nat /\ R \in Nat /\ 2 * R < L
    BY RoadDistances, Sizes
  <1>5. Dis2(p, m_map["A"]) = Square(d) /\ Dis2(p, m_map[jid]) = Square(L - d)
    BY <1>2, <1>3, RoadDistances
  <1>6. (d < L - d <=> Square(d) < Square(L - d)) /\ (L - d < d <=> Square(L - d) < Square(d))
    BY <1>4, SquareLess
  <1>7. (p[1] = d /\ p[2] = 0 /\ jid = "B") \/ (p[1] = 0 /\ p[2] = d /\ jid = "C")
    BY <1>2, <1>3
  <1>8. near \in {"A", jid}
    BY <1>2 DEF GetNearestJID
  <1>9. ASSUME NEW j \in Areas(p) PROVE near = j
    <2>1. CASE segment = <<"A", jid>>
      <3>1. j = "A" /\ d < R
        BY <1>1, <1>7, <1>9, <2>1, AreaFacts
      <3>2. d < L - d
        BY <1>4, <3>1
      <3> QED
        BY <1>5, <1>6, <2>1, <3>1, <3>2 DEF GetNearestJID
    <2>2. CASE segment = <<jid, "A">>
      <3>1. j = jid /\ d > L - R
        BY <1>1, <1>4, <1>7, <1>9, <2>2, AreaFacts
      <3>2. L - d < d
        BY <1>4, <3>1
      <3> QED
        BY <1>5, <1>6, <2>2, <3>1, <3>2 DEF GetNearestJID
    <2> QED
      BY <1>2, <2>1, <2>2
  <1>10. \A j \in Areas(p) : near = j
    BY <1>9
  <1>11. p \in RoadTo("B") \/ near \in {"A", "C"}
    BY <1>2, <1>8
  <1> QED
    BY <1>8, <1>10, <1>11

\* No vehicle is in two areas.
LEMMA OneArea ==
    ASSUME NEW p \in Roads, NEW i \in Areas(p), NEW j \in Areas(p)
    PROVE  i = j
  <1>1. /\ i \in {"A", "B", "C"} /\ j \in {"A", "B", "C"}
        /\ "A" \in Areas(p) => p[1] < R /\ p[2] < R
        /\ "B" \in Areas(p) => p[2] = 0 /\ p[1] > L - R
        /\ "C" \in Areas(p) => p[1] = 0 /\ p[2] > L - R
    BY AreaFacts
  <1>2. p[1] \in Nat /\ p[2] \in Nat /\ L \in Nat /\ R \in Nat /\ 2 * R < L
    BY RoadPlaces, Sizes DEF Points
  <1> QED
    BY <1>1, <1>2

\* The areas of B and C are on their roads, and that of C is off the road to B.
LEMMA AreaOnRoad ==
    ASSUME NEW p \in Roads
    PROVE  /\ "B" \in Areas(p) => p \in RoadTo("B")
           /\ "C" \in Areas(p) => p \notin RoadTo("B")
  <1>1. /\ "B" \in Areas(p) => p[1] > L - R
        /\ "C" \in Areas(p) => p[2] > L - R
    BY AreaFacts
  <1>2. L \in Nat /\ R \in Nat /\ 2 * R < L
    BY Sizes
  <1>3. p \in RoadTo("B") => p[2] = 0
    BY RoadPlaces
  <1>4. p \in RoadTo("C") => p[1] = 0
    BY RoadPlaces
  <1>5. p \in RoadTo("B") \/ p \in RoadTo("C")
    BY DEF Roads
  <1> QED
    BY <1>1, <1>2, <1>3, <1>4, <1>5

\* The bounds that isBetweenSegment computes.
LEMMA MinMaxOfTwo ==
    ASSUME NEW a \in Nat, NEW b \in Nat, a <= b
    PROVE  Min({a, b}) = a /\ Min({b, a}) = a /\ Max({a, b}) = b /\ Max({b, a}) = b
  <1>1. {b, a} = {a, b}
    OBVIOUS
  <1>2. Min({a, b}) = a
    BY DEF Min
  <1>3. Max({a, b}) = b
    BY DEF Max
  <1> QED
    BY <1>1, <1>2, <1>3

\* The test of the road ahead, on the roads from A to B and from C to A, and for the
\* segment from B to B that a vehicle in the area of B asks about.
LEMMA BetweenFacts ==
    ASSUME NEW p \in Roads
    PROVE  /\ isBetweenSegment(p, "A", "B") <=> p \in On("B")
           /\ isBetweenSegment(p, "C", "A") <=> p \in On("C")
           /\ isBetweenSegment(p, "B", "B") => p = <<L, 0>>
  <1> DEFINE x == p[1]
             y == p[2]
             W == RoadWidth
  <1>1. /\ x \in Nat /\ y \in Nat /\ x <= L /\ y <= L /\ (x = 0 \/ y = 0) /\ p = <<x, y>>
        /\ L \in Nat /\ L > 0 /\ W \in Nat
    BY RoadPlaces, Sizes
  <1>2. /\ m_map["A"][1] = 0 /\ m_map["A"][2] = 0 /\ m_map["B"][1] = L /\ m_map["B"][2] = 0
        /\ m_map["C"][1] = 0 /\ m_map["C"][2] = L
    BY MapValue
  <1>3. GetDirection("A", "B") = 0 /\ GetDirection("C", "A") = 3 /\ GetDirection("B", "B") = 2
    BY <1>1, <1>2 DEF GetDirection
  <1>4. 0 % 2 = 0 /\ 2 % 2 = 0 /\ 3 % 2 = 1
    OBVIOUS
  <1>5. /\ Min({0, L}) = 0 /\ Max({0, L}) = L /\ Min({L, 0}) = 0 /\ Max({L, 0}) = L
        /\ Min({0, 0}) = 0 /\ Max({0, 0}) = 0 /\ Min({L, L}) = L /\ Max({L, L}) = L
    BY <1>1, MinMaxOfTwo
  <1>6. isBetweenSegment(p, "A", "B") <=> x >= 0 /\ x <= L /\ y >= 0 - W /\ y <= 0 + W
    <2>1. 2 - (GetDirection("A", "B") % 2) = 2
      BY <1>3, <1>4
    <2>2. isBetweenSegment(p, "A", "B") <=>
            \A i \in 1 .. 2 :
                /\ p[i] >= Min({m_map["A"][i], m_map["B"][i]}) - (IF i = 2 THEN W ELSE 0)
                /\ p[i] <= Max({m_map["A"][i], m_map["B"][i]}) + (IF i = 2 THEN W ELSE 0)
      BY <2>1 DEF isBetweenSegment
    <2>3. /\ Min({m_map["A"][1], m_map["B"][1]}) = 0 /\ Max({m_map["A"][1], m_map["B"][1]}) = L
          /\ Min({m_map["A"][2], m_map["B"][2]}) = 0 /\ Max({m_map["A"][2], m_map["B"][2]}) = 0
      BY <1>2, <1>5
    <2>4. isBetweenSegment(p, "A", "B") <=>
            /\ p[1] >= 0 - (IF 1 = 2 THEN W ELSE 0) /\ p[1] <= L + (IF 1 = 2 THEN W ELSE 0)
            /\ p[2] >= 0 - (IF 2 = 2 THEN W ELSE 0) /\ p[2] <= 0 + (IF 2 = 2 THEN W ELSE 0)
      <3>1. \A i \in 1 .. 2 : i = 1 \/ i = 2
        OBVIOUS
      <3>2. 1 \in 1 .. 2 /\ 2 \in 1 .. 2
        OBVIOUS
      <3> QED
        BY <2>2, <2>3, <3>1, <3>2
    <2> QED
      BY <1>1, <2>4
  <1>7. isBetweenSegment(p, "C", "A") <=> x >= 0 - W /\ x <= 0 + W /\ y >= 0 /\ y <= L
    <2>1. 2 - (GetDirection("C", "A") % 2) = 1
      BY <1>3, <1>4
    <2>2. isBetweenSegment(p, "C", "A") <=>
            \A i \in 1 .. 2 :
                /\ p[i] >= Min({m_map["C"][i], m_map["A"][i]}) - (IF i = 1 THEN W ELSE 0)
                /\ p[i] <= Max({m_map["C"][i], m_map["A"][i]}) + (IF i = 1 THEN W ELSE 0)
      BY <2>1 DEF isBetweenSegment
    <2>3. /\ Min({m_map["C"][1], m_map["A"][1]}) = 0 /\ Max({m_map["C"][1], m_map["A"][1]}) = 0
          /\ Min({m_map["C"][2], m_map["A"][2]}) = 0 /\ Max({m_map["C"][2], m_map["A"][2]}) = L
      BY <1>2, <1>5
    <2>4. isBetweenSegment(p, "C", "A") <=>
            /\ p[1] >= 0 - (IF 1 = 1 THEN W ELSE 0) /\ p[1] <= 0 + (IF 1 = 1 THEN W ELSE 0)
            /\ p[2] >= 0 - (IF 2 = 1 THEN W ELSE 0) /\ p[2] <= L + (IF 2 = 1 THEN W ELSE 0)
      <3>1. \A i \in 1 .. 2 : i = 1 \/ i = 2
        OBVIOUS
      <3>2. 1 \in 1 .. 2 /\ 2 \in 1 .. 2
        OBVIOUS
      <3> QED
        BY <2>2, <2>3, <3>1, <3>2
    <2> QED
      BY <1>1, <2>4
  <1>8. isBetweenSegment(p, "B", "B") <=> x >= L /\ x <= L /\ y >= 0 - W /\ y <= 0 + W
    <2>1. 2 - (GetDirection("B", "B") % 2) = 2
      BY <1>3, <1>4
    <2>2. isBetweenSegment(p, "B", "B") <=>
            \A i \in 1 .. 2 :
                /\ p[i] >= Min({m_map["B"][i], m_map["B"][i]}) - (IF i = 2 THEN W ELSE 0)
                /\ p[i] <= Max({m_map["B"][i], m_map["B"][i]}) + (IF i = 2 THEN W ELSE 0)
      BY <2>1 DEF isBetweenSegment
    <2>3. /\ Min({m_map["B"][1], m_map["B"][1]}) = L /\ Max({m_map["B"][1], m_map["B"][1]}) = L
          /\ Min({m_map["B"][2], m_map["B"][2]}) = 0 /\ Max({m_map["B"][2], m_map["B"][2]}) = 0
      BY <1>2, <1>5
    <2>4. isBetweenSegment(p, "B", "B") <=>
            /\ p[1] >= L - (IF 1 = 2 THEN W ELSE 0) /\ p[1] <= L + (IF 1 = 2 THEN W ELSE 0)
            /\ p[2] >= 0 - (IF 2 = 2 THEN W ELSE 0) /\ p[2] <= 0 + (IF 2 = 2 THEN W ELSE 0)
      <3>1. \A i \in 1 .. 2 : i = 1 \/ i = 2
        OBVIOUS
      <3>2. 1 \in 1 .. 2 /\ 2 \in 1 .. 2
        OBVIOUS
      <3> QED
        BY <2>2, <2>3, <3>1, <3>2
    <2> QED
      BY <1>1, <2>4
  <1>9. p \in On("B") <=> y <= W
    <2>1. p \in RoadTo("B") => y = 0
      BY RoadPlaces
    <2>2. y = 0 => p \in RoadTo("B") \/ (x <= W /\ y <= W)
      <3>1. p \in RoadTo("B") \/ p \in RoadTo("C")
        BY DEF Roads
      <3>2. p \in RoadTo("C") => x = 0
        BY RoadPlaces
      <3> QED
        BY <1>1, <3>1, <3>2
    <2> QED
      BY <1>1, <2>1, <2>2 DEF On
  <1>10. p \in On("C") <=> x <= W
    <2>1. p \in RoadTo("C") => x = 0
      BY RoadPlaces
    <2>2. x = 0 => p \in RoadTo("C") \/ (x <= W /\ y <= W)
      <3>1. p \in RoadTo("B") \/ p \in RoadTo("C")
        BY DEF Roads
      <3>2. p \in RoadTo("B") => y = 0
        BY RoadPlaces
      <3> QED
        BY <1>1, <3>1, <3>2
    <2> QED
      BY <1>1, <2>1, <2>2 DEF On
  <1> QED
    BY <1>1, <1>6, <1>7, <1>8, <1>9, <1>10

-------------------------------------------------------------------------------
(* The loop of IntraPathRouting *)

\* The neighbours that the loop considers at all.
Candidate(p, cjid, dstjid, at) ==
    /\ at # Unknown
    /\ Dis2(at, p) < Square(RSSIDistanceThreshold)
    /\ Areas(p) = {} \/ isBetweenSegment(at, cjid, dstjid)

\* The states of the loop over a table.
IsLoop(f, p, table, cjid, dstjid, start) ==
    f = [i \in 0 .. N |-> IF i = 0 THEN start ELSE Closer(p, cjid, dstjid, i, table[i], f[i - 1])]

\* The recursion over 0 .. N does define a function.
LEMMA BestIsLoop ==
    ASSUME NEW p, NEW table, NEW cjid, NEW dstjid, NEW start
    PROVE  \E f : IsLoop(f, p, table, cjid, dstjid, start) /\ Best(p, table, cjid, dstjid, start) = f[N]
  <1> DEFINE Step(i, b) == Closer(p, cjid, dstjid, i, table[i], b)
             Def(g, n) == [i \in 0 .. n |-> IF i = 0 THEN start ELSE Step(i, g[i - 1])]
             Good == {n \in Nat : \E g : g = Def(g, n)}
  <1>0. N \in Nat
    BY Sizes
  <1>6. ASSUME NEW g, g = Def(g, N)
        PROVE  IsLoop(g, p, table, cjid, dstjid, start)
    BY <1>6 DEF IsLoop
  <1>7. Best(p, table, cjid, dstjid, start) = (CHOOSE g : g = Def(g, N))[N]
    BY DEF Best
  <1> HIDE DEF Step
  <1>1. 0 \in Good
    <2> DEFINE g == [i \in 0 .. 0 |-> start]
    <2>1. g = Def(g, 0)
      OBVIOUS
    <2> QED
      BY <2>1
  <1>2. ASSUME NEW n \in Nat, n \in Good PROVE n + 1 \in Good
    <2>1. PICK g : g = Def(g, n)
      BY <1>2
    <2> DEFINE h == [i \in 0 .. n + 1 |-> IF i = n + 1 THEN Step(i, g[n]) ELSE g[i]]
    <2>2. h = Def(h, n + 1)
      BY <2>1
    <2> HIDE DEF h, Def
    <2> QED
      BY <2>2
  <1>3. Nat \subseteq Good
    <2> HIDE DEF Good
    <2> QED
      BY <1>1, <1>2, Induction
  <1>4. \E g : g = Def(g, N)
    BY <1>0, <1>3
  <1> HIDE DEF Def
  <1>5. PICK f : f = (CHOOSE g : g = Def(g, N)) /\ f = Def(f, N)
    BY <1>4
  <1> QED
    BY <1>5, <1>6, <1>7

\* The loop finds the candidate nearest to the goal, if one is nearer than the vehicle.
LEMMA BestIsBest ==
    ASSUME NEW p \in Points, NEW table \in [Vehicles -> Roads \cup {Unknown}],
           NEW cjid, NEW dstjid \in {"A", "B", "C"}, NEW own \in Nat, NEW hop,
           hop = Best(p, table, cjid, dstjid, [mindis |-> own, nextHop |-> NoHop]).nextHop
    PROVE  /\ hop \in Vehicles \cup {NoHop}
           /\ hop \in Vehicles =>
                /\ Candidate(p, cjid, dstjid, table[hop])
                /\ Dis2(table[hop], m_map[dstjid]) < own
                /\ \A u \in Vehicles : Candidate(p, cjid, dstjid, table[u]) =>
                        Dis2(table[u], m_map[dstjid]) >= Dis2(table[hop], m_map[dstjid])
  <1> DEFINE start == [mindis |-> own, nextHop |-> NoHop]
             Ok(u) == Candidate(p, cjid, dstjid, table[u])
             D(u) == Dis2(table[u], m_map[dstjid])
  <1>1. PICK f : IsLoop(f, p, table, cjid, dstjid, start) /\ Best(p, table, cjid, dstjid, start) = f[N]
    BY BestIsLoop
  <1>2. N \in Nat /\ Vehicles = 1 .. N /\ NoHop \notin Vehicles
    BY Sizes DEF Vehicles, NoHop
  <1>3. \A u \in Vehicles : Ok(u) => D(u) \in Nat
    <2> SUFFICES ASSUME NEW u \in Vehicles, Ok(u) PROVE D(u) \in Nat
      OBVIOUS
    <2>1. table[u] \in Points
      BY RoadPlaces DEF Candidate
    <2> QED
      BY <2>1, MapValue, DistanceType
  <1>4. f[0] = start
    BY <1>1, <1>2 DEF IsLoop
  <1>5. ASSUME NEW i \in 0 .. N - 1
        PROVE  f[i + 1] = IF Ok(i + 1) /\ D(i + 1) < f[i].mindis
                          THEN [mindis |-> D(i + 1), nextHop |-> i + 1] ELSE f[i]
    <2>1. i + 1 \in 0 .. N /\ i + 1 # 0 /\ (i + 1) - 1 = i
      BY <1>2
    <2>2. f[i + 1] = Closer(p, cjid, dstjid, i + 1, table[i + 1], f[i])
      BY <1>1, <2>1 DEF IsLoop
    <2> QED
      BY <2>2 DEF Closer, Candidate
  <1> HIDE DEF Ok, D
  <1> DEFINE Inv(i) ==
                /\ f[i].mindis \in Nat /\ f[i].nextHop \in (1 .. i) \cup {NoHop}
                /\ f[i].nextHop = NoHop => f[i].mindis = own
                /\ f[i].nextHop # NoHop =>
                     Ok(f[i].nextHop) /\ D(f[i].nextHop) = f[i].mindis /\ f[i].mindis < own
                /\ \A u \in 1 .. i : Ok(u) => D(u) >= f[i].mindis
             S == {i \in Nat : i <= N => Inv(i)}
  <1>6. 0 \in S
    BY <1>4
  <1>7. ASSUME NEW i \in Nat, i \in S PROVE i + 1 \in S
    <2> SUFFICES ASSUME i + 1 <= N PROVE Inv(i + 1)
      OBVIOUS
    <2>1. Inv(i) /\ i \in 0 .. N - 1 /\ i + 1 \in Vehicles /\ i + 1 # NoHop
      BY <1>2, <1>7
    <2>2. \A u \in 1 .. i + 1 : u \in 1 .. i \/ u = i + 1
      OBVIOUS
    <2>3. \A u \in 1 .. i + 1 : Ok(u) => D(u) \in Nat
      BY <1>2, <1>3
    <2>4. CASE Ok(i + 1) /\ D(i + 1) < f[i].mindis
      <3>1. f[i + 1] = [mindis |-> D(i + 1), nextHop |-> i + 1]
        BY <1>5, <2>1, <2>4
      <3>2. f[i + 1].mindis = D(i + 1) /\ f[i + 1].nextHop = i + 1 /\ D(i + 1) \in Nat
        BY <2>3, <2>4, <3>1
      <3>3. D(i + 1) < own
        BY <2>1, <2>4, <3>2
      <3>4. \A u \in 1 .. i + 1 : Ok(u) => D(u) >= D(i + 1)
        BY <2>1, <2>2, <2>3, <2>4, <3>2
      <3> QED
        BY <2>1, <2>4, <3>2, <3>3, <3>4
    <2>5. CASE ~(Ok(i + 1) /\ D(i + 1) < f[i].mindis)
      <3>1. f[i + 1] = f[i]
        BY <1>5, <2>1, <2>5
      <3>2. \A u \in 1 .. i + 1 : Ok(u) => D(u) >= f[i].mindis
        BY <2>1, <2>2, <2>3, <2>5
      <3> QED
        BY <2>1, <3>1, <3>2
    <2> QED
      BY <2>4, <2>5
  <1>8. Nat \subseteq S
    <2> HIDE DEF S
    <2> QED
      BY <1>6, <1>7, Induction
  <1>9. Inv(N) /\ hop = f[N].nextHop
    BY <1>1, <1>2, <1>8
  <1> QED
    BY <1>2, <1>9 DEF Ok, D

\* In reach and, seen from a junction, on the road ahead (Eligible).
Fits(p, goal, at) ==
    /\ at # Unknown /\ Dis2(at, p) < Square(RSSIDistanceThreshold)
    /\ Areas(p) # {} => at \in On(IF goal = "A" THEN "C" ELSE "B")

\* The goal that a junction gives to a packet.
GivenAt(p, goal) == Areas(p) # {} => goal = IF "C" \in Areas(p) THEN "A" ELSE "B"

\* What BestNeighbour asks of a choice.
IsBest(p, goal, table, hop) ==
    /\ Fits(p, goal, table[hop])
    /\ Dis2(table[hop], m_map[goal]) < Dis2(p, m_map[goal])
    /\ \A u \in Vehicles : Fits(p, goal, table[u]) =>
            Dis2(table[u], m_map[goal]) >= Dis2(table[hop], m_map[goal])

\* IntraPathRouting chooses the best neighbour: the candidates of its loop are the
\* neighbours that fit, and in the area of B the only candidate is at B.
LEMMA RoutingIsBest ==
    ASSUME NEW p \in Roads, NEW goal \in {"A", "B", "C"}, GivenAt(p, goal),
           NEW table \in [Vehicles -> Roads \cup {Unknown}], NEW hop \in Vehicles,
           NEW cjid, \A j \in Areas(p) : cjid = j,
           hop = IntraPathRouting(p, table, cjid, goal)
    PROVE  IsBest(p, goal, table, hop)
  <1> DEFINE own == Dis2(p, m_map[goal])
             Ok(at) == Candidate(p, cjid, goal, at)
             D(at) == Dis2(at, m_map[goal])
  <1>1. p \in Points
    BY RoadPlaces
  <1>2. own \in Nat /\ \A u \in Vehicles : table[u] # Unknown => table[u] \in Roads /\ D(table[u]) \in Nat
    BY <1>1, RoadPlaces, MapValue, DistanceType
  <1>3. hop = Best(p, table, cjid, goal, [mindis |-> own, nextHop |-> NoHop]).nextHop
    <2>1. Sink \notin Vehicles
      BY Sizes DEF Sink, Vehicles
    <2> QED
      BY <2>1 DEF IntraPathRouting
  <1>4. /\ Ok(table[hop]) /\ D(table[hop]) < own
        /\ \A u \in Vehicles : Ok(table[u]) => D(table[u]) >= D(table[hop])
    <2>1. PICK o \in Nat : o = own
      BY <1>2
    <2>2. hop = Best(p, table, cjid, goal, [mindis |-> o, nextHop |-> NoHop]).nextHop
      BY <1>3, <2>1
    <2>3. /\ Candidate(p, cjid, goal, table[hop])
          /\ Dis2(table[hop], m_map[goal]) < o
          /\ \A u \in Vehicles : Candidate(p, cjid, goal, table[u]) =>
                 Dis2(table[u], m_map[goal]) >= Dis2(table[hop], m_map[goal])
      BY <1>1, <2>2, BestIsBest, ZenonT(60)
    <2> QED
      BY <2>1, <2>3
  <1>5. CASE Areas(p) = {}
    BY <1>4, <1>5 DEF Candidate, Fits, IsBest
  <1>6. ASSUME Areas(p) # {},
               \A at \in Roads : isBetweenSegment(at, cjid, goal) <=> at \in On(IF goal = "A" THEN "C" ELSE "B")
        PROVE  IsBest(p, goal, table, hop)
    <2>1. \A u \in Vehicles : Ok(table[u]) <=> Fits(p, goal, table[u])
      BY <1>2, <1>6 DEF Candidate, Fits
    <2> QED
      BY <1>4, <2>1 DEF IsBest
  <1>7. CASE "C" \in Areas(p)
    <2>1. goal = "A" /\ cjid = "C"
      BY <1>7 DEF GivenAt
    <2>2. \A at \in Roads : isBetweenSegment(at, cjid, goal) <=> at \in On("C")
      BY <2>1, BetweenFacts
    <2> QED
      BY <1>6, <1>7, <2>1, <2>2
  <1>8. CASE "A" \in Areas(p) /\ "C" \notin Areas(p)
    <2>1. goal = "B" /\ cjid = "A"
      BY <1>8 DEF GivenAt
    <2>2. \A at \in Roads : isBetweenSegment(at, cjid, goal) <=> at \in On("B")
      BY <2>1, BetweenFacts
    <2> QED
      BY <1>6, <1>8, <2>1, <2>2
  <1>9. CASE "B" \in Areas(p) /\ "C" \notin Areas(p)
    <2>1. goal = "B" /\ cjid = "B" /\ Areas(p) # {}
      BY <1>9 DEF GivenAt
    <2>2. table[hop] \in Roads /\ isBetweenSegment(table[hop], "B", "B")
      BY <1>2, <1>4, <2>1 DEF Candidate
    <2>3. table[hop] = <<L, 0>>
      BY <2>2, BetweenFacts
    <2>4. table[hop] \in RoadTo("B")
      <3>1. table[hop] \in RoadTo("B") \/ table[hop] \in RoadTo("C")
        BY <2>2 DEF Roads
      <3>2. table[hop] \notin RoadTo("C")
        <4>1. L # 0
          BY Sizes
        <4> QED
          BY <2>3, <4>1, RoadPlaces
      <3> QED
        BY <3>1, <3>2
    <2>5. Fits(p, goal, table[hop])
      BY <1>4, <2>1, <2>4 DEF Candidate, Fits, On
    <2>6. D(table[hop]) = 0
      <3>1. Square(L - L) = 0 /\ L \in 0 .. L
        BY Sizes DEF Square
      <3> QED
        BY <2>1, <2>3, <3>1, RoadDistances
    <2>7. \A u \in Vehicles : Fits(p, goal, table[u]) => D(table[u]) >= D(table[hop])
      BY <1>2, <2>6 DEF Fits
    <2> QED
      BY <1>4, <2>5, <2>7 DEF IsBest
  <1>10. Areas(p) \subseteq {"A", "B", "C"}
    BY AreaFacts
  <1> QED
    BY <1>5, <1>7, <1>8, <1>9, <1>10

\* What the search for a next hop can yield.
LEMMA HopKind ==
    ASSUME NEW p \in Roads, NEW goal \in {"A", "B", "C"}, NEW cjid,
           NEW table \in [Vehicles -> Roads \cup {Unknown}]
    PROVE  IntraPathRouting(p, table, cjid, goal) \in Vehicles \cup {NoHop, Sink}
  <1>1. p \in Points
    BY RoadPlaces
  <1>2. PICK o \in Nat : o = Dis2(p, m_map[goal])
    BY <1>1, MapValue, DistanceType
  <1>3. PICK hop : hop = Best(p, table, cjid, goal, [mindis |-> o, nextHop |-> NoHop]).nextHop
    OBVIOUS
  <1>4. hop \in Vehicles \cup {NoHop}
    BY <1>1, <1>3, BestIsBest, ZenonT(60)
  <1> QED
    BY <1>2, <1>3, <1>4 DEF IntraPathRouting

-------------------------------------------------------------------------------
(* The invariant *)

Lists == {<<"B">>, <<"A", "B">>}

GreedyKinds ==
    /\ pos \in [Vehicles -> Roads]
    /\ m_neiTable \in [Vehicles -> [Vehicles -> Roads \cup {Unknown}]]
    /\ trail \in Seq(Vehicles) /\ trail # <<>>
    /\ goals \in Seq({"A", "B", "C"}) /\ Len(goals) = Len(trail) - 1
    /\ ahead \in Lists \cup {<<>>}

\* A place in a table is at most Drift old.
Known ==
    \A v, u \in Vehicles : m_neiTable[v][u] # Unknown =>
        Dis2(m_neiTable[v][u], pos[u]) <= Square(Drift)

\* The k-th choice, by the table as it still is.
Chosen(k) == IsBest(pos[trail[k]], goals[k], m_neiTable[trail[k]], trail[k + 1])

\* How the k-th vehicle, at p, set the goal g: in a junction by where it is; on a
\* road the goal B is kept, and new on the road to B only; C is a goal of the source.
GoalFrom(k, p, g) ==
    /\ GivenAt(p, g)
    /\ Areas(p) = {} /\ g = "B" => p \in RoadTo("B") \/ (k # 1 /\ goals[k - 1] = "B")
    /\ Areas(p) = {} /\ k # 1 /\ goals[k - 1] = "B" => g = "B"
    /\ g = "C" => k = 1

Given(k) == GoalFrom(k, pos[trail[k]], goals[k])

\* The list in the packet starts with the last goal; a packet without a list was not
\* sent to B.
Listed ==
    end = "none" /\ Len(trail) # 1 =>
        IF ahead = <<>> THEN goals[Len(trail) - 1] # "B"
                        ELSE Head(ahead) = goals[Len(trail) - 1]

GreedyInv ==
    /\ GreedyKinds /\ Known /\ Listed
    /\ \A k \in Steps : Chosen(k) /\ Given(k)

\* The packet is at its source.
LEMMA GreedyStarts == GreedyInit => GreedyInv
  <1> SUFFICES ASSUME GreedyInit PROVE GreedyInv
    OBVIOUS
  <1>1. PICK v \in Vehicles : trail = <<v>>
    BY DEF GreedyInit
  <1>2. /\ pos \in [Vehicles -> Roads] /\ goals = <<>> /\ ahead = <<>>
        /\ m_neiTable = [x \in Vehicles |-> [u \in Vehicles |-> Unknown]]
    BY DEF GreedyInit, NoTable
  <1>3. trail \in Seq(Vehicles) /\ trail # <<>> /\ Len(trail) = 1
        /\ goals \in Seq({"A", "B", "C"}) /\ Len(goals) = 0
    BY <1>1, <1>2
  <1>4. GreedyKinds
    BY <1>2, <1>3 DEF GreedyKinds
  <1>5. Known
    BY <1>2 DEF Known
  <1>6. Steps = {} /\ Listed
    BY <1>3 DEF Steps, Listed
  <1> QED
    BY <1>4, <1>5, <1>6 DEF GreedyInv

\* The vehicle that has the packet uses the table it had before, or draws one.
Looks(v) ==
    \E table \in IF v \in ToSet(Front(trail)) THEN {m_neiTable[v]} ELSE Tables(v) :
        m_neiTable' = [m_neiTable EXCEPT ![v] = table]

\* The tables that earlier choices were made by stand.
LEMMA TablesStand ==
    ASSUME GreedyInv, UNCHANGED pos, NEW v, v = Last(trail), Looks(v)
    PROVE  /\ v = trail[Len(trail)] /\ v \in Vehicles /\ pos[v] \in Roads
           /\ m_neiTable' \in [Vehicles -> [Vehicles -> Roads \cup {Unknown}]] /\ Known'
           /\ \A k \in 1 .. Len(trail) - 1 : m_neiTable'[trail[k]] = m_neiTable[trail[k]]
  <1>0. PICK n : n = Len(trail)
    OBVIOUS
  <1>1. /\ Known /\ pos \in [Vehicles -> Roads] /\ trail \in Seq(Vehicles) /\ trail # <<>>
        /\ m_neiTable \in [Vehicles -> [Vehicles -> Roads \cup {Unknown}]]
    BY DEF GreedyInv, GreedyKinds
  <1>2. PICK table \in IF v \in ToSet(Front(trail)) THEN {m_neiTable[v]} ELSE Tables(v) :
            m_neiTable' = [m_neiTable EXCEPT ![v] = table]
    BY DEF Looks
  <1>3. /\ n \in Nat /\ n > 0 /\ \A k \in 1 .. n : trail[k] \in Vehicles
        /\ v = trail[n] /\ v \in Vehicles /\ pos[v] \in Roads
    <2>1. n \in Nat /\ n > 0 /\ \A k \in 1 .. n : trail[k] \in Vehicles
      BY <1>0, <1>1
    <2> QED
      BY <1>0, <1>1, <2>1 DEF Last
  <1>4. /\ table \in [Vehicles -> Roads \cup {Unknown}]
        /\ \A u \in Vehicles : table[u] # Unknown => Dis2(table[u], pos[u]) <= Square(Drift)
    <2>1. CASE v \in ToSet(Front(trail))
      <3>1. table = m_neiTable[v]
        BY <2>1
      <3> QED
        BY <1>1, <1>3, <3>1 DEF Known
    <2>2. CASE v \notin ToSet(Front(trail))
      <3>1. table \in Tables(v)
        BY <2>2
      <3> QED
        BY <3>1 DEF Tables
    <2> QED
      BY <2>1, <2>2
  <1>5. \A k \in 1 .. n - 1 : m_neiTable'[trail[k]] = m_neiTable[trail[k]]
    <2> SUFFICES ASSUME NEW k \in 1 .. n - 1, trail[k] = v PROVE table = m_neiTable[v]
      BY <1>1, <1>2, <1>3
    <2>1. Front(trail) = [i \in 1 .. n - 1 |-> trail[i]]
      BY <1>0, <1>1, <1>3 DEF Front
    <2>2. k \in DOMAIN Front(trail) /\ Front(trail)[k] = v
      BY <2>1
    <2>3. v \in ToSet(Front(trail))
      BY <2>2 DEF ToSet
    <2> QED
      BY <2>3
  <1>6. m_neiTable' \in [Vehicles -> [Vehicles -> Roads \cup {Unknown}]]
    BY <1>1, <1>2, <1>3, <1>4
  <1>7. Known'
    <2> SUFFICES ASSUME NEW x \in Vehicles, NEW u \in Vehicles, m_neiTable'[x][u] # Unknown
                 PROVE  Dis2(m_neiTable'[x][u], pos[u]) <= Square(Drift)
      BY DEF Known
    <2>1. CASE x = v
      BY <1>1, <1>2, <1>4, <2>1
    <2>2. CASE x # v
      BY <1>1, <1>2, <2>2 DEF Known
    <2> QED
      BY <2>1, <2>2
  <1> QED
    BY <1>0, <1>3, <1>5, <1>6, <1>7

\* The packet comes to its end.
LEMMA FinishKeeps ==
    ASSUME GreedyInv, UNCHANGED pos, NEW v, v = Last(trail), Looks(v),
           NEW how, how # "none", Finish(how), ahead' \in Lists \cup {<<>>}
    PROVE  GreedyInv'
  <1>1. end' # "none" /\ trail' = trail /\ goals' = goals /\ pos' = pos
    BY DEF Finish
  <1>2. /\ m_neiTable' \in [Vehicles -> [Vehicles -> Roads \cup {Unknown}]] /\ Known'
        /\ \A k \in 1 .. Len(trail) - 1 : m_neiTable'[trail[k]] = m_neiTable[trail[k]]
    BY TablesStand
  <1>3. GreedyKinds' /\ Listed'
    BY <1>1, <1>2 DEF GreedyInv, GreedyKinds, Listed
  <1>4. ASSUME NEW k \in Steps' PROVE Chosen(k)' /\ Given(k)'
    <2>1. k \in Steps /\ Chosen(k) /\ Given(k) /\ m_neiTable'[trail[k]] = m_neiTable[trail[k]]
      BY <1>1, <1>2 DEF Steps, GreedyInv
    <2>2. Chosen(k)'
      BY <1>1, <2>1 DEF Chosen, IsBest, Fits
    <2>3. Given(k)'
      BY <1>1, <2>1 DEF Given, GoalFrom, GivenAt
    <2> QED
      BY <2>2, <2>3
  <1> QED
    BY <1>2, <1>3, <1>4 DEF GreedyInv

\* The packet is handed on to the best neighbour, with a goal set as it should be.
LEMMA HandOnKeeps ==
    ASSUME GreedyInv, UNCHANGED pos, NEW v, v = Last(trail), Looks(v),
           NEW goal \in {"A", "B", "C"}, NEW hop \in Vehicles, HandOn(goal, hop),
           IsBest(pos[v], goal, m_neiTable'[v], hop), GoalFrom(Len(trail), pos[v], goal),
           ahead' \in Lists \cup {<<>>},
           IF ahead' = <<>> THEN goal # "B" ELSE Head(ahead') = goal
    PROVE  GreedyInv'
  <1>0. PICK n : n = Len(trail)
    OBVIOUS
  <1>1. goals' = Append(goals, goal) /\ trail' = Append(trail, hop) /\ pos' = pos
    BY DEF HandOn
  <1>2. /\ v = trail[n] /\ v \in Vehicles
        /\ m_neiTable' \in [Vehicles -> [Vehicles -> Roads \cup {Unknown}]] /\ Known'
        /\ \A k \in 1 .. n - 1 : m_neiTable'[trail[k]] = m_neiTable[trail[k]]
    BY <1>0, TablesStand
  <1>3. /\ pos \in [Vehicles -> Roads] /\ trail \in Seq(Vehicles) /\ n \in Nat /\ n > 0
        /\ goals \in Seq({"A", "B", "C"}) /\ Len(goals) = n - 1
    BY <1>0 DEF GreedyInv, GreedyKinds
  <1>4. /\ trail' \in Seq(Vehicles) /\ Len(trail') = n + 1 /\ trail'[n + 1] = hop
        /\ \A k \in 1 .. n : trail'[k] = trail[k]
    BY <1>0, <1>1, <1>3
  <1>5. /\ goals' \in Seq({"A", "B", "C"}) /\ Len(goals') = n /\ goals'[n] = goal
        /\ \A k \in 1 .. n - 1 : goals'[k] = goals[k]
    BY <1>1, <1>3
  <1>6. trail' # <<>> /\ (n + 1) - 1 = n
    BY <1>3, <1>4
  <1>7. GreedyKinds'
    BY <1>1, <1>2, <1>3, <1>4, <1>5, <1>6 DEF GreedyKinds
  <1>8. Listed'
    BY <1>4, <1>5, <1>6 DEF Listed
  <1>9. ASSUME NEW k \in 1 .. n - 1 PROVE Chosen(k)' /\ Given(k)'
    <2>1. k \in 1 .. n /\ k + 1 \in 1 .. n /\ k \in Steps
      BY <1>0, <1>3 DEF Steps
    <2>2. /\ trail'[k] = trail[k] /\ trail'[k + 1] = trail[k + 1] /\ goals'[k] = goals[k]
          /\ m_neiTable'[trail[k]] = m_neiTable[trail[k]]
      BY <1>2, <1>4, <1>5, <2>1
    <2>3. Chosen(k) /\ Given(k)
      BY <2>1 DEF GreedyInv
    <2>4. k # 1 => goals'[k - 1] = goals[k - 1]
      BY <1>3, <1>5
    <2>5. Chosen(k)'
      BY <1>1, <2>2, <2>3 DEF Chosen, IsBest, Fits
    <2>6. Given(k)'
      BY <1>1, <2>2, <2>3, <2>4 DEF Given, GoalFrom, GivenAt
    <2> QED
      BY <2>5, <2>6
  <1>10. Chosen(n)' /\ Given(n)'
    <2>1. trail'[n] = v /\ trail'[n + 1] = hop /\ goals'[n] = goal
      BY <1>2, <1>3, <1>4, <1>5
    <2>2. n # 1 => goals'[n - 1] = goals[n - 1]
      BY <1>3, <1>5
    <2>3. Chosen(n)'
      BY <1>1, <2>1 DEF Chosen, IsBest, Fits
    <2>4. Given(n)'
      BY <1>0, <1>1, <2>1, <2>2 DEF Given, GoalFrom, GivenAt
    <2> QED
      BY <2>3, <2>4
  <1>11. \A k \in Steps' : k \in 1 .. n - 1 \/ k = n
    BY <1>3, <1>4 DEF Steps
  <1>12. \A k \in Steps' : Chosen(k)' /\ Given(k)'
    BY <1>9, <1>10, <1>11
  <1> QED
    BY <1>2, <1>7, <1>8, <1>12 DEF GreedyInv

\* The end of RouteInput, with a list whose head is set as it should be.
LEMMA ForwardKeeps ==
    ASSUME GreedyInv, UNCHANGED pos, NEW v, v = Last(trail), Looks(v),
           NEW segment \in Segments(pos[v]), NEW list \in Lists,
           GoalFrom(Len(trail), pos[v], Head(list)), Forward(v, list, segment)
    PROVE  GreedyInv'
  <1>1. v \in Vehicles /\ pos[v] \in Roads /\ m_neiTable'[v] \in [Vehicles -> Roads \cup {Unknown}]
    BY TablesStand
  <1>2. PICK goal \in {"A", "B", "C"} : goal = Head(list) /\ goal # "C"
    BY DEF Lists
  <1>3. PICK cjid : cjid = GetNearestJID(pos[v], segment[1], segment[2])
    OBVIOUS
  <1>4. PICK hop : hop = IntraPathRouting(pos[v], m_neiTable'[v], cjid, goal)
    OBVIOUS
  <1>5. hop \in Vehicles \cup {NoHop, Sink}
    BY <1>1, <1>4, HopKind
  <1>6. ahead' = list /\ ahead' \in Lists \cup {<<>>} /\ ahead' # <<>>
    BY DEF Forward, Lists
  <1>7. \/ Finish("stored") \/ Finish("delivered")
        \/ hop \notin {NoHop, Sink} /\ HandOn(goal, hop)
    BY <1>2, <1>3, <1>4 DEF Forward
  <1>8. CASE Finish("stored")
    BY <1>6, <1>8, FinishKeeps
  <1>9. CASE Finish("delivered")
    BY <1>6, <1>9, FinishKeeps
  <1>10. CASE hop \notin {NoHop, Sink} /\ HandOn(goal, hop)
    <2>1. hop \in Vehicles
      BY <1>5, <1>10
    <2>2. \A j \in Areas(pos[v]) : cjid = j
      BY <1>1, <1>3, NearestJunction
    <2>3. GivenAt(pos[v], goal) /\ GoalFrom(Len(trail), pos[v], goal)
      BY <1>2 DEF GoalFrom
    <2>4. IsBest(pos[v], goal, m_neiTable'[v], hop)
      BY <1>1, <1>4, <2>1, <2>2, <2>3, RoutingIsBest
    <2> QED
      BY <1>2, <1>6, <1>10, <2>1, <2>3, <2>4, HandOnKeeps
  <1> QED
    BY <1>7, <1>8, <1>9, <1>10

\* The source sends the packet with its plan, or without one to the nearer end.
LEMMA RouteOutputKeeps ==
    ASSUME GreedyInv, UNCHANGED pos, NEW v, v = Last(trail), Looks(v),
           NEW segment \in Segments(pos[v]), NEW plan \in Plans(pos[v]),
           RouteOutput(v, plan, segment)
    PROVE  GreedyInv'
  <1>1. v \in Vehicles /\ pos[v] \in Roads /\ m_neiTable'[v] \in [Vehicles -> Roads \cup {Unknown}]
    BY TablesStand
  <1>2. Len(trail) = 1 /\ Areas(pos[v]) \subseteq {"A", "B", "C"}
    BY <1>1, AreaFacts DEF RouteOutput
  <1>3. CASE plan # <<>>
    <2>1. Forward(v, plan, segment)
      BY <1>3 DEF RouteOutput
    <2>2. plan \in Lists
      BY <1>3 DEF Plans, Lists
    <2>3. GivenAt(pos[v], Head(plan))
      <3>1. CASE "A" \in Areas(pos[v])
        BY <1>1, <1>3, <3>1, OneArea DEF GivenAt, Plans
      <3>2. CASE "B" \in Areas(pos[v])
        BY <1>1, <1>3, <3>2, OneArea, AreaOnRoad DEF GivenAt, Plans
      <3>3. CASE "C" \in Areas(pos[v])
        BY <1>1, <1>3, <3>3, OneArea, AreaOnRoad DEF GivenAt, Plans
      <3> QED
        BY <1>2, <3>1, <3>2, <3>3 DEF GivenAt
    <2>4. Areas(pos[v]) = {} /\ Head(plan) = "B" => pos[v] \in RoadTo("B")
      BY <1>3 DEF Plans
    <2>5. Head(plan) # "C"
      BY <2>2 DEF Lists
    <2>6. GoalFrom(Len(trail), pos[v], Head(plan))
      BY <1>2, <2>3, <2>4, <2>5 DEF GoalFrom
    <2> QED
      BY <2>1, <2>2, <2>6, ForwardKeeps
  <1>4. CASE plan = <<>>
    <2>1. PICK goal : goal = GetNearestJID(pos[v], segment[1], segment[2])
      OBVIOUS
    <2>2. PICK hop : hop = IntraPathRouting(pos[v], m_neiTable'[v], goal, goal)
      OBVIOUS
    <2>3. /\ ahead' = <<>>
          /\ \/ Areas(pos[v]) = {} /\ hop \in Vehicles /\ HandOn(goal, hop)
             \/ Finish("stored")
      BY <1>4, <2>1, <2>2 DEF RouteOutput
    <2>4. CASE Areas(pos[v]) = {} /\ hop \in Vehicles /\ HandOn(goal, hop)
      <3>1. goal \in {"A", "C"}
        <4>1. pos[v] \notin RoadTo("B")
          BY <1>4, <2>4 DEF Plans
        <4> QED
          BY <1>1, <2>1, <4>1, NearestJunction
      <3>2. GivenAt(pos[v], goal) /\ GoalFrom(Len(trail), pos[v], goal)
        BY <1>2, <2>4, <3>1 DEF GivenAt, GoalFrom
      <3>3. IsBest(pos[v], goal, m_neiTable'[v], hop)
        BY <1>1, <2>2, <2>4, <3>1, <3>2, RoutingIsBest
      <3> QED
        BY <2>3, <2>4, <3>1, <3>2, <3>3, HandOnKeeps
    <2>5. CASE Finish("stored")
      BY <2>3, <2>5, FinishKeeps
    <2> QED
      BY <2>3, <2>4, <2>5
  <1> QED
    BY <1>3, <1>4

\* A vehicle looks the packet's next hop up, on the list or on a new one.
LEMMA RouteInputKeeps ==
    ASSUME GreedyInv, UNCHANGED pos, end = "none", NEW v, v = Last(trail), Looks(v),
           NEW segment \in Segments(pos[v]), NEW plan \in Plans(pos[v]),
           RouteInput(v, plan, segment)
    PROVE  GreedyInv'
  <1>1. v \in Vehicles /\ pos[v] \in Roads
    BY TablesStand
  <1>2. Len(trail) # 1 /\ Areas(pos[v]) \subseteq {"A", "B", "C"}
    BY <1>1, AreaFacts DEF RouteInput
  <1>3. PICK list : list = NextList(v, plan)
    OBVIOUS
  <1>4. /\ ahead \in Lists \cup {<<>>}
        /\ IF ahead = <<>> THEN goals[Len(trail) - 1] # "B"
                           ELSE Head(ahead) = goals[Len(trail) - 1]
    BY <1>2 DEF GreedyInv, GreedyKinds, Listed
  <1>5. plan \in Lists \cup {<<>>}
    BY DEF Plans, Lists
  <1>6. CASE list = <<>>
    <2>1. ahead' = <<>> /\ Finish("stored")
      BY <1>3, <1>6 DEF RouteInput
    <2> QED
      BY <2>1, FinishKeeps
  <1>7. CASE list # <<>>
    <2>1. Forward(v, list, segment)
      BY <1>3, <1>7 DEF RouteInput
    <2>2. CASE Areas(pos[v]) = {}
      <3>1. list = IF ahead = <<>> THEN plan ELSE ahead
        BY <1>3, <2>2 DEF NextList
      <3>2. list \in Lists /\ Head(list) # "C"
        BY <1>4, <1>5, <1>7, <3>1 DEF Lists
      <3>3. ahead = <<>> /\ Head(list) = "B" => pos[v] \in RoadTo("B")
        BY <1>7, <2>2, <3>1 DEF Plans
      <3>4. GoalFrom(Len(trail), pos[v], Head(list))
        BY <1>2, <1>4, <2>2, <3>1, <3>2, <3>3 DEF GoalFrom, GivenAt
      <3> QED
        BY <2>1, <3>2, <3>4, ForwardKeeps
    <2>3. CASE "A" \in Areas(pos[v])
      <3>1. "B" \notin Areas(pos[v]) /\ "C" \notin Areas(pos[v]) /\ plan \in {<<"B">>, <<>>}
        BY <1>1, <2>3, OneArea DEF Plans
      <3>2. list = <<"B">>
        <4>1. Areas(pos[v]) # {} /\ m_rsujid \notin Areas(pos[v])
          BY <2>3, <3>1 DEF m_rsujid
        <4>2. CASE ahead = <<>>
          <5>1. list = plan \/ (plan = <<"B">> /\ Head(plan) \in Areas(pos[v]))
            BY <1>3, <1>7, <3>1, <4>1, <4>2 DEF NextList
          <5> QED
            BY <1>7, <3>1, <5>1
        <4>3. CASE ahead = <<"B">>
          <5>1. list = plan
            BY <1>3, <3>1, <4>1, <4>3 DEF NextList
          <5> QED
            BY <1>7, <3>1, <5>1
        <4>4. CASE ahead = <<"A", "B">>
          <5>1. list = Tail(ahead)
            BY <1>3, <2>3, <4>1, <4>4 DEF NextList
          <5> QED
            BY <4>4, <5>1
        <4> QED
          BY <1>4, <4>2, <4>3, <4>4 DEF Lists
      <3>3. list \in Lists /\ Head(list) = "B"
        BY <3>2 DEF Lists
      <3>4. GoalFrom(Len(trail), pos[v], Head(list))
        BY <2>3, <3>1, <3>3 DEF GoalFrom, GivenAt
      <3> QED
        BY <2>1, <3>3, <3>4, ForwardKeeps
    <2>4. CASE "B" \in Areas(pos[v])
      <3>1. "A" \notin Areas(pos[v]) /\ "C" \notin Areas(pos[v]) /\ plan = <<"B">>
        BY <1>1, <2>4, OneArea, AreaOnRoad DEF Plans
      <3>2. list = <<"B">>
        BY <1>3, <1>7, <2>4, <3>1 DEF NextList, m_rsujid
      <3>3. list \in Lists /\ Head(list) = "B"
        BY <3>2 DEF Lists
      <3>4. GoalFrom(Len(trail), pos[v], Head(list))
        BY <2>4, <3>1, <3>3 DEF GoalFrom, GivenAt
      <3> QED
        BY <2>1, <3>3, <3>4, ForwardKeeps
    <2>5. CASE "C" \in Areas(pos[v])
      <3>1. /\ "A" \notin Areas(pos[v]) /\ "B" \notin Areas(pos[v])
            /\ plan \in {<<"A", "B">>, <<>>}
        BY <1>1, <2>5, OneArea, AreaOnRoad DEF Plans
      <3>2. list = <<"A", "B">>
        BY <1>3, <1>4, <1>7, <2>5, <3>1 DEF NextList, Lists
      <3>3. list \in Lists /\ Head(list) = "A"
        BY <3>2 DEF Lists
      <3>4. GoalFrom(Len(trail), pos[v], Head(list))
        BY <2>5, <3>3 DEF GoalFrom, GivenAt
      <3> QED
        BY <2>1, <3>3, <3>4, ForwardKeeps
    <2> QED
      BY <1>2, <2>2, <2>3, <2>4, <2>5
  <1> QED
    BY <1>6, <1>7

\* Every step keeps the invariant.
LEMMA GreedyStep == GreedyInv /\ [GreedyNext]_greedyVars => GreedyInv'
  <1> SUFFICES ASSUME GreedyInv, [GreedyNext]_greedyVars PROVE GreedyInv'
    OBVIOUS
  <1>1. CASE GreedyNext /\ ~Drop
    <2>1. PICK v : /\ v = Last(trail) /\ Looks(v) /\ end = "none" /\ UNCHANGED pos
                   /\ \E plan \in Plans(pos[v]), segment \in Segments(pos[v]) :
                        RouteOutput(v, plan, segment) \/ RouteInput(v, plan, segment)
      BY <1>1 DEF GreedyNext, Looks
    <2>2. PICK plan \in Plans(pos[v]), segment \in Segments(pos[v]) :
              RouteOutput(v, plan, segment) \/ RouteInput(v, plan, segment)
      BY <2>1
    <2> QED
      BY <2>1, <2>2, RouteOutputKeeps, RouteInputKeeps
  <1>2. CASE GreedyNext /\ Drop
    <2>1. UNCHANGED <<pos, trail, goals, ahead, m_neiTable>> /\ end' # "none"
      BY <1>2 DEF GreedyNext, Drop, Finish
    <2> QED
      BY <2>1 DEF GreedyInv, GreedyKinds, Known, Listed, Steps, Chosen, Given, GoalFrom, GivenAt,
                  IsBest, Fits
  <1>3. CASE UNCHANGED greedyVars
    BY <1>3 DEF greedyVars, GreedyInv, GreedyKinds, Known, Listed, Steps, Chosen, Given, GoalFrom,
                GivenAt, IsBest, Fits
  <1> QED
    BY <1>1, <1>2, <1>3

\* Every hop of a packet was the best choice by the table of the vehicle, and every
\* goal was given in a junction, planned on the road or kept.
THEOREM GreedyCorrect == GreedySpec => []GreedyInv
  BY GreedyStarts, GreedyStep, PTL DEF GreedySpec

\* IntraPathRouting finds the best neighbour: the one the packet is given to has
\* announced a place nearer to the goal than the vehicle itself, in reach and, seen
\* from a junction, on the road ahead; no other such neighbour is nearer.
THEOREM BestChosen == GreedySpec => []BestNeighbour
  <1>1. GreedyInv => BestNeighbour
    <2> SUFFICES ASSUME GreedyInv, NEW k \in Steps
                 PROVE  LET chosen == Announced(k, trail[k + 1])
                        IN  /\ Eligible(k, chosen)
                            /\ ToGoal(k, chosen) < ToGoal(k, pos[trail[k]])
                            /\ \A u \in Vehicles : Eligible(k, Announced(k, u))
                                    => ToGoal(k, Announced(k, u)) >= ToGoal(k, chosen)
      BY DEF BestNeighbour
    <2>1. IsBest(pos[trail[k]], goals[k], m_neiTable[trail[k]], trail[k + 1])
      BY DEF GreedyInv, Chosen
    <2>2. \A at : Eligible(k, at) <=> Fits(pos[trail[k]], goals[k], at)
      BY DEF Eligible, Fits
    <2> QED
      BY <2>1, <2>2 DEF IsBest, Announced, ToGoal
  <1> QED
    BY <1>1, GreedyCorrect, PTL

-------------------------------------------------------------------------------
(* Old positions *)

\* The scalar product of two vectors is at most the product of their lengths.
LEMMA ScalarProduct ==
    ASSUME NEW a \in Int, NEW b \in Int, NEW c \in Int, NEW d \in Int
    PROVE  (a * c + b * d) * (a * c + b * d) <= (a * a + b * b) * (c * c + d * d)
  <1>1. (a * a + b * b) * (c * c + d * d)
            = (a * c + b * d) * (a * c + b * d) + (a * d - b * c) * (a * d - b * c)
    OBVIOUS
  <1>2. PICK z \in Int : z = a * d - b * c
    OBVIOUS
  <1>3. z * z >= 0
    OBVIOUS
  <1> QED
    BY <1>1, <1>2, <1>3

\* A vehicle that has announced a place nearer to g than a is, and has driven at most
\* h since, is farther than a by less than h: the square roots of b and a.
LEMMA DrivenSince ==
    ASSUME NEW at \in Points, NEW u \in Points, NEW g \in Points, NEW a \in Nat, NEW h \in Nat,
           Dis2(at, g) < a, Dis2(at, u) <= h * h, NEW b \in Nat, b = Dis2(u, g)
    PROVE  b - a - h * h < 0 \/ (b - a - h * h) * (b - a - h * h) < 4 * a * (h * h)
  <1>1. PICK x1 \in Int, x2 \in Int, e1 \in Int, e2 \in Int :
            x1 = at[1] - g[1] /\ x2 = at[2] - g[2] /\ e1 = u[1] - at[1] /\ e2 = u[2] - at[2]
    BY DEF Points
  <1>2. PICK c \in Int, m \in Int, s \in Int :
            c = x1 * x1 + x2 * x2 /\ m = e1 * e1 + e2 * e2 /\ s = x1 * e1 + x2 * e2
    OBVIOUS
  <1>3. at[1] \in Int /\ at[2] \in Int /\ u[1] \in Int /\ u[2] \in Int /\ g[1] \in Int /\ g[2] \in Int
    BY DEF Points
  <1>4. c = Dis2(at, g)
    BY <1>1, <1>2 DEF Dis2, Square
  <1>5. m = Dis2(at, u)
    <2>1. (at[1] - u[1]) * (at[1] - u[1]) = e1 * e1 /\ (at[2] - u[2]) * (at[2] - u[2]) = e2 * e2
      BY <1>1, <1>3
    <2> QED
      BY <1>2, <2>1 DEF Dis2, Square
  <1>6. b = c + m + 2 * s
    <2>1. u[1] - g[1] = x1 + e1 /\ u[2] - g[2] = x2 + e2
      BY <1>1, <1>3
    <2>2. b = (x1 + e1) * (x1 + e1) + (x2 + e2) * (x2 + e2)
      BY <2>1 DEF Dis2, Square
    <2>3. (x1 + e1) * (x1 + e1) = x1 * x1 + e1 * e1 + 2 * (x1 * e1)
      OBVIOUS
    <2>4. (x2 + e2) * (x2 + e2) = x2 * x2 + e2 * e2 + 2 * (x2 * e2)
      OBVIOUS
    <2> QED
      BY <1>2, <2>2, <2>3, <2>4
  <1>7. s * s <= c * m
    BY <1>2, ScalarProduct
  <1>8. c >= 0 /\ m >= 0
    <2>1. x1 * x1 >= 0 /\ x2 * x2 >= 0 /\ e1 * e1 >= 0 /\ e2 * e2 >= 0
      OBVIOUS
    <2> QED
      BY <1>2, <2>1
  <1>9. PICK k \in Nat : k = h * h
    OBVIOUS
  <1>10. c < a /\ m <= k
    BY <1>4, <1>5, <1>9
  <1>11. c * m <= a * k
    <2>1. c * m <= c * k
      BY <1>8, <1>10
    <2>2. c * k <= a * k
      BY <1>8, <1>10
    <2>3. c * m \in Int /\ c * k \in Int /\ a * k \in Int
      OBVIOUS
    <2> QED
      BY <2>1, <2>2, <2>3
  <1>12. PICK y \in Int : y = b - a - k
    OBVIOUS
  <1>13. y < 2 * s
    BY <1>6, <1>10, <1>12
  <1>14. ASSUME y >= 0 PROVE y * y < 4 * a * k
    <2>1. y * y < (2 * s) * (2 * s)
      BY <1>13, <1>14
    <2>2. (2 * s) * (2 * s) = 4 * (s * s)
      OBVIOUS
    <2>3. 4 * (s * s) <= 4 * (a * k)
      <3>1. s * s \in Int /\ c * m \in Int /\ a * k \in Int
        OBVIOUS
      <3> QED
        BY <1>7, <1>11, <3>1
    <2>4. 4 * (a * k) = 4 * a * k
      OBVIOUS
    <2> QED
      BY <2>1, <2>2, <2>3, <2>4
  <1> QED
    BY <1>9, <1>12, <1>14

\* Two lengths of which neither exceeds the other by h differ by less than h.
LEMMA BothWays ==
    ASSUME NEW a \in Nat, NEW b \in Nat, NEW h \in Nat,
           b - a - h * h < 0 \/ (b - a - h * h) * (b - a - h * h) < 4 * a * (h * h),
           a - b - h * h < 0 \/ (a - b - h * h) * (a - b - h * h) < 4 * b * (h * h)
    PROVE  Within(a, b, h)
  <1>1. PICK k \in Nat : k = h * h
    OBVIOUS
  <1>2. (a + b - k) * (a + b - k) - 4 * a * b = (b - a - k) * (b - a - k) - 4 * a * k
    OBVIOUS
  <1>3. (a + b - k) * (a + b - k) - 4 * a * b = (a - b - k) * (a - b - k) - 4 * b * k
    OBVIOUS
  <1>4. ASSUME NEW x \in Nat, NEW y \in Nat, x <= y, y - x - k < 0, x + y - k >= 0
        PROVE  (y - x - k) * (y - x - k) - 4 * x * k < 0
    <2>1. PICK e \in Nat : e = y - x /\ e < k
      BY <1>4
    <2>2. (y - x - k) * (y - x - k) = k * k - 2 * (e * k) + e * e
      BY <2>1
    <2>3. e * e < k * k
      BY <2>1
    <2>4. 4 * x >= 2 * k - 2 * e
      BY <1>4, <2>1
    <2>5. (4 * x) * k >= (2 * k - 2 * e) * k
      BY <2>4
    <2>6. (2 * k - 2 * e) * k = 2 * (k * k) - 2 * (e * k)
      OBVIOUS
    <2>7. e * e \in Int /\ k * k \in Int /\ e * k \in Int /\ (4 * x) * k \in Int
      OBVIOUS
    <2> QED
      BY <2>2, <2>3, <2>5, <2>6, <2>7
  <1>5. ASSUME a + b - k >= 0 PROVE (a + b - k) * (a + b - k) - 4 * a * b < 0
    <2>1. CASE a <= b /\ b - a - k < 0
      BY <1>2, <1>4, <1>5, <2>1
    <2>2. CASE b <= a /\ a - b - k < 0
      BY <1>3, <1>4, <1>5, <2>2
    <2>3. CASE (b - a - k) * (b - a - k) < 4 * a * k
      <3>1. (b - a - k) * (b - a - k) \in Int /\ 4 * a * k \in Int
        OBVIOUS
      <3> QED
        BY <1>2, <2>3, <3>1
    <2>4. CASE (a - b - k) * (a - b - k) < 4 * b * k
      <3>1. (a - b - k) * (a - b - k) \in Int /\ 4 * b * k \in Int
        OBVIOUS
      <3> QED
        BY <1>3, <2>4, <3>1
    <2>5. a <= b \/ b <= a
      OBVIOUS
    <2> QED
      BY <1>1, <2>1, <2>2, <2>3, <2>4, <2>5
  <1>6. a + b - k < 0 \/ Square(a + b - k) < 4 * a * b
    <2>1. (a + b - k) * (a + b - k) \in Int /\ 4 * a * b \in Int /\ a + b - k \in Int
      OBVIOUS
    <2> QED
      BY <1>5, <2>1 DEF Square
  <1> QED
    BY <1>1, <1>6 DEF Within

\* Old positions cannot draw a packet into a circle any larger than what the vehicles
\* have driven since their beacons: two that pass a packet back and forth on its way
\* to a junction are equally far from it, give or take Drift.
THEOREM LoopsShort == GreedySpec => []LoopsAreShort
  <1>1. GreedyInv => LoopsAreShort
    <2> SUFFICES ASSUME GreedyInv, NEW k \in 1 .. Len(trail) - 2, trail[k] = trail[k + 2],
                        goals[k] = goals[k + 1]
                 PROVE  Within(ToGoal(k, pos[trail[k]]), ToGoal(k, pos[trail[k + 1]]), Drift)
      BY DEF LoopsAreShort
    <2>1. GreedyKinds /\ Known
      BY DEF GreedyInv
    <2>2. /\ Len(trail) \in Nat /\ Len(goals) \in Nat /\ Len(goals) >= Len(trail) - 1
          /\ \A i \in 1 .. Len(trail) : trail[i] \in Vehicles
          /\ \A i \in 1 .. Len(goals) : goals[i] \in {"A", "B", "C"}
      BY <2>1 DEF GreedyKinds
    <2>3. k \in Steps /\ k + 1 \in Steps /\ k \in 1 .. Len(trail) /\ k + 1 \in 1 .. Len(trail)
          /\ k \in 1 .. Len(goals) /\ (k + 1) + 1 = k + 2
      BY <2>2 DEF Steps
    <2>4. PICK v \in Vehicles, u \in Vehicles, g \in {"A", "B", "C"} :
              v = trail[k] /\ u = trail[k + 1] /\ g = goals[k]
      BY <2>2, <2>3
    <2>5. PICK atu, atv : atu = m_neiTable[v][u] /\ atv = m_neiTable[u][v]
      OBVIOUS
    <2>6. /\ Dis2(atu, m_map[g]) < Dis2(pos[v], m_map[g]) /\ atu # Unknown
          /\ Dis2(atv, m_map[g]) < Dis2(pos[u], m_map[g]) /\ atv # Unknown
      <3>1. Chosen(k) /\ Chosen(k + 1)
        BY <2>3 DEF GreedyInv
      <3> QED
        BY <2>3, <2>4, <2>5, <3>1 DEF Chosen, IsBest, Fits
    <2>7. Dis2(atu, pos[u]) <= Square(Drift) /\ Dis2(atv, pos[v]) <= Square(Drift)
      BY <2>1, <2>4, <2>5, <2>6 DEF Known
    <2>8. /\ atu \in Points /\ atv \in Points /\ pos[v] \in Points /\ pos[u] \in Points
          /\ m_map[g] \in Points
      <3>1. atu \in Roads /\ atv \in Roads /\ pos[v] \in Roads /\ pos[u] \in Roads
        BY <2>1, <2>5, <2>6 DEF GreedyKinds
      <3> QED
        BY <3>1, RoadPlaces, MapValue
    <2>9. PICK a \in Nat, b \in Nat : a = Dis2(pos[v], m_map[g]) /\ b = Dis2(pos[u], m_map[g])
      BY <2>8, DistanceType
    <2>10. Drift \in Nat /\ Square(Drift) = Drift * Drift
      BY Sizes DEF Square
    <2>11. b - a - Drift * Drift < 0
           \/ (b - a - Drift * Drift) * (b - a - Drift * Drift) < 4 * a * (Drift * Drift)
      BY <2>6, <2>7, <2>8, <2>9, <2>10, DrivenSince
    <2>12. a - b - Drift * Drift < 0
           \/ (a - b - Drift * Drift) * (a - b - Drift * Drift) < 4 * b * (Drift * Drift)
      BY <2>6, <2>7, <2>8, <2>9, <2>10, DrivenSince
    <2>13. Within(a, b, Drift)
      BY <2>10, <2>11, <2>12, BothWays
    <2> QED
      BY <2>4, <2>9, <2>13 DEF ToGoal
  <1> QED
    BY <1>1, GreedyCorrect, PTL

-------------------------------------------------------------------------------
(* Right positions *)

\* What holds at a and is kept by each step up to b holds at b.
LEMMA FromTo ==
    ASSUME NEW a \in Nat, NEW b \in Nat, a <= b, NEW S, a \in S,
           \A k \in a .. b - 1 : k \in S => k + 1 \in S
    PROVE  b \in S
  <1> DEFINE T == {m \in Nat : a + m <= b => a + m \in S}
  <1>1. 0 \in T
    OBVIOUS
  <1>2. ASSUME NEW m \in Nat, m \in T PROVE m + 1 \in T
    <2> SUFFICES ASSUME a + (m + 1) <= b PROVE a + (m + 1) \in S
      OBVIOUS
    <2>1. a + m \in a .. b - 1 /\ a + m <= b /\ a + (m + 1) = (a + m) + 1
      OBVIOUS
    <2>2. a + m \in S
      BY <1>2, <2>1
    <2> QED
      BY <2>1, <2>2
  <1>3. Nat \subseteq T
    <2> HIDE DEF T
    <2> QED
      BY <1>1, <1>2, Induction
  <1>4. b - a \in Nat /\ a + (b - a) = b
    OBVIOUS
  <1>5. b - a \in T
    BY <1>3, <1>4
  <1> QED
    BY <1>4, <1>5

\* The k-th vehicle's distance from a junction.
Far(k, g) == Dis2(pos[trail[k]], m_map[g])

\* The indices that the invariant is about.
LEMMA TrailFacts ==
    ASSUME GreedyInv
    PROVE  /\ Len(trail) \in Nat /\ Len(goals) \in Nat /\ Len(goals) = Len(trail) - 1
           /\ \A k \in 1 .. Len(trail) : trail[k] \in Vehicles /\ pos[trail[k]] \in Roads
           /\ \A k \in 1 .. Len(goals) : goals[k] \in {"A", "B", "C"}
           /\ \A k \in 1 .. Len(trail), g \in {"A", "B", "C"} : Far(k, g) \in Nat
  <1>1. GreedyKinds
    BY DEF GreedyInv
  <1>2. /\ Len(trail) \in Nat /\ Len(goals) \in Nat /\ Len(goals) = Len(trail) - 1
        /\ \A k \in 1 .. Len(trail) : trail[k] \in Vehicles
        /\ \A k \in 1 .. Len(goals) : goals[k] \in {"A", "B", "C"}
    BY <1>1 DEF GreedyKinds
  <1>3. \A k \in 1 .. Len(trail) : pos[trail[k]] \in Roads
    BY <1>1, <1>2 DEF GreedyKinds
  <1>4. ASSUME NEW k \in 1 .. Len(trail), NEW g \in {"A", "B", "C"} PROVE Far(k, g) \in Nat
    BY <1>3, RoadPlaces, MapValue, DistanceType DEF Far
  <1> QED
    BY <1>2, <1>3, <1>4

\* With right tables every hop brings the packet nearer to its goal.
LEMMA HopIsProgress ==
    ASSUME GreedyInv, Fresh, NEW k \in 1 .. Len(trail) - 1
    PROVE  Far(k + 1, goals[k]) < Far(k, goals[k])
  <1>1. Chosen(k)
    BY DEF GreedyInv, Steps
  <1>2. k \in 1 .. Len(trail) /\ k + 1 \in 1 .. Len(trail)
    BY TrailFacts
  <1>3. trail[k] \in Vehicles /\ trail[k + 1] \in Vehicles
    BY <1>2, TrailFacts
  <1>4. m_neiTable[trail[k]][trail[k + 1]] = pos[trail[k + 1]]
    BY <1>1, <1>3 DEF Chosen, IsBest, Fits, Fresh
  <1> QED
    BY <1>1, <1>4 DEF Chosen, IsBest, Far

\* How far from B a vehicle can be: on its road, around A, and around C.
LEMMA FarFromB ==
    ASSUME NEW p \in Roads
    PROVE  /\ Square(L) + Square(R) \in Nat /\ Dis2(p, m_map["B"]) \in Nat
           /\ p \in RoadTo("B") => Dis2(p, m_map["B"]) <= Square(L) + Square(R)
           /\ "C" \notin Areas(p) /\ Areas(p) # {} => Dis2(p, m_map["B"]) <= Square(L) + Square(R)
           /\ "C" \in Areas(p) => Dis2(p, m_map["B"]) > Square(L) + Square(R)
  <1>1. PICK d \in 0 .. L : p = <<d, 0>> \/ p = <<0, d>>
    BY RoadPlaces
  <1>2. d \in Nat /\ L \in Nat /\ R \in Nat /\ L - d \in Nat /\ L - d <= L /\ 2 * R < L
    BY RoadDistances, Sizes
  <1>3. /\ Square(L) \in Nat /\ Square(R) \in Nat /\ Square(d) \in Nat /\ Square(L - d) \in Nat
        /\ Square(L - d) <= Square(L)
        /\ d <= R => Square(d) <= Square(R)
        /\ R < d => Square(R) < Square(d)
    BY <1>2, SquareLess
  <1>4. /\ Areas(p) \subseteq {"A", "B", "C"}
        /\ "A" \in Areas(p) => p[1] < R /\ p[2] < R
        /\ "B" \in Areas(p) => p[2] = 0 /\ p[1] > L - R
        /\ "C" \in Areas(p) => p[1] = 0 /\ p[2] > L - R
    BY AreaFacts
  <1>5. CASE p = <<d, 0>>
    <2>1. Dis2(p, m_map["B"]) = Square(L - d) /\ p[1] = d /\ p[2] = 0
      BY <1>5, RoadDistances
    <2>2. "C" \notin Areas(p)
      BY <1>2, <1>4, <2>1
    <2> QED
      BY <1>3, <2>1, <2>2
  <1>6. CASE p = <<0, d>>
    <2>1. Dis2(p, m_map["B"]) = Square(L) + Square(d) /\ p[1] = 0 /\ p[2] = d
      BY <1>6, RoadDistances
    <2>2. "B" \notin Areas(p)
      BY <1>2, <1>4, <2>1
    <2>3. "C" \notin Areas(p) /\ Areas(p) # {} => d <= R
      BY <1>2, <1>4, <2>1, <2>2
    <2>4. "C" \in Areas(p) => R < d
      BY <1>2, <1>4, <2>1
    <2>5. p \in RoadTo("B") => d = 0
      BY <2>1, RoadPlaces
    <2> QED
      BY <1>2, <1>3, <2>1, <2>3, <2>4, <2>5
  <1> QED
    BY <1>1, <1>5, <1>6

\* A packet on its way to B is never as far from it as the area of C.
LEMMA NeverFar ==
    ASSUME GreedyInv, Fresh, NEW k \in 1 .. Len(trail) - 1, goals[k] = "B"
    PROVE  Far(k, "B") <= Square(L) + Square(R)
  <1> DEFINE Low == {i \in Nat : goals[i] = "B" => Far(i, "B") <= Square(L) + Square(R)}
  <1>1. ASSUME NEW i \in 1 .. k,
               Areas(pos[trail[i]]) # {} \/ pos[trail[i]] \in RoadTo("B") \/ i = 1
        PROVE  i \in Low
    <2> SUFFICES ASSUME goals[i] = "B" PROVE Far(i, "B") <= Square(L) + Square(R)
      OBVIOUS
    <2>1. i \in Steps /\ i \in 1 .. Len(trail)
      BY TrailFacts DEF Steps
    <2>2. Given(i) /\ pos[trail[i]] \in Roads
      BY <2>1, TrailFacts DEF GreedyInv
    <2>3. pos[trail[i]] \in RoadTo("B") \/ ("C" \notin Areas(pos[trail[i]]) /\ Areas(pos[trail[i]]) # {})
      BY <1>1, <2>2 DEF Given, GoalFrom, GivenAt
    <2> QED
      BY <2>2, <2>3, FarFromB DEF Far
  <1>2. ASSUME NEW i \in 1 .. k - 1, i \in Low PROVE i + 1 \in Low
    <2>1. CASE Areas(pos[trail[i + 1]]) # {} \/ pos[trail[i + 1]] \in RoadTo("B")
      <3>1. i + 1 \in 1 .. k
        OBVIOUS
      <3> HIDE DEF Low
      <3> QED
        BY <1>1, <2>1, <3>1
    <2>2. CASE Areas(pos[trail[i + 1]]) = {} /\ pos[trail[i + 1]] \notin RoadTo("B")
      <3> SUFFICES ASSUME goals[i + 1] = "B" PROVE Far(i + 1, "B") <= Square(L) + Square(R)
        OBVIOUS
      <3>1. /\ i + 1 \in Steps /\ i \in 1 .. Len(trail) - 1
            /\ i \in 1 .. Len(trail) /\ i + 1 \in 1 .. Len(trail)
        BY TrailFacts DEF Steps
      <3>2. Given(i + 1) /\ i + 1 # 1 /\ (i + 1) - 1 = i
        BY <3>1 DEF GreedyInv
      <3>3. goals[i] = "B"
        BY <2>2, <3>2 DEF Given, GoalFrom
      <3>4. Far(i, "B") <= Square(L) + Square(R)
        BY <1>2, <3>3
      <3>5. Far(i + 1, "B") < Far(i, "B")
        BY <3>1, <3>3, HopIsProgress
      <3>6. Far(i + 1, "B") \in Nat /\ Far(i, "B") \in Nat /\ Square(L) + Square(R) \in Nat
        BY <3>1, TrailFacts, FarFromB
      <3> QED
        BY <3>4, <3>5, <3>6
    <2> QED
      BY <2>1, <2>2
  <1>3. 1 \in Low /\ k \in Nat /\ 1 \in Nat /\ 1 <= k
    BY <1>1
  <1>4. k \in Low
    <2> HIDE DEF Low
    <2> QED
      BY <1>2, <1>3, FromTo
  <1> QED
    BY <1>4

\* With right tables a packet that has been sent to B is sent to B ever after.
LEMMA GoalStays ==
    ASSUME GreedyInv, Fresh, NEW i \in 1 .. Len(trail) - 1, NEW j \in 1 .. Len(trail) - 1, i <= j,
           goals[i] = "B"
    PROVE  goals[j] = "B"
  <1> DEFINE S == {k \in Nat : goals[k] = "B"}
  <1>1. ASSUME NEW k \in i .. j - 1, k \in S PROVE k + 1 \in S
    <2>1. /\ k \in 1 .. Len(trail) - 1 /\ k + 1 \in Steps
          /\ k \in 1 .. Len(trail) /\ k + 1 \in 1 .. Len(trail)
      BY TrailFacts DEF Steps
    <2>2. Far(k, "B") <= Square(L) + Square(R)
      BY <1>1, <2>1, NeverFar
    <2>3. Far(k + 1, "B") < Far(k, "B")
      BY <1>1, <2>1, HopIsProgress
    <2>4. pos[trail[k + 1]] \in Roads /\ Far(k, "B") \in Nat /\ Far(k + 1, "B") \in Nat
      BY <2>1, TrailFacts
    <2>5. "C" \notin Areas(pos[trail[k + 1]])
      BY <2>2, <2>3, <2>4, FarFromB DEF Far
    <2>6. Given(k + 1) /\ k + 1 # 1 /\ (k + 1) - 1 = k
      BY <2>1 DEF GreedyInv
    <2> QED
      BY <1>1, <2>5, <2>6 DEF Given, GoalFrom, GivenAt
  <1>2. i \in S /\ i \in Nat /\ j \in Nat
    OBVIOUS
  <1>3. j \in S
    <2> HIDE DEF S
    <2> QED
      BY <1>1, <1>2, FromTo
  <1> QED
    BY <1>3

\* While the announced places are right, greedy forwarding brings a packet back to a
\* vehicle only with a goal further on: goals only change from C to A to B, and with
\* one goal all along every hop is progress.
THEOREM ReturnsCorrect == GreedySpec => []ReturnsOnlyWithNewGoal
  <1>1. GreedyInv => ReturnsOnlyWithNewGoal
    <2> SUFFICES ASSUME GreedyInv, Fresh, NEW a \in 1 .. Len(trail), NEW b \in 1 .. Len(trail), a < b,
                        trail[a] = trail[b], ~(Rank[goals[a]] < Rank[goals[b - 1]])
                 PROVE  FALSE
      BY DEF ReturnsOnlyWithNewGoal
    <2>1. /\ a \in 1 .. Len(trail) - 1 /\ b - 1 \in 1 .. Len(trail) - 1
          /\ \A k \in a .. b - 1 : k \in 1 .. Len(trail) - 1 /\ k \in 1 .. Len(goals)
          /\ a \in 1 .. Len(goals) /\ b - 1 \in 1 .. Len(goals)
      BY TrailFacts
    <2>2. PICK g \in {"A", "B", "C"}, h \in {"A", "B", "C"} : g = goals[a] /\ h = goals[b - 1]
      BY <2>1, TrailFacts
    <2>3. g = "B" \/ (g = "A" /\ h # "B") \/ h = "C"
      BY <2>2 DEF Rank
    <2>4. ASSUME NEW k \in 1 .. Len(trail) - 1, goals[k] = "C" PROVE k = 1
      BY <2>4 DEF GreedyInv, Steps, Given, GoalFrom
    <2>5. ASSUME NEW k \in a .. b - 1 PROVE goals[k] = g
      <3>1. k \in 1 .. Len(trail) - 1 /\ a <= k /\ k <= b - 1 /\ goals[k] \in {"A", "B", "C"}
        <4>1. k \in 1 .. Len(trail) - 1 /\ k \in 1 .. Len(goals)
          BY <2>1, <2>5
        <4>2. goals[k] \in {"A", "B", "C"}
          BY <4>1, TrailFacts
        <4> QED
          BY <2>5, <4>1, <4>2
      <3>2. CASE g = "B"
        BY <2>1, <2>2, <3>1, <3>2, GoalStays
      <3>3. CASE g = "A" /\ h # "B"
        <4>1. goals[k] # "B"
          BY <2>1, <2>2, <3>1, <3>3, GoalStays
        <4>2. goals[k] # "C"
          <5> SUFFICES ASSUME goals[k] = "C" PROVE FALSE
            OBVIOUS
          <5>1. k = 1
            BY <2>4, <3>1
          <5>2. k = a
            BY <3>1, <5>1
          <5> QED
            BY <2>2, <3>3, <5>2
        <4> QED
          BY <3>1, <3>3, <4>1, <4>2
      <3>4. CASE h = "C"
        <4>1. b - 1 = 1
          BY <2>1, <2>2, <2>4, <3>4
        <4>2. k = a
          BY <3>1, <4>1
        <4> QED
          BY <2>2, <4>2
      <3> QED
        BY <2>3, <3>2, <3>3, <3>4
    <2> DEFINE S == {k \in Nat : Far(k, g) < Far(a, g)}
    <2>6. Far(a, g) \in Nat
      BY TrailFacts
    <2>7. ASSUME NEW k \in a .. b - 1 PROVE Far(k + 1, g) < Far(k, g) /\ Far(k, g) \in Nat /\ Far(k + 1, g) \in Nat
      <3>1. k \in 1 .. Len(trail) /\ k + 1 \in 1 .. Len(trail)
        <4>1. Len(trail) \in Nat /\ k \in 1 .. Len(trail) - 1
          BY <2>1, TrailFacts
        <4> QED
          BY <4>1
      <3> QED
        BY <2>1, <2>5, <3>1, TrailFacts, HopIsProgress
    <2>8. a + 1 \in S /\ a + 1 \in Nat /\ b \in Nat /\ a + 1 <= b
      BY <2>7
    <2>9. ASSUME NEW k \in (a + 1) .. b - 1, k \in S PROVE k + 1 \in S
      <3>1. k \in a .. b - 1
        OBVIOUS
      <3> QED
        BY <2>6, <2>7, <2>9, <3>1
    <2>10. b \in S
      <3> HIDE DEF S
      <3> QED
        BY <2>8, <2>9, FromTo
    <2>11. Far(b, g) = Far(a, g)
      BY DEF Far
    <2> QED
      BY <2>6, <2>10, <2>11
  <1> QED
    BY <1>1, GreedyCorrect, PTL

==============================================================================
