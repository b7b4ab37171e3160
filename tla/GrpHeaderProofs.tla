---------------------------- MODULE GrpHeaderProofs ----------------------------
(***************************************************************************)
(* The headers.  The junction list of a data packet (GrpPath), for every road  *)
(* map: the index leaves the list in the RSU's junction only, and from any      *)
(* other junction the packet leaves along a road of its list.  The control     *)
(* messages (GrpHeader), for lists and packets of any length: the receiver     *)
(* finds the boundaries and reads what was written, and validities are rounded *)
(* to the nearest code.                                                       *)
(***************************************************************************)
EXTENDS GrpPath, GrpHeader, FiniteSetTheorems, WellFoundedInduction, TLAPS

(* Induction *)

\* A non-empty set of naturals has a least element.
LEMMA LeastNatural ==
    ASSUME NEW T, T \subseteq Nat, T # {}
    PROVE  \E n \in T : \A m \in T : n <= m
  <1> DEFINE R == {ss \in Nat \X Nat : ss[1] < ss[2]}
  <1>1. IsWellFoundedOn(R, Nat)
    BY NatLessThanWellFounded DEF OpToRel
  <1>2. PICK x \in T : \A y \in T : <<y, x>> \notin R
    <2> HIDE DEF R
    <2> QED BY <1>1, WFMin
  <1>3. ASSUME NEW y \in T PROVE x <= y
    <2>1. x \in Nat /\ y \in Nat /\ <<y, x>> \in Nat \X Nat
      OBVIOUS
    <2>2. ~(y < x)
      BY <1>2, <2>1
    <2> QED
      BY <2>1, <2>2
  <1> QED
    BY <1>2, <1>3

\* A set that holds 0 and with each natural the next one holds them all.
LEMMA Induction ==
    ASSUME NEW S, 0 \in S, \A n \in Nat : n \in S => n + 1 \in S
    PROVE  Nat \subseteq S
  <1> SUFFICES ASSUME Nat \ S # {} PROVE FALSE
    OBVIOUS
  <1>1. PICK n \in Nat \ S : \A m \in Nat \ S : n <= m
    BY LeastNatural
  <1>2. n # 0 /\ n - 1 \in Nat
    BY <1>1
  <1>3. n - 1 \in S
    BY <1>1, <1>2
  <1> QED
    BY <1>1, <1>2, <1>3

-------------------------------------------------------------------------------
(* The validity of a message *)

\* The recursion does define the powers of two.
LEMMA ShiftedIsDefined ==
    Shifted = [b \in 0 .. Exponents |-> IF b = 0 THEN 1 ELSE 2 * Shifted[b - 1]]
  <1> DEFINE Def(g, n) == [b \in 0 .. n |-> IF b = 0 THEN 1 ELSE 2 * g[b - 1]]
             Good == {n \in Nat : \E g : g = Def(g, n)}
  <1>0. Exponents \in Nat
    BY VTimeAssumption
  <1>1. 0 \in Good
    <2> DEFINE g == [b \in 0 .. 0 |-> 1]
    <2>1. g = Def(g, 0)
      OBVIOUS
    <2> QED
      BY <2>1
  <1>2. ASSUME NEW n \in Nat, n \in Good PROVE n + 1 \in Good
    <2>1. PICK g : g = Def(g, n)
      BY <1>2
    <2> DEFINE h == [b \in 0 .. n + 1 |-> IF b = n + 1 THEN 2 * g[n] ELSE g[b]]
    <2>2. h = Def(h, n + 1)
      BY <2>1
    <2> HIDE DEF h, Def
    <2> QED
      BY <2>2
  <1>3. Nat \subseteq Good
    <2> HIDE DEF Good
    <2> QED
      BY <1>1, <1>2, Induction
  <1>4. \E g : g = Def(g, Exponents)
    BY <1>0, <1>3
  <1>5. Shifted = CHOOSE g : g = Def(g, Exponents)
    BY DEF Shifted
  <1>6. Shifted = Def(Shifted, Exponents)
    <2> HIDE DEF Def
    <2> QED
      BY <1>4, <1>5
  <1> QED
    BY <1>6

\* Each power is twice the one before, and at least twice any smaller one.
LEMMA ShiftedFacts ==
    /\ Exponents \in Nat \ {0} /\ Shifted[0] = 1
    /\ \A b \in 0 .. Exponents : Shifted[b] \in Nat /\ Shifted[b] > 0
    /\ \A b \in 0 .. Exponents - 1 : Shifted[b + 1] = 2 * Shifted[b]
    /\ \A b, c \in 0 .. Exponents : b < c => 2 * Shifted[b] <= Shifted[c]
  <1>0. Exponents \in Nat \ {0}
    BY VTimeAssumption
  <1>1. PICK f : f = Shifted
    OBVIOUS
  <1>2. f = [b \in 0 .. Exponents |-> IF b = 0 THEN 1 ELSE 2 * f[b - 1]]
    BY <1>1, ShiftedIsDefined
  <1>3. f[0] = 1 /\ \A b \in 0 .. Exponents - 1 : f[b + 1] = 2 * f[b]
    <2>1. f[0] = 1
      BY <1>0, <1>2
    <2>2. ASSUME NEW b \in 0 .. Exponents - 1 PROVE f[b + 1] = 2 * f[b]
      <3>1. b + 1 \in 0 .. Exponents /\ b + 1 # 0 /\ (b + 1) - 1 = b
        BY <1>0
      <3> QED
        BY <1>2, <3>1
    <2> QED
      BY <2>1, <2>2
  <1> DEFINE S == {n \in Nat : n <= Exponents =>
                      /\ f[n] \in Nat /\ f[n] > 0
                      /\ \A b \in 0 .. n - 1 : f[b] \in Nat /\ 2 * f[b] <= f[n]}
  <1>4. 0 \in S
    BY <1>3
  <1>5. ASSUME NEW n \in Nat, n \in S PROVE n + 1 \in S
    <2> SUFFICES ASSUME n + 1 <= Exponents
                 PROVE  /\ f[n + 1] \in Nat /\ f[n + 1] > 0
                        /\ \A b \in 0 .. (n + 1) - 1 : f[b] \in Nat /\ 2 * f[b] <= f[n + 1]
      OBVIOUS
    <2>1. /\ f[n] \in Nat /\ f[n] > 0
          /\ \A b \in 0 .. n - 1 : f[b] \in Nat /\ 2 * f[b] <= f[n]
      BY <1>0, <1>5
    <2>2. f[n + 1] = 2 * f[n]
      BY <1>0, <1>3
    <2>3. ASSUME NEW b \in 0 .. (n + 1) - 1 PROVE f[b] \in Nat /\ 2 * f[b] <= f[n + 1]
      <3>1. CASE b = n
        BY <2>1, <2>2, <3>1
      <3>2. CASE b # n
        <4>1. b \in 0 .. n - 1
          BY <3>2
        <4> QED
          BY <2>1, <2>2, <4>1
      <3> QED
        BY <3>1, <3>2
    <2> QED
      BY <2>1, <2>2, <2>3
  <1>6. Nat \subseteq S
    <2> HIDE DEF S
    <2> QED
      BY <1>4, <1>5, Induction
  <1>7. ASSUME NEW c \in 0 .. Exponents
        PROVE  /\ f[c] \in Nat /\ f[c] > 0
               /\ \A b \in 0 .. c - 1 : 2 * f[b] <= f[c]
    <2>1. c \in Nat /\ c <= Exponents
      BY <1>0
    <2>2. c \in S
      BY <1>6, <2>1
    <2> QED
      BY <2>1, <2>2
  <1>8. ASSUME NEW b \in 0 .. Exponents, NEW c \in 0 .. Exponents, b < c PROVE 2 * f[b] <= f[c]
    <2>1. b \in 0 .. c - 1
      BY <1>0, <1>8
    <2> QED
      BY <1>7, <2>1
  <1> QED
    BY <1>0, <1>1, <1>3, <1>7, <1>8

\* The least element of a set that has one.
LEMMA MinFacts ==
    ASSUME NEW T, T \subseteq Nat, T # {}
    PROVE  Min(T) \in T /\ \A x \in T : Min(T) <= x
  <1>1. \E n \in T : \A m \in T : n <= m
    BY LeastNatural
  <1> QED
    BY <1>1 DEF Min

\* A code in terms of its power of two.
LEMMA DecodedValue ==
    ASSUME NEW code, NEW a \in 0 .. 16, NEW b \in 0 .. Exponents, code = [a |-> a, b |-> b]
    PROVE  EmfToSeconds(code) = (32 + 2 * a) * Shifted[b]
  <1>1. PICK q \in Nat : q = Shifted[b]
    BY ShiftedFacts
  <1>2. code.a = a /\ code.b = b
    OBVIOUS
  <1>3. PICK t \in Nat : t = (32 + 2 * a) * q
    OBVIOUS
  <1>4. 32 * (16 + a) * q = 16 * t
    BY <1>3
  <1>5. (16 * t) \div 16 = t
    OBVIOUS
  <1>6. (32 * (16 + a) * q) \div 16 = t
    BY <1>4, <1>5
  <1> QED
    BY <1>1, <1>2, <1>3, <1>6 DEF EmfToSeconds, GRP_C

\* The exponent and the mantissa: with q the power of two below s, s is at most q from
\* the decoded time.
Rounds(s, a, b, q) ==
    /\ a \in 0 .. 16 /\ b \in 0 .. Exponents - 1 /\ q \in Nat /\ q > 0 /\ q = Shifted[b]
    /\ 32 * q <= s /\ s < 64 * q
    /\ s <= (33 + 2 * a) * q /\ (a # 0 => s > (31 + 2 * a) * q)
    /\ a = 16 => b + 1 \in 0 .. Exponents - 1

LEMMA RoundedTo ==
    ASSUME NEW s \in Encodable
    PROVE  \E a \in 0 .. 16, b \in 0 .. Exponents - 1, q \in Nat :
              Rounds(s, a, b, q) /\ a = Mantissa(s, b) /\ b = Exponent(s)
  <1>0. Exponents \in Nat \ {0} /\ Exponents - 1 \in 0 .. Exponents
    BY ShiftedFacts
  <1>1. PICK top \in Nat : top = Shifted[Exponents - 1] /\ Shifted[Exponents] = 2 * top /\ top > 0
    BY <1>0, ShiftedFacts
  <1>2. s \in Nat /\ 32 <= s /\ s <= 63 * top
    <2>1. GRP_C * Shifted[Exponents] * 63 = 64 * (63 * top)
      BY <1>1 DEF GRP_C
    <2>2. (64 * (63 * top)) \div 64 = 63 * top
      BY <1>1
    <2>3. s \in 32 .. 63 * top
      BY <2>1, <2>2 DEF Encodable, GRP_C
    <2> QED
      BY <1>1, <2>3
  <1> DEFINE B == {x \in 1 .. Exponents : s < GRP_C * Shifted[x]}
  <1>3. Exponents \in B /\ B \subseteq Nat
    BY <1>0, <1>1, <1>2 DEF GRP_C
  <1>4. PICK m : m = Min(B) /\ m \in B /\ \A x \in B : m <= x
    <2> HIDE DEF B
    <2> QED
      BY <1>3, MinFacts
  <1>5. PICK b \in 0 .. Exponents - 1 : b = m - 1 /\ b = Exponent(s) /\ m = b + 1
    <2>1. m - 1 \in 0 .. Exponents - 1 /\ m = (m - 1) + 1
      BY <1>0, <1>4
    <2> QED
      BY <1>4, <2>1 DEF Exponent
  <1>6. PICK q \in Nat : q = Shifted[b] /\ q > 0 /\ Shifted[b + 1] = 2 * q
    BY <1>0, ShiftedFacts
  <1>7. s < 64 * q
    BY <1>4, <1>5, <1>6 DEF GRP_C
  <1>8. 32 * q <= s
    <2>1. CASE b = 0
      BY <1>2, <1>6, <2>1, ShiftedFacts
    <2>2. CASE b # 0
      <3>1. b \in 1 .. Exponents /\ b \notin B
        <4>1. b \in 1 .. Exponents /\ ~(b + 1 <= b)
          BY <1>0, <2>2
        <4> HIDE DEF B
        <4> QED
          BY <1>4, <1>5, <4>1
      <3> QED
        BY <1>2, <1>6, <3>1 DEF GRP_C
    <2> QED
      BY <2>1, <2>2
  <1> DEFINE Fine(a) == s <= (33 + 2 * a) * q
             A == {a \in 0 .. 16 : (2 * a + 1) * GRP_C * Shifted[b] >= 32 * (s - GRP_C * Shifted[b])}
  <1>9. ASSUME NEW a \in 0 .. 16 PROVE a \in A <=> Fine(a)
    <2>1. PICK t \in Int : t = (2 * a + 1) * q
      OBVIOUS
    <2>2. (2 * a + 1) * GRP_C * Shifted[b] = 32 * t
      BY <1>6, <2>1 DEF GRP_C
    <2>3. GRP_C * Shifted[b] = 32 * q
      BY <1>6 DEF GRP_C
    <2>4. (33 + 2 * a) * q = t + 32 * q
      BY <2>1
    <2>5. a \in A <=> 32 * t >= 32 * (s - 32 * q)
      BY <2>2, <2>3
    <2>6. 32 * t >= 32 * (s - 32 * q) <=> s <= t + 32 * q
      BY <1>2
    <2> QED
      BY <2>4, <2>5, <2>6
  <1>10. 16 \in A /\ A \subseteq Nat
    <2>1. Fine(16)
      BY <1>2, <1>7
    <2> QED
      BY <1>9, <2>1
  <1>11. PICK a : a = Min(A) /\ a \in A /\ \A x \in A : a <= x
    <2> HIDE DEF A
    <2> QED
      BY <1>10, MinFacts
  <1>12. a \in 0 .. 16 /\ a = Mantissa(s, b) /\ Fine(a)
    <2>1. a \in 0 .. 16 /\ a = Mantissa(s, b)
      BY <1>11 DEF Mantissa
    <2> QED
      BY <1>9, <1>11, <2>1
  <1>13. a # 0 => s > (31 + 2 * a) * q
    <2> SUFFICES ASSUME a # 0 PROVE s > (31 + 2 * a) * q
      OBVIOUS
    <2>1. a - 1 \in 0 .. 16 /\ ~(a <= a - 1)
      BY <1>12
    <2>2. ~Fine(a - 1)
      BY <1>9, <1>11, <2>1
    <2>3. 33 + 2 * (a - 1) = 31 + 2 * a
      BY <1>12
    <2>4. (31 + 2 * a) * q \in Int
      BY <1>12
    <2> QED
      BY <1>2, <2>2, <2>3, <2>4
  <1>14. a = 16 => b + 1 \in 0 .. Exponents - 1
    <2> SUFFICES ASSUME a = 16, b = Exponents - 1 PROVE FALSE
      BY <1>0
    <2>1. s > 63 * q /\ q = top
      BY <1>1, <1>6, <1>13
    <2> QED
      BY <1>2, <2>1
  <1>15. Rounds(s, a, b, q)
    BY <1>6, <1>7, <1>8, <1>12, <1>13, <1>14 DEF Rounds
  <1> QED
    BY <1>5, <1>12, <1>15

\* The decoded time of s, and what the rounding makes of it.
Decoded(s) == EmfToSeconds(SecondsToEmf(s))

LEMMA DecodedIs ==
    ASSUME NEW s \in Encodable, NEW a, NEW b, NEW q, Rounds(s, a, b, q), a = Mantissa(s, b),
           b = Exponent(s)
    PROVE  SecondsToEmf(s) \in Codes /\ Decoded(s) = (32 + 2 * a) * q
  <1>1. Exponents \in Nat \ {0}
    BY ShiftedFacts
  <1>2. a \in 0 .. 16 /\ b \in 0 .. Exponents - 1 /\ q \in Nat /\ q = Shifted[b]
    BY DEF Rounds
  <1>3. CASE a = 16
    <2>1. SecondsToEmf(s) = [a |-> 0, b |-> b + 1] /\ b + 1 \in 0 .. Exponents - 1
      BY <1>3 DEF SecondsToEmf, Rounds
    <2>2. SecondsToEmf(s) \in Codes
      BY <2>1 DEF Codes
    <2>3. Shifted[b + 1] = 2 * q
      BY <1>2, ShiftedFacts
    <2>4. 0 \in 0 .. 16 /\ b + 1 \in 0 .. Exponents
      BY <1>1, <2>1
    <2>5. EmfToSeconds(SecondsToEmf(s)) = (32 + 2 * 0) * Shifted[b + 1]
      BY <2>1, <2>4, DecodedValue
    <2> QED
      BY <1>2, <1>3, <2>2, <2>3, <2>5 DEF Decoded
  <1>4. CASE a # 16
    <2>1. SecondsToEmf(s) = [a |-> a, b |-> b] /\ a \in 0 .. 15
      BY <1>2, <1>4 DEF SecondsToEmf
    <2>2. SecondsToEmf(s) \in Codes
      BY <1>2, <2>1 DEF Codes
    <2>3. b \in 0 .. Exponents
      BY <1>1, <1>2
    <2> QED
      BY <1>2, <2>1, <2>2, <2>3, DecodedValue DEF Decoded
  <1> QED
    BY <1>3, <1>4

\* SecondsToEmf takes the nearest code.
LEMMA NearestCode ==
    ASSUME NEW s \in Encodable, NEW code \in Codes
    PROVE  Off(SecondsToEmf(s), s) <= Off(code, s)
  <1>0. Exponents \in Nat \ {0}
    BY ShiftedFacts
  <1>1. PICK a \in 0 .. 16, b \in 0 .. Exponents - 1, q \in Nat :
            Rounds(s, a, b, q) /\ a = Mantissa(s, b) /\ b = Exponent(s)
    BY RoundedTo
  <1>2. PICK t : t = Decoded(s) /\ t = (32 + 2 * a) * q
    BY <1>1, DecodedIs
  <1>3. PICK a2 \in 0 .. 15, b2 \in 0 .. Exponents - 1 : code = [a |-> a2, b |-> b2]
    BY DEF Codes
  <1>4. PICK q2 \in Nat : q2 = Shifted[b2] /\ q2 > 0
    BY <1>0, ShiftedFacts
  <1>5. PICK t2 : t2 = EmfToSeconds(code) /\ t2 = (32 + 2 * a2) * q2
    <2>1. a2 \in 0 .. 16 /\ b2 \in 0 .. Exponents
      BY <1>0
    <2> QED
      BY <1>3, <1>4, <2>1, DecodedValue
  <1>6. /\ s \in Int /\ t \in Int /\ t2 \in Int /\ q > 0 /\ q = Shifted[b]
        /\ 32 * q <= s /\ s < 64 * q /\ s <= (33 + 2 * a) * q /\ (a # 0 => s > (31 + 2 * a) * q)
    <2>1. s \in Int
      BY DEF Encodable
    <2>2. t \in Int /\ t2 \in Int
      BY <1>2, <1>5
    <2> QED
      BY <1>1, <2>1, <2>2 DEF Rounds
  <1>7. 32 * q <= t /\ t <= 64 * q
    BY <1>2
  <1>8. t - s <= q /\ s - t <= q
    <2>1. (33 + 2 * a) * q = t + q /\ (31 + 2 * a) * q = t - q
      BY <1>2
    <2>2. a = 0 => t = 32 * q
      BY <1>2
    <2> QED
      BY <1>6, <2>1, <2>2
  <1>9. CASE b2 = b
    <2>1. q2 = q
      BY <1>4, <1>6, <1>9
    <2>2. CASE a2 = a
      <3>1. t2 = t
        BY <1>2, <1>5, <2>1, <2>2
      <3> QED
        BY <1>2, <1>5, <1>6, <3>1 DEF Off, Decoded
    <2>3. CASE a2 < a
      <3>1. (32 + 2 * a2) * q <= (30 + 2 * a) * q
        <4>1. 32 + 2 * a2 <= 30 + 2 * a
          BY <2>3
        <4> QED
          BY <4>1
      <3>2. (30 + 2 * a) * q = t - 2 * q
        BY <1>2
      <3>3. t2 <= t - 2 * q
        BY <1>5, <2>1, <3>1, <3>2
      <3> QED
        BY <1>2, <1>5, <1>6, <1>8, <3>3 DEF Off, Decoded
    <2>4. CASE a2 > a
      <3>1. (32 + 2 * a2) * q >= (34 + 2 * a) * q
        <4>1. 32 + 2 * a2 >= 34 + 2 * a
          BY <2>4
        <4> QED
          BY <4>1
      <3>2. (34 + 2 * a) * q = t + 2 * q
        BY <1>2
      <3>3. t2 >= t + 2 * q
        BY <1>5, <2>1, <3>1, <3>2
      <3> QED
        BY <1>2, <1>5, <1>6, <1>8, <3>3 DEF Off, Decoded
    <2> QED
      BY <2>2, <2>3, <2>4
  <1>10. CASE b2 < b
    <2>1. b2 \in 0 .. Exponents /\ b \in 0 .. Exponents
      BY <1>0
    <2>2. 2 * q2 <= q
      BY <1>4, <1>6, <1>10, <2>1, ShiftedFacts
    <2>3. t2 <= 62 * q2
      BY <1>4, <1>5
    <2>4. t2 <= 31 * q
      BY <1>6, <2>2, <2>3
    <2> QED
      BY <1>2, <1>5, <1>6, <1>7, <1>8, <2>4 DEF Off, Decoded
  <1>11. CASE b2 > b
    <2>1. b2 \in 0 .. Exponents /\ b \in 0 .. Exponents
      BY <1>0
    <2>2. 2 * q <= q2
      BY <1>4, <1>6, <1>11, <2>1, ShiftedFacts
    <2>3. t2 >= 32 * q2
      BY <1>4, <1>5
    <2>4. t2 >= 64 * q
      BY <1>4, <1>6, <2>2, <2>3
    <2>5. t < s => s <= 63 * q
      <3> SUFFICES ASSUME t < s PROVE s <= 63 * q
        OBVIOUS
      <3>1. a # 16
        BY <1>2, <1>6
      <3>2. (33 + 2 * a) * q <= 63 * q
        BY <3>1
      <3>3. (33 + 2 * a) * q \in Int
        OBVIOUS
      <3> QED
        BY <1>6, <3>2, <3>3
    <2> QED
      BY <1>2, <1>5, <1>6, <1>7, <1>8, <2>4, <2>5 DEF Off, Decoded
  <1> QED
    BY <1>9, <1>10, <1>11

\* A longer validity is not decoded as a shorter one.
LEMMA DecodingMonotone ==
    ASSUME NEW s \in Encodable, NEW r \in Encodable, s <= r
    PROVE  Decoded(s) <= Decoded(r)
  <1>0. Exponents \in Nat \ {0}
    BY ShiftedFacts
  <1>1. PICK a \in 0 .. 16, b \in 0 .. Exponents - 1, q \in Nat :
            Rounds(s, a, b, q) /\ a = Mantissa(s, b) /\ b = Exponent(s)
    BY RoundedTo
  <1>2. PICK a2 \in 0 .. 16, b2 \in 0 .. Exponents - 1, q2 \in Nat :
            Rounds(r, a2, b2, q2) /\ a2 = Mantissa(r, b2) /\ b2 = Exponent(r)
    BY RoundedTo
  <1>3. Decoded(s) = (32 + 2 * a) * q /\ Decoded(r) = (32 + 2 * a2) * q2
    BY <1>1, <1>2, DecodedIs
  <1>4. s \in Int /\ r \in Int /\ b \in 0 .. Exponents /\ b2 \in 0 .. Exponents
    BY <1>0 DEF Encodable
  <1>5. CASE b2 = b
    <2>1. q2 = q
      BY <1>1, <1>2, <1>5 DEF Rounds
    <2>2. a <= a2
      <3> SUFFICES ASSUME a > a2 PROVE FALSE
        OBVIOUS
      <3>1. s > (31 + 2 * a) * q /\ r <= (33 + 2 * a2) * q
        BY <1>1, <1>2, <2>1 DEF Rounds
      <3>2. (31 + 2 * a) * q >= (33 + 2 * a2) * q
        <4>1. 31 + 2 * a >= 33 + 2 * a2
          OBVIOUS
        <4> QED
          BY <4>1
      <3>3. (31 + 2 * a) * q \in Int /\ (33 + 2 * a2) * q \in Int
        OBVIOUS
      <3> QED
        BY <1>4, <3>1, <3>2, <3>3
    <2>3. 32 + 2 * a <= 32 + 2 * a2
      BY <2>2
    <2> QED
      BY <1>3, <2>1, <2>3
  <1>6. CASE b < b2
    <2>1. 2 * q <= q2
      BY <1>1, <1>2, <1>4, <1>6, ShiftedFacts DEF Rounds
    <2>2. (32 + 2 * a) * q <= 64 * q
      OBVIOUS
    <2>3. (32 + 2 * a2) * q2 >= 32 * q2
      OBVIOUS
    <2>4. (32 + 2 * a) * q \in Int /\ (32 + 2 * a2) * q2 \in Int
      OBVIOUS
    <2> QED
      BY <1>3, <2>1, <2>2, <2>3, <2>4
  <1>7. CASE b2 < b
    <2>1. 2 * q2 <= q
      BY <1>1, <1>2, <1>4, <1>7, ShiftedFacts DEF Rounds
    <2>2. 32 * q <= s /\ r < 64 * q2
      BY <1>1, <1>2 DEF Rounds
    <2> QED
      BY <1>4, <2>1, <2>2
  <1> QED
    BY <1>5, <1>6, <1>7

-------------------------------------------------------------------------------
(* Sequences of bytes *)

\* What a concatenation holds.
LEMMA Joined ==
    ASSUME NEW S, NEW s \in Seq(S), NEW t \in Seq(S)
    PROVE  /\ s \o t \in Seq(S) /\ Len(s \o t) = Len(s) + Len(t)
           /\ \A i \in 1 .. Len(s) : (s \o t)[i] = s[i]
           /\ \A i \in 1 .. Len(t) : (s \o t)[Len(s) + i] = t[i]
  OBVIOUS

\* The bytes of fields with names in N and members in K: name, member and place.
CellsOf(N, K) == N \X K \X Nat
Members == Nat

\* A field or a member of a list, byte by byte.
LEMMA ItemBytes ==
    ASSUME NEW N, NEW K, NEW name \in N, NEW k \in K, NEW w \in Nat
    PROVE  /\ Item(name, k, w) \in Seq(CellsOf(N, K)) /\ Len(Item(name, k, w)) = w
           /\ \A i \in 1 .. w : Item(name, k, w)[i] = <<name, k, i>>
  BY DEF Item, CellsOf

\* Bytes written over a buffer that is long enough: the length stays.
LEMMA Written ==
    ASSUME NEW S, NEW buffer \in Seq(S), NEW bytes \in Seq(S), NEW offset \in Nat,
           offset + Len(bytes) <= Len(buffer)
    PROVE  /\ Write(buffer, offset, bytes) \in Seq(S)
           /\ Len(Write(buffer, offset, bytes)) = Len(buffer)
           /\ \A i \in 1 .. offset : Write(buffer, offset, bytes)[i] = buffer[i]
           /\ \A i \in 1 .. Len(bytes) : Write(buffer, offset, bytes)[offset + i] = bytes[i]
           /\ \A i \in offset + Len(bytes) + 1 .. Len(buffer) :
                 Write(buffer, offset, bytes)[i] = buffer[i]
  <1> DEFINE front == SubSeq(buffer, 1, offset)
             back == SubSeq(buffer, offset + Len(bytes) + 1, Len(buffer))
             m == Len(bytes)
             n == Len(buffer)
  <1>1. m \in Nat /\ n \in Nat
    OBVIOUS
  <1>2. front \in Seq(S) /\ Len(front) = offset /\ \A i \in 1 .. offset : front[i] = buffer[i]
    BY <1>1
  <1>3. /\ back \in Seq(S) /\ Len(back) = n - (offset + m)
        /\ \A i \in 1 .. n - (offset + m) : back[i] = buffer[offset + m + i]
    BY <1>1
  <1> HIDE DEF front, back
  <1>4. /\ front \o bytes \in Seq(S) /\ Len(front \o bytes) = offset + m
        /\ \A i \in 1 .. offset : (front \o bytes)[i] = buffer[i]
        /\ \A i \in 1 .. m : (front \o bytes)[offset + i] = bytes[i]
    BY <1>2
  <1>5. PICK both \in Seq(S) : both = front \o bytes
    BY <1>4
  <1>6. Write(buffer, offset, bytes) = both \o back
    BY <1>5 DEF Write, front, back
  <1>7. /\ both \o back \in Seq(S) /\ Len(both \o back) = n
        /\ \A i \in 1 .. offset + m : (both \o back)[i] = both[i]
        /\ \A i \in 1 .. n - (offset + m) : (both \o back)[offset + m + i] = back[i]
    <2>1. Len(both) = offset + m
      BY <1>4, <1>5
    <2>2. /\ both \o back \in Seq(S) /\ Len(both \o back) = Len(both) + Len(back)
          /\ \A i \in 1 .. Len(both) : (both \o back)[i] = both[i]
          /\ \A i \in 1 .. Len(back) : (both \o back)[Len(both) + i] = back[i]
      BY <1>3, Joined
    <2>3. Len(both) + Len(back) = n
      <3> HIDE DEF m, n
      <3> QED
        BY <1>1, <1>3, <2>1
    <2> QED
      BY <1>3, <2>1, <2>2, <2>3
  <1>8. \A i \in 1 .. offset : (both \o back)[i] = buffer[i]
    BY <1>1, <1>4, <1>5, <1>7
  <1>9. \A i \in 1 .. m : (both \o back)[offset + i] = bytes[i]
    BY <1>1, <1>4, <1>5, <1>7
  <1>10. ASSUME NEW i \in offset + m + 1 .. n PROVE (both \o back)[i] = buffer[i]
    <2>1. i - (offset + m) \in 1 .. n - (offset + m) /\ offset + m + (i - (offset + m)) = i
      BY <1>1
    <2> QED
      BY <1>3, <1>7, <2>1
  <1> QED
    BY <1>6, <1>7, <1>8, <1>9, <1>10

\* e[k] is where the k-th of the sequences ends in their concatenation.
Ends(seqs, e) ==
    /\ e \in [0 .. Len(seqs) -> Nat] /\ e[0] = 0
    /\ \A k \in 1 .. Len(seqs) : e[k] = e[k - 1] + Len(seqs[k])

\* flat is the concatenation of the sequences.
Laid(seqs, e, flat) ==
    /\ Len(flat) = e[Len(seqs)]
    /\ \A k \in 1 .. Len(seqs) : \A j \in 1 .. Len(seqs[k]) : flat[e[k - 1] + j] = seqs[k][j]

\* The recursion of FlattenSeq does define a function.
LEMMA FlattenIsDefined ==
    ASSUME NEW seqs, Len(seqs) \in Nat \ {0}
    PROVE  \E f : /\ f = [i \in 1 .. Len(seqs) |-> IF i = 1 THEN seqs[i] ELSE f[i - 1] \o seqs[i]]
                  /\ FlattenSeq(seqs) = f[Len(seqs)]
  <1> DEFINE Def(g, n) == [i \in 1 .. n |-> IF i = 1 THEN seqs[i] ELSE g[i - 1] \o seqs[i]]
             Good == {n \in Nat : \E g : g = Def(g, n)}
             f == CHOOSE g : g = Def(g, Len(seqs))
  <1>1. 0 \in Good
    <2> DEFINE g == [i \in 1 .. 0 |-> seqs]
    <2>1. g = Def(g, 0)
      OBVIOUS
    <2> QED
      BY <2>1
  <1>2. ASSUME NEW n \in Nat, n \in Good PROVE n + 1 \in Good
    <2>1. PICK g : g = Def(g, n)
      BY <1>2
    <2> DEFINE h == [i \in 1 .. n + 1 |-> IF i = n + 1
                                          THEN IF i = 1 THEN seqs[i] ELSE g[n] \o seqs[i]
                                          ELSE g[i]]
    <2>2. ASSUME NEW i \in 1 .. n + 1
          PROVE  h[i] = IF i = 1 THEN seqs[i] ELSE h[i - 1] \o seqs[i]
      <3>1. CASE i = n + 1
        <4>1. i # 1 => i - 1 \in 1 .. n + 1 /\ i - 1 # n + 1 /\ i - 1 = n
          BY <3>1
        <4> QED
          BY <3>1, <4>1
      <3>2. CASE i # n + 1
        <4>1. i \in 1 .. n /\ (i # 1 => i - 1 \in 1 .. n + 1 /\ i - 1 # n + 1)
          BY <3>2
        <4>2. g[i] = IF i = 1 THEN seqs[i] ELSE g[i - 1] \o seqs[i]
          BY <2>1, <4>1
        <4> QED
          BY <3>2, <4>1, <4>2
      <3> QED
        BY <3>1, <3>2
    <2>3. h = Def(h, n + 1)
      BY <2>2
    <2> HIDE DEF h, Def
    <2> QED
      BY <2>3
  <1>3. Nat \subseteq Good
    <2> HIDE DEF Good
    <2> QED
      BY <1>1, <1>2, Induction
  <1>4. \E g : g = Def(g, Len(seqs))
    BY <1>3
  <1>5. f = Def(f, Len(seqs))
    <2> HIDE DEF Def
    <2> QED
      BY <1>4
  <1>6. FlattenSeq(seqs) = f[Len(seqs)]
    BY DEF FlattenSeq
  <1> HIDE DEF f
  <1> QED
    BY <1>5, <1>6

\* The concatenation of sequences: where they end and what it holds.
LEMMA Flattened ==
    ASSUME NEW S, NEW seqs \in Seq(Seq(S))
    PROVE  FlattenSeq(seqs) \in Seq(S) /\ \E e : Ends(seqs, e) /\ Laid(seqs, e, FlattenSeq(seqs))
  <1> DEFINE N == Len(seqs)
  <1>0. N \in Nat /\ \A k \in 1 .. N : seqs[k] \in Seq(S) /\ Len(seqs[k]) \in Nat
    OBVIOUS
  <1>1. CASE N = 0
    <2> DEFINE e == [k \in 0 .. 0 |-> 0]
    <2>1. FlattenSeq(seqs) = seqs /\ seqs = <<>> /\ seqs \in Seq(S)
      BY <1>1 DEF FlattenSeq
    <2>2. e \in [0 .. 0 -> Nat] /\ e[0] = 0
      OBVIOUS
    <2> HIDE DEF e
    <2>3. Ends(seqs, e)
      BY <1>1, <2>2 DEF Ends
    <2>4. Laid(seqs, e, seqs)
      BY <1>1, <2>2 DEF Laid
    <2> QED
      BY <2>1, <2>3, <2>4
  <1>2. CASE N # 0
    <2>1. PICK f : /\ f = [i \in 1 .. N |-> IF i = 1 THEN seqs[i] ELSE f[i - 1] \o seqs[i]]
                   /\ FlattenSeq(seqs) = f[N]
      BY <1>0, <1>2, FlattenIsDefined
    <2>2. f[1] = seqs[1]
      BY <1>0, <1>2, <2>1
    <2>3. ASSUME NEW n \in 1 .. N - 1 PROVE f[n + 1] = f[n] \o seqs[n + 1]
      <3>1. n + 1 \in 1 .. N /\ n + 1 # 1 /\ (n + 1) - 1 = n
        BY <1>0
      <3> QED
        BY <2>1, <3>1
    <2> DEFINE e == [k \in 0 .. N |-> IF k = 0 THEN 0 ELSE Len(f[k])]
               Fine(n) == /\ f[n] \in Seq(S) /\ e[n] \in Nat /\ e[n - 1] \in Nat
                          /\ e[n] = e[n - 1] + Len(seqs[n])
                          /\ \A k \in 1 .. n : /\ e[k - 1] \in Nat /\ e[k - 1] + Len(seqs[k]) <= e[n]
                                               /\ \A j \in 1 .. Len(seqs[k]) : f[n][e[k - 1] + j] = seqs[k][j]
               T == {n \in Nat : n + 1 <= N => Fine(n + 1)}
    <2>4. e[0] = 0 /\ \A n \in 1 .. N : e[n] = Len(f[n])
      BY <1>0
    <2> HIDE DEF e
    <2>5. Fine(1)
      <3>1. 1 \in 1 .. N
        BY <1>0, <1>2
      <3>2. f[1] \in Seq(S) /\ e[1] = Len(seqs[1]) /\ e[1] \in Nat /\ e[1 - 1] = 0
        BY <1>0, <2>2, <2>4, <3>1
      <3>3. ASSUME NEW k \in 1 .. 1
            PROVE  /\ e[k - 1] \in Nat /\ e[k - 1] + Len(seqs[k]) <= e[1]
                   /\ \A j \in 1 .. Len(seqs[k]) : f[1][e[k - 1] + j] = seqs[k][j]
        <4>1. k = 1
          OBVIOUS
        <4> QED
          BY <2>2, <3>2, <4>1
      <3> QED
        BY <3>2, <3>3
    <2>6. ASSUME NEW n \in 1 .. N - 1, Fine(n) PROVE Fine(n + 1)
      <3>1. n \in 1 .. N /\ n + 1 \in 1 .. N /\ (n + 1) - 1 = n
        BY <1>0
      <3>2. PICK s \in Seq(S), t \in Seq(S) : s = f[n] /\ t = seqs[n + 1]
        BY <1>0, <2>6, <3>1
      <3>3. f[n + 1] = s \o t
        BY <2>3, <3>2
      <3>4. /\ s \o t \in Seq(S) /\ Len(s \o t) = Len(s) + Len(t)
            /\ \A i \in 1 .. Len(s) : (s \o t)[i] = s[i]
            /\ \A i \in 1 .. Len(t) : (s \o t)[Len(s) + i] = t[i]
        BY Joined
      <3>5. e[n] = Len(s) /\ e[n + 1] = Len(s) + Len(t) /\ Len(s) \in Nat /\ Len(t) \in Nat
        <4>1. e[n] = Len(f[n]) /\ e[n + 1] = Len(f[n + 1])
          BY <2>4, <3>1
        <4> QED
          BY <3>2, <3>3, <3>4, <4>1
      <3>6. ASSUME NEW k \in 1 .. n + 1
            PROVE  /\ e[k - 1] \in Nat /\ e[k - 1] + Len(seqs[k]) <= e[n + 1]
                   /\ \A j \in 1 .. Len(seqs[k]) : f[n + 1][e[k - 1] + j] = seqs[k][j]
        <4>1. CASE k = n + 1
          <5>1. seqs[k] = t /\ e[k - 1] = Len(s) /\ e[n + 1] = Len(s) + Len(t)
            BY <3>1, <3>2, <3>5, <4>1
          <5>2. \A j \in 1 .. Len(t) : f[n + 1][Len(s) + j] = t[j]
            BY <3>3, <3>4
          <5>3. e[k - 1] \in Nat /\ e[k - 1] + Len(seqs[k]) <= e[n + 1]
            BY <3>5, <5>1
          <5>4. ASSUME NEW j \in 1 .. Len(seqs[k]) PROVE f[n + 1][e[k - 1] + j] = seqs[k][j]
            BY <5>1, <5>2, Zenon
          <5> QED
            BY <5>3, <5>4
        <4>2. CASE k # n + 1
          <5>1. k \in 1 .. n /\ k \in 1 .. N
            BY <1>0, <4>2
          <5>2. e[k - 1] \in Nat /\ seqs[k] \in Seq(S)
            BY <1>0, <2>6, <5>1
          <5>3. PICK c \in Nat, t2 \in Seq(S) : c = e[k - 1] /\ t2 = seqs[k]
            BY <5>2
          <5>4. c + Len(t2) <= Len(s) /\ \A j \in 1 .. Len(t2) : s[c + j] = t2[j]
            BY <2>6, <3>2, <3>5, <5>1, <5>3
          <5> HIDE DEF Fine
          <5>5. ASSUME NEW j \in 1 .. Len(t2) PROVE f[n + 1][c + j] = t2[j]
            <6>1. c + j \in 1 .. Len(s)
              BY <3>5, <5>4
            <6>2. (s \o t)[c + j] = s[c + j]
              BY <3>4, <6>1
            <6> QED
              BY <3>3, <5>4, <6>2
          <5>6. c + Len(t2) <= e[n + 1]
            BY <3>5, <5>4
          <5> QED
            BY <5>3, <5>5, <5>6
        <4> QED
          BY <4>1, <4>2
      <3>7. f[n + 1] \in Seq(S) /\ e[n + 1] = e[n] + Len(seqs[n + 1])
        BY <3>2, <3>3, <3>4, <3>5
      <3>8. e[n] \in Nat /\ e[n + 1] \in Nat
        BY <3>5
      <3> QED
        BY <3>1, <3>6, <3>7, <3>8
    <2>7. Nat \subseteq T
      <3>1. 0 \in T
        <4>1. 0 + 1 = 1
          OBVIOUS
        <4> HIDE DEF Fine
        <4> QED
          BY <2>5, <4>1
      <3>2. ASSUME NEW n \in Nat, n \in T PROVE n + 1 \in T
        <4> SUFFICES ASSUME (n + 1) + 1 <= N PROVE Fine((n + 1) + 1)
          OBVIOUS
        <4>1. n + 1 \in 1 .. N - 1 /\ n + 1 <= N
          BY <1>0
        <4>2. Fine(n + 1)
          BY <3>2, <4>1
        <4> HIDE DEF Fine
        <4> QED
          BY <2>6, <4>1, <4>2
      <3> HIDE DEF T
      <3> QED
        BY <3>1, <3>2, Induction
    <2>8. ASSUME NEW n \in 1 .. N PROVE Fine(n)
      <3>1. n - 1 \in Nat /\ (n - 1) + 1 = n /\ n <= N
        BY <1>0
      <3>2. n - 1 \in T
        BY <2>7, <3>1
      <3> HIDE DEF Fine
      <3> QED
        BY <3>1, <3>2
    <2>9. Ends(seqs, e)
      <3>1. \A n \in 0 .. N : e[n] \in Nat
        BY <2>4, <2>8
      <3>2. e \in [0 .. N -> Nat]
        BY <3>1 DEF e
      <3> QED
        BY <2>4, <2>8, <3>2 DEF Ends
    <2>10. f[N] \in Seq(S) /\ Laid(seqs, e, f[N])
      <3>1. N \in 1 .. N
        BY <1>0, <1>2
      <3> QED
        BY <2>4, <2>8, <3>1 DEF Laid
    <2> QED
      BY <2>1, <2>9, <2>10
  <1> QED
    BY <1>1, <1>2

\* The ends are in order.
LEMMA EndsInOrder ==
    ASSUME NEW S, NEW seqs \in Seq(Seq(S)), NEW e, Ends(seqs, e),
           NEW i \in 0 .. Len(seqs), NEW j \in 0 .. Len(seqs), i <= j
    PROVE  e[i] <= e[j]
  <1> DEFINE N == Len(seqs)
             T == {d \in Nat : i + d <= N => e[i] <= e[i + d]}
  <1>1. N \in Nat /\ \A k \in 1 .. N : Len(seqs[k]) \in Nat
    OBVIOUS
  <1>2. \A k \in 0 .. N : e[k] \in Nat
    BY DEF Ends
  <1>3. 0 \in T
    BY <1>2
  <1>4. ASSUME NEW d \in Nat, d \in T PROVE d + 1 \in T
    <2> SUFFICES ASSUME i + (d + 1) <= N PROVE e[i] <= e[i + (d + 1)]
      OBVIOUS
    <2>1. i + (d + 1) \in 1 .. N /\ i + d \in 0 .. N /\ (i + (d + 1)) - 1 = i + d
      BY <1>1
    <2>2. e[i + (d + 1)] = e[i + d] + Len(seqs[i + (d + 1)])
      BY <2>1 DEF Ends
    <2>3. e[i] <= e[i + d]
      BY <1>1, <1>4, <2>1
    <2> QED
      BY <1>1, <1>2, <2>1, <2>2, <2>3, SMTT(30)
  <1>5. Nat \subseteq T
    <2> HIDE DEF T
    <2> QED
      BY <1>3, <1>4, Induction
  <1>6. j - i \in T /\ i + (j - i) = j
    <2>1. j - i \in Nat /\ i + (j - i) = j
      BY <1>1
    <2> HIDE DEF T
    <2> QED
      BY <1>5, <2>1
  <1> QED
    BY <1>1, <1>6

-------------------------------------------------------------------------------
(* The layout of the bodies *)

\* A list of n members, w bytes each.
LEMMA ListBytes ==
    ASSUME NEW N, NEW name \in N, NEW n \in Nat, NEW w \in Nat
    PROVE  List(name, n, w) \in Seq(CellsOf(N, Members)) /\ Len(List(name, n, w)) = n * w
  <1> DEFINE S == CellsOf(N, Members)
             seqs == [k \in 1 .. n |-> Item(name, k, w)]
  <1>1. ASSUME NEW k \in 1 .. n
        PROVE  /\ Item(name, k, w) \in Seq(S) /\ Len(Item(name, k, w)) = w
               /\ \A i \in 1 .. w : Item(name, k, w)[i] = <<name, k, i>>
    <2>1. k \in Members
      BY DEF Members
    <2> QED
      BY <2>1, ItemBytes
  <1>2. seqs \in Seq(Seq(S)) /\ Len(seqs) = n /\ \A k \in 1 .. n : seqs[k] = Item(name, k, w)
    BY <1>1
  <1>3. FlattenSeq(seqs) = List(name, n, w)
    BY DEF List
  <1> HIDE DEF seqs
  <1>4. PICK e : Ends(seqs, e) /\ Laid(seqs, e, FlattenSeq(seqs)) /\ FlattenSeq(seqs) \in Seq(S)
    BY <1>2, Flattened
  <1>5. /\ e \in [0 .. n -> Nat] /\ e[0] = 0
        /\ \A k \in 1 .. n : e[k] = e[k - 1] + w
    BY <1>1, <1>2, <1>4 DEF Ends
  <1> DEFINE T == {k \in Nat : k <= n => e[k] = k * w}
  <1>6. Nat \subseteq T
    <2>1. 0 \in T
      BY <1>5
    <2>2. ASSUME NEW k \in Nat, k \in T PROVE k + 1 \in T
      <3> SUFFICES ASSUME k + 1 <= n PROVE e[k + 1] = (k + 1) * w
        OBVIOUS
      <3>1. k + 1 \in 1 .. n /\ (k + 1) - 1 = k /\ k <= n
        OBVIOUS
      <3>2. e[k] = k * w /\ e[k + 1] = e[k] + w
        BY <1>5, <2>2, <3>1
      <3> QED
        BY <3>2
    <2> HIDE DEF T
    <2> QED
      BY <2>1, <2>2, Induction
  <1>7. ASSUME NEW k \in 0 .. n PROVE e[k] = k * w
    <2>1. k \in Nat /\ k <= n
      OBVIOUS
    <2> QED
      BY <1>6, <2>1
  <1>8. Len(List(name, n, w)) = n * w
    BY <1>2, <1>3, <1>4, <1>7 DEF Laid
  <1> QED
    BY <1>3, <1>4, <1>8

\* The names of the fields of the header and of the two bodies.
HeaderNames ==
    {"messageType", "vTime", "messageSize", "originatorAddress", "timeToLive", "hopCount",
     "messageSequenceNumber"}

HelloFixed == {"locationX", "locationY", "speed", "direction", "turn"}
HelloNames == HelloFixed \cup {"neighbor"}

AntNames ==
    {"sender_addr", "seq_num", "version", "jun_from", "next_junction_id", "len", "junction", "s_delay",
     "next_forwarder", "last_sender", "last_sender_position_x", "last_sender_position_y"}

FieldNames == HeaderNames \cup HelloNames \cup AntNames \cup {"helloSize", "blank"}
Cells == CellsOf(FieldNames, Members)

\* The message header fills twelve bytes; the third and the fourth are its size.
LEMMA HeaderLayout ==
    /\ HeaderBytes \in Seq(Cells) /\ Len(HeaderBytes) = 12
    /\ HeaderBytes[3] = <<"messageSize", 0, 1>>
  <1> DEFINE f1 == Field("messageType", 1)
             f2 == Field("vTime", 1)
             f3 == Field("messageSize", 2)
             f4 == Field("originatorAddress", 4)
             f5 == Field("timeToLive", 1)
             f6 == Field("hopCount", 1)
             f7 == Field("messageSequenceNumber", 2)
             a2 == f1 \o f2
             a3 == a2 \o f3
             a4 == a3 \o f4
             a5 == a4 \o f5
             a6 == a5 \o f6
             a7 == a6 \o f7
  <1>0. 0 \in Members /\ HeaderNames \subseteq FieldNames
    BY DEF Members, FieldNames
  <1>1. /\ f1 \in Seq(Cells) /\ f2 \in Seq(Cells) /\ f3 \in Seq(Cells) /\ f4 \in Seq(Cells)
        /\ f5 \in Seq(Cells) /\ f6 \in Seq(Cells) /\ f7 \in Seq(Cells)
        /\ Len(f1) = 1 /\ Len(f2) = 1 /\ Len(f3) = 2 /\ Len(f4) = 4
        /\ Len(f5) = 1 /\ Len(f6) = 1 /\ Len(f7) = 2 /\ f3[1] = <<"messageSize", 0, 1>>
    <2>1. f1 \in Seq(Cells) /\ Len(f1) = 1
      <3>1. "messageType" \in FieldNames
        BY <1>0 DEF HeaderNames
      <3> QED
        BY <1>0, <3>1 DEF Field, Item, Cells, CellsOf
    <2>2. f2 \in Seq(Cells) /\ Len(f2) = 1
      <3>1. "vTime" \in FieldNames
        BY <1>0 DEF HeaderNames
      <3> QED
        BY <1>0, <3>1 DEF Field, Item, Cells, CellsOf
    <2>3. f3 \in Seq(Cells) /\ Len(f3) = 2 /\ f3[1] = <<"messageSize", 0, 1>>
      <3>1. "messageSize" \in FieldNames
        BY <1>0 DEF HeaderNames
      <3> QED
        BY <1>0, <3>1 DEF Field, Item, Cells, CellsOf
    <2>4. f4 \in Seq(Cells) /\ Len(f4) = 4
      <3>1. "originatorAddress" \in FieldNames
        BY <1>0 DEF HeaderNames
      <3> QED
        BY <1>0, <3>1 DEF Field, Item, Cells, CellsOf
    <2>5. f5 \in Seq(Cells) /\ Len(f5) = 1
      <3>1. "timeToLive" \in FieldNames
        BY <1>0 DEF HeaderNames
      <3> QED
        BY <1>0, <3>1 DEF Field, Item, Cells, CellsOf
    <2>6. f6 \in Seq(Cells) /\ Len(f6) = 1
      <3>1. "hopCount" \in FieldNames
        BY <1>0 DEF HeaderNames
      <3> QED
        BY <1>0, <3>1 DEF Field, Item, Cells, CellsOf
    <2>7. f7 \in Seq(Cells) /\ Len(f7) = 2
      <3>1. "messageSequenceNumber" \in FieldNames
        BY <1>0 DEF HeaderNames
      <3> QED
        BY <1>0, <3>1 DEF Field, Item, Cells, CellsOf
    <2> HIDE DEF f1, f2, f3, f4, f5, f6, f7
    <2> QED
      BY <2>1, <2>2, <2>3, <2>4, <2>5, <2>6, <2>7
  <1> HIDE DEF f1, f2, f3, f4, f5, f6, f7
  <1>2. a2 \in Seq(Cells) /\ Len(a2) = 2
    <2>1. f1 \in Seq(Cells) /\ f2 \in Seq(Cells)
      BY <1>1
    <2>2. /\ a2 \in Seq(Cells) /\ Len(a2) = Len(f1) + Len(f2)
          /\ \A i \in 1 .. Len(f1) : a2[i] = f1[i]
          /\ \A i \in 1 .. Len(f2) : a2[Len(f1) + i] = f2[i]
      BY <2>1
    <2> HIDE DEF a2
    <2> QED
      BY <1>1, <2>2
  <1>3. a3 \in Seq(Cells) /\ Len(a3) = 4 /\ a3[3] = <<"messageSize", 0, 1>>
    <2> HIDE DEF a2
    <2>1. a2 \in Seq(Cells) /\ f3 \in Seq(Cells)
      BY <1>1, <1>2
    <2>2. /\ a3 \in Seq(Cells) /\ Len(a3) = Len(a2) + Len(f3)
          /\ \A i \in 1 .. Len(a2) : a3[i] = a2[i]
          /\ \A i \in 1 .. Len(f3) : a3[Len(a2) + i] = f3[i]
      BY <2>1
    <2> HIDE DEF a3
    <2> QED
      BY <1>1, <1>2, <2>2
  <1>4. a4 \in Seq(Cells) /\ Len(a4) = 8 /\ a4[3] = a3[3]
    <2> HIDE DEF a2, a3
    <2>1. a3 \in Seq(Cells) /\ f4 \in Seq(Cells)
      BY <1>1, <1>3
    <2>2. /\ a4 \in Seq(Cells) /\ Len(a4) = Len(a3) + Len(f4)
          /\ \A i \in 1 .. Len(a3) : a4[i] = a3[i]
          /\ \A i \in 1 .. Len(f4) : a4[Len(a3) + i] = f4[i]
      BY <2>1
    <2> HIDE DEF a4
    <2> QED
      BY <1>1, <1>3, <2>2
  <1>5. a5 \in Seq(Cells) /\ Len(a5) = 9 /\ a5[3] = a4[3]
    <2> HIDE DEF a2, a3, a4
    <2>1. a4 \in Seq(Cells) /\ f5 \in Seq(Cells)
      BY <1>1, <1>4
    <2>2. /\ a5 \in Seq(Cells) /\ Len(a5) = Len(a4) + Len(f5)
          /\ \A i \in 1 .. Len(a4) : a5[i] = a4[i]
          /\ \A i \in 1 .. Len(f5) : a5[Len(a4) + i] = f5[i]
      BY <2>1
    <2> HIDE DEF a5
    <2> QED
      BY <1>1, <1>4, <2>2
  <1>6. a6 \in Seq(Cells) /\ Len(a6) = 10 /\ a6[3] = a5[3]
    <2> HIDE DEF a2, a3, a4, a5
    <2>1. a5 \in Seq(Cells) /\ f6 \in Seq(Cells)
      BY <1>1, <1>5
    <2>2. /\ a6 \in Seq(Cells) /\ Len(a6) = Len(a5) + Len(f6)
          /\ \A i \in 1 .. Len(a5) : a6[i] = a5[i]
          /\ \A i \in 1 .. Len(f6) : a6[Len(a5) + i] = f6[i]
      BY <2>1
    <2> HIDE DEF a6
    <2> QED
      BY <1>1, <1>5, <2>2
  <1>7. a7 \in Seq(Cells) /\ Len(a7) = 12 /\ a7[3] = a6[3]
    <2> HIDE DEF a2, a3, a4, a5, a6
    <2>1. a6 \in Seq(Cells) /\ f7 \in Seq(Cells)
      BY <1>1, <1>6
    <2>2. /\ a7 \in Seq(Cells) /\ Len(a7) = Len(a6) + Len(f7)
          /\ \A i \in 1 .. Len(a6) : a7[i] = a6[i]
          /\ \A i \in 1 .. Len(f7) : a7[Len(a6) + i] = f7[i]
      BY <2>1
    <2> HIDE DEF a7
    <2> QED
      BY <1>1, <1>6, <2>2
  <1>8. HeaderBytes = a7
    BY DEF HeaderBytes, f1, f2, f3, f4, f5, f6, f7
  <1> HIDE DEF a3, a4, a5, a6, a7
  <1> QED
    BY <1>3, <1>4, <1>5, <1>6, <1>7, <1>8

\* A sequence that begins with h and goes on with elements of T.
Headed(s, h, S, T) ==
    /\ s \in Seq(S) /\ h \in Seq(S) /\ T \subseteq S /\ Len(h) <= Len(s)
    /\ \A i \in 1 .. Len(h) : s[i] = h[i]
    /\ \A i \in Len(h) + 1 .. Len(s) : s[i] \in T

LEMMA HeadKept ==
    ASSUME NEW S, NEW T, NEW h, NEW s, Headed(s, h, S, T), NEW t \in Seq(T)
    PROVE  Headed(s \o t, h, S, T) /\ Len(s \o t) = Len(s) + Len(t)
  <1>1. t \in Seq(S) /\ s \in Seq(S) /\ h \in Seq(S)
    BY DEF Headed
  <1>2. /\ s \o t \in Seq(S) /\ Len(s \o t) = Len(s) + Len(t)
        /\ \A i \in 1 .. Len(s) : (s \o t)[i] = s[i]
        /\ \A i \in 1 .. Len(t) : (s \o t)[Len(s) + i] = t[i]
    BY <1>1
  <1>3. PICK u : u = s \o t
    OBVIOUS
  <1>4. ASSUME NEW i \in Len(h) + 1 .. Len(u) PROVE u[i] \in T
    <2>1. CASE i <= Len(s)
      <3>1. i \in 1 .. Len(s) /\ i \in Len(h) + 1 .. Len(s)
        BY <1>1, <2>1
      <3> QED
        BY <1>2, <1>3, <3>1 DEF Headed
    <2>2. CASE ~(i <= Len(s))
      <3>1. i - Len(s) \in 1 .. Len(t) /\ Len(s) + (i - Len(s)) = i
        BY <1>1, <1>2, <1>3, <2>2
      <3>2. u[i] = t[i - Len(s)]
        BY <1>2, <1>3, <3>1
      <3> QED
        BY <3>1, <3>2
    <2> QED
      BY <2>1, <2>2
  <1>5. Len(h) <= Len(u) /\ \A i \in 1 .. Len(h) : u[i] = h[i]
    BY <1>1, <1>2, <1>3 DEF Headed
  <1> QED
    BY <1>1, <1>2, <1>3, <1>4, <1>5 DEF Headed

\* More names and more members.
LEMMA Wider ==
    ASSUME NEW N, NEW K, NEW N2, NEW K2, N \subseteq N2, K \subseteq K2
    PROVE  CellsOf(N, K) \subseteq CellsOf(N2, K2) /\ Seq(CellsOf(N, K)) \subseteq Seq(CellsOf(N2, K2))
  <1>1. CellsOf(N, K) \subseteq CellsOf(N2, K2)
    BY DEF CellsOf
  <1> QED
    BY <1>1

\* The fields of a Hello in front of its addresses.
HelloFront ==
    Field("locationX", 8) \o Field("locationY", 8) \o Field("speed", 4)
    \o Field("direction", 4) \o Field("turn", 2)

LEMMA HelloFrontLayout == HelloFront \in Seq(CellsOf(HelloFixed, {0})) /\ Len(HelloFront) = 26
  <1> DEFINE S == CellsOf(HelloFixed, {0})
             f1 == Field("locationX", 8)
             f2 == Field("locationY", 8)
             f3 == Field("speed", 4)
             f4 == Field("direction", 4)
             f5 == Field("turn", 2)
             a2 == f1 \o f2
             a3 == a2 \o f3
             a4 == a3 \o f4
             a5 == a4 \o f5
  <1>0. 0 \in {0}
    BY DEF Members
  <1>1. /\ f1 \in Seq(S) /\ f2 \in Seq(S) /\ f3 \in Seq(S) /\ f4 \in Seq(S)
        /\ f5 \in Seq(S) /\ Len(f1) = 8 /\ Len(f2) = 8 /\ Len(f3) = 4 /\ Len(f4) = 4
        /\ Len(f5) = 2 /\ f5[1] = <<"turn", 0, 1>>
    <2>1. f1 \in Seq(S) /\ Len(f1) = 8
      <3>1. "locationX" \in HelloFixed
        BY DEF HelloFixed
      <3> QED
        BY <1>0, <3>1 DEF Field, Item, CellsOf
    <2>2. f2 \in Seq(S) /\ Len(f2) = 8
      <3>1. "locationY" \in HelloFixed
        BY DEF HelloFixed
      <3> QED
        BY <1>0, <3>1 DEF Field, Item, CellsOf
    <2>3. f3 \in Seq(S) /\ Len(f3) = 4
      <3>1. "speed" \in HelloFixed
        BY DEF HelloFixed
      <3> QED
        BY <1>0, <3>1 DEF Field, Item, CellsOf
    <2>4. f4 \in Seq(S) /\ Len(f4) = 4
      <3>1. "direction" \in HelloFixed
        BY DEF HelloFixed
      <3> QED
        BY <1>0, <3>1 DEF Field, Item, CellsOf
    <2>5. f5 \in Seq(S) /\ Len(f5) = 2 /\ f5[1] = <<"turn", 0, 1>>
      <3>1. "turn" \in HelloFixed
        BY DEF HelloFixed
      <3> QED
        BY <1>0, <3>1 DEF Field, Item, CellsOf
    <2> HIDE DEF S, f1, f2, f3, f4, f5
    <2> QED
      BY <2>1, <2>2, <2>3, <2>4, <2>5
  <1> HIDE DEF S, f1, f2, f3, f4, f5
  <1>2. a2 \in Seq(S) /\ Len(a2) = 16
    <2>1. f1 \in Seq(S) /\ f2 \in Seq(S)
      BY <1>1
    <2>2. /\ a2 \in Seq(S) /\ Len(a2) = Len(f1) + Len(f2)
          /\ \A i \in 1 .. Len(f2) : a2[Len(f1) + i] = f2[i]
      BY <2>1
    <2> HIDE DEF a2
    <2> QED
      BY <1>1, <2>2
  <1>3. a3 \in Seq(S) /\ Len(a3) = 20
    <2> HIDE DEF a2
    <2>1. a2 \in Seq(S) /\ f3 \in Seq(S)
      BY <1>1, <1>2
    <2>2. /\ a3 \in Seq(S) /\ Len(a3) = Len(a2) + Len(f3)
          /\ \A i \in 1 .. Len(f3) : a3[Len(a2) + i] = f3[i]
      BY <2>1
    <2> HIDE DEF a3
    <2> QED
      BY <1>1, <1>2, <2>2
  <1>4. a4 \in Seq(S) /\ Len(a4) = 24
    <2> HIDE DEF a2, a3
    <2>1. a3 \in Seq(S) /\ f4 \in Seq(S)
      BY <1>1, <1>3
    <2>2. /\ a4 \in Seq(S) /\ Len(a4) = Len(a3) + Len(f4)
          /\ \A i \in 1 .. Len(f4) : a4[Len(a3) + i] = f4[i]
      BY <2>1
    <2> HIDE DEF a4
    <2> QED
      BY <1>1, <1>3, <2>2
  <1>5. a5 \in Seq(S) /\ Len(a5) = 26 /\ a5[25] = <<"turn", 0, 1>>
    <2> HIDE DEF a2, a3, a4
    <2>1. a4 \in Seq(S) /\ f5 \in Seq(S)
      BY <1>1, <1>4
    <2>2. /\ a5 \in Seq(S) /\ Len(a5) = Len(a4) + Len(f5)
          /\ \A i \in 1 .. Len(f5) : a5[Len(a4) + i] = f5[i]
      BY <2>1
    <2> HIDE DEF a5
    <2> QED
      BY <1>1, <1>4, <2>2
  <1>6. HelloFront = a5
    BY DEF HelloFront, f1, f2, f3, f4, f5
  <1> HIDE DEF a5
  <1>7. HelloFront \in Seq(S) /\ Len(HelloFront) = 26
    BY <1>5, <1>6
  <1> QED
    BY <1>7 DEF S

\* The fields of an Ant in front of its lists; the last of them is the number of junctions.
AntFront ==
    Field("sender_addr", 4) \o Field("seq_num", 2) \o Field("version", 2)
    \o Field("jun_from", 2) \o Field("next_junction_id", 2) \o Field("len", 2)

LEMMA AntFrontLayout ==
    /\ AntFront \in Seq(CellsOf(AntNames, Members)) /\ Len(AntFront) = 14
    /\ AntFront[13] = <<"len", 0, 1>>
  <1> DEFINE S == CellsOf(AntNames, Members)
             f1 == Field("sender_addr", 4)
             f2 == Field("seq_num", 2)
             f3 == Field("version", 2)
             f4 == Field("jun_from", 2)
             f5 == Field("next_junction_id", 2)
             f6 == Field("len", 2)
             a2 == f1 \o f2
             a3 == a2 \o f3
             a4 == a3 \o f4
             a5 == a4 \o f5
             a6 == a5 \o f6
  <1>0. 0 \in Members
    BY DEF Members
  <1>1. /\ f1 \in Seq(S) /\ f2 \in Seq(S) /\ f3 \in Seq(S) /\ f4 \in Seq(S)
        /\ f5 \in Seq(S) /\ f6 \in Seq(S) /\ Len(f1) = 4 /\ Len(f2) = 2 /\ Len(f3) = 2
        /\ Len(f4) = 2 /\ Len(f5) = 2 /\ Len(f6) = 2 /\ f6[1] = <<"len", 0, 1>>
    <2>1. f1 \in Seq(S) /\ Len(f1) = 4
      <3>1. "sender_addr" \in AntNames
        BY DEF AntNames
      <3> QED
        BY <1>0, <3>1 DEF Field, Item, CellsOf
    <2>2. f2 \in Seq(S) /\ Len(f2) = 2
      <3>1. "seq_num" \in AntNames
        BY DEF AntNames
      <3> QED
        BY <1>0, <3>1 DEF Field, Item, CellsOf
    <2>3. f3 \in Seq(S) /\ Len(f3) = 2
      <3>1. "version" \in AntNames
        BY DEF AntNames
      <3> QED
        BY <1>0, <3>1 DEF Field, Item, CellsOf
    <2>4. f4 \in Seq(S) /\ Len(f4) = 2
      <3>1. "jun_from" \in AntNames
        BY DEF AntNames
      <3> QED
        BY <1>0, <3>1 DEF Field, Item, CellsOf
    <2>5. f5 \in Seq(S) /\ Len(f5) = 2
      <3>1. "next_junction_id" \in AntNames
        BY DEF AntNames
      <3> QED
        BY <1>0, <3>1 DEF Field, Item, CellsOf
    <2>6. f6 \in Seq(S) /\ Len(f6) = 2 /\ f6[1] = <<"len", 0, 1>>
      <3>1. "len" \in AntNames
        BY DEF AntNames
      <3> QED
        BY <1>0, <3>1 DEF Field, Item, CellsOf
    <2> HIDE DEF S, f1, f2, f3, f4, f5, f6
    <2> QED
      BY <2>1, <2>2, <2>3, <2>4, <2>5, <2>6
  <1> HIDE DEF S, f1, f2, f3, f4, f5, f6
  <1>2. a2 \in Seq(S) /\ Len(a2) = 6
    <2>1. f1 \in Seq(S) /\ f2 \in Seq(S)
      BY <1>1
    <2>2. /\ a2 \in Seq(S) /\ Len(a2) = Len(f1) + Len(f2)
          /\ \A i \in 1 .. Len(f2) : a2[Len(f1) + i] = f2[i]
      BY <2>1
    <2> HIDE DEF a2
    <2> QED
      BY <1>1, <2>2
  <1>3. a3 \in Seq(S) /\ Len(a3) = 8
    <2> HIDE DEF a2
    <2>1. a2 \in Seq(S) /\ f3 \in Seq(S)
      BY <1>1, <1>2
    <2>2. /\ a3 \in Seq(S) /\ Len(a3) = Len(a2) + Len(f3)
          /\ \A i \in 1 .. Len(f3) : a3[Len(a2) + i] = f3[i]
      BY <2>1
    <2> HIDE DEF a3
    <2> QED
      BY <1>1, <1>2, <2>2
  <1>4. a4 \in Seq(S) /\ Len(a4) = 10
    <2> HIDE DEF a2, a3
    <2>1. a3 \in Seq(S) /\ f4 \in Seq(S)
      BY <1>1, <1>3
    <2>2. /\ a4 \in Seq(S) /\ Len(a4) = Len(a3) + Len(f4)
          /\ \A i \in 1 .. Len(f4) : a4[Len(a3) + i] = f4[i]
      BY <2>1
    <2> HIDE DEF a4
    <2> QED
      BY <1>1, <1>3, <2>2
  <1>5. a5 \in Seq(S) /\ Len(a5) = 12
    <2> HIDE DEF a2, a3, a4
    <2>1. a4 \in Seq(S) /\ f5 \in Seq(S)
      BY <1>1, <1>4
    <2>2. /\ a5 \in Seq(S) /\ Len(a5) = Len(a4) + Len(f5)
          /\ \A i \in 1 .. Len(f5) : a5[Len(a4) + i] = f5[i]
      BY <2>1
    <2> HIDE DEF a5
    <2> QED
      BY <1>1, <1>4, <2>2
  <1>6. a6 \in Seq(S) /\ Len(a6) = 14 /\ a6[13] = <<"len", 0, 1>>
    <2> HIDE DEF a2, a3, a4, a5
    <2>1. a5 \in Seq(S) /\ f6 \in Seq(S)
      BY <1>1, <1>5
    <2>2. /\ a6 \in Seq(S) /\ Len(a6) = Len(a5) + Len(f6)
          /\ \A i \in 1 .. Len(f6) : a6[Len(a5) + i] = f6[i]
      BY <2>1
    <2> HIDE DEF a6
    <2> QED
      BY <1>1, <1>5, <2>2
  <1>7. AntFront = a6
    BY DEF AntFront, f1, f2, f3, f4, f5, f6
  <1> HIDE DEF a6
  <1>8. AntFront \in Seq(S) /\ Len(AntFront) = 14 /\ AntFront[13] = <<"len", 0, 1>>
    BY <1>6, <1>7
  <1> QED
    BY <1>8 DEF S

\* A Hello: the front and the addresses.
LEMMA HelloLayout ==
    ASSUME NEW n \in Nat
    PROVE  HelloBytes(n) \in Seq(CellsOf(HelloNames, Members)) /\ Len(HelloBytes(n)) = HelloSize(n)
  <1> DEFINE S == CellsOf(HelloNames, Members)
  <1>1. PICK p : p = HelloFront /\ p \in Seq(S) /\ Len(p) = 26
    <2>1. HelloFixed \subseteq HelloNames /\ {0} \subseteq Members
      BY DEF HelloNames, Members
    <2>2. Seq(CellsOf(HelloFixed, {0})) \subseteq Seq(S)
      BY <2>1, Wider
    <2> HIDE DEF S
    <2> QED
      BY <2>2, HelloFrontLayout
  <1>2. PICK q : q = List("neighbor", n, 4) /\ q \in Seq(S) /\ Len(q) = n * 4
    <2>1. PICK name \in HelloNames, w \in Nat : name = "neighbor" /\ w = 4
      BY DEF HelloNames
    <2>2. List(name, n, w) \in Seq(S) /\ Len(List(name, n, w)) = n * w
      BY ListBytes
    <2> HIDE DEF S
    <2> QED
      BY <2>1, <2>2
  <1>3. HelloBytes(n) = p \o q
    BY <1>1, <1>2 DEF HelloBytes, HelloFront
  <1> HIDE DEF S
  <1>4. p \o q \in Seq(S) /\ Len(p \o q) = Len(p) + Len(q)
    BY <1>1, <1>2, Joined
  <1>5. Len(p \o q) = 26 + n * 4
    BY <1>1, <1>2, <1>4
  <1> QED
    BY <1>3, <1>4, <1>5 DEF S, HelloSize

\* An Ant: behind the front no byte of the number of junctions.
AntTail == CellsOf(AntNames \ {"len"}, Members)

LEMMA AntLayout ==
    ASSUME NEW l \in Nat
    PROVE  /\ AntBytes(l) \in Seq(CellsOf(AntNames, Members)) /\ Len(AntBytes(l)) = AntSize(l)
           /\ Headed(AntBytes(l), AntFront, CellsOf(AntNames, Members), AntTail)
  <1> DEFINE S == CellsOf(AntNames, Members)
             T == AntTail
             N == AntNames \ {"len"}
  <1>1. T \subseteq S
    <2>1. AntNames \ {"len"} \subseteq AntNames /\ Members \subseteq Members
      OBVIOUS
    <2> QED
      BY <2>1, Wider DEF AntTail
  <1>2. ASSUME NEW name \in N, NEW w \in Nat PROVE List(name, l, w) \in Seq(T) /\ Len(List(name, l, w)) = l * w
    <2> HIDE DEF N
    <2>1. List(name, l, w) \in Seq(CellsOf(N, Members)) /\ Len(List(name, l, w)) = l * w
      BY ListBytes
    <2> QED
      BY <2>1 DEF AntTail, N
  <1>3. ASSUME NEW name \in N, NEW w \in Nat PROVE Field(name, w) \in Seq(T) /\ Len(Field(name, w)) = w
    <2>1. 0 \in Members
      BY DEF Members
    <2> HIDE DEF N
    <2>2. Field(name, w) \in Seq(CellsOf(N, Members)) /\ Len(Field(name, w)) = w
      BY <2>1 DEF Field, Item, CellsOf
    <2> QED
      BY <2>2 DEF AntTail, N
  <1>4. "junction" \in N /\ "s_delay" \in N /\ "next_forwarder" \in N /\ "last_sender" \in N
        /\ "last_sender_position_x" \in N /\ "last_sender_position_y" \in N
    BY DEF AntNames
  <1> HIDE DEF N
  <1>5. PICK g1 \in Seq(T) : g1 = List("junction", l, 2) /\ Len(g1) = l * 2
    BY <1>2, <1>4
  <1>6. PICK g2 \in Seq(T) : g2 = List("s_delay", l, 8) /\ Len(g2) = l * 8
    BY <1>2, <1>4
  <1>7. PICK g3 \in Seq(T) : g3 = Field("next_forwarder", 4) /\ Len(g3) = 4
    BY <1>3, <1>4
  <1>8. PICK g4 \in Seq(T) : g4 = Field("last_sender", 4) /\ Len(g4) = 4
    BY <1>3, <1>4
  <1>9. PICK g5 \in Seq(T) : g5 = Field("last_sender_position_x", 4) /\ Len(g5) = 4
    BY <1>3, <1>4
  <1>10. PICK g6 \in Seq(T) : g6 = Field("last_sender_position_y", 4) /\ Len(g6) = 4
    BY <1>3, <1>4
  <1>11. PICK h : h = AntFront /\ h \in Seq(S) /\ Len(h) = 14
    BY AntFrontLayout
  <1> HIDE DEF S, T
  <1>12. Headed(h, h, S, T)
    BY <1>1, <1>11 DEF Headed
  <1>13. PICK a1 : a1 = h \o g1 /\ Headed(a1, h, S, T) /\ Len(a1) = Len(h) + Len(g1)
    <2>1. Headed(h \o g1, h, S, T) /\ Len(h \o g1) = Len(h) + Len(g1)
      BY <1>12, HeadKept
    <2> QED
      BY <2>1, Zenon
  <1>14. PICK a2 : a2 = a1 \o g2 /\ Headed(a2, h, S, T) /\ Len(a2) = Len(a1) + Len(g2)
    <2>1. Headed(a1 \o g2, h, S, T) /\ Len(a1 \o g2) = Len(a1) + Len(g2)
      BY <1>13, HeadKept
    <2> QED
      BY <2>1, Zenon
  <1>15. PICK a3 : a3 = a2 \o g3 /\ Headed(a3, h, S, T) /\ Len(a3) = Len(a2) + Len(g3)
    <2>1. Headed(a2 \o g3, h, S, T) /\ Len(a2 \o g3) = Len(a2) + Len(g3)
      BY <1>14, HeadKept
    <2> QED
      BY <2>1, Zenon
  <1>16. PICK a4 : a4 = a3 \o g4 /\ Headed(a4, h, S, T) /\ Len(a4) = Len(a3) + Len(g4)
    <2>1. Headed(a3 \o g4, h, S, T) /\ Len(a3 \o g4) = Len(a3) + Len(g4)
      BY <1>15, HeadKept
    <2> QED
      BY <2>1, Zenon
  <1>17. PICK a5 : a5 = a4 \o g5 /\ Headed(a5, h, S, T) /\ Len(a5) = Len(a4) + Len(g5)
    <2>1. Headed(a4 \o g5, h, S, T) /\ Len(a4 \o g5) = Len(a4) + Len(g5)
      BY <1>16, HeadKept
    <2> QED
      BY <2>1, Zenon
  <1>18. PICK a6 : a6 = a5 \o g6 /\ Headed(a6, h, S, T) /\ Len(a6) = Len(a5) + Len(g6)
    <2>1. Headed(a5 \o g6, h, S, T) /\ Len(a5 \o g6) = Len(a5) + Len(g6)
      BY <1>17, HeadKept
    <2> QED
      BY <2>1, Zenon
  <1>19. Len(a2) = 14 + l * 10
    <2>1. Len(a1) = 14 + l * 2
      <3>1. Len(a1) = Len(h) + Len(g1) /\ Len(g1) = l * 2 /\ Len(h) = 14
        BY <1>5, <1>11, <1>13, Zenon
      <3> QED
        BY <3>1
    <2>2. Len(a2) = Len(a1) + Len(g2) /\ Len(g2) = l * 8
      BY <1>6, <1>14, Zenon
    <2> QED
      BY <2>1, <2>2
  <1>20. Len(a6) = AntSize(l)
    <2>1. Len(a3) = 18 + l * 10
      <3>1. Len(a3) = Len(a2) + Len(g3) /\ Len(g3) = 4
        BY <1>7, <1>15, Zenon
      <3> QED
        BY <1>19, <3>1
    <2>2. Len(a4) = 22 + l * 10
      <3>1. Len(a4) = Len(a3) + Len(g4) /\ Len(g4) = 4
        BY <1>8, <1>16, Zenon
      <3> QED
        BY <2>1, <3>1
    <2>3. Len(a5) = 26 + l * 10
      <3>1. Len(a5) = Len(a4) + Len(g5) /\ Len(g5) = 4
        BY <1>9, <1>17, Zenon
      <3> QED
        BY <2>2, <3>1
    <2>4. Len(a6) = 30 + l * 10
      <3>1. Len(a6) = Len(a5) + Len(g6) /\ Len(g6) = 4
        BY <1>10, <1>18, Zenon
      <3> QED
        BY <2>3, <3>1
    <2> QED
      BY <2>4 DEF AntSize
  <1>21. AntBytes(l) = a6
    BY <1>5, <1>6, <1>7, <1>8, <1>9, <1>10, <1>11, <1>13, <1>14, <1>15, <1>16, <1>17, <1>18
       DEF AntBytes, AntFront
  <1>22. a6 \in Seq(S)
    BY <1>18 DEF Headed
  <1> QED
    BY <1>11, <1>18, <1>20, <1>21, <1>22 DEF S, T

-------------------------------------------------------------------------------
(* Writing a message *)

\* The buffer holds the bytes from the offset on.
Holds(buffer, offset, bytes) ==
    /\ offset + Len(bytes) <= Len(buffer)
    /\ \A i \in 1 .. Len(bytes) : buffer[offset + i] = bytes[i]

\* A write is read back, and bytes that end where it begins stay.
LEMMA WriteHolds ==
    ASSUME NEW S, NEW buffer \in Seq(S), NEW bytes \in Seq(S), NEW offset \in Nat,
           offset + Len(bytes) <= Len(buffer)
    PROVE  /\ Write(buffer, offset, bytes) \in Seq(S)
           /\ Len(Write(buffer, offset, bytes)) = Len(buffer)
           /\ Holds(Write(buffer, offset, bytes), offset, bytes)
  BY Written DEF Holds

LEMMA WriteKeeps ==
    ASSUME NEW S, NEW buffer \in Seq(S), NEW bytes \in Seq(S), NEW offset \in Nat,
           offset + Len(bytes) <= Len(buffer),
           NEW early \in Seq(S), NEW place2 \in Nat, place2 + Len(early) <= offset,
           Holds(buffer, place2, early)
    PROVE  Holds(Write(buffer, offset, bytes), place2, early)
  <1>1. PICK u : u = Write(buffer, offset, bytes)
    OBVIOUS
  <1>2. Len(u) = Len(buffer) /\ \A i \in 1 .. offset : u[i] = buffer[i]
    BY <1>1, Written
  <1>3. Len(early) \in Nat /\ Len(buffer) \in Nat /\ Len(bytes) \in Nat
    OBVIOUS
  <1>4. ASSUME NEW i \in 1 .. Len(early) PROVE u[place2 + i] = early[i]
    <2>1. place2 + i \in 1 .. offset
      BY <1>3
    <2>2. u[place2 + i] = buffer[place2 + i]
      BY <1>2, <2>1
    <2> QED
      BY <2>2 DEF Holds
  <1>5. place2 + Len(early) <= Len(u)
    BY <1>2, <1>3
  <1> QED
    BY <1>1, <1>4, <1>5 DEF Holds

\* What of a message is in front of a buffer: the header, and the Hello or, in an ant, the
\* size of its Hello and the Ant.
Packed(buffer, msg) ==
    /\ Holds(buffer, 0, HeaderBytes)
    /\ msg.type = "HELLO" => Holds(buffer, 12, HelloBytes(msg.n))
    /\ msg.type # "HELLO" =>
          /\ Holds(buffer, 12, Field("helloSize", 4))
          /\ Holds(buffer, 16, AntBytes(msg.l))

\* The types of the messages.
LEMMA MessageFacts ==
    ASSUME NEW msg \in Messages
    PROVE  /\ msg.n \in Nat /\ msg.l \in Nat /\ msg.vTime \in Encodable
           /\ msg.type = "HELLO" \/ msg.type = "ANT"
           /\ HelloSize(msg.n) \in Nat /\ AntSize(msg.l) \in Nat /\ AntSize(msg.l) >= 30
           /\ GetSerializedSize(msg) \in Nat /\ GetSerializedSize(msg) > 0
  <1>1. /\ msg.n \in Nat /\ msg.l \in Nat /\ msg.vTime \in Encodable
        /\ msg.type = "HELLO" \/ msg.type = "ANT"
    <2>1. /\ msg.n \in NeighborCounts /\ msg.vTime \in Validities
          /\ msg.l \in {0} \cup JunctionCounts
          /\ msg.type = "HELLO" \/ msg.type = "ANT"
      BY DEF Messages
    <2>2. Validities \subseteq Encodable /\ NeighborCounts \subseteq Nat /\ {0} \cup JunctionCounts \subseteq Nat
      BY HeaderAssumption
    <2> QED
      BY <2>1, <2>2, Zenon
  <1>2. HelloSize(msg.n) \in Nat /\ AntSize(msg.l) \in Nat /\ AntSize(msg.l) >= 30
    BY <1>1 DEF HelloSize, AntSize
  <1> QED
    BY <1>1, <1>2 DEF GetSerializedSize

\* All bytes of the three parts are cells.
LEMMA AllCells ==
    ASSUME NEW n \in Nat, NEW l \in Nat
    PROVE  HeaderBytes \in Seq(Cells) /\ HelloBytes(n) \in Seq(Cells) /\ AntBytes(l) \in Seq(Cells)
  <1>1. HelloNames \subseteq FieldNames /\ AntNames \subseteq FieldNames /\ Members \subseteq Members
    BY DEF FieldNames
  <1>2. HelloBytes(n) \in Seq(CellsOf(HelloNames, Members)) /\ AntBytes(l) \in Seq(CellsOf(AntNames, Members))
    BY HelloLayout, AntLayout
  <1>3. /\ Seq(CellsOf(HelloNames, Members)) \subseteq Seq(Cells)
        /\ Seq(CellsOf(AntNames, Members)) \subseteq Seq(Cells)
    BY <1>1, Wider DEF Cells
  <1> QED
    BY <1>2, <1>3, HeaderLayout

\* The size of the Hello in front of an ant's bodies.
LEMMA HelloSizeField ==
    /\ Field("helloSize", 4) \in Seq(Cells) /\ Len(Field("helloSize", 4)) = 4
    /\ Field("helloSize", 4)[1] = <<"helloSize", 0, 1>>
  <1>1. "helloSize" \in FieldNames /\ 0 \in Members
    BY DEF FieldNames, Members
  <1> QED
    BY <1>1 DEF Field, Item, Cells, CellsOf

\* A message is written in as many bytes as GetSerializedSize says.
LEMMA SerializePacks ==
    ASSUME NEW msg \in Messages
    PROVE  /\ Serialize(msg) \in Seq(Cells) /\ Len(Serialize(msg)) = GetSerializedSize(msg)
           /\ Packed(Serialize(msg), msg)
  <1> DEFINE size == GetSerializedSize(msg)
             blank == Blank(size)
             head == HeaderBytes
             hello == HelloBytes(msg.n)
             ant == AntBytes(msg.l)
             field == Field("helloSize", 4)
             start == Write(blank, 0, head)
  <1>1. /\ msg.n \in Nat /\ msg.l \in Nat
        /\ HelloSize(msg.n) \in Nat /\ AntSize(msg.l) \in Nat /\ size \in Nat
    BY MessageFacts
  <1>2. head \in Seq(Cells) /\ hello \in Seq(Cells) /\ ant \in Seq(Cells) /\ field \in Seq(Cells)
    <2>1. ASSUME NEW n \in Nat, NEW l \in Nat
          PROVE  head \in Seq(Cells) /\ HelloBytes(n) \in Seq(Cells) /\ AntBytes(l) \in Seq(Cells)
      BY AllCells
    <2> QED
      BY <1>1, <2>1, HelloSizeField, Zenon
  <1>3. Len(head) = 12 /\ Len(hello) = HelloSize(msg.n) /\ Len(ant) = AntSize(msg.l) /\ Len(field) = 4
    <2>1. ASSUME NEW n \in Nat PROVE Len(HelloBytes(n)) = HelloSize(n) /\ Len(AntBytes(n)) = AntSize(n)
      BY HelloLayout, AntLayout
    <2> QED
      BY <1>1, <2>1, HeaderLayout, HelloSizeField, Zenon
  <1>4. blank \in Seq(Cells) /\ Len(blank) = size
    <2>1. "blank" \in FieldNames /\ 0 \in Members
      BY DEF FieldNames, Members
    <2>2. <<"blank", 0, 0>> \in Cells
      BY <2>1 DEF Cells, CellsOf
    <2> HIDE DEF size
    <2> QED
      BY <1>1, <2>2 DEF Blank
  <1>5. /\ msg.type = "HELLO" => size = 12 + HelloSize(msg.n)
        /\ msg.type # "HELLO" => size = 16 + HelloSize(msg.n) + AntSize(msg.l)
    BY <1>1 DEF GetSerializedSize
  <1>6. Serialize(msg) = IF msg.type = "HELLO" THEN Write(start, 12, hello)
                         ELSE Write(Write(Write(start, 12, field), 16, hello), 16, ant)
    BY DEF Serialize
  <1> HIDE DEF size, blank, head, hello, ant, field
  <1>7. start \in Seq(Cells) /\ Len(start) = size /\ Holds(start, 0, head)
    <2>1. 0 + Len(head) <= Len(blank) /\ 0 \in Nat
      BY <1>1, <1>3, <1>4, <1>5
    <2>2. Len(start) = Len(blank) /\ start \in Seq(Cells) /\ Holds(start, 0, head)
      BY <1>2, <1>4, <2>1, WriteHolds
    <2> QED
      BY <1>4, <2>2
  <1> HIDE DEF start
  <1>8. CASE msg.type = "HELLO"
    <2> DEFINE b1 == Write(start, 12, hello)
    <2>1. 12 + Len(hello) <= Len(start) /\ 12 \in Nat /\ 0 \in Nat /\ 0 + Len(head) <= 12
      BY <1>1, <1>3, <1>5, <1>7, <1>8
    <2>2. b1 \in Seq(Cells) /\ Len(b1) = Len(start) /\ Holds(b1, 12, hello)
      BY <1>2, <1>7, <2>1, WriteHolds
    <2>3. Holds(b1, 0, head)
      BY <1>2, <1>7, <2>1, WriteKeeps
    <2>4. Serialize(msg) = b1
      BY <1>6, <1>8
    <2> HIDE DEF b1
    <2>5. Packed(b1, msg)
      BY <1>8, <2>2, <2>3 DEF Packed, head, hello
    <2> QED
      BY <1>7, <2>2, <2>4, <2>5 DEF size
  <1>9. CASE msg.type # "HELLO"
    <2> DEFINE b1 == Write(start, 12, field)
               b2 == Write(b1, 16, hello)
               b3 == Write(b2, 16, ant)
    <2>1. Serialize(msg) = b3
      BY <1>6, <1>9
    <2>2. /\ 12 + Len(field) <= size /\ 16 + Len(hello) <= size /\ 16 + Len(ant) <= size
          /\ 12 + Len(field) <= 16 /\ 0 + Len(head) <= 12 /\ 0 + Len(head) <= 16
          /\ 0 \in Nat /\ 12 \in Nat /\ 16 \in Nat
      BY <1>1, <1>3, <1>5, <1>9
    <2>3. b1 \in Seq(Cells) /\ Len(b1) = size /\ Holds(b1, 12, field) /\ Holds(b1, 0, head)
      <3>1. 12 + Len(field) <= Len(start)
        BY <1>7, <2>2
      <3>2. b1 \in Seq(Cells) /\ Len(b1) = Len(start) /\ Holds(b1, 12, field)
        BY <1>2, <1>7, <2>2, <3>1, WriteHolds
      <3>3. Holds(b1, 0, head)
        BY <1>2, <1>7, <2>2, <3>1, WriteKeeps
      <3> QED
        BY <1>7, <3>2, <3>3
    <2> HIDE DEF b1
    <2>4. /\ b2 \in Seq(Cells) /\ Len(b2) = size /\ Holds(b2, 16, hello)
          /\ Holds(b2, 12, field) /\ Holds(b2, 0, head)
      <3>1. 16 + Len(hello) <= Len(b1)
        BY <2>2, <2>3
      <3>2. b2 \in Seq(Cells) /\ Len(b2) = Len(b1) /\ Holds(b2, 16, hello)
        BY <1>2, <2>2, <2>3, <3>1, WriteHolds
      <3>3. Holds(b2, 12, field)
        BY <1>2, <2>2, <2>3, <3>1, WriteKeeps
      <3>4. Holds(b2, 0, head)
        BY <1>2, <2>2, <2>3, <3>1, WriteKeeps
      <3> QED
        BY <2>3, <3>2, <3>3, <3>4
    <2> HIDE DEF b2
    <2>5. /\ b3 \in Seq(Cells) /\ Len(b3) = size /\ Holds(b3, 16, ant)
          /\ Holds(b3, 12, field) /\ Holds(b3, 0, head)
      <3>1. 16 + Len(ant) <= Len(b2)
        BY <2>2, <2>4
      <3>2. b3 \in Seq(Cells) /\ Len(b3) = Len(b2) /\ Holds(b3, 16, ant)
        BY <1>2, <2>2, <2>4, <3>1, WriteHolds
      <3>3. Holds(b3, 12, field)
        BY <1>2, <2>2, <2>4, <3>1, WriteKeeps
      <3>4. Holds(b3, 0, head)
        BY <1>2, <2>2, <2>4, <3>1, WriteKeeps
      <3> QED
        BY <2>4, <3>2, <3>3, <3>4
    <2> HIDE DEF b3
    <2>6. Packed(b3, msg)
      BY <1>9, <2>5 DEF Packed, head, ant, field
    <2> QED
      BY <2>1, <2>5, <2>6 DEF size
  <1> QED
    BY <1>8, <1>9

-------------------------------------------------------------------------------
(* Reading a message *)

\* A buffer that begins with the bytes of another.
Begins(buffer, front) ==
    Len(front) <= Len(buffer) /\ \A j \in 1 .. Len(front) : buffer[j] = front[j]

LEMMA HoldsToo ==
    ASSUME NEW S, NEW buffer \in Seq(S), NEW front \in Seq(S), Begins(buffer, front),
           NEW bytes \in Seq(S), NEW offset \in Nat, Holds(front, offset, bytes)
    PROVE  Holds(buffer, offset, bytes)
  <1>1. Len(bytes) \in Nat /\ Len(front) \in Nat /\ Len(buffer) \in Nat
    OBVIOUS
  <1>2. offset + Len(bytes) <= Len(buffer)
    BY <1>1 DEF Begins, Holds
  <1>3. ASSUME NEW i \in 1 .. Len(bytes) PROVE buffer[offset + i] = bytes[i]
    <2>1. offset + i \in 1 .. Len(front)
      BY <1>1 DEF Holds
    <2>2. buffer[offset + i] = front[offset + i]
      BY <2>1 DEF Begins
    <2> QED
      BY <2>2 DEF Holds
  <1> QED
    BY <1>2, <1>3 DEF Holds

LEMMA PackedToo ==
    ASSUME NEW msg \in Messages, NEW buffer \in Seq(Cells), Begins(buffer, Serialize(msg))
    PROVE  Packed(buffer, msg)
  <1>1. PICK n \in Nat, l \in Nat : n = msg.n /\ l = msg.l
    BY MessageFacts
  <1>2. PICK front \in Seq(Cells) : front = Serialize(msg) /\ Packed(front, msg)
    BY SerializePacks
  <1>3. PICK head \in Seq(Cells), hello \in Seq(Cells), ant \in Seq(Cells), field \in Seq(Cells) :
            head = HeaderBytes /\ hello = HelloBytes(n) /\ ant = AntBytes(l) /\ field = Field("helloSize", 4)
    BY AllCells, HelloSizeField
  <1>4. Begins(buffer, front)
    BY <1>2
  <1>5. PICK p \in Nat, q \in Nat, r \in Nat : p = 0 /\ q = 12 /\ r = 16
    OBVIOUS
  <1>6. Holds(buffer, p, head)
    <2>1. Holds(front, p, head)
      BY <1>2, <1>3, <1>5 DEF Packed
    <2> QED
      BY <1>4, <2>1, HoldsToo
  <1>7. ASSUME msg.type = "HELLO" PROVE Holds(buffer, q, hello)
    <2>1. Holds(front, q, hello)
      BY <1>1, <1>2, <1>3, <1>5, <1>7 DEF Packed
    <2> QED
      BY <1>4, <2>1, HoldsToo
  <1>8. ASSUME msg.type # "HELLO"
        PROVE  Holds(buffer, q, field) /\ Holds(buffer, r, ant)
    <2>1. Holds(front, q, field) /\ Holds(front, r, ant)
      BY <1>1, <1>2, <1>3, <1>5, <1>8 DEF Packed
    <2> QED
      BY <1>4, <2>1, HoldsToo
  <1> QED
    BY <1>1, <1>3, <1>5, <1>6, <1>7, <1>8 DEF Packed

\* Bytes that the buffer holds are read as they were written.
LEMMA AllIntact ==
    ASSUME NEW S, NEW bytes \in Seq(S), NEW buffer, NEW offset \in Nat, Len(buffer) \in Nat,
           Holds(buffer, offset, bytes)
    PROVE  Intact(buffer, offset, bytes) = Names(bytes)
  <1>1. DOMAIN bytes = 1 .. Len(bytes) /\ Len(bytes) \in Nat
    OBVIOUS
  <1>2. ASSUME NEW i \in DOMAIN bytes PROVE offset + i <= Len(buffer) /\ buffer[offset + i] = bytes[i]
    BY <1>1 DEF Holds
  <1> QED
    BY <1>2, Zenon DEF Intact

\* The counts of a message are among what is intact.
LEMMA CountsIntact ==
    ASSUME NEW msg \in Messages, NEW buffer \in Seq(Cells), Packed(buffer, msg)
    PROVE  ReadCounts(buffer, msg) = msg
  <1>1. Len(buffer) \in Nat /\ 0 \in Nat /\ 12 \in Nat /\ 16 \in Nat
    OBVIOUS
  <1>2. CASE msg.type = "HELLO"
    <2>1. Intact(buffer, 0, HeaderBytes) = Names(HeaderBytes)
      BY <1>1, HeaderLayout, AllIntact DEF Packed
    <2>2. 3 \in DOMAIN HeaderBytes /\ HeaderBytes[3] = <<"messageSize", 0, 1>>
      <3>1. DOMAIN HeaderBytes = 1 .. Len(HeaderBytes)
        BY HeaderLayout
      <3> QED
        BY <3>1, HeaderLayout
    <2>3. <<HeaderBytes[3][1], HeaderBytes[3][2]>> = <<"messageSize", 0>>
      BY <2>2
    <2>4. <<"messageSize", 0>> \in Names(HeaderBytes)
      BY <2>2, <2>3 DEF Names
    <2>5. Count(msg.n, "messageSize", Intact(buffer, 0, HeaderBytes)) = msg.n
      BY <2>1, <2>4 DEF Count
    <2>6. ReadCounts(buffer, msg) = [msg EXCEPT !.n = msg.n]
      BY <1>2, <2>5 DEF ReadCounts
    <2> QED
      BY <1>2, <2>6 DEF Messages
  <1>3. CASE msg.type # "HELLO"
    <2>1. <<"helloSize", 0>> \in Intact(buffer, 12, Field("helloSize", 4))
      <3>1. PICK f \in Seq(Cells) : f = Field("helloSize", 4) /\ 1 \in 1 .. Len(f) /\ f[1] = <<"helloSize", 0, 1>>
        BY HelloSizeField
      <3>2. Holds(buffer, 12, f)
        BY <1>3, <3>1 DEF Packed
      <3>3. Intact(buffer, 12, f) = Names(f)
        BY <1>1, <3>2, AllIntact
      <3>4. 1 \in DOMAIN f /\ <<f[1][1], f[1][2]>> = <<"helloSize", 0>>
        BY <3>1
      <3>5. <<"helloSize", 0>> \in Names(f)
        BY <3>4 DEF Names
      <3> QED
        BY <3>1, <3>3, <3>5
    <2>2. <<"len", 0>> \in Intact(buffer, 16, AntBytes(0))
      <3>1. PICK l \in Nat : l = msg.l
        BY MessageFacts
      <3>2. PICK a : a = AntBytes(l) /\ Headed(a, AntFront, CellsOf(AntNames, Members), AntTail)
        BY AntLayout
      <3>3. PICK b : b = AntBytes(0) /\ Headed(b, AntFront, CellsOf(AntNames, Members), AntTail)
        BY AntLayout
      <3>4. PICK p : p = AntFront /\ Len(p) = 14 /\ p[13] = <<"len", 0, 1>>
        BY AntFrontLayout
      <3>5. /\ a \in Seq(CellsOf(AntNames, Members)) /\ b \in Seq(CellsOf(AntNames, Members))
            /\ 14 <= Len(a) /\ 14 <= Len(b) /\ \A i \in 1 .. 14 : a[i] = p[i] /\ b[i] = p[i]
            /\ \A i \in 15 .. Len(b) : b[i] \in AntTail
        BY <3>2, <3>3, <3>4 DEF Headed
      <3>6. DOMAIN b = 1 .. Len(b) /\ Len(b) \in Nat /\ Len(a) \in Nat
        <4>1. a \in Seq(CellsOf(AntNames, Members)) /\ b \in Seq(CellsOf(AntNames, Members))
          BY <3>5
        <4> QED
          BY <4>1
      <3>7. Holds(buffer, 16, a)
        BY <1>3, <3>1, <3>2 DEF Packed
      <3>8. 13 \in DOMAIN b /\ b[13] = <<"len", 0, 1>>
        BY <3>4, <3>5, <3>6, SMTT(30)
      <3>9. <<"len", 0>> \in Names(b)
        <4>1. <<b[13][1], b[13][2]>> = <<"len", 0>>
          BY <3>8
        <4> QED
          BY <3>8, <4>1 DEF Names
      <3>10. ASSUME NEW i \in DOMAIN b, <<b[i][1], b[i][2]>> = <<"len", 0>>
             PROVE  16 + i <= Len(buffer) /\ buffer[16 + i] = b[i]
        <4>1. i \in 1 .. 14
          <5> SUFFICES ASSUME i \notin 1 .. 14 PROVE FALSE
            OBVIOUS
          <5>1. i \in 15 .. Len(b)
            BY <3>6, SMTT(30)
          <5>2. b[i] \in AntTail
            BY <3>5, <5>1
          <5>3. b[i][1] # "len"
            BY <5>2 DEF AntTail, CellsOf
          <5> QED
            BY <3>10, <5>3
        <4>2. i \in 1 .. Len(a)
          BY <3>5, <3>6, <4>1, SMTT(30)
        <4>3. buffer[16 + i] = a[i] /\ 16 + Len(a) <= Len(buffer)
          BY <3>7, <4>2 DEF Holds
        <4>4. 16 + i <= Len(buffer)
          BY <1>1, <3>6, <4>2, <4>3
        <4>5. a[i] = b[i]
          BY <3>5, <4>1
        <4> QED
          BY <4>3, <4>4, <4>5
      <3>11. <<"len", 0>> \in Intact(buffer, 16, b)
        BY <3>9, <3>10 DEF Intact
      <3> QED
        BY <3>3, <3>11
    <2>3. ReadCounts(buffer, msg) = [msg EXCEPT !.n = msg.n, !.l = msg.l]
      BY <1>3, <2>1, <2>2 DEF ReadCounts, Count
    <2> QED
      BY <1>3, <2>3 DEF Messages
  <1> QED
    BY <1>2, <1>3

\* What the receiver makes of a message: the Hello of an ant is not spoken of.
ReadRight(r, msg) ==
    /\ r.msg = msg /\ r.vTime = Decoded(msg.vTime) /\ r.head = Names(HeaderBytes)
    /\ IF msg.type = "HELLO" THEN r.hello = Names(HelloBytes(msg.n))
                             ELSE r.ant = Names(AntBytes(msg.l))

LEMMA DeserializeReads ==
    ASSUME NEW msg \in Messages, NEW buffer \in Seq(Cells), Packed(buffer, msg)
    PROVE  ReadRight(Deserialize(buffer, msg), msg)
  <1>1. PICK n \in Nat, l \in Nat : n = msg.n /\ l = msg.l
    BY MessageFacts
  <1>2. Len(buffer) \in Nat /\ 0 \in Nat /\ 12 \in Nat /\ 16 \in Nat
    OBVIOUS
  <1>3. HeaderBytes \in Seq(Cells) /\ HelloBytes(n) \in Seq(Cells) /\ AntBytes(l) \in Seq(Cells)
    BY AllCells
  <1>4. Intact(buffer, 0, HeaderBytes) = Names(HeaderBytes)
    BY <1>2, <1>3, AllIntact DEF Packed
  <1>5. CASE msg.type = "HELLO"
    <2>1. Holds(buffer, 12, HelloBytes(n))
      BY <1>1, <1>5 DEF Packed
    <2>2. Intact(buffer, 12, HelloBytes(n)) = Names(HelloBytes(n))
      BY <1>2, <1>3, <2>1, AllIntact
    <2> QED
      BY <1>1, <1>4, <1>5, <2>2 DEF Deserialize, ReadRight, Decoded
  <1>6. CASE msg.type # "HELLO"
    <2>1. Holds(buffer, 16, AntBytes(l))
      BY <1>1, <1>6 DEF Packed
    <2>2. Intact(buffer, 16, AntBytes(l)) = Names(AntBytes(l))
      BY <1>2, <1>3, <2>1, AllIntact
    <2> QED
      BY <1>1, <1>4, <1>6, <2>2 DEF Deserialize, ReadRight, Decoded
  <1> QED
    BY <1>5, <1>6

-------------------------------------------------------------------------------
(* The packet *)

Packets(msgs) == [k \in DOMAIN msgs |-> Serialize(msgs[k])]

\* What is not read yet: the messages from the next one on, each at its place.
Unread(e) ==
    /\ Ends(Packets(sent), e) /\ Len(wire) = e[Len(sent)] - e[Len(got)]
    /\ \A k \in Len(got) + 1 .. Len(sent) : \A j \in 1 .. GetSerializedSize(sent[k]) :
          wire[(e[k - 1] - e[Len(got)]) + j] = Serialize(sent[k])[j]

Readings == {Deserialize(b, m) : b \in Seq(Cells), m \in Messages}

HeaderInv ==
    /\ sent \in Seq(Messages) /\ wire \in Seq(Cells) /\ sizeLeft = Len(wire)
    /\ got \in Seq(Readings) /\ Len(got) <= Len(sent)
    /\ \A k \in 1 .. Len(got) : ReadRight(got[k], sent[k])
    /\ \E e : Unread(e)

\* The messages of a packet as bytes.
LEMMA PacketsFacts ==
    ASSUME NEW msgs \in Seq(Messages)
    PROVE  /\ Packets(msgs) \in Seq(Seq(Cells)) /\ Len(Packets(msgs)) = Len(msgs)
           /\ \A k \in 1 .. Len(msgs) : /\ Packets(msgs)[k] = Serialize(msgs[k])
                                        /\ Len(Packets(msgs)[k]) = GetSerializedSize(msgs[k])
                                        /\ GetSerializedSize(msgs[k]) \in Nat
                                        /\ GetSerializedSize(msgs[k]) > 0
  <1>1. ASSUME NEW k \in 1 .. Len(msgs)
        PROVE  /\ Serialize(msgs[k]) \in Seq(Cells) /\ Len(Serialize(msgs[k])) = GetSerializedSize(msgs[k])
               /\ GetSerializedSize(msgs[k]) \in Nat /\ GetSerializedSize(msgs[k]) > 0
    <2>1. PICK m \in Messages : m = msgs[k]
      OBVIOUS
    <2>2. /\ Serialize(m) \in Seq(Cells) /\ Len(Serialize(m)) = GetSerializedSize(m)
          /\ GetSerializedSize(m) \in Nat /\ GetSerializedSize(m) > 0
      BY SerializePacks, MessageFacts
    <2> QED
      BY <2>1, <2>2, Zenon
  <1>2. DOMAIN msgs = 1 .. Len(msgs) /\ Len(msgs) \in Nat
    OBVIOUS
  <1>3. Packets(msgs) = [k \in 1 .. Len(msgs) |-> Serialize(msgs[k])]
    BY <1>2, Zenon DEF Packets
  <1>4. PICK n \in Nat : n = Len(msgs)
    BY <1>2
  <1>5. PICK p : p = [k \in 1 .. n |-> Serialize(msgs[k])]
    OBVIOUS
  <1>6. p \in Seq(Seq(Cells)) /\ Len(p) = n /\ \A k \in 1 .. n : p[k] = Serialize(msgs[k])
    <2>1. \A k \in 1 .. n : Serialize(msgs[k]) \in Seq(Cells)
      BY <1>1, <1>4, Zenon
    <2> QED
      BY <1>5, <2>1
  <1>7. p = Packets(msgs)
    BY <1>3, <1>4, <1>5, Zenon
  <1> QED
    BY <1>1, <1>4, <1>6, <1>7, Zenon

\* A length that fits the field is kept.
LEMMA NoWrap ==
    ASSUME NEW x \in Nat, x < 65536
    PROVE  x % 65536 = x
  OBVIOUS

\* A packet is sent.
LEMMA SendPacketKeeps ==
    ASSUME HeaderInv, NEW msgs \in Seq(Messages), SendPacket(msgs)
    PROVE  HeaderInv'
  <1>1. PICK p : p = Packets(msgs)
    OBVIOUS
  <1>2. PICK n \in Nat : n = Len(msgs)
    OBVIOUS
  <1>3. /\ p \in Seq(Seq(Cells)) /\ Len(p) = n
        /\ \A k \in 1 .. n : p[k] = Serialize(msgs[k]) /\ Len(p[k]) = GetSerializedSize(msgs[k])
    BY <1>1, <1>2, PacketsFacts
  <1>4. PICK e : Ends(p, e) /\ Laid(p, e, FlattenSeq(p)) /\ FlattenSeq(p) \in Seq(Cells)
    BY <1>3, Flattened
  <1>5. sent' = msgs /\ wire' = FlattenSeq(p) /\ sizeLeft' = Len(wire') /\ got' = got
    <2>1. /\ sent' = msgs /\ wire' = FlattenSeq(p) /\ got' = got
          /\ 4 + Len(wire') <= MaxDatagram /\ sizeLeft' = ((4 + Len(wire')) % 65536) - 4
      BY <1>1 DEF SendPacket, Packets
    <2>2. PICK z \in Nat : z = Len(wire')
      BY <1>4, <2>1
    <2>3. MaxDatagram \in Nat /\ MaxDatagram < 65536
      BY HeaderAssumption
    <2>4. (4 + z) % 65536 = 4 + z
      <3>1. 4 + z <= MaxDatagram
        BY <2>1, <2>2
      <3>2. 4 + z \in Nat /\ 4 + z < 65536
        BY <2>3, <3>1
      <3> QED
        BY <3>2, NoWrap
    <2> QED
      BY <2>1, <2>2, <2>4
  <1>6. got = <<>> /\ Len(got) = 0
    BY DEF HeaderInv, SendPacket
  <1>7. got' \in Seq(Readings) /\ Len(got') = 0 /\ Len(got') <= Len(sent')
    BY <1>2, <1>5, <1>6
  <1>8. Unread(e)'
    <2>1. Ends(Packets(sent'), e)
      BY <1>1, <1>4, <1>5
    <2>2. e[0] = 0 /\ e[n] \in Nat /\ \A k \in 1 .. n : e[k - 1] \in Nat
      BY <1>3, <1>4 DEF Ends
    <2>3. Len(wire') = e[n]
      BY <1>3, <1>4, <1>5 DEF Laid
    <2>4. ASSUME NEW k \in 1 .. n, NEW j \in 1 .. GetSerializedSize(msgs[k])
          PROVE  wire'[(e[k - 1] - 0) + j] = Serialize(msgs[k])[j]
      <3>1. e[k - 1] - 0 = e[k - 1]
        BY <2>2
      <3>2. j \in 1 .. Len(p[k]) /\ k \in 1 .. Len(p)
        BY <1>3
      <3>3. FlattenSeq(p)[e[k - 1] + j] = p[k][j]
        BY <1>4, <3>2 DEF Laid
      <3> QED
        BY <1>3, <1>5, <3>1, <3>3
    <2>5. Len(sent') = n /\ Len(got') + 1 .. Len(sent') = 1 .. n
      BY <1>2, <1>5, <1>7
    <2>6. Len(wire') = e[Len(sent')] - e[Len(got')]
      BY <1>7, <2>2, <2>3, <2>5
    <2> QED
      BY <1>5, <1>7, <2>1, <2>2, <2>4, <2>5, <2>6 DEF Unread
  <1>9. wire' \in Seq(Cells) /\ \A k \in 1 .. Len(got') : ReadRight(got'[k], sent'[k])
    BY <1>4, <1>5, <1>7
  <1> QED
    BY <1>5, <1>7, <1>8, <1>9 DEF HeaderInv

\* The next message is in front of what is not read.
LEMMA NextInFront ==
    ASSUME HeaderInv, Len(got) < Len(sent)
    PROVE  /\ sent[Len(got) + 1] \in Messages
           /\ Begins(wire, Serialize(sent[Len(got) + 1]))
  <1>1. PICK g \in Nat, n \in Nat : g = Len(got) /\ n = Len(sent) /\ g < n /\ g + 1 \in 1 .. n
    BY DEF HeaderInv
  <1>2. PICK m \in Messages : m = sent[g + 1]
    BY <1>1 DEF HeaderInv
  <1>3. PICK e : Unread(e)
    BY DEF HeaderInv
  <1>4. PICK p : /\ p = Packets(sent) /\ p \in Seq(Seq(Cells)) /\ Len(p) = n
                 /\ \A k \in 1 .. n : Len(p[k]) = GetSerializedSize(sent[k])
    BY <1>1, PacketsFacts DEF HeaderInv
  <1>5. Ends(p, e) /\ e \in [0 .. n -> Nat] /\ \A k \in 1 .. n : e[k] = e[k - 1] + Len(p[k])
    BY <1>3, <1>4 DEF Unread, Ends
  <1>6. PICK z \in Nat : z = GetSerializedSize(m) /\ Len(Serialize(m)) = z
    BY MessageFacts, SerializePacks
  <1>7. e[g + 1] = e[g] + z /\ e[g] \in Nat /\ e[n] \in Nat /\ e[g + 1] <= e[n]
    <2>1. (g + 1) - 1 = g /\ g \in 0 .. n /\ g + 1 \in 0 .. n /\ n \in 0 .. n /\ g + 1 <= n
      BY <1>1
    <2>2. Len(p[g + 1]) = z
      BY <1>1, <1>2, <1>4, <1>6
    <2>3. e[g + 1] = e[g] + z
      BY <1>1, <1>5, <2>1, <2>2
    <2>4. e[g + 1] <= e[n]
      <3>1. g + 1 \in 0 .. Len(p) /\ n \in 0 .. Len(p)
        BY <1>4, <2>1
      <3> QED
        BY <1>4, <1>5, <2>1, <3>1, EndsInOrder
    <2> QED
      BY <1>5, <2>1, <2>3, <2>4
  <1>8. Len(wire) = e[n] - e[g]
    BY <1>1, <1>3 DEF Unread
  <1>9. z <= Len(wire)
    BY <1>7, <1>8
  <1>10. ASSUME NEW j \in 1 .. z PROVE wire[j] = Serialize(m)[j]
    <2>1. g + 1 \in Len(got) + 1 .. Len(sent) /\ (g + 1) - 1 = g
      BY <1>1
    <2>2. wire[(e[g] - e[g]) + j] = Serialize(m)[j]
      BY <1>1, <1>2, <1>3, <1>6, <2>1 DEF Unread
    <2>3. (e[g] - e[g]) + j = j
      BY <1>7
    <2> QED
      BY <2>2, <2>3
  <1> QED
    BY <1>1, <1>2, <1>6, <1>9, <1>10 DEF Begins

\* A message is taken out of the packet.
LEMMA RecvGrpKeeps ==
    ASSUME HeaderInv, RecvGrp
    PROVE  HeaderInv'
  <1>0. Len(got) < Len(sent)
    BY DEF RecvGrp
  <1>1. PICK g \in Nat, n \in Nat : g = Len(got) /\ n = Len(sent) /\ g < n /\ g + 1 \in 1 .. n
    BY <1>0 DEF HeaderInv
  <1>2. PICK m \in Messages : m = sent[g + 1] /\ Begins(wire, Serialize(m))
    BY <1>0, <1>1, NextInFront
  <1>3. wire \in Seq(Cells) /\ Len(wire) \in Nat
    BY DEF HeaderInv
  <1>4. PICK r \in Readings : r = Deserialize(wire, m) /\ ReadRight(r, m) /\ ReadCounts(wire, m) = m
    <2>1. Packed(wire, m)
      BY <1>2, <1>3, PackedToo
    <2> QED
      BY <1>3, <2>1, CountsIntact, DeserializeReads DEF Readings
  <1>5. PICK z \in Nat : z = GetSerializedSize(m) /\ Len(Serialize(m)) = z /\ z <= Len(wire)
    <2>1. Len(Serialize(m)) <= Len(wire)
      BY <1>2 DEF Begins
    <2> QED
      BY <2>1, MessageFacts, SerializePacks
  <1>6. /\ got' = Append(got, r) /\ wire' = SubSeq(wire, z + 1, Len(wire))
        /\ sizeLeft' = sizeLeft - z /\ sent' = sent
    BY <1>1, <1>2, <1>4, <1>5 DEF RecvGrp
  <1>7. /\ wire' \in Seq(Cells) /\ Len(wire') = Len(wire) - z
        /\ \A i \in 1 .. Len(wire) - z : wire'[i] = wire[z + i]
    <2>1. PICK w : w = SubSeq(wire, z + 1, Len(wire))
      OBVIOUS
    <2>2. w \in Seq(Cells) /\ Len(w) = Len(wire) - z /\ \A i \in 1 .. Len(wire) - z : w[i] = wire[z + i]
      BY <1>3, <1>5, <2>1
    <2> QED
      BY <1>6, <2>1, <2>2
  <1>8. /\ got' \in Seq(Readings) /\ Len(got') = g + 1 /\ got'[g + 1] = r
        /\ \A k \in 1 .. g : got'[k] = got[k]
    <2>1. got \in Seq(Readings)
      BY DEF HeaderInv
    <2> QED
      BY <1>1, <1>4, <1>6, <2>1
  <1>9. ASSUME NEW k \in 1 .. Len(got') PROVE ReadRight(got'[k], sent'[k])
    <2>1. CASE k = g + 1
      BY <1>1, <1>2, <1>4, <1>6, <1>8, <2>1
    <2>2. CASE k # g + 1
      <3>1. k \in 1 .. g
        BY <1>8, <2>2
      <3> QED
        BY <1>1, <1>6, <1>8, <3>1 DEF HeaderInv
    <2> QED
      BY <2>1, <2>2
  <1>10. PICK e : Unread(e)
    BY DEF HeaderInv
  <1>11. PICK p : /\ p = Packets(sent) /\ p \in Seq(Seq(Cells)) /\ Len(p) = n
                  /\ \A k \in 1 .. n : Len(p[k]) = GetSerializedSize(sent[k])
    BY <1>1, PacketsFacts DEF HeaderInv
  <1>12. Ends(p, e) /\ e \in [0 .. n -> Nat] /\ \A k \in 1 .. n : e[k] = e[k - 1] + Len(p[k])
    BY <1>10, <1>11 DEF Unread, Ends
  <1>13. e[g + 1] = e[g] + z /\ e[g] \in Nat /\ e[n] \in Nat /\ e[g + 1] \in Nat
    <2>1. (g + 1) - 1 = g /\ g \in 0 .. n /\ n \in 0 .. n
      BY <1>1
    <2>2. Len(p[g + 1]) = z
      BY <1>1, <1>2, <1>5, <1>11
    <2>3. e[g + 1] = e[g] + z
      BY <1>1, <1>12, <2>1, <2>2
    <2> QED
      BY <1>12, <2>1, <2>3
  <1>14. Len(wire) = e[n] - e[g] /\ Len(wire') = e[n] - e[g + 1]
    <2>1. Len(wire) = e[n] - e[g]
      BY <1>1, <1>10 DEF Unread
    <2> QED
      BY <1>7, <1>13, <2>1
  <1>15. ASSUME NEW k \in (g + 1) + 1 .. n, NEW j \in 1 .. GetSerializedSize(sent[k])
         PROVE  wire'[(e[k - 1] - e[g + 1]) + j] = Serialize(sent[k])[j]
    <2>1. k \in 1 .. n /\ k \in Len(got) + 1 .. Len(sent) /\ k - 1 \in 0 .. n /\ g + 1 <= k - 1
      BY <1>1
    <2>2. wire[(e[k - 1] - e[g]) + j] = Serialize(sent[k])[j]
      BY <1>1, <1>10, <2>1 DEF Unread
    <2>3. PICK c \in Nat, d \in Nat, w \in Nat :
              c = e[k - 1] /\ d = e[k] /\ w = GetSerializedSize(sent[k]) /\ d = c + w
      <3>1. e[k] = e[k - 1] + Len(p[k]) /\ Len(p[k]) = GetSerializedSize(sent[k])
        BY <1>11, <1>12, <2>1
      <3>2. GetSerializedSize(sent[k]) \in Nat
        BY <1>1, <2>1, PacketsFacts DEF HeaderInv
      <3>3. e[k] \in Nat /\ e[k - 1] \in Nat
        BY <1>12, <2>1
      <3> QED
        BY <3>1, <3>2, <3>3
    <2>4. e[g + 1] <= c /\ d <= e[n]
      <3>1. g + 1 \in 0 .. Len(p) /\ k - 1 \in 0 .. Len(p) /\ k \in 0 .. Len(p) /\ n \in 0 .. Len(p) /\ k <= n
        BY <1>1, <1>11, <2>1
      <3>2. e[g + 1] <= e[k - 1]
        BY <1>11, <1>12, <2>1, <3>1, EndsInOrder
      <3>3. e[k] <= e[n]
        BY <1>11, <1>12, <3>1, EndsInOrder
      <3> QED
        BY <2>3, <3>2, <3>3
    <2>5. PICK i \in 1 .. Len(wire) - z : i = (c - e[g + 1]) + j /\ z + i = (c - e[g]) + j
      <3>1. (c - e[g + 1]) + j \in 1 .. Len(wire) - z /\ z + ((c - e[g + 1]) + j) = (c - e[g]) + j
        <4>1. j \in 1 .. w
          BY <2>3
        <4>2. PICK x \in Nat, y \in Nat, v \in Nat :
                  x = e[g] /\ y = e[g + 1] /\ v = e[n] /\ y = x + z /\ Len(wire) = v - x /\ y <= c /\ d <= v
          BY <1>13, <1>14, <2>4
        <4>3. (c - y) + j \in 1 .. (v - x) - z /\ z + ((c - y) + j) = (c - x) + j
          <5>1. d = c + w /\ y = x + z /\ y <= c /\ d <= v /\ 1 <= j /\ j <= w /\ j \in Int
            BY <2>3, <4>1, <4>2
          <5>2. (c - y) + j >= 1 /\ (c - y) + j <= (v - x) - z /\ z + ((c - y) + j) = (c - x) + j
            BY <5>1
          <5> QED
            BY <5>1, <5>2
        <4> QED
          BY <4>2, <4>3
      <3> QED
        BY <3>1
    <2>6. wire'[i] = wire[z + i]
      BY <1>7
    <2> QED
      BY <2>2, <2>3, <2>5, <2>6
  <1>16. Unread(e)'
    <2>1. Len(sent') = n /\ sent' = sent /\ Len(got') = g + 1 /\ Packets(sent') = p
      BY <1>1, <1>6, <1>8, <1>11
    <2>2. Ends(Packets(sent'), e) /\ Len(wire') = e[Len(sent')] - e[Len(got')]
      BY <1>12, <1>14, <2>1
    <2>3. ASSUME NEW k \in Len(got') + 1 .. Len(sent'), NEW j \in 1 .. GetSerializedSize(sent'[k])
          PROVE  wire'[(e[k - 1] - e[Len(got')]) + j] = Serialize(sent'[k])[j]
      <3>1. k \in (g + 1) + 1 .. n /\ j \in 1 .. GetSerializedSize(sent[k])
        BY <2>1
      <3> QED
        BY <1>15, <2>1, <3>1
    <2> QED
      BY <2>2, <2>3 DEF Unread
  <1>17. sizeLeft' = Len(wire')
    BY <1>6, <1>7 DEF HeaderInv
  <1>18. sent' \in Seq(Messages) /\ Len(got') <= Len(sent')
    BY <1>1, <1>6, <1>8 DEF HeaderInv
  <1> QED
    BY <1>7, <1>8, <1>9, <1>16, <1>17, <1>18 DEF HeaderInv

\* The invariant of SendPacket and of the loop of RecvGrp: what is not read are the messages from
\* the next one on, and each message read is right in what ReadRight says of it.
THEOREM HeaderCorrect == HeaderSpec => []HeaderInv
  <1>1. HeaderInit => HeaderInv
    <2> SUFFICES ASSUME HeaderInit PROVE HeaderInv
      OBVIOUS
    <2>1. sent = <<>> /\ wire = <<>> /\ sizeLeft = 0 /\ got = <<>>
      BY DEF HeaderInit
    <2>2. PICK s \in Seq(Messages) : s = <<>> /\ Len(s) = 0
      <3>1. <<>> \in Seq(Messages) /\ Len(<<>>) = 0
        OBVIOUS
      <3> QED
        BY <3>1, Zenon
    <2>3. PICK p : p = Packets(s) /\ p \in Seq(Seq(Cells)) /\ Len(p) = 0
      BY <2>2, PacketsFacts
    <2>4. PICK e : Ends(p, e) /\ e[0] \in Nat
      <3>1. PICK e : Ends(p, e)
        BY <2>3, Flattened
      <3>2. e[0] = 0
        BY <3>1 DEF Ends
      <3> QED
        BY <3>1, <3>2
    <2>5. Unread(e)
      <3>1. Packets(sent) = p /\ Len(sent) = 0 /\ Len(got) = 0 /\ Len(wire) = 0
        BY <2>1, <2>2, <2>3
      <3>2. Len(wire) = e[Len(sent)] - e[Len(got)]
        BY <2>4, <3>1
      <3>3. Len(got) + 1 .. Len(sent) = {}
        BY <3>1
      <3> QED
        BY <2>4, <3>1, <3>2, <3>3 DEF Unread
    <2>6. /\ sent \in Seq(Messages) /\ wire \in Seq(Cells) /\ sizeLeft = Len(wire)
          /\ got \in Seq(Readings) /\ Len(got) <= Len(sent)
          /\ \A k \in 1 .. Len(got) : ReadRight(got[k], sent[k])
      BY <2>1
    <2> QED
      BY <2>5, <2>6 DEF HeaderInv
  <1>2. HeaderInv /\ [HeaderNext]_headerVars => HeaderInv'
    <2> SUFFICES ASSUME HeaderInv, [HeaderNext]_headerVars PROVE HeaderInv'
      OBVIOUS
    <2>1. ASSUME NEW k \in 1 .. MaxMessages, NEW msgs \in [1 .. k -> Messages], SendPacket(msgs)
          PROVE  HeaderInv'
      <3>1. k \in Nat
        OBVIOUS
      <3>2. msgs \in Seq(Messages)
        BY <3>1
      <3> QED
        BY <2>1, <3>2, SendPacketKeeps
    <2>2. CASE RecvGrp
      BY <2>2, RecvGrpKeeps
    <2>3. CASE UNCHANGED headerVars
      <3>1. sent' = sent /\ wire' = wire /\ sizeLeft' = sizeLeft /\ got' = got
        BY <2>3 DEF headerVars
      <3>2. ASSUME NEW e, Unread(e) PROVE Unread(e)'
        BY <3>1, <3>2 DEF Unread
      <3> QED
        BY <3>1, <3>2 DEF HeaderInv
    <2> QED
      BY <2>1, <2>2, <2>3 DEF HeaderNext
  <1> QED
    BY <1>1, <1>2, PTL DEF HeaderSpec

\* The loop of RecvGrp finds every boundary of a packet of any number of messages with lists of any
\* length that fit a datagram, and its unsigned counter reaches zero with the last message.
THEOREM FramingCorrect == HeaderSpec => []FramingKept
  <1>1. HeaderInv => FramingKept
    <2> SUFFICES ASSUME HeaderInv PROVE FramingKept
      OBVIOUS
    <2>1. PICK g \in Nat, n \in Nat : g = Len(got) /\ n = Len(sent) /\ g <= n
      BY DEF HeaderInv
    <2>2. sizeLeft = Len(wire) /\ Len(wire) \in Nat
      BY DEF HeaderInv
    <2>3. CASE g = n
      <3>1. PICK e : Unread(e)
        BY DEF HeaderInv
      <3>2. Len(wire) = e[n] - e[n] /\ Len(Packets(sent)) = n /\ Ends(Packets(sent), e)
        BY <2>1, <2>3, <3>1, PacketsFacts DEF Unread, HeaderInv
      <3>3. e[n] \in Nat
        BY <3>2 DEF Ends
      <3>4. sizeLeft = 0
        BY <2>2, <3>2, <3>3
      <3> QED
        BY <2>1, <2>2, <2>3, <3>4 DEF FramingKept
    <2>4. CASE g # n
      <3>1. Len(got) < Len(sent)
        BY <2>1, <2>4
      <3>2. PICK m \in Messages : Begins(wire, Serialize(m))
        BY <3>1, NextInFront
      <3>3. Len(Serialize(m)) \in Nat /\ Len(Serialize(m)) > 0 /\ Len(Serialize(m)) <= Len(wire)
        BY <3>2, SerializePacks, MessageFacts DEF Begins
      <3>4. sizeLeft # 0
        BY <2>2, <3>3
      <3> QED
        BY <2>1, <2>2, <2>4, <3>4 DEF FramingKept
    <2> QED
      BY <2>3, <2>4
  <1> QED
    BY <1>1, HeaderCorrect, PTL

\* What Serialize wrote is what Deserialize reads: headers, Hellos and the bodies of ants.
THEOREM BodiesCorrect == HeaderSpec => []BodiesIntact
  <1>1. HeaderInv => BodiesIntact
    <2> SUFFICES ASSUME HeaderInv, NEW k \in DOMAIN got
                 PROVE  /\ got[k].msg = sent[k]
                        /\ got[k].head = Names(HeaderBytes)
                        /\ got[k].msg.type = "HELLO" => got[k].hello = Names(HelloBytes(sent[k].n))
                        /\ got[k].msg.type = "ANT"   => got[k].ant = Names(AntBytes(sent[k].l))
      BY DEF BodiesIntact
    <2>1. DOMAIN got = 1 .. Len(got)
      BY DEF HeaderInv
    <2>2. PICK m : m = sent[k] /\ ReadRight(got[k], m)
      BY <2>1 DEF HeaderInv
    <2>3. CASE m.type = "HELLO"
      BY <2>2, <2>3 DEF ReadRight
    <2>4. CASE m.type # "HELLO"
      BY <2>2, <2>4 DEF ReadRight
    <2> QED
      BY <2>3, <2>4
  <1> QED
    BY <1>1, HeaderCorrect, PTL

\* SecondsToEmf takes the nearest code for every validity it accepts, and GetVTime keeps the order of
\* the validities of the messages in a packet.
THEOREM ValidityCorrect == HeaderSpec => []ValidityKept
  <1>1. HeaderInv => ValidityKept
    <2> SUFFICES ASSUME HeaderInv, NEW j \in DOMAIN got, NEW k \in DOMAIN got
                 PROVE  /\ \A code \in Codes :
                              Off(SecondsToEmf(sent[k].vTime), sent[k].vTime) <= Off(code, sent[k].vTime)
                        /\ SecondsToEmf(sent[k].vTime) \in Codes
                        /\ sent[j].vTime <= sent[k].vTime => got[j].vTime <= got[k].vTime
      BY DEF ValidityKept
    <2>1. DOMAIN got = 1 .. Len(got) /\ Len(got) \in Nat /\ Len(sent) \in Nat /\ Len(got) <= Len(sent)
      BY DEF HeaderInv
    <2>2. PICK m \in Messages, r \in Messages :
              m = sent[k] /\ r = sent[j] /\ ReadRight(got[k], m) /\ ReadRight(got[j], r)
      <3>1. j \in 1 .. Len(sent) /\ k \in 1 .. Len(sent) /\ j \in 1 .. Len(got) /\ k \in 1 .. Len(got)
        BY <2>1
      <3> QED
        BY <3>1 DEF HeaderInv
    <2>3. PICK s \in Encodable, t \in Encodable : s = m.vTime /\ t = r.vTime
      BY MessageFacts
    <2>4. got[k].vTime = Decoded(s) /\ got[j].vTime = Decoded(t)
      BY <2>2, <2>3 DEF ReadRight
    <2>5. \A code \in Codes : Off(SecondsToEmf(s), s) <= Off(code, s)
      BY NearestCode
    <2>6. SecondsToEmf(s) \in Codes
      BY RoundedTo, DecodedIs
    <2>7. t <= s => Decoded(t) <= Decoded(s)
      BY DecodingMonotone
    <2> QED
      BY <2>2, <2>3, <2>4, <2>5, <2>6, <2>7
  <1> QED
    BY <1>1, HeaderCorrect, PTL

-------------------------------------------------------------------------------
(* The junction list of a data packet *)

PathInv == TypeOK /\ OverrunOnlyAtRsu /\ JunctionAimLeadsToRsu

\* A route is a sequence of junctions that ends at the RSU.
LEMMA RouteFacts ==
    ASSUME NEW s \in Routes
    PROVE  /\ s \in Seq(Junctions) /\ Len(s) \in Nat \ {0} /\ s # <<>>
           /\ \A i \in 1 .. Len(s) : s[i] \in Junctions
           /\ s[Len(s)] = Rsu
           /\ \A i \in 1 .. Len(s) - 1 : <<s[i], s[i + 1]>> \in Roads
  <1>1. Cardinality(Junctions) \in Nat
    BY PathAssumption, FS_CardinalityType
  <1>2. PICK n \in 1 .. Cardinality(Junctions) : s \in [1 .. n -> Junctions]
    BY DEF Routes
  <1>3. n \in Nat \ {0}
    BY <1>1, <1>2
  <1>4. s \in Seq(Junctions) /\ Len(s) = n
    BY <1>2, <1>3
  <1>5. s # <<>>
    BY <1>3, <1>4
  <1> QED
    BY <1>2, <1>3, <1>4, <1>5 DEF Routes

\* The RSU's junction alone is a route.
LEMMA RsuRoute == <<Rsu>> \in Routes
  <1>1. Cardinality(Junctions) \in Nat \ {0}
    <2>1. Cardinality(Junctions) \in Nat
      BY PathAssumption, FS_CardinalityType
    <2>2. Cardinality(Junctions) # 0
      BY PathAssumption, FS_EmptySet
    <2> QED
      BY <2>1, <2>2
  <1>2. <<Rsu>> \in [1 .. 1 -> Junctions] /\ 1 \in 1 .. Cardinality(Junctions)
    BY <1>1, PathAssumption
  <1>3. /\ <<Rsu>>[Len(<<Rsu>>)] = Rsu
        /\ \A i \in 1 .. Len(<<Rsu>>) - 1 : <<(<<Rsu>>)[i], (<<Rsu>>)[i + 1]>> \in Roads
        /\ \A i, j \in 1 .. Len(<<Rsu>>) : (<<Rsu>>)[i] = (<<Rsu>>)[j] => i = j
    OBVIOUS
  <1> QED
    BY <1>2, <1>3 DEF Routes

\* What a search returns at a position.  In a junction other than the RSU's the
\* list starts at the other end of a road and does not come back.
LEMMA PlanFacts ==
    ASSUME NEW p \in Positions, NEW plan \in Plans(p)
    PROVE  /\ plan = <<>> \/ plan \in Routes
           /\ p.jun /\ p.cur = Rsu => plan = <<Rsu>>
           /\ p.jun /\ p.cur # Rsu /\ plan # <<>> =>
                 <<p.cur, plan[1]>> \in Roads /\ \A i \in 1 .. Len(plan) : plan[i] # p.cur
  BY RsuRoute DEF Plans

\* A read inside the list yields the entry, any read something a header can hold.
LEMMA ReadFacts ==
    ASSUME NEW s, s = <<>> \/ s \in Routes, NEW i \in Nat, NEW jid \in Read(s, i)
    PROVE  /\ jid \in Junctions \cup {OffMap}
           /\ i < Len(s) => jid = s[i + 1]
  <1>1. CASE i < Len(s)
    <2>1. s \in Routes
      BY <1>1
    <2>2. i + 1 \in 1 .. Len(s)
      BY <1>1, <2>1, RouteFacts
    <2> QED
      BY <1>1, <2>1, <2>2, RouteFacts DEF Read
  <1>2. CASE ~(i < Len(s))
    BY <1>2 DEF Read
  <1> QED
    BY <1>1, <1>2

\* The ends of a position's road are junctions.
LEMMA PositionFacts ==
    ASSUME NEW p \in Positions
    PROVE  p.cur \in Junctions /\ p.nxt \in Junctions /\ p.jun \in BOOLEAN
  BY PathAssumption DEF Positions

\* Wherever a road leads, a vehicle on it has a position, in an area or not.
LEMMA OnRoad ==
    ASSUME NEW r \in Roads, NEW b \in BOOLEAN
    PROVE  [cur |-> r[1], nxt |-> r[2], jun |-> b] \in Positions
  BY DEF Positions

\* RouteInput from list s and index i keeps the invariant.
LEMMA ForwardStep ==
    ASSUME PathInv, NEW p \in Positions, NEW plan \in Plans(p), NEW hop \in Hops,
           NEW s \in Routes, NEW i \in Nat, i < Len(s) \/ (i = 1 /\ s = <<Rsu>>),
           Forward(s, i, p, plan, hop), pos' = p
    PROVE  PathInv'
  <1> USE DEF PathInv
  <1>1. PICK jid \in Read(s, i) :
          IF JunctionStep(s, i, jid, p, plan)[1] = <<>>
          THEN Store
          ELSE /\ \E next \in IF p.jun THEN Read(JunctionStep(s, i, jid, p, plan)[1],
                                                 JunctionStep(s, i, jid, p, plan)[2])
                              ELSE {jid} :
                      aim' = Aim(next, p)
               /\ path' = JunctionStep(s, i, jid, p, plan)[1]
               /\ idx' = JunctionStep(s, i, jid, p, plan)[2]
               /\ place' = CASE hop = "none"    -> "stored"
                             [] hop = "vehicle" -> "air"
                             [] hop = "dest"    -> "sink"
    BY DEF Forward
  <1> DEFINE l == JunctionStep(s, i, jid, p, plan)[1]
             n == JunctionStep(s, i, jid, p, plan)[2]
  <1>2. /\ s \in Seq(Junctions) /\ Len(s) \in Nat \ {0} /\ s # <<>> /\ s[Len(s)] = Rsu
        /\ \A k \in 1 .. Len(s) - 1 : <<s[k], s[k + 1]>> \in Roads
    BY RouteFacts
  <1>3. jid \in Junctions \cup {OffMap} /\ (i < Len(s) => jid = s[i + 1])
    BY ReadFacts
  <1>4. p.cur \in Junctions /\ p.jun \in BOOLEAN
    BY PositionFacts
  <1>5. /\ plan = <<>> \/ plan \in Routes
        /\ plan # <<>> => Len(plan) \in Nat \ {0}
        /\ p.jun /\ p.cur = Rsu => plan = <<Rsu>>
        /\ p.jun /\ p.cur # Rsu /\ plan # <<>> => <<p.cur, plan[1]>> \in Roads
    BY PlanFacts, RouteFacts
  <1>6. CASE l = <<>>
    <2>1. Store
      BY <1>1, <1>6
    <2> QED
      BY <2>1 DEF Store, TypeOK, OverrunOnlyAtRsu, JunctionAimLeadsToRsu, Places
  <1>7. CASE l # <<>>
    <2>1. PICK next \in IF p.jun THEN Read(l, n) ELSE {jid} : aim' = Aim(next, p)
      BY <1>1, <1>7
    <2>2. path' = l /\ idx' = n
      BY <1>1, <1>7
    <2>3. place' \in Places
      <3>1. place' = CASE hop = "none" -> "stored" [] hop = "vehicle" -> "air" [] hop = "dest" -> "sink"
        BY <1>1, <1>7
      <3> QED
        BY <3>1 DEF Hops, Places
    <2>4. aim' = [jid |-> next, cur |-> p.cur, jun |-> p.jun]
      BY <2>1 DEF Aim
    <2>5. CASE ~p.jun
      <3>1. l = s /\ n = i /\ next = jid
        BY <2>1, <2>5 DEF JunctionStep
      <3> QED
        BY <1>3, <1>4, <2>2, <2>3, <2>4, <2>5, <3>1
        DEF TypeOK, OverrunOnlyAtRsu, JunctionAimLeadsToRsu
    <2>6. CASE p.jun /\ jid = p.cur /\ p.cur # Rsu /\ i < Len(s)
      <3>1. l = s /\ n = i + 1
        BY <2>6 DEF JunctionStep
      <3>2. s[i + 1] = p.cur /\ i + 1 < Len(s)
        BY <1>2, <1>3, <2>6
      <3>3. next \in Junctions \cup {OffMap} /\ next = s[i + 2]
        BY <2>1, <2>6, <3>1, <3>2, ReadFacts
      <3>4. <<p.cur, next>> \in Roads
        <4>1. i + 1 \in 1 .. Len(s) - 1
          BY <1>2, <3>2
        <4>2. <<s[i + 1], s[(i + 1) + 1]>> \in Roads
          BY <1>2, <4>1
        <4>3. (i + 1) + 1 = i + 2
          OBVIOUS
        <4> QED
          BY <3>2, <3>3, <4>2, <4>3
      <3> QED
        BY <1>4, <2>2, <2>3, <2>4, <3>1, <3>2, <3>3, <3>4
        DEF TypeOK, OverrunOnlyAtRsu, JunctionAimLeadsToRsu
    <2>7. CASE p.jun /\ ~(jid = p.cur /\ p.cur # Rsu /\ i < Len(s))
      <3>1. l = plan /\ n = 0
        BY <1>7, <2>7 DEF JunctionStep
      <3>2. next \in Junctions \cup {OffMap} /\ next = plan[1]
        BY <1>5, <1>7, <2>1, <2>7, <3>1, ReadFacts
      <3> QED
        BY <1>4, <1>5, <1>7, <2>2, <2>3, <2>4, <3>1, <3>2
        DEF TypeOK, OverrunOnlyAtRsu, JunctionAimLeadsToRsu
    <2> QED
      BY <1>4, <2>5, <2>6, <2>7
  <1> QED
    BY <1>6, <1>7

\* So does all of RouteInput, at whatever vehicle the packet arrives.
LEMMA RouteInputStep ==
    ASSUME PathInv, NEW p \in Positions, NEW plan \in Plans(p), NEW hop \in Hops,
           RouteInput(p, plan, hop)
    PROVE  PathInv'
  <1>1. CASE path # <<>>
    <2>1. path \in Routes /\ idx \in Nat /\ (idx < Len(path) \/ (idx = 1 /\ path = <<Rsu>>))
      BY <1>1 DEF PathInv, TypeOK, OverrunOnlyAtRsu
    <2>2. Forward(path, idx, p, plan, hop) /\ pos' = p
      BY <1>1 DEF RouteInput
    <2> QED
      BY <2>1, <2>2, ForwardStep
  <1>2. CASE path = <<>> /\ plan # <<>>
    <2>0. plan \in Routes
      BY <1>2, PlanFacts
    <2>1. plan \in Routes /\ 0 < Len(plan)
      BY <2>0, RouteFacts
    <2>2. Forward(plan, 0, p, plan, hop) /\ pos' = p
      BY <1>2 DEF RouteInput
    <2> QED
      BY <2>1, <2>2, ForwardStep
  <1>3. CASE path = <<>> /\ plan = <<>>
    BY <1>3 DEF RouteInput, Store, PathInv, TypeOK, OverrunOnlyAtRsu, JunctionAimLeadsToRsu, Places
  <1> QED
    BY <1>1, <1>2, <1>3

\* The source plans and aims from where it is.
LEMMA RouteOutputStep ==
    ASSUME PathInv, NEW plan \in Plans(pos), NEW hop \in Hops, RouteOutput(plan, hop)
    PROVE  PathInv'
  <1>1. pos \in Positions
    BY DEF PathInv, TypeOK
  <1>2. pos.cur \in Junctions /\ pos.nxt \in Junctions /\ pos.jun \in BOOLEAN
    BY <1>1, PositionFacts
  <1>3. /\ plan = <<>> \/ plan \in Routes
        /\ plan # <<>> => Len(plan) \in Nat \ {0} /\ plan[1] \in Junctions
        /\ pos.jun /\ pos.cur # Rsu /\ plan # <<>> => <<pos.cur, plan[1]>> \in Roads
    BY <1>1, PlanFacts, RouteFacts
  <1>4. path' = plan /\ idx' = 0 /\ pos' = pos /\ place' \in Places
    BY DEF RouteOutput, Places
  <1>5. PICK jid \in IF plan = <<>> THEN {pos.cur, pos.nxt} ELSE {plan[1]} :
          aim' = IF plan = <<>> /\ pos.jun THEN aim ELSE Aim(jid, pos)
    BY DEF RouteOutput
  <1>6. jid \in Junctions /\ (plan # <<>> => jid = plan[1])
    BY <1>2, <1>3, <1>5
  <1>7. CASE plan = <<>> /\ pos.jun
    BY <1>4, <1>5, <1>7 DEF PathInv, TypeOK, OverrunOnlyAtRsu, JunctionAimLeadsToRsu
  <1>8. CASE ~(plan = <<>> /\ pos.jun)
    <2>1. aim' = [jid |-> jid, cur |-> pos.cur, jun |-> pos.jun]
      BY <1>5, <1>8 DEF Aim
    <2>2. TypeOK'
      BY <1>1, <1>2, <1>3, <1>4, <1>6, <2>1 DEF TypeOK
    <2>3. OverrunOnlyAtRsu'
      BY <1>3, <1>4 DEF OverrunOnlyAtRsu
    <2>4. JunctionAimLeadsToRsu'
      BY <1>2, <1>3, <1>4, <1>6, <1>8, <2>1 DEF JunctionAimLeadsToRsu
    <2> QED
      BY <2>2, <2>3, <2>4 DEF PathInv
  <1> QED
    BY <1>7, <1>8

\* A carried packet is planned for again; only in the RSU's junction does the
\* new list begin with the vehicle's own.
LEMMA CheckStep ==
    ASSUME PathInv, NEW plan \in Plans(pos), NEW hop \in Hops, CheckPacketQueue(plan, hop)
    PROVE  PathInv'
  <1>1. pos \in Positions /\ pos' = pos /\ path' = plan
    BY DEF PathInv, TypeOK, CheckPacketQueue
  <1>2. pos.cur \in Junctions /\ pos.jun \in BOOLEAN
    BY <1>1, PositionFacts
  <1>3. CASE plan = <<>>
    BY <1>1, <1>3 DEF CheckPacketQueue, PathInv, TypeOK, OverrunOnlyAtRsu, JunctionAimLeadsToRsu
  <1>4. CASE plan # <<>>
    <2>1. /\ plan \in Routes /\ Len(plan) \in Nat \ {0}
          /\ pos.jun /\ pos.cur = Rsu => plan = <<Rsu>>
          /\ pos.jun /\ pos.cur # Rsu => <<pos.cur, plan[1]>> \in Roads /\ plan[1] # pos.cur
      BY <1>1, <1>4, PlanFacts, RouteFacts
    <2>2. idx' = CheckIndex(plan, idx) /\ place' \in Places
      BY <1>4 DEF CheckPacketQueue, Places
    <2>3. PICK jid \in Read(plan, idx') : aim' = Aim(jid, pos)
      BY <1>4 DEF CheckPacketQueue
    <2>4. idx' = 0 \/ (idx' = 1 /\ plan = <<Rsu>> /\ pos.cur = Rsu)
      BY <1>2, <2>1, <2>2 DEF CheckIndex
    <2>5. jid \in Junctions \cup {OffMap} /\ (idx' < Len(plan) => jid = plan[idx' + 1])
      BY <2>1, <2>3, <2>4, ReadFacts
    <2>6. aim' = [jid |-> jid, cur |-> pos.cur, jun |-> pos.jun]
      BY <2>3 DEF Aim
    <2>7. TypeOK'
      BY <1>1, <1>2, <2>1, <2>2, <2>4, <2>5, <2>6 DEF TypeOK
    <2>8. OverrunOnlyAtRsu'
      BY <1>1, <2>1, <2>4 DEF OverrunOnlyAtRsu
    <2>9. JunctionAimLeadsToRsu'
      BY <1>1, <1>2, <2>1, <2>4, <2>5, <2>6 DEF JunctionAimLeadsToRsu
    <2> QED
      BY <2>7, <2>8, <2>9 DEF PathInv
  <1> QED
    BY <1>3, <1>4

\* The list, the index and the aim stay consistent over all hops, re-plans and
\* carries.
THEOREM PathCorrect == Spec => []PathInv
  <1>1. Init => PathInv
    <2> SUFFICES ASSUME Init PROVE PathInv
      OBVIOUS
    <2>1. pos.cur \in Junctions /\ pos.jun \in BOOLEAN
      BY PositionFacts DEF Init
    <2>2. aim = [jid |-> pos.cur, cur |-> pos.cur, jun |-> FALSE]
      BY DEF Init, Aim, Positions
    <2>3. TypeOK
      <3>1. pos.cur \in Junctions \cup {OffMap} /\ FALSE \in BOOLEAN
        BY <2>1
      <3>2. aim \in [jid : Junctions \cup {OffMap}, cur : Junctions, jun : BOOLEAN]
        BY <2>1, <2>2, <3>1, Zenon
      <3> QED
        BY <3>2 DEF Init, TypeOK, Places
    <2>4. OverrunOnlyAtRsu /\ JunctionAimLeadsToRsu
      BY <2>2 DEF Init, OverrunOnlyAtRsu, JunctionAimLeadsToRsu
    <2> QED
      BY <2>3, <2>4 DEF PathInv
  <1>2. PathInv /\ [Next]_vars => PathInv'
    <2> SUFFICES ASSUME PathInv, [Next]_vars PROVE PathInv'
      OBVIOUS
    <2>1. pos \in Positions
      BY DEF PathInv, TypeOK
    <2>2. ASSUME NEW plan \in Plans(pos), NEW hop \in Hops, RouteOutput(plan, hop) PROVE PathInv'
      BY <2>2, RouteOutputStep
    <2>3. ASSUME NEW plan \in Plans(pos), NEW hop \in Hops, ReceiveLoopback(plan, hop) PROVE PathInv'
      BY <2>1, <2>3, RouteInputStep DEF ReceiveLoopback
    <2>4. ASSUME NEW p \in Positions, NEW plan \in Plans(p), NEW hop \in Hops, ReceiveAir(p, plan, hop)
          PROVE  PathInv'
      BY <2>4, RouteInputStep DEF ReceiveAir
    <2>5. ASSUME NEW plan \in Plans(pos), NEW hop \in Hops, CheckPacketQueue(plan, hop) PROVE PathInv'
      BY <2>5, CheckStep
    <2>6. CASE SendFromSQueue
      BY <2>6 DEF SendFromSQueue, PathInv, TypeOK, OverrunOnlyAtRsu, JunctionAimLeadsToRsu, Places
    <2>7. CASE Move
      <3>1. pos' \in Positions
        <4>1. PICK r \in Roads, b \in BOOLEAN : pos = [cur |-> r[1], nxt |-> r[2], jun |-> b]
          BY <2>1 DEF Positions
        <4>2. CASE pos.jun /\ pos' = [pos EXCEPT !.jun = FALSE]
          <5>1. pos' = [cur |-> r[1], nxt |-> r[2], jun |-> FALSE]
            BY <4>1, <4>2
          <5>2. FALSE \in BOOLEAN
            OBVIOUS
          <5> QED
            BY <5>1, <5>2, OnRoad, Zenon
        <4>3. CASE \E t \in Roads, c \in BOOLEAN : pos' = [cur |-> t[1], nxt |-> t[2], jun |-> c]
          BY <4>3 DEF Positions
        <4> QED
          BY <2>7, <4>2, <4>3 DEF Move
      <3> QED
        BY <2>7, <3>1 DEF Move, PathInv, TypeOK, OverrunOnlyAtRsu, JunctionAimLeadsToRsu
    <2>8. CASE UNCHANGED vars
      BY <2>8 DEF vars, PathInv, TypeOK, OverrunOnlyAtRsu, JunctionAimLeadsToRsu
    <2> QED
      BY <2>2, <2>3, <2>4, <2>5, <2>6, <2>7, <2>8 DEF Next
  <1> QED
    BY <1>1, <1>2, PTL DEF Spec

\* The index in a header is inside its list except in the RSU's junction.
THEOREM OverrunCorrect == Spec => []OverrunOnlyAtRsu
  <1>1. PathInv => OverrunOnlyAtRsu
    BY DEF PathInv
  <1> QED
    BY <1>1, PathCorrect, PTL

\* From any other junction a packet leaves along a road of its list.
THEOREM AimCorrect == Spec => []JunctionAimLeadsToRsu
  <1>1. PathInv => JunctionAimLeadsToRsu
    BY DEF PathInv
  <1> QED
    BY <1>1, PathCorrect, PTL

==============================================================================
