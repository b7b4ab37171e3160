------------------------------- MODULE GrpVTime -------------------------------
(***************************************************************************)
(* The validity time of a control message.  It travels as one byte, a        *)
(* mantissa a and an exponent b that stand for GRP_C * (1 + a/16) * 2^b       *)
(* seconds (SecondsToEmf and EmfToSeconds of grp-header.cc).                 *)
(*                                                                          *)
(* Times are integers in units of GRP_C / 32, fine enough for the values      *)
(* halfway between two codes.                                                *)
(***************************************************************************)
EXTENDS Integers, FiniteSetsExt

CONSTANT
    Exponents           \* 16 in the code, where b fills four bits

ASSUME VTimeAssumption == Exponents \in Nat \ {0}

GRP_C == 32

\* 1 << b, a power of two.
Shifted[b \in 0 .. Exponents] == IF b = 0 THEN 1 ELSE 2 * Shifted[b - 1]

Codes == [a : 0 .. 15, b : 0 .. Exponents - 1]

\* The validities SecondsToEmf takes without a failing assertion: at least GRP_C,
\* and below where the mantissa rounds up to 16 and the exponent out of its bits.
Encodable == GRP_C .. (GRP_C * Shifted[Exponents] * 63) \div 64

\* The loop that looks for the exponent: the first power of two above, less one.
Exponent(s) == Min({b \in 1 .. Exponents : s < GRP_C * Shifted[b]}) - 1

\* std::ceil (16 * (s / (GRP_C * 2^b) - 1) - 0.5), in whole numbers: the least
\* a that is not below it.
Mantissa(s, b) ==
    Min({a \in 0 .. 16 : (2 * a + 1) * GRP_C * Shifted[b] >= 32 * (s - GRP_C * Shifted[b])})

SecondsToEmf_SameExponent(s) ==
    LET b == Exponent(s)
        a == Mantissa(s, b)
    IN  IF a = 16 THEN [a |-> 0, b |-> b] ELSE [a |-> a, b |-> b]

SecondsToEmf(s) ==
    LET b == Exponent(s)
        a == Mantissa(s, b)
    IN  IF a = 16 THEN [a |-> 0, b |-> b + 1] ELSE [a |-> a, b |-> b]

EmfToSeconds(code) == (GRP_C * (16 + code.a) * Shifted[code.b]) \div 16

\* How far the decoded time is from s.
Off(code, s) ==
    IF EmfToSeconds(code) < s THEN s - EmfToSeconds(code) ELSE EmfToSeconds(code) - s

==============================================================================
