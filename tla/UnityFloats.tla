----------------------------- MODULE UnityFloats -----------------------------
(***************************************************************************)
(* The float assertions of src/unity.c.  Doubles are excluded from this    *)
(* build: UNITY_INCLUDE_DOUBLE is not defined.                             *)
(***************************************************************************)
EXTENDS UnityAsserts

IsNaN(f) == f.kind = "NaN"
IsInf(f) == f.kind \in {"Inf", "NegInf"}
IsNegative(f) == f.kind = "NegInf" \/ (f.kind = "finite" /\ f.num < 0)
Infinite == 2147483647                       (* beyond every finite float   *)
Rank(f) == CASE f.kind = "Inf" -> Infinite [] f.kind = "NegInf" -> -Infinite [] OTHER -> f.num
Less(f, g) == ~IsNaN(f) /\ ~IsNaN(g) /\ Rank(f) < Rank(g)

Absolute(f) == CASE f.kind = "finite" -> Finite(Magnitude(f.num))
                 [] f.kind = "NegInf" -> Special("Inf")
                 [] OTHER -> f
TimesPrecision(f) == IF f.kind = "finite" THEN Finite(Precision(f.num)) ELSE f
Plus(f, g) == IF IsNaN(f) \/ IsNaN(g) THEN Special("NaN")
              ELSE IF IsInf(f) /\ IsInf(g) /\ f # g THEN Special("NaN")
              ELSE IF IsInf(f) THEN f
              ELSE IF IsInf(g) THEN g
              ELSE Finite(f.num + g.num)
Minus(f, g) == Plus(f, CASE g.kind = "finite" -> Finite(-g.num)
                         [] g.kind = "Inf" -> Special("NegInf")
                         [] g.kind = "NegInf" -> Special("Inf")
                         [] OTHER -> g)

(* Mutant of FloatsWithin: only a larger actual value can be too far.      *)
FloatsWithinAbove(delta, expected, actual) ==
    LET diff == Minus(actual, expected) IN
    \/ IsInf(expected) /\ IsInf(actual) /\ IsNegative(expected) = IsNegative(actual)
    \/ IsNaN(expected) /\ IsNaN(actual)
    \/ ~(IsNaN(diff) \/ IsInf(diff) \/ Less(Absolute(delta), diff))

FloatsWithin(delta, expected, actual) ==
    LET diff == Absolute(Minus(actual, expected)) IN
    \/ IsInf(expected) /\ IsInf(actual) /\ IsNegative(expected) = IsNegative(actual)
    \/ IsNaN(expected) /\ IsNaN(actual)
    \/ ~(IsNaN(diff) \/ IsInf(diff) \/ Less(Absolute(delta), diff))

ComparedFloats(expected, actual) == Compared(PrintFloat(expected), PrintFloat(actual))

AssertFloatsWithin(c) ==
    FailIf(~FloatsWithin(c.fdelta, c.fe, c.fa), c, ComparedFloats(c.fe, c.fa))

AssertFloatsNotWithin(c) ==
    FailIf(FloatsWithin(c.fdelta, c.fe, c.fa), c,
           <<Label("Expected", PrintFloat(c.fe)), Label("not equal", PrintFloat(c.fa))>>)

(* TEST_ASSERT_EQUAL_FLOAT and TEST_ASSERT_NOT_EQUAL_FLOAT.                *)
EqualDelta(expected) == TimesPrecision(expected)

(* The elements' own precision is added to the delta given.                *)
AssertWithinFloatArray(c) ==
    LET Expected(k) == c.fexpected.floats[IF c.each THEN 1 ELSE k + 1]
        Actual(k) == c.factual.floats[k + 1]
        Allowed(k) == Plus(Absolute(c.fdelta), Absolute(TimesPrecision(Expected(k))))
        k == Least(c.n, LAMBDA j : ~FloatsWithin(Allowed(j), Expected(j), Actual(j))) IN
    IF c.n = 0 THEN Pointless(c)
    ELSE IF IsInf(c.fdelta) THEN Pass
    ELSE IF IsNaN(c.fdelta) THEN Pointless(c)
    ELSE IF c.fexpected.at = c.factual.at THEN Pass
    ELSE IF IsOneArrayNull(c.fexpected, c.factual) THEN NullFails(c, c.fexpected)
    ELSE
          FailIf(k < c.n, c, <<Label("Element", PrintNumberUnsigned(k))>>
                             \o ComparedFloats(Expected(k), Actual(k)))

(* Success is what is tested, so that NaN fails.                           *)
AssertGreaterOrLessFloat(c) ==
    FailIf(/\ \/ ~Less(c.fa, c.fe) /\ "SMALLER_THAN" \in c.compare
              \/ ~Less(c.fe, c.fa) /\ "GREATER_THAN" \in c.compare
           /\ ~("EQUAL_TO" \in c.compare
                /\ FloatsWithin(TimesPrecision(c.fe), c.fe, c.fa)),
           c, <<Label("Expected", PrintFloat(c.fa))>> \o Words(c.compare)
              \o <<Label("threshold", PrintFloat(c.fe))>>)

(* A trait that is none of the four always fails.                          *)
AssertFloatSpecial(c) ==
    LET is == CASE c.trait = "Infinity"          -> IsInf(c.fa) /\ ~IsNegative(c.fa)
                [] c.trait = "Negative Infinity" -> IsInf(c.fa) /\ IsNegative(c.fa)
                [] c.trait = "NaN"               -> IsNaN(c.fa)
                [] c.trait = "Determinate"       -> ~IsInf(c.fa) /\ ~IsNaN(c.fa)
                [] OTHER                         -> ~c.should IN
    FailIf(is # c.should, c,
           <<Say("Expected")>> \o (IF c.should THEN <<>> ELSE <<Say("Not")>>)
           \o <<Say(c.trait), Label("Was", PrintFloat(c.fa))>>)
=============================================================================
