----------------------------- MODULE UnityAsserts -----------------------------
(***************************************************************************)
(* The assertions of src/unity.c: whether a call fails its test, and the   *)
(* labelled values it reports then.  A call is a record with the arguments *)
(* that the macros of include/unity_internals.h pass on.  An object of the *)
(* test is its address and its bytes; address 0 is NULL.                   *)
(***************************************************************************)
EXTENDS UnityPrinting, FiniteSetsExt

Label(label, shown) == [label |-> label, shown |-> shown]
Say(label) == Label(label, <<>>)

AddMsgIfSpecified(c) == IF c.msg THEN <<Say("message")>> ELSE <<>>
Pass == [failed |-> FALSE, report |-> <<>>]
Fail(c, report) == [failed |-> TRUE, report |-> report \o AddMsgIfSpecified(c)]
FailIf(condition, c, report) == IF condition THEN Fail(c, report) ELSE Pass
Compared(expected, was) == <<Label("Expected", expected), Label("Was", was)>>

Pointless(c) == Fail(c, <<Say("pointless")>>)
Least(n, Bad(_)) == LET bad == {k \in 0 .. n - 1 : Bad(k)} IN
                    IF bad = {} THEN n ELSE Min(bad)

IsOneArrayNull(expected, actual) == expected.at # actual.at /\ 0 \in {expected.at, actual.at}
NullFails(c, expected) ==
    Fail(c, <<Say(IF expected.at = 0 THEN "expected NULL" ELSE "actual NULL")>>)

-----------------------------------------------------------------------------
(* Numbers.  The macros convert to the width and the sign of the style.    *)
Cast(style, n) == IF IsInt(style) THEN Sign(style.bytes, n) ELSE Wrap(style.bytes, n)
PrintByStyle(n, style) ==
    IF IsInt(style) THEN PrintIntByStyle(n, style) ELSE PrintUintByStyle(n, style)

AssertBits(c) ==
    LET Masked(n) == {k \in 0 .. 8 * ByteBits - 1 : Bit(k, c.mask) = 1 /\ Bit(k, n) = 1} IN
    FailIf(Masked(c.e) # Masked(c.a), c,
           Compared(PrintMask(ToUnsigned(c.mask), ToUnsigned(c.e)),
                    PrintMask(ToUnsigned(c.mask), ToUnsigned(c.a))))

AssertEqualNumber(c) ==
    LET expected == Cast(c.style, c.e)
        actual == Cast(c.style, c.a) IN
    FailIf(expected # actual, c,
           Compared(PrintByStyle(expected, c.style), PrintByStyle(actual, c.style)))

(* compare is the set of flags that UNITY_COMPARISON_T adds up.            *)
Words(compare) ==
    [j \in 1 .. Cardinality(compare) |->
        Say(IF "GREATER_THAN" \in compare /\ j = 1 THEN "greater"
            ELSE IF "SMALLER_THAN" \in compare /\ j = 1 THEN "less"
            ELSE IF "EQUAL_TO" \in compare THEN "or equal" ELSE "not equal")]

AssertGreaterOrLessOrEqualNumber(c) ==
    LET threshold == Cast(c.style, c.e)
        actual == Cast(c.style, c.a) IN
    FailIf(\/ threshold = actual /\ "EQUAL_TO" \notin c.compare
           \/ actual > threshold /\ "SMALLER_THAN" \in c.compare
           \/ actual < threshold /\ "GREATER_THAN" \in c.compare,
           c, <<Label("Expected", PrintByStyle(actual, c.style))>> \o Words(c.compare)
              \o <<Label("threshold", PrintByStyle(threshold, c.style))>>)

(* Mutant of Distance: the difference of the signed numbers.               *)
DistanceSigned(expected, actual) ==
    IF actual > expected THEN Sign(8, actual - expected) ELSE Sign(8, expected - actual)

(* The distance is taken on unsigned numbers, from the larger one.         *)
Distance(expected, actual) ==
    IF actual > expected THEN ToUnsigned(ToUnsigned(actual) - ToUnsigned(expected))
    ELSE ToUnsigned(ToUnsigned(expected) - ToUnsigned(actual))

DeltaOf(c) == IF IsInt(c.style) THEN Sign(8, c.delta) ELSE c.delta   (* as shown *)

AssertNumbersWithin(c) ==
    LET expected == Cast(c.style, c.e)
        actual == Cast(c.style, c.a) IN
    FailIf(Distance(expected, actual) > c.delta, c,
           <<Label("delta", PrintByStyle(DeltaOf(c), c.style))>>
           \o Compared(PrintByStyle(expected, c.style), PrintByStyle(actual, c.style)))

-----------------------------------------------------------------------------
(* Arrays of numbers, read byte by byte through the moving pointers.       *)
Byte(object, k) == IF k < Len(object.data) THEN object.data[k + 1] ELSE 0
Bytes(bytes, n) == [k \in 1 .. bytes |-> (Wrap(bytes, n) \div 2^(ByteBits * (k - 1))) % 2^ByteBits]

(* The one number that each element is compared with, in static storage.   *)
QuickCompare == 1
NumToPtr(n, bytes) == [at |-> QuickCompare, data |-> Bytes(bytes, n), holds |-> <<n>>]

Offset(c, k, moves) == IF moves THEN k * c.style.bytes ELSE 0
ReadAt(object, offset, bytes) ==
    FoldLeft(LAMBDA n, k : n + Byte(object, offset + k - 1) * 2^(ByteBits * (k - 1)),
             0, [k \in 1 .. bytes |-> k])
ExpectedAt(c, k) == ReadAt(c.expected, Offset(c, k, ~c.each), c.style.bytes)
ActualAt(c, k) == ReadAt(c.actual, Offset(c, k, TRUE), c.style.bytes)

(* Mutant of SignedElement: the sign extension stays.                      *)
SignedElementExtended(style, raw) == Sign(style.bytes, raw)

(* Read as signed; the style takes the sign extension off again, except    *)
(* from eight bytes.                                                       *)
SignedElement(style, raw) ==
    IF style.range \in {"UINT", "HEX"} /\ style.bytes < 8 THEN raw ELSE Sign(style.bytes, raw)

AssertEqualIntArray(c) ==
    LET Expected(k) == SignedElement(c.style, ExpectedAt(c, k))
        Actual(k) == SignedElement(c.style, ActualAt(c, k))
        k == Least(c.n, LAMBDA j : Expected(j) # Actual(j)) IN
    IF c.n = 0 THEN Pointless(c)
    ELSE IF c.expected.at = c.actual.at THEN Pass
    ELSE IF IsOneArrayNull(c.expected, c.actual) THEN NullFails(c, c.expected)
    ELSE
          FailIf(k < c.n, c,
                 <<Label("Element", PrintNumberUnsigned(k))>>
                 \o Compared(PrintIntByStyle(Expected(k), c.style),
                             PrintIntByStyle(Actual(k), c.style)))

(* Read as signed only for the INT styles; others compare unsigned.        *)
AssertNumbersArrayWithin(c) ==
    LET Read(raw) == IF IsInt(c.style) THEN Sign(c.style.bytes, raw) ELSE raw
        Expected(k) == Read(ExpectedAt(c, k))
        Actual(k) == Read(ActualAt(c, k))
        k == Least(c.n, LAMBDA j : Distance(Expected(j), Actual(j)) > c.delta) IN
    IF c.n = 0 THEN Pointless(c)
    ELSE IF c.expected.at = c.actual.at THEN Pass
    ELSE IF IsOneArrayNull(c.expected, c.actual) THEN NullFails(c, c.expected)
    ELSE
          FailIf(k < c.n, c,
                 <<Label("delta", PrintIntByStyle(DeltaOf(c), c.style)),
                   Label("Element", PrintNumberUnsigned(k))>>
                 \o Compared(PrintIntByStyle(Expected(k), c.style),
                             PrintIntByStyle(Actual(k), c.style)))

-----------------------------------------------------------------------------
(* Strings: the byte after the last is the terminator.                     *)
Limit(s, t) == Max({Len(s.data), Len(t.data)}) + 1
StringDifference(s, t, length) ==
    Least(IF length < Limit(s, t) THEN length ELSE Limit(s, t),
          LAMBDA i : Byte(s, i) # Byte(t, i))

(* Mutant of StringsDiffer: a string equals its own beginning.             *)
StringsDifferInCommon(s, t, length) ==
    IF s.at = 0 \/ t.at = 0 THEN s.at # t.at
    ELSE StringDifference(s, t, length) < Min({Len(s.data), Len(t.data), length})

(* A pointer that is NULL is equal to NULL only.                           *)
StringsDiffer(s, t, length) ==
    IF s.at = 0 \/ t.at = 0 THEN s.at # t.at
    ELSE StringDifference(s, t, length) < length
         /\ StringDifference(s, t, length) < Limit(s, t)

(* Where both exist, the characters at the difference follow the strings.  *)
PrintPointer(s, Printed(_)) ==
    IF s.at = 0 THEN <<78>> ELSE <<39>> \o Printed(s.data) \o <<39>>
PrintFirstStringDifference(s, t, i) ==
    IF s.at = 0 \/ t.at = 0 THEN <<>>
    ELSE <<Label("Character", PrintNumberUnsigned(i))>>
         \o Compared(PrintQuoted(Byte(s, i)), PrintQuoted(Byte(t, i)))
PrintExpectedAndActual(s, t, i, Printed(_)) ==
    Compared(PrintPointer(s, Printed), PrintPointer(t, Printed))
    \o PrintFirstStringDifference(s, t, i)

Forever == 2^20            (* no limit on the length of a string            *)
DifferenceOf(s, t, length) ==
    IF s.at = 0 \/ t.at = 0 THEN 0 ELSE StringDifference(s, t, length)

AssertEqualString(c) ==
    FailIf(StringsDiffer(c.expected, c.actual, Forever), c,
           PrintExpectedAndActual(c.expected, c.actual,
               DifferenceOf(c.expected, c.actual, Forever), PrintString))

AssertEqualStringLen(c) ==
    LET Printed(s) == PrintStringLen(s, c.length) IN
    FailIf(StringsDiffer(c.expected, c.actual, c.length), c,
           PrintExpectedAndActual(c.expected, c.actual,
               DifferenceOf(c.expected, c.actual, c.length), Printed))

(* expected is one string, or an array of them as actual is.               *)
AssertEqualStringArray(c) ==
    LET Wanted(j) == IF c.each THEN c.wanted.items[1] ELSE c.wanted.items[j + 1]
        Given(j) == c.given.items[j + 1]
        j == Least(c.n, LAMBDA k : StringsDiffer(Wanted(k), Given(k), Forever)) IN
    IF c.n = 0 THEN Pointless(c)
    ELSE IF c.wanted.at = c.given.at THEN Pass
    ELSE IF IsOneArrayNull(c.wanted, c.given) THEN NullFails(c, c.wanted)
    ELSE
          FailIf(j < c.n, c,
                 (IF c.n > 1 THEN <<Label("Element", PrintNumberUnsigned(j))>> ELSE <<>>)
                 \o PrintExpectedAndActual(Wanted(j), Given(j),
                        DifferenceOf(Wanted(j), Given(j), Forever), PrintString))

(* Equal is the same pointer or the same text; the report has no values.   *)
Different(c) == IF c.msg THEN <<>> ELSE <<Say("to be different")>>
AssertNotEqualString(c) ==
    FailIf(~StringsDiffer(c.expected, c.actual, Forever), c,
           <<Say("Expected")>> \o Different(c))

(* It reports the characters at length, which may be beyond a terminator   *)
(* where equal strings are shorter; Byte() gives 0 for what is there.      *)
AssertNotEqualStringLen(c) ==
    LET Printed(s) == PrintStringLen(s, c.length) IN
    IF c.length = 0 THEN Pointless(c)
    ELSE FailIf(~StringsDiffer(c.expected, c.actual, c.length), c,
                PrintExpectedAndActual(c.expected, c.actual, c.length, Printed)
                \o Different(c))

-----------------------------------------------------------------------------
(* Memory: n elements of length bytes; the expected bytes start again for  *)
(* each element when there is only one of them.                            *)
Hex8 == [bytes |-> 1, range |-> "HEX"]
AssertEqualMemory(c) ==
    LET Expected(k) == Byte(c.expected, IF c.each THEN k % c.length ELSE k)
        Actual(k) == Byte(c.actual, k)
        k == Least(c.n * c.length, LAMBDA j : Expected(j) # Actual(j)) IN
    IF c.n = 0 \/ c.length = 0 THEN Pointless(c)
    ELSE IF c.expected.at = c.actual.at THEN Pass
    ELSE IF IsOneArrayNull(c.expected, c.actual) THEN NullFails(c, c.expected)
    ELSE
          FailIf(k < c.n * c.length, c,
                 (IF c.n > 1 THEN <<Label("Element", PrintNumberUnsigned(k \div c.length))>>
                             ELSE <<>>)
                 \o <<Label("Byte", PrintNumberUnsigned(k % c.length))>>
                 \o Compared(PrintIntByStyle(Expected(k), Hex8),
                             PrintIntByStyle(Actual(k), Hex8)))

AssertNotEqualMemory(c) ==
    IF c.length = 0 THEN Pointless(c)
    ELSE IF IsOneArrayNull(c.expected, c.actual) THEN Pass
    ELSE
          FailIf(\/ c.expected.at = c.actual.at
                 \/ \A k \in 0 .. c.length - 1 : Byte(c.expected, k) = Byte(c.actual, k),
                 c, <<Say("Memory Mismatch")>> \o Different(c))
=============================================================================
