--------------------------- MODULE NumbersProofs ---------------------------
(***************************************************************************)
(* The range checks of src/miscutil.c are exact for a long long of any     *)
(* width, and parse_number() is the same program with either half of it:   *)
(* its result is the value of the literal, however long that is.           *)
(***************************************************************************)
EXTENDS NumbersPortable, FiniteSetTheorems, TLAPS

(* C division by a positive number.                                        *)
LEMMA DivisionBounds ==
    ASSUME NEW x \in Nat, NEW y \in Nat, y > 0
    PROVE  /\ x \div y \in Nat
           /\ y * (x \div y) <= x
           /\ x < y * (x \div y) + y
BY SMT

LEMMA TimesMonotone ==
    ASSUME NEW x \in Int, NEW y \in Int, NEW k \in Nat, x <= y
    PROVE  k * x <= k * y
BY SMT

(* A quotient compares with x as the product does with the dividend.       *)
LEMMA QuotientExact ==
    ASSUME NEW n \in Nat, NEW y \in Nat, y > 0, NEW x \in Nat
    PROVE  x > n \div y <=> x * y > n
<1> DEFINE q == n \div y
<1>1. q \in Nat /\ y * q <= n /\ n < y * q + y
  BY DivisionBounds
<1> HIDE DEF q
<1>2. ASSUME x > q PROVE x * y > n
  <2>1. y * (q + 1) <= y * x
    BY <1>1, <1>2, TimesMonotone
  <2>2. y * (q + 1) = y * q + y
    BY <1>1
  <2>3. y * x = x * y
    OBVIOUS
  <2> QED BY <1>1, <2>1, <2>2, <2>3
<1>3. ASSUME x <= q PROVE x * y <= n
  <2>1. y * x <= y * q
    BY <1>1, <1>3, TimesMonotone
  <2> QED BY <1>1, <2>1
<1>4. x > q \/ x <= q
  BY <1>1
<1>5. x * y \in Int /\ n \in Int
  OBVIOUS
<1>6. x > q <=> x * y > n
  BY <1>1, <1>2, <1>3, <1>4, <1>5
<1> QED BY <1>6 DEF q

(* add_overflow_ll without builtins.                                       *)
THEOREM AddExact ==
    ASSUME NEW x \in LongLong, NEW y \in LongLong
    PROVE  AddOutOfRange(x, y) <=> x + y \notin LongLong
BY MaxAssumption DEF AddOutOfRange, LongLong, LLONG_MIN

LEMMA ProductOfPositives ==
    ASSUME NEW x \in Nat, NEW y \in Nat
    PROVE  x * y \in Nat
BY SMT

LEMMA ProductSigns ==
    ASSUME NEW x \in Int, NEW y \in Int
    PROVE  /\ (- x) * y = - (x * y)
           /\ x * (- y) = - (x * y)
           /\ (- x) * (- y) = x * y
           /\ x * y = y * x
           /\ x * y \in Int
BY SMT

(* mul_overflow_ll without builtins.                                       *)
THEOREM MulExact ==
    ASSUME NEW x \in LongLong, NEW y \in LongLong
    PROVE  MulOutOfRange(x, y) <=> x * y \notin LongLong
<1> USE MaxAssumption
<1>0. /\ x \in Int /\ y \in Int /\ LLONG_MAX \in Nat /\ LLONG_MIN \in Int
      /\ - x \in Int /\ - y \in Int /\ LLONG_MAX + 1 \in Nat
  BY DEF LongLong, LLONG_MIN
<1>1. CASE x > 0 /\ y > 0
  <2>1. Quotient(LLONG_MAX, y) = LLONG_MAX \div y
    BY <1>0, <1>1 DEF Quotient, Magnitude
  <2>2. x > LLONG_MAX \div y <=> x * y > LLONG_MAX
    BY <1>0, <1>1, QuotientExact
  <2>3. x * y \in Nat
    BY <1>0, <1>1, ProductOfPositives
  <2>4. x * y \notin LongLong <=> x * y > LLONG_MAX
    BY <1>0, <2>3 DEF LongLong, LLONG_MIN
  <2> QED BY <1>0, <1>1, <2>1, <2>2, <2>4 DEF MulOutOfRange
<1>2. CASE x > 0 /\ y < 0
  <2>1. Quotient(LLONG_MIN, x) = - ((LLONG_MAX + 1) \div x)
    BY <1>0, <1>2 DEF Quotient, Magnitude, LLONG_MIN
  <2>2. - y > (LLONG_MAX + 1) \div x <=> (- y) * x > LLONG_MAX + 1
    BY <1>0, <1>2, QuotientExact
  <2>3. (- y) * x \in Nat
    BY <1>0, <1>2, ProductOfPositives
  <2>4. (- y) * x = - (x * y)
    BY <1>0, ProductSigns
  <2>5. x * y \notin LongLong <=> x * y < LLONG_MIN
    BY <1>0, <2>3, <2>4, ProductSigns DEF LongLong, LLONG_MIN
  <2>6. (LLONG_MAX + 1) \div x \in Nat
    BY <1>0, <1>2, DivisionBounds
  <2>7. y < Quotient(LLONG_MIN, x) <=> x * y < LLONG_MIN
    BY <1>0, <2>1, <2>2, <2>4, <2>6, ProductSigns DEF LLONG_MIN
  <2> QED BY <1>0, <1>2, <2>5, <2>7 DEF MulOutOfRange
<1>3. CASE x < 0 /\ y > 0
  <2>1. Quotient(LLONG_MIN, y) = - ((LLONG_MAX + 1) \div y)
    BY <1>0, <1>3 DEF Quotient, Magnitude, LLONG_MIN
  <2>2. - x > (LLONG_MAX + 1) \div y <=> (- x) * y > LLONG_MAX + 1
    BY <1>0, <1>3, QuotientExact
  <2>3. (- x) * y \in Nat
    BY <1>0, <1>3, ProductOfPositives
  <2>4. (- x) * y = - (x * y)
    BY <1>0, ProductSigns
  <2>5. x * y \notin LongLong <=> x * y < LLONG_MIN
    BY <1>0, <2>3, <2>4, ProductSigns DEF LongLong, LLONG_MIN
  <2>6. (LLONG_MAX + 1) \div y \in Nat
    BY <1>0, <1>3, DivisionBounds
  <2>7. x < Quotient(LLONG_MIN, y) <=> x * y < LLONG_MIN
    BY <1>0, <2>1, <2>2, <2>4, <2>6, ProductSigns DEF LLONG_MIN
  <2> QED BY <1>0, <1>3, <2>5, <2>7 DEF MulOutOfRange
<1>4. CASE x < 0 /\ y < 0
  <2>1. Quotient(LLONG_MAX, x) = - (LLONG_MAX \div (- x))
    BY <1>0, <1>4 DEF Quotient, Magnitude
  <2>2. - y > LLONG_MAX \div (- x) <=> (- y) * (- x) > LLONG_MAX
    BY <1>0, <1>4, QuotientExact
  <2>3. (- y) * (- x) \in Nat
    BY <1>0, <1>4, ProductOfPositives
  <2>4. (- y) * (- x) = x * y
    BY <1>0, ProductSigns
  <2>5. x * y \notin LongLong <=> x * y > LLONG_MAX
    BY <1>0, <2>3, <2>4 DEF LongLong, LLONG_MIN
  <2>6. LLONG_MAX \div (- x) \in Nat
    BY <1>0, <1>4, DivisionBounds
  <2>7. y < Quotient(LLONG_MAX, x) <=> x * y > LLONG_MAX
    BY <1>0, <2>1, <2>2, <2>4, <2>6
  <2> QED BY <1>0, <1>4, <2>5, <2>7 DEF MulOutOfRange
<1>5. CASE x = 0 \/ y = 0
  <2>1. x * y = 0
    BY <1>0, <1>5
  <2> QED BY <1>0, <1>5, <2>1 DEF MulOutOfRange, LongLong, LLONG_MIN
<1> QED BY <1>0, <1>1, <1>2, <1>3, <1>4, <1>5

THEOREM OverflowsExact ==
    ASSUME NEW x \in LongLong, NEW y \in LongLong
    PROVE  /\ AddOverflows(x, y) <=> x + y \notin LongLong
           /\ MulOverflows(x, y) <=> x * y \notin LongLong
BY AddExact, MulExact DEF AddOverflows, MulOverflows

----------------------------------------------------------------------------
(* Where the index is: past the sign; in front of the point in one loop,   *)
(* which is why that loop ends, and behind it in the next; and there is    *)
(* no point in an integer.  All that is left to read are then digits.      *)
Position ==
    /\ Negative(text) => i >= 1
    /\ at = "integer" => ~ HasPoint(text)
    /\ at = "big" => \E k \in i + 1 .. Len(text) : text[k] = Point
    /\ at = "small" => i >= 1 /\ \A k \in i + 1 .. Len(text) : text[k] # Point

IInv == TypeOK /\ Position

LEMMA NumeralFacts ==
    ASSUME NEW s \in Seq(Char), IsNumeral(s)
    PROVE  /\ Len(s) \in Nat /\ Len(s) >= 1
           /\ DOMAIN s = 1 .. Len(s)
           /\ \A k \in 1 .. Len(s) : s[k] \in Char
           /\ \A k \in 1 .. Len(s) : s[k] = Minus => k = 1
           /\ \A j, k \in 1 .. Len(s) : s[j] = Point /\ s[k] = Point => j = k
BY DEF IsNumeral

LEMMA TextFacts ==
    ASSUME IInv
    PROVE  /\ Len(text) \in Nat /\ i \in Nat
           /\ DOMAIN text = 1 .. Len(text)
           /\ \A k \in 1 .. Len(text) : text[k] \in Char
           /\ \A k \in 1 .. Len(text) : text[k] = Minus => k = 1
           /\ \A j, k \in 1 .. Len(text) : text[j] = Point /\ text[k] = Point => j = k
BY NumeralFacts DEF IInv, TypeOK

(* The character at i, unless it is the point, is a digit.                 *)
LEMMA DigitFacts ==
    ASSUME IInv, i < Len(text), text[i + 1] # Point
    PROVE  Digit \in - 9 .. 9
<1>1. i + 1 \in 1 .. Len(text) /\ text[i + 1] \in Char
  BY TextFacts
<1>2. text[i + 1] # Minus
  <2>1. CASE i = 0
    BY <2>1, TextFacts DEF IInv, Position, Negative
  <2>2. CASE i # 0
    BY <2>2, <1>1, TextFacts
  <2> QED BY <2>1, <2>2
<1>3. text[i + 1] - ASCII0 \in 0 .. 9
  BY <1>1, <1>2 DEF Char, ASCII0, Minus, Point
<1> QED BY <1>3 DEF Digit

LEMMA IntegerDigitFacts ==
    ASSUME IInv, at = "integer", i < Len(text)
    PROVE  /\ a \in LongLong /\ 10 \in LongLong /\ Digit \in LongLong
           /\ a \in Int /\ Digit \in Int
<1>1. text[i + 1] # Point
  BY TextFacts DEF IInv, Position, HasPoint
<1>2. Digit \in - 9 .. 9
  BY <1>1, DigitFacts
<1>3. a \in LongLong
  BY DEF IInv, TypeOK
<1> QED BY <1>2, <1>3, MaxAssumption DEF LongLong, LLONG_MIN

LEMMA InitIInv == Init => IInv
<1> SUFFICES ASSUME Init PROVE IInv
  OBVIOUS
<1>1. text \in Seq(Char) /\ IsNumeral(text)
  BY LiteralsAssumption DEF Init
<1>2. /\ Len(text) \in Nat /\ Len(text) >= 1
      /\ DOMAIN text = 1 .. Len(text)
  BY <1>1, NumeralFacts
<1>3. i \in 0 .. Len(text) /\ (Negative(text) => i = 1) /\ (~ Negative(text) => i = 0)
  BY <1>2 DEF Init
<1>4. at = "big" => \E k \in i + 1 .. Len(text) : text[k] = Point
  <2> SUFFICES ASSUME at = "big" PROVE \E k \in i + 1 .. Len(text) : text[k] = Point
    OBVIOUS
  <2>1. PICK k \in 1 .. Len(text) : text[k] = Point
    BY <1>2 DEF Init, HasPoint
  <2>2. Negative(text) => k # 1
    BY <2>1 DEF Negative, Minus, Point
  <2> QED BY <1>2, <1>3, <2>1, <2>2
<1>5. at = "big" => i < Len(text)
  BY <1>2, <1>3, <1>4
<1>6. Position
  BY <1>3, <1>4 DEF Init, Position
<1>7. TypeOK
  <2>1. 0 \in LongLong
    BY MaxAssumption DEF LongLong, LLONG_MIN
  <2> QED BY <1>1, <1>3, <1>5, <2>1 DEF Init, TypeOK
<1> QED BY <1>6, <1>7 DEF IInv

LEMMA StepIInv == IInv /\ [Next]_vars => IInv'
<1> SUFFICES ASSUME IInv, [Next]_vars PROVE IInv'
  OBVIOUS
<1> USE TextFacts
<1>1. CASE BigDigit
  <2>1. text' = text /\ at' = at /\ at = "big" /\ i < Len(text) /\ i' = i + 1
    BY <1>1 DEF BigDigit, IInv, TypeOK
  <2>2. Digit \in - 9 .. 9
    BY <1>1, <2>1, DigitFacts DEF BigDigit
  <2>3. \E k \in i' + 1 .. Len(text) : text[k] = Point
    <3>1. PICK k \in i + 1 .. Len(text) : text[k] = Point
      BY <2>1 DEF IInv, Position
    <3>2. k # i + 1
      BY <1>1, <3>1 DEF BigDigit
    <3> QED BY <2>1, <3>1, <3>2
  <2>4. Position'
    BY <2>1, <2>3 DEF IInv, Position, Negative, HasPoint
  <2>5. i' < Len(text)
    BY <2>1, <2>3
  <2>6. TypeOK'
    BY <1>1, <2>1, <2>2, <2>5 DEF BigDigit, IInv, TypeOK
  <2> QED BY <2>4, <2>6 DEF IInv
<1>2. CASE SkipPoint
  <2>1. /\ text' = text /\ at' = "small" /\ i < Len(text) /\ i' = i + 1
        /\ text[i + 1] = Point
    BY <1>2 DEF SkipPoint, IInv, TypeOK
  <2>2. \A k \in i' + 1 .. Len(text) : text[k] # Point
    <3> SUFFICES ASSUME NEW k \in i' + 1 .. Len(text), text[k] = Point PROVE FALSE
      OBVIOUS
    <3>1. k \in 1 .. Len(text) /\ i + 1 \in 1 .. Len(text) /\ k # i + 1
      BY <2>1
    <3> QED BY <2>1, <3>1
  <2>3. Position'
    BY <2>1, <2>2 DEF IInv, Position, Negative, HasPoint
  <2>4. TypeOK'
    BY <1>2, <2>1 DEF SkipPoint, IInv, TypeOK
  <2> QED BY <2>3, <2>4 DEF IInv
<1>3. CASE SmallDigit
  <2>1. text' = text /\ at' = at /\ at = "small" /\ i < Len(text) /\ i' = i + 1
    BY <1>3 DEF SmallDigit
  <2>2. text[i + 1] # Point
    BY <2>1 DEF IInv, Position
  <2>3. Digit \in - 9 .. 9
    BY <2>1, <2>2, DigitFacts
  <2>4. Position'
    BY <2>1 DEF IInv, Position, Negative, HasPoint
  <2>5. TypeOK'
    BY <1>3, <2>1, <2>3 DEF SmallDigit, IInv, TypeOK
  <2> QED BY <2>4, <2>5 DEF IInv
<1>4. CASE IntegerDigit
  <2>1. text' = text /\ at' = at /\ at = "integer" /\ i < Len(text) /\ i' = i + 1
    BY <1>4 DEF IntegerDigit
  <2>2. 10 * a \in LongLong
    BY <1>4, <2>1, IntegerDigitFacts, OverflowsExact DEF IntegerDigit
  <2>3. 10 * a + Digit \in LongLong
    BY <1>4, <2>1, <2>2, IntegerDigitFacts, OverflowsExact DEF IntegerDigit
  <2>4. Position'
    BY <2>1 DEF IInv, Position, Negative, HasPoint
  <2>5. TypeOK'
    BY <1>4, <2>1, <2>3 DEF IntegerDigit, IInv, TypeOK
  <2> QED BY <2>4, <2>5 DEF IInv
<1>5. CASE ReturnDouble \/ TooLarge \/ ReturnInteger \/ Returned \/ UNCHANGED vars
  BY <1>5 DEF ReturnDouble, TooLarge, ReturnInteger, Returned, vars,
              IInv, TypeOK, Position, Negative, HasPoint
<1> QED BY <1>1, <1>2, <1>3, <1>4, <1>5 DEF Next

(* parse_number() keeps its types: the integer is a long long after every  *)
(* digit, and no character is read behind the end of the text.             *)
THEOREM TypeCorrect == Spec => []TypeOK
<1>1. IInv => TypeOK
  BY DEF IInv
<1> QED BY <1>1, InitIInv, StepIInv, PTL DEF Spec

----------------------------------------------------------------------------
(* Only the checks of the two programs are different.                      *)
LEMMA SameProgram ==
    /\ Builtin!Digit = Digit /\ Builtin!Point = Point
    /\ Builtin!LongLong = LongLong
    /\ Builtin!Init <=> Init
BY DEF Builtin!Digit, Builtin!Point, Builtin!ASCII0, Builtin!Minus, Builtin!Negative,
       Builtin!HasPoint, Builtin!LongLong, Builtin!LLONG_MIN, Builtin!Init,
       Digit, Point, ASCII0, Minus, Negative, HasPoint, LongLong, LLONG_MIN, Init

LEMMA SameChecks ==
    ASSUME IInv, at = "integer", i < Len(text)
    PROVE  /\ MulOverflows(a, 10) <=> Builtin!MulOverflows(a, 10)
           /\ ~ MulOverflows(a, 10) =>
                  (AddOverflows(10 * a, Digit) <=> Builtin!AddOverflows(10 * a, Digit))
<1>1. MulOverflows(a, 10) <=> a * 10 \notin LongLong
  BY IntegerDigitFacts, OverflowsExact
<1>2. 10 * a \in LongLong =>
          (AddOverflows(10 * a, Digit) <=> 10 * a + Digit \notin LongLong)
  BY IntegerDigitFacts, OverflowsExact
<1>3. a * 10 = 10 * a
  BY IntegerDigitFacts
<1>4. Builtin!MulOverflows(a, 10) <=> a * 10 \notin LongLong
  BY SameProgram DEF Builtin!MulOverflows
<1>5. Builtin!AddOverflows(10 * a, Digit) <=> 10 * a + Digit \notin LongLong
  BY SameProgram DEF Builtin!AddOverflows
<1> QED BY <1>1, <1>2, <1>3, <1>4, <1>5

(* A step taken with range checks is one taken with the builtins.          *)
LEMMA StepImplements == IInv /\ [Next]_vars => [Builtin!Next]_Builtin!vars
<1> SUFFICES ASSUME IInv, Next PROVE Builtin!Next
  BY DEF vars, Builtin!vars
<1>1. CASE IntegerDigit
  <2>1. Builtin!IntegerDigit
    BY <1>1, SameProgram, SameChecks DEF IntegerDigit, Builtin!IntegerDigit
  <2> QED BY <2>1 DEF Builtin!Next
<1>2. CASE TooLarge
  <2>1. Builtin!TooLarge
    BY <1>2, SameProgram, SameChecks DEF TooLarge, Builtin!TooLarge
  <2> QED BY <2>1 DEF Builtin!Next
<1>3. CASE BigDigit
  <2>1. Builtin!BigDigit
    BY <1>3, SameProgram DEF BigDigit, Builtin!BigDigit
  <2> QED BY <2>1 DEF Builtin!Next
<1>4. CASE SkipPoint
  <2>1. Builtin!SkipPoint
    BY <1>4, SameProgram DEF SkipPoint, Builtin!SkipPoint
  <2> QED BY <2>1 DEF Builtin!Next
<1>5. CASE SmallDigit
  <2>1. Builtin!SmallDigit
    BY <1>5, SameProgram DEF SmallDigit, Builtin!SmallDigit
  <2> QED BY <2>1 DEF Builtin!Next
<1>6. CASE ReturnDouble \/ ReturnInteger
  <2>1. Builtin!ReturnDouble \/ Builtin!ReturnInteger
    BY <1>6 DEF ReturnDouble, ReturnInteger, Builtin!ReturnDouble, Builtin!ReturnInteger
  <2> QED BY <2>1 DEF Builtin!Next
<1>7. CASE Returned
  <2>1. Builtin!Returned
    BY <1>7 DEF Returned, Done, vars, Builtin!Returned, Builtin!Done, Builtin!vars
  <2> QED BY <2>1 DEF Builtin!Next
<1> QED BY <1>1, <1>2, <1>3, <1>4, <1>5, <1>6, <1>7 DEF Next

(* With the range checks of src/miscutil.c, which are exact by the theorem *)
(* above, parse_number() implements parse_number() with the builtins: the  *)
(* program does not depend on the compiler's half of the file.             *)
THEOREM PortableImplementsBuiltin == Spec => ImplementsBuiltin
<1>1. Init => Builtin!Init
  BY SameProgram
<1> QED BY <1>1, InitIInv, StepIInv, StepImplements, PTL
        DEF Spec, ImplementsBuiltin, Builtin!Spec
----------------------------------------------------------------------------
(* A set of numbers has a least one: an induction is a least exception.    *)
LEMMA NatLeast ==
    ASSUME NEW T, T \subseteq Nat, T # {}
    PROVE  \E n \in T : \A m \in T : n <= m
<1> DEFINE Below(n) == 0 .. n
           F == {Below(n) : n \in T}
           R == StrictSubsetOrdering(Nat)
<1>1. F \subseteq FiniteSubsetsOf(Nat)
  <2> SUFFICES ASSUME NEW n \in T PROVE Below(n) \in FiniteSubsetsOf(Nat)
    OBVIOUS
  <2>1. IsFiniteSet(Below(n)) /\ Below(n) \subseteq Nat
    BY FS_Interval
  <2> QED BY <2>1 DEF FiniteSubsetsOf
<1>2. PICK x \in F : \A y \in F : <<y, x>> \notin R
  <2>1. IsWellFoundedOn(R, FiniteSubsetsOf(Nat)) BY FS_StrictSubsetOrderingWellFounded
  <2>2. F # {} OBVIOUS
  <2> QED BY <2>1, <2>2, <1>1, WFMin
<1>3. PICK n \in T : x = Below(n) BY <1>2
<1>4. ASSUME NEW m \in T, m < n PROVE FALSE
  <2>1. Below(m) \subseteq Below(n) /\ Below(m) # Below(n)
    BY <1>4
  <2>2. <<Below(m), Below(n)>> \in R
    BY <2>1 DEF StrictSubsetOrdering
  <2> QED BY <2>2, <1>2, <1>3
<1> QED BY <1>4

(* One digit more.                                                         *)
Append10(c, r) == IF IsDigit(c) THEN 10 * r + (c - ASCII0) ELSE r

Reads(f, s, n) ==
    f = [k \in 0 .. n |-> IF k = 0 THEN 0
                          ELSE IF IsDigit(s[k]) THEN 10 * f[k - 1] + (s[k] - ASCII0)
                          ELSE f[k - 1]]

LEMMA ReadsFacts ==
    ASSUME NEW f, NEW s, NEW n \in Nat
    PROVE  Reads(f, s, n) <=>
               f = [k \in 0 .. n |-> IF k = 0 THEN 0 ELSE Append10(s[k], f[k - 1])]
BY DEF Reads, Append10

LEMMA ReadsSteps ==
    ASSUME NEW f, NEW s, NEW n \in Nat, Reads(f, s, n)
    PROVE  f[0] = 0 /\ \A k \in 1 .. n : f[k] = Append10(s[k], f[k - 1])
<1> DEFINE Part(k) == IF k = 0 THEN 0 ELSE Append10(s[k], f[k - 1])
<1>1. \A k \in 0 .. n : f[k] = Part(k)
  <2>1. f = [k \in 0 .. n |-> Part(k)]
    BY ReadsFacts
  <2> HIDE DEF Part
  <2> QED BY <2>1
<1>2. f[0] = Part(0)
  BY <1>1
<1>3. ASSUME NEW k \in 1 .. n PROVE f[k] = Append10(s[k], f[k - 1])
  <2>1. k \in 0 .. n /\ k # 0
    OBVIOUS
  <2>2. f[k] = Part(k)
    BY <1>1, <2>1
  <2> QED BY <2>1, <2>2
<1> QED BY <1>2, <1>3

(* The definition of Reading has a solution: a least n without one would   *)
(* have one that extends the one of n - 1.                                 *)
LEMMA ReadsExists ==
    ASSUME NEW s, NEW n \in Nat
    PROVE  \E f : Reads(f, s, n)
<1> SUFFICES ASSUME ~ \E f : Reads(f, s, n) PROVE FALSE
  OBVIOUS
<1> DEFINE T == {m \in Nat : ~ \E f : Reads(f, s, m)}
<1>1. PICK m \in T : \A k \in T : m <= k
  <2>1. T \subseteq Nat /\ n \in T
    OBVIOUS
  <2> HIDE DEF T
  <2> QED BY <2>1, NatLeast
<1>2. CASE m = 0
  <2> DEFINE f == [k \in 0 .. 0 |-> 0]
  <2>1. f = [k \in 0 .. 0 |-> IF k = 0 THEN 0 ELSE Append10(s[k], f[k - 1])]
    OBVIOUS
  <2>2. Reads(f, s, 0)
    BY <2>1, ReadsFacts
  <2> QED BY <1>2, <2>2
<1>3. CASE m # 0
  <2>1. m - 1 \in Nat /\ m - 1 \notin T /\ m \in Nat
    BY <1>1, <1>3
  <2>2. PICK f : Reads(f, s, m - 1)
    BY <2>1
  <2> DEFINE h == [k \in 0 .. m |-> IF k = m THEN Append10(s[m], f[m - 1]) ELSE f[k]]
             Part(k) == IF k = 0 THEN 0 ELSE Append10(s[k], h[k - 1])
  <2>3. f[0] = 0 /\ \A k \in 1 .. m - 1 : f[k] = Append10(s[k], f[k - 1])
    BY <2>1, <2>2, ReadsSteps
  <2>4. h[m] = Append10(s[m], f[m - 1]) /\ \A k \in 0 .. m - 1 : h[k] = f[k]
    <3>1. m \in 0 .. m /\ \A k \in 0 .. m - 1 : k \in 0 .. m /\ k # m
      BY <2>1
    <3>2. h[m] = Append10(s[m], f[m - 1])
      BY <3>1
    <3>3. \A k \in 0 .. m - 1 : h[k] = f[k]
      BY <3>1
    <3> QED BY <3>2, <3>3
  <2>5. ASSUME NEW k \in 0 .. m PROVE h[k] = Part(k)
    <3> HIDE DEF h
    <3>1. CASE k = 0
      <4>1. h[0] = 0
        BY <2>1, <2>3, <2>4
      <4> QED BY <3>1, <4>1
    <3>2. CASE k = m
      <4>1. h[m - 1] = f[m - 1]
        BY <2>1, <2>4
      <4> QED BY <1>3, <2>4, <3>2, <4>1
    <3>3. CASE k # 0 /\ k # m
      <4>1. k \in 1 .. m - 1 /\ k \in 0 .. m - 1 /\ k - 1 \in 0 .. m - 1
        BY <2>1, <3>3
      <4>2. h[k] = f[k] /\ h[k - 1] = f[k - 1] /\ f[k] = Append10(s[k], f[k - 1])
        BY <2>3, <2>4, <4>1
      <4> QED BY <3>3, <4>2
    <3> QED BY <3>1, <3>2, <3>3
  <2>6. h = [k \in 0 .. m |-> Part(k)]
    <3> DEFINE g == [k \in 0 .. m |-> Part(k)]
    <3>1. \A k \in 0 .. m : g[k] = Part(k)
      <4> HIDE DEF Part
      <4> QED OBVIOUS
    <3>2. \A k \in 0 .. m : h[k] = g[k]
      BY <2>5, <3>1
    <3> HIDE DEF Part
    <3> QED BY <3>2
  <2>7. Reads(h, s, m)
    <3> HIDE DEF h
    <3> QED BY <2>1, <2>6, ReadsFacts
  <2> QED BY <2>7
<1> QED BY <1>2, <1>3

LEMMA ReadsAgree ==
    ASSUME NEW s, NEW g, NEW h, NEW m \in Nat, NEW n \in Nat, m <= n, Reads(g, s, m), Reads(h, s, n)
    PROVE  \A k \in 0 .. m : g[k] = h[k]
<1> SUFFICES ASSUME NEW j \in 0 .. m, g[j] # h[j] PROVE FALSE
  OBVIOUS
<1> DEFINE T == {k \in 0 .. m : g[k] # h[k]}
<1>1. PICK k \in T : \A l \in T : k <= l
  <2>1. T \subseteq Nat /\ j \in T
    OBVIOUS
  <2> HIDE DEF T
  <2> QED BY <2>1, NatLeast
<1>2. g[0] = 0 /\ \A l \in 1 .. m : g[l] = Append10(s[l], g[l - 1])
  BY ReadsSteps
<1>3. h[0] = 0 /\ \A l \in 1 .. n : h[l] = Append10(s[l], h[l - 1])
  BY ReadsSteps
<1>4. k # 0
  BY <1>2, <1>3
<1>5. k \in 1 .. m /\ k \in 1 .. n /\ k - 1 \in 0 .. m /\ ~ (k <= k - 1)
  BY <1>4
<1>6. g[k - 1] = h[k - 1]
  BY <1>1, <1>5
<1>7. g[k] = h[k]
  BY <1>2, <1>3, <1>5, <1>6
<1> QED BY <1>7

LEMMA ReadingReads ==
    ASSUME NEW s, NEW n \in Nat
    PROVE  \E f : Reads(f, s, n) /\ Reading(s, n) = f[n]
<1> DEFINE h == CHOOSE f : Reads(f, s, n)
<1>1. Reads(h, s, n)
  BY ReadsExists
<1>2. Reading(s, n) = h[n]
  BY DEF Reading, Reads
<1> QED BY <1>1, <1>2

(* What reading nothing and reading one character more give.               *)
LEMMA ReadingFacts ==
    ASSUME NEW s
    PROVE  Reading(s, 0) = 0 /\ \A n \in Nat : Reading(s, n + 1) = Append10(s[n + 1], Reading(s, n))
<1>1. Reading(s, 0) = 0
  <2>1. PICK f : Reads(f, s, 0) /\ Reading(s, 0) = f[0]
    BY ReadingReads
  <2> QED BY <2>1, ReadsSteps
<1>2. ASSUME NEW n \in Nat PROVE Reading(s, n + 1) = Append10(s[n + 1], Reading(s, n))
  <2>0. n + 1 \in Nat /\ n <= n + 1 /\ n + 1 \in 1 .. n + 1 /\ n \in 0 .. n /\ n + 1 - 1 = n
    OBVIOUS
  <2>1. PICK f : Reads(f, s, n) /\ Reading(s, n) = f[n]
    BY ReadingReads
  <2>2. PICK h : Reads(h, s, n + 1) /\ Reading(s, n + 1) = h[n + 1]
    BY <2>0, ReadingReads
  <2>3. f[n] = h[n]
    BY <2>0, <2>1, <2>2, ReadsAgree
  <2>4. \A k \in 1 .. n + 1 : h[k] = Append10(s[k], h[k - 1])
    BY <2>0, <2>2, ReadsSteps
  <2>5. PICK q \in Nat : q = n + 1 /\ q - 1 = n /\ q \in 1 .. n + 1
    BY <2>0
  <2>6. h[q] = Append10(s[q], h[n])
    BY <2>4, <2>5
  <2> QED BY <2>1, <2>2, <2>3, <2>5, <2>6
<1> QED BY <1>1, <1>2

LEMMA Append10Facts ==
    ASSUME NEW c, NEW r \in Nat
    PROVE  Append10(c, r) \in Nat /\ r <= Append10(c, r)
<1>1. CASE IsDigit(c)
  <2>1. c - ASCII0 \in 0 .. 9
    BY <1>1 DEF IsDigit, ASCII0
  <2>2. Append10(c, r) = 10 * r + (c - ASCII0)
    BY <1>1 DEF Append10
  <2> QED BY <2>1, <2>2
<1>2. CASE ~ IsDigit(c)
  BY <1>2 DEF Append10
<1> QED BY <1>1, <1>2

(* It is a number, which further characters can only make larger.          *)
LEMMA ReadingIsNat ==
    ASSUME NEW s, NEW n \in Nat
    PROVE  Reading(s, n) \in Nat
<1> SUFFICES ASSUME Reading(s, n) \notin Nat PROVE FALSE
  OBVIOUS
<1> DEFINE T == {k \in Nat : Reading(s, k) \notin Nat}
<1>1. PICK k \in T : \A l \in T : k <= l
  <2>1. T \subseteq Nat /\ n \in T
    OBVIOUS
  <2> HIDE DEF T
  <2> QED BY <2>1, NatLeast
<1>2. k # 0
  BY ReadingFacts
<1>3. PICK j \in Nat : k = j + 1
  BY <1>2
<1>4. Reading(s, j) \in Nat
  BY <1>1, <1>3
<1>5. Reading(s, j + 1) = Append10(s[j + 1], Reading(s, j))
  BY ReadingFacts
<1>6. Reading(s, j + 1) \in Nat
  BY <1>4, <1>5, Append10Facts
<1> QED BY <1>3, <1>6

LEMMA ReadingGrows ==
    ASSUME NEW s, NEW m \in Nat, NEW n \in Nat, m <= n
    PROVE  Reading(s, m) <= Reading(s, n)
<1> SUFFICES ASSUME ~ (Reading(s, m) <= Reading(s, n)) PROVE FALSE
  OBVIOUS
<1> DEFINE T == {k \in m .. n : ~ (Reading(s, m) <= Reading(s, k))}
<1>1. PICK k \in T : \A l \in T : k <= l
  <2>1. T \subseteq Nat /\ n \in T
    OBVIOUS
  <2> HIDE DEF T
  <2> QED BY <2>1, NatLeast
<1>2. k # m
  BY ReadingIsNat
<1>3. PICK j \in Nat : k = j + 1
  BY <1>2
<1>4. j \in m .. n /\ ~ (k <= j)
  BY <1>2, <1>3
<1>5. Reading(s, m) <= Reading(s, j)
  BY <1>1, <1>4
<1>6. Reading(s, j + 1) = Append10(s[j + 1], Reading(s, j))
  BY ReadingFacts
<1>7. /\ Reading(s, m) \in Nat /\ Reading(s, j) \in Nat /\ Reading(s, j + 1) \in Nat
      /\ Reading(s, j) <= Reading(s, j + 1)
  BY <1>6, ReadingIsNat, Append10Facts
<1>8. Reading(s, m) <= Reading(s, j + 1)
  BY <1>5, <1>7
<1> QED BY <1>3, <1>8

LEMMA PowerOfTenFacts ==
    /\ PowerOfTen(0) = 1
    /\ \A n \in Nat : PowerOfTen(n) \in Nat /\ PowerOfTen(n + 1) = 10 * PowerOfTen(n)
<1>1. OneAndZeros[1] = ASCII0 + 1 /\ \A n \in Nat : OneAndZeros[n + 1 + 1] = ASCII0
  <2>1. \A n \in Nat : n + 1 + 1 \in Nat /\ n + 1 + 1 # 1
    OBVIOUS
  <2> QED BY <2>1 DEF OneAndZeros
<1>2. PowerOfTen(0) = 1
  <2>1. 0 \in Nat /\ 0 + 1 = 1
    OBVIOUS
  <2>2. Reading(OneAndZeros, 0 + 1) = Append10(OneAndZeros[0 + 1], Reading(OneAndZeros, 0))
    BY <2>1, ReadingFacts
  <2>3. Reading(OneAndZeros, 1) = Append10(ASCII0 + 1, 0)
    BY <1>1, <2>1, <2>2, ReadingFacts
  <2>4. Append10(ASCII0 + 1, 0) = 1
    BY DEF Append10, IsDigit, ASCII0
  <2> QED BY <2>1, <2>3, <2>4 DEF PowerOfTen
<1>3. ASSUME NEW n \in Nat
      PROVE  PowerOfTen(n) \in Nat /\ PowerOfTen(n + 1) = 10 * PowerOfTen(n)
  <2>1. n + 1 \in Nat
    OBVIOUS
  <2>2. Reading(OneAndZeros, n + 1) \in Nat
    BY <2>1, ReadingIsNat
  <2>3. Reading(OneAndZeros, n + 1 + 1)
            = Append10(OneAndZeros[n + 1 + 1], Reading(OneAndZeros, n + 1))
    BY <2>1, ReadingFacts
  <2>4. OneAndZeros[n + 1 + 1] = ASCII0
    BY <1>1
  <2>5. ASSUME NEW r \in Nat PROVE Append10(ASCII0, r) = 10 * r
    BY DEF Append10, IsDigit, ASCII0
  <2> QED BY <2>2, <2>3, <2>4, <2>5 DEF PowerOfTen
<1> QED BY <1>2, <1>3

(* What has been read of the number so far, of the digits before the point *)
(* and behind it; and why a literal is rejected: its first i + 1           *)
(* characters are out of range already.                                    *)
SoFar == Signed(text, Reading(text, i))

IntegerRead ==
    /\ at \in {"integer", "AST_INTEGER"} => a = SoFar
    /\ at = "AST_INTEGER" => i = Len(text)
    /\ at = "overflow" => i < Len(text) /\ Signed(text, Reading(text, i + 1)) \notin LongLong

DoubleRead ==
    /\ at = "big" => big = SoFar /\ small = 0 /\ e = 0
    /\ at \in {"small", "AST_DOUBLE"} =>
           /\ big * PowerOfTen(e) + small = SoFar
           /\ e < i /\ text[i - e] = Point
    /\ at = "AST_DOUBLE" => i = Len(text)

VInv == IInv /\ IntegerRead /\ DoubleRead

(* One digit more, with the literal's sign.                                *)
LEMMA DigitRead ==
    ASSUME IInv, i < Len(text), text[i + 1] # Point
    PROVE  Signed(text, Reading(text, i + 1)) = 10 * SoFar + Digit /\ SoFar \in Int /\ Digit \in Int
<1>1. i \in Nat /\ i + 1 \in 1 .. Len(text) /\ text[i + 1] \in Char
  BY TextFacts
<1>2. text[i + 1] # Minus
  <2>1. CASE i = 0
    BY <2>1, TextFacts DEF IInv, Position, Negative
  <2>2. CASE i # 0
    BY <2>2, <1>1, TextFacts
  <2> QED BY <2>1, <2>2
<1>3. IsDigit(text[i + 1]) /\ text[i + 1] \in Int
  BY <1>1, <1>2 DEF Char, IsDigit, ASCII0, Minus, Point
<1>4. Reading(text, i) \in Nat
  BY <1>1, ReadingIsNat
<1>5. Reading(text, i + 1) = Append10(text[i + 1], Reading(text, i))
  BY <1>1, ReadingFacts
<1>6. Reading(text, i + 1) = 10 * Reading(text, i) + (text[i + 1] - ASCII0)
  BY <1>3, <1>5 DEF Append10
<1> DEFINE r == Reading(text, i)
           d == text[i + 1] - ASCII0
<1>7. r \in Int /\ d \in Int
  BY <1>3, <1>4 DEF ASCII0
<1>8. SoFar = IF Negative(text) THEN - r ELSE r
  BY DEF SoFar, Signed
<1>9. Digit = IF Negative(text) THEN - d ELSE d
  BY DEF Digit
<1>10. Signed(text, Reading(text, i + 1)) = IF Negative(text) THEN - (10 * r + d) ELSE 10 * r + d
  BY <1>6 DEF Signed
<1> HIDE DEF r, d
<1> QED BY <1>7, <1>8, <1>9, <1>10

(* The sign and the point add nothing.                                     *)
LEMMA OtherRead ==
    ASSUME NEW s, NEW n \in Nat, ~ IsDigit(s[n + 1])
    PROVE  Reading(s, n + 1) = Reading(s, n)
BY ReadingFacts DEF Append10

LEMMA ShiftedProduct ==
    ASSUME NEW x \in Int, NEW p \in Int
    PROVE  x * (10 * p) = 10 * (x * p) /\ x * p \in Int /\ x * 1 = x
BY SMT

(* The checks fail exactly when the number with that digit is out of       *)
(* range: the digit has the sign of what was read before it, so it cannot  *)
(* bring a product that is out of range back into it.                      *)
LEMMA TooLargeFacts ==
    ASSUME IInv, at = "integer", i < Len(text), a = SoFar,
           MulOverflows(a, 10) \/ AddOverflows(10 * a, Digit)
    PROVE  10 * a + Digit \notin LongLong
<1>1. /\ a \in LongLong /\ 10 \in LongLong /\ Digit \in LongLong
      /\ a \in Int /\ Digit \in Int
  BY IntegerDigitFacts
<1>2. text[i + 1] # Point
  BY TextFacts DEF IInv, Position, HasPoint
<1>3. Digit \in - 9 .. 9 /\ (Negative(text) => Digit <= 0) /\ (~ Negative(text) => Digit >= 0)
  <2>1. i + 1 \in 1 .. Len(text) /\ text[i + 1] \in Char
    BY TextFacts
  <2>2. text[i + 1] # Minus
    <3>1. CASE i = 0
      BY <3>1, TextFacts DEF IInv, Position, Negative
    <3>2. CASE i # 0
      BY <3>2, <2>1, TextFacts
    <3> QED BY <3>1, <3>2
  <2>3. text[i + 1] - ASCII0 \in 0 .. 9
    BY <1>2, <2>1, <2>2 DEF Char, ASCII0, Minus, Point
  <2> QED BY <2>3 DEF Digit
<1>4. (Negative(text) => a <= 0) /\ (~ Negative(text) => a >= 0)
  <2>1. Reading(text, i) \in Nat
    BY TextFacts, ReadingIsNat
  <2> QED BY <2>1 DEF SoFar, Signed
<1>5. CASE MulOverflows(a, 10)
  <2>1. a * 10 \notin LongLong
    BY <1>1, <1>5, OverflowsExact
  <2>2. a * 10 = 10 * a
    BY <1>1
  <2>3. 10 * a \notin LongLong
    BY <2>1, <2>2
  <2> QED BY <1>1, <1>3, <1>4, <2>3, MaxAssumption DEF LongLong, LLONG_MIN
<1>6. CASE ~ MulOverflows(a, 10)
  <2>1. 10 * a \in LongLong
    BY <1>1, <1>6, OverflowsExact
  <2> QED BY <1>1, <1>6, <2>1, OverflowsExact
<1> QED BY <1>5, <1>6

LEMMA InitVInv == Init => VInv
<1> SUFFICES ASSUME Init PROVE VInv
  OBVIOUS
<1>1. IInv
  BY InitIInv
<1>2. SoFar = 0
  <2>1. CASE Negative(text)
    <3>1. i = 0 + 1 /\ ~ IsDigit(text[0 + 1])
      BY <2>1 DEF Init, Negative, Minus, IsDigit, ASCII0
    <3>2. Reading(text, 0 + 1) = Reading(text, 0)
      BY <3>1, OtherRead
    <3>3. Reading(text, i) = 0
      BY <3>1, <3>2, ReadingFacts
    <3>4. SoFar = - Reading(text, i)
      BY <2>1 DEF SoFar, Signed
    <3>5. \A x, y \in Int : x + y = 0 => x = - y
      OBVIOUS
    <3>6. PICK r \in Int : r = Reading(text, i) /\ 0 + r = 0
      BY <3>3
    <3>7. 0 = - r
      BY <3>5, <3>6
    <3> QED BY <3>4, <3>6, <3>7
  <2>2. CASE ~ Negative(text)
    BY <2>2, ReadingFacts DEF Init, SoFar, Signed
  <2> QED BY <2>1, <2>2
<1>3. IntegerRead
  BY <1>2 DEF Init, IntegerRead
<1>4. DoubleRead
  BY <1>2 DEF Init, DoubleRead
<1> QED BY <1>1, <1>3, <1>4 DEF VInv

LEMMA StepVInv == VInv /\ [Next]_vars => VInv'
<1> SUFFICES ASSUME VInv, [Next]_vars PROVE VInv'
  OBVIOUS
<1> USE TextFacts
<1>1. IInv /\ IInv' /\ i \in Nat
  BY StepIInv DEF VInv
<1>2. CASE BigDigit
  <2>1. /\ text' = text /\ at' = at /\ at = "big" /\ i < Len(text) /\ i' = i + 1
        /\ text[i + 1] # Point /\ small' = small /\ e' = e
        /\ big' = 10 * big + Digit
    BY <1>1, <1>2 DEF BigDigit, IInv, TypeOK
  <2>2. SoFar' = Signed(text, Reading(text, i + 1))
    BY <2>1 DEF SoFar
  <2>3. SoFar' = 10 * SoFar + Digit
    BY <1>1, <2>1, <2>2, DigitRead
  <2>4. big = SoFar /\ small = 0 /\ e = 0
    BY <2>1 DEF VInv, DoubleRead
  <2>5. DoubleRead'
    BY <2>1, <2>3, <2>4 DEF DoubleRead
  <2>6. IntegerRead'
    BY <2>1 DEF IntegerRead
  <2> QED BY <1>1, <2>5, <2>6 DEF VInv
<1>3. CASE SkipPoint
  <2>1. /\ text' = text /\ at = "big" /\ at' = "small" /\ i' = i + 1
        /\ text[i + 1] = Point /\ small' = small /\ e' = e /\ big' = big
    BY <1>3 DEF SkipPoint
  <2>2. ~ IsDigit(text[i + 1])
    BY <2>1 DEF IsDigit, Point, ASCII0
  <2>3. Reading(text, i + 1) = Reading(text, i)
    BY <1>1, <2>2, OtherRead
  <2>4. SoFar' = SoFar
    BY <2>1, <2>3 DEF SoFar
  <2>5. big = SoFar /\ small = 0 /\ e = 0 /\ big \in Int
    BY <1>1, <2>1 DEF VInv, DoubleRead, IInv, TypeOK
  <2>6. big' * PowerOfTen(e') + small' = SoFar'
    BY <2>1, <2>4, <2>5, PowerOfTenFacts, ShiftedProduct
  <2>7. e' < i' /\ text'[i' - e'] = Point
    BY <1>1, <2>1, <2>5
  <2>8. DoubleRead'
    BY <2>1, <2>6, <2>7 DEF DoubleRead
  <2>9. IntegerRead'
    BY <2>1 DEF IntegerRead
  <2> QED BY <1>1, <2>8, <2>9 DEF VInv
<1>4. CASE SmallDigit
  <2>1. /\ text' = text /\ at' = at /\ at = "small" /\ i < Len(text) /\ i' = i + 1
        /\ small' = 10 * small + Digit /\ e' = e + 1 /\ big' = big
    BY <1>4 DEF SmallDigit
  <2>2. text[i + 1] # Point
    BY <1>1, <2>1 DEF IInv, Position
  <2>3. SoFar' = Signed(text, Reading(text, i + 1))
    BY <2>1 DEF SoFar
  <2>4. SoFar' = 10 * SoFar + Digit /\ SoFar \in Int /\ Digit \in Int
    BY <1>1, <2>1, <2>2, <2>3, DigitRead
  <2>5. big * PowerOfTen(e) + small = SoFar /\ e < i /\ text[i - e] = Point
    BY <2>1 DEF VInv, DoubleRead
  <2>6. big \in Int /\ small \in Int /\ e \in Nat
    BY <1>1 DEF IInv, TypeOK
  <2>7. /\ PowerOfTen(e) \in Int /\ PowerOfTen(e + 1) = 10 * PowerOfTen(e)
        /\ big * PowerOfTen(e) \in Int
        /\ big * (10 * PowerOfTen(e)) = 10 * (big * PowerOfTen(e))
    <3>1. PowerOfTen(e) \in Nat /\ PowerOfTen(e + 1) = 10 * PowerOfTen(e)
      BY <2>6, PowerOfTenFacts, Zenon
    <3> QED BY <2>6, <3>1, ShiftedProduct
  <2>8. big' * PowerOfTen(e') + small' = SoFar'
    <3> DEFINE x == big * PowerOfTen(e)
    <3>1. big' * PowerOfTen(e') = 10 * x
      BY <2>1, <2>7
    <3>2. x \in Int /\ x + small = SoFar
      BY <2>5, <2>7
    <3> HIDE DEF x
    <3>3. 10 * x + (10 * small + Digit) = 10 * SoFar + Digit
      BY <2>4, <2>6, <3>2
    <3> QED BY <2>1, <2>4, <3>1, <3>3
  <2>9. e' < i' /\ text'[i' - e'] = Point
    <3>1. i' - e' = i - e
      BY <1>1, <2>1, <2>6
    <3> QED BY <1>1, <2>1, <2>5, <2>6, <3>1
  <2>10. DoubleRead'
    BY <2>1, <2>8, <2>9 DEF DoubleRead
  <2>11. IntegerRead'
    BY <2>1 DEF IntegerRead
  <2> QED BY <1>1, <2>10, <2>11 DEF VInv
<1>5. CASE ReturnDouble
  <2>1. /\ at = "small" /\ at' = "AST_DOUBLE" /\ i >= Len(text)
        /\ UNCHANGED <<text, i, a, big, small, e>>
    BY <1>5 DEF ReturnDouble
  <2>2. SoFar' = SoFar
    BY <2>1 DEF SoFar
  <2>3. i = Len(text)
    <3>1. i \in Nat /\ Len(text) \in Nat /\ i >= Len(text)
      BY <1>1, <2>1
    <3>2. i <= Len(text)
      BY <1>1, <3>1 DEF IInv, TypeOK
    <3> QED BY <3>1, <3>2
  <2>4. DoubleRead'
    BY <2>1, <2>2, <2>3 DEF VInv, DoubleRead
  <2>5. IntegerRead'
    BY <2>1 DEF IntegerRead
  <2> QED BY <1>1, <2>4, <2>5 DEF VInv
<1>6. CASE IntegerDigit
  <2>1. /\ text' = text /\ at' = at /\ at = "integer" /\ i < Len(text) /\ i' = i + 1
        /\ a' = 10 * a + Digit
    BY <1>6 DEF IntegerDigit
  <2>2. text[i + 1] # Point
    BY <1>1, <2>1 DEF IInv, Position, HasPoint
  <2>3. SoFar' = Signed(text, Reading(text, i + 1))
    BY <2>1 DEF SoFar
  <2>4. SoFar' = 10 * SoFar + Digit
    BY <1>1, <2>1, <2>2, <2>3, DigitRead
  <2>5. a = SoFar
    BY <2>1 DEF VInv, IntegerRead
  <2>6. IntegerRead'
    BY <2>1, <2>4, <2>5 DEF IntegerRead
  <2>7. DoubleRead'
    BY <2>1 DEF DoubleRead
  <2> QED BY <1>1, <2>6, <2>7 DEF VInv
<1>7. CASE TooLarge
  <2>1. /\ at = "integer" /\ i < Len(text) /\ at' = "overflow"
        /\ UNCHANGED <<text, i, a, big, small, e>>
        /\ MulOverflows(a, 10) \/ AddOverflows(10 * a, Digit)
    BY <1>7 DEF TooLarge
  <2>2. text[i + 1] # Point
    BY <1>1, <2>1 DEF IInv, Position, HasPoint
  <2>3. a = SoFar
    BY <2>1 DEF VInv, IntegerRead
  <2>4. Signed(text, Reading(text, i + 1)) = 10 * a + Digit
    BY <1>1, <2>1, <2>2, <2>3, DigitRead
  <2>5. 10 * a + Digit \notin LongLong
    BY <1>1, <2>1, <2>3, <2>2, TooLargeFacts
  <2>6. IntegerRead'
    BY <2>1, <2>4, <2>5 DEF IntegerRead, LongLong, LLONG_MIN
  <2>7. DoubleRead'
    BY <2>1 DEF DoubleRead
  <2> QED BY <1>1, <2>6, <2>7 DEF VInv
<1>8. CASE ReturnInteger
  <2>1. /\ at = "integer" /\ at' = "AST_INTEGER" /\ i >= Len(text)
        /\ UNCHANGED <<text, i, a, big, small, e>>
    BY <1>8 DEF ReturnInteger
  <2>2. SoFar' = SoFar
    BY <2>1 DEF SoFar
  <2>3. i = Len(text)
    <3>1. i \in Nat /\ Len(text) \in Nat /\ i >= Len(text)
      BY <1>1, <2>1
    <3>2. i <= Len(text)
      BY <1>1, <3>1 DEF IInv, TypeOK
    <3> QED BY <3>1, <3>2
  <2>4. IntegerRead'
    BY <2>1, <2>2, <2>3 DEF VInv, IntegerRead
  <2>5. DoubleRead'
    BY <2>1 DEF DoubleRead
  <2> QED BY <1>1, <2>4, <2>5 DEF VInv
<1>9. CASE Returned \/ UNCHANGED vars
  <2>1. UNCHANGED vars
    BY <1>9 DEF Returned
  <2>2. SoFar' = SoFar
    BY <2>1 DEF vars, SoFar
  <2>3. IntegerRead' /\ DoubleRead'
    BY <2>1, <2>2 DEF vars, VInv, IntegerRead, DoubleRead
  <2> QED BY <1>1, <2>3 DEF VInv
<1> QED BY <1>2, <1>3, <1>4, <1>5, <1>6, <1>7, <1>8, <1>9 DEF Next

(* A number that is out of range after i + 1 characters stays so: only     *)
(* that is why giving up before the last digit is right.                   *)
LEMMA ValueFacts ==
    ASSUME VInv
    PROVE  ValueIsLiteral
<1>1. IInv /\ i \in Nat /\ Len(text) \in Nat
  BY TextFacts DEF VInv
<1>2. at = "AST_INTEGER" => a = Value(text)
  BY DEF VInv, IntegerRead, SoFar, Value
<1>3. ASSUME at = "overflow" PROVE Value(text) \notin LongLong
  <2>1. i < Len(text) /\ Signed(text, Reading(text, i + 1)) \notin LongLong
    BY <1>3 DEF VInv, IntegerRead
  <2>2. i + 1 \in Nat /\ i + 1 <= Len(text)
    BY <1>1, <2>1
  <2>3. /\ Reading(text, i + 1) \in Nat /\ Reading(text, Len(text)) \in Nat
        /\ Reading(text, i + 1) <= Reading(text, Len(text))
    BY <1>1, <2>2, ReadingIsNat, ReadingGrows
  <2> DEFINE m == Reading(text, i + 1)
             n == Reading(text, Len(text))
  <2>4. CASE Negative(text)
    <3>1. - m \notin LongLong /\ m \in Nat /\ n \in Nat /\ m <= n
      BY <2>1, <2>3, <2>4 DEF Signed
    <3>2. Value(text) = - n
      BY <2>4 DEF Value, Signed
    <3> HIDE DEF m, n
    <3> QED BY <3>1, <3>2, MaxAssumption DEF LongLong, LLONG_MIN
  <2>5. CASE ~ Negative(text)
    <3>1. m \notin LongLong /\ m \in Nat /\ n \in Nat /\ m <= n
      BY <2>1, <2>3, <2>5 DEF Signed
    <3>2. Value(text) = n
      BY <2>5 DEF Value, Signed
    <3> HIDE DEF m, n
    <3> QED BY <3>1, <3>2, MaxAssumption DEF LongLong, LLONG_MIN
  <2> QED BY <2>4, <2>5
<1>4. DoubleIsLiteral
  BY DEF VInv, DoubleRead, SoFar, Value, DoubleIsLiteral
<1> QED BY <1>2, <1>3, <1>4 DEF ValueIsLiteral, IntegerIsLiteral

(* What parse_number() returns is the value of the text, for a long long   *)
(* of any width and a literal of any length, and it rejects a literal only *)
(* when no long long has its value.                                        *)
THEOREM ValueProved == Spec => []ValueIsLiteral
<1> QED BY InitVInv, StepVInv, ValueFacts, PTL DEF Spec
=============================================================================
