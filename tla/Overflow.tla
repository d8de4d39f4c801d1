------------------------------ MODULE Overflow ------------------------------
(***************************************************************************)
(* The checked arithmetic of src/miscutil.c on a long long.  With overflow *)
(* builtins an operation tells whether its exact result is out of range;   *)
(* without them range checks do, which must not overflow themselves.       *)
(***************************************************************************)
EXTENDS Integers

CONSTANTS
    LLONG_MAX,     (* the largest long long                                 *)
    HasBuiltins    (* the compiler is clang or GCC                          *)

(* The operands that parse_number() uses are in range.                     *)
ASSUME MaxAssumption == LLONG_MAX \in Nat /\ LLONG_MAX >= 10
ASSUME HasBuiltinsAssumption == HasBuiltins \in BOOLEAN

LLONG_MIN == - LLONG_MAX - 1
LongLong == LLONG_MIN .. LLONG_MAX

(* C division truncates towards 0, where \div rounds down.                 *)
Magnitude(n) == IF n < 0 THEN - n ELSE n

Quotient(x, y) ==
    LET q == Magnitude(x) \div Magnitude(y)
    IN  IF (x < 0) = (y < 0) THEN q ELSE - q

AddOutOfRange(a, b) ==
    \/ b > 0 /\ a > LLONG_MAX - b
    \/ b < 0 /\ a < LLONG_MIN - b

(* Mutant of MulOutOfRange: no check where a is negative.                  *)
MulOutOfRangePositive(a, b) ==
    \/ a > 0 /\ b > 0 /\ a > Quotient(LLONG_MAX, b)
    \/ a > 0 /\ b < 0 /\ b < Quotient(LLONG_MIN, a)

MulOutOfRange(a, b) ==
    \/ a > 0 /\ b > 0 /\ a > Quotient(LLONG_MAX, b)
    \/ a > 0 /\ b < 0 /\ b < Quotient(LLONG_MIN, a)
    \/ a < 0 /\ b > 0 /\ a < Quotient(LLONG_MIN, b)
    \/ a < 0 /\ b < 0 /\ b < Quotient(LLONG_MAX, a)

(* What add_overflow_ll and mul_overflow_ll return.                        *)
AddOverflows(a, b) == IF HasBuiltins THEN a + b \notin LongLong ELSE AddOutOfRange(a, b)
MulOverflows(a, b) == IF HasBuiltins THEN a * b \notin LongLong ELSE MulOutOfRange(a, b)
=============================================================================
