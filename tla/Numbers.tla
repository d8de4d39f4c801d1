------------------------------ MODULE Numbers ------------------------------
(***************************************************************************)
(* parse_number() of src/parsing.c: the value of a number token's text,    *)
(* or an error if it is an integer that a long long cannot hold.  Text     *)
(* characters are ASCII codes; indices are 0-based, so strv_char_at(n) is  *)
(* text[n + 1].  A double is abstracted to the rational it approximates:   *)
(* whole + fraction / 10^e.                                                *)
(***************************************************************************)
EXTENDS Overflow, Sequences

CONSTANT Literals    (* texts of number tokens, as tokenize() makes them    *)

Minus  == 45
Point  == 46
ASCII0 == 48
Char == {Minus, Point} \cup ASCII0 .. ASCII0 + 9

Negative(s) == s[1] = Minus
HasPoint(s) == \E k \in DOMAIN s : s[k] = Point
IsDigit(c)  == c \in ASCII0 .. ASCII0 + 9

(* Lexeme of Tokenizer, for a number.                                      *)
IsNumeral(s) ==
    /\ \E k \in DOMAIN s : IsDigit(s[k])
    /\ \A k \in DOMAIN s : s[k] = Minus => k = 1
    /\ \A j, k \in DOMAIN s : s[j] = Point /\ s[k] = Point => j = k

ASSUME LiteralsAssumption == Literals \subseteq {s \in Seq(Char) : IsNumeral(s)}

VARIABLES
    text,        (* token.as_number                                         *)
    i,           (* the index into it                                       *)
    a,           (* the integer read so far                                 *)
    big, small,  (* the double's digits in front of the point, and behind   *)
    e,           (* how many are behind it                                  *)
    at           (* the loop being run: "integer", "big" or "small"; then   *)
                 (* the result: AST_INTEGER, AST_DOUBLE or "overflow"       *)

vars == <<text, i, a, big, small, e, at>>

Init ==
    /\ text \in Literals
    /\ i = IF Negative(text) THEN 1 ELSE 0
    /\ a = 0 /\ big = 0 /\ small = 0 /\ e = 0
    /\ at = IF HasPoint(text) THEN "big" ELSE "integer"

(* Mutant of Digit: the sign is forgotten.                                 *)
DigitUnsigned == text[i + 1] - ASCII0

(* The digit at i, with the sign of the literal.                           *)
Digit == LET d == text[i + 1] - ASCII0 IN IF Negative(text) THEN - d ELSE d

----------------------------------------------------------------------------
(* Digits before the point, and the point.                                 *)
BigDigit ==
    /\ at = "big" /\ text[i + 1] # Point
    /\ big' = 10 * big + Digit
    /\ i' = i + 1
    /\ UNCHANGED <<text, a, small, e, at>>

SkipPoint ==
    /\ at = "big" /\ text[i + 1] = Point
    /\ i' = i + 1
    /\ at' = "small"
    /\ UNCHANGED <<text, a, big, small, e>>

(* Mutant of SmallDigit: zeros right after the point are not counted.      *)
SmallDigitZerosLost ==
    /\ at = "small" /\ i < Len(text)
    /\ small' = 10 * small + Digit
    /\ e' = IF small' = 0 THEN e ELSE e + 1
    /\ i' = i + 1
    /\ UNCHANGED <<text, a, big, at>>

SmallDigit ==
    /\ at = "small" /\ i < Len(text)
    /\ small' = 10 * small + Digit
    /\ e' = e + 1
    /\ i' = i + 1
    /\ UNCHANGED <<text, a, big, at>>

(* small /= 10.0, e times; big + small is the result.                      *)
ReturnDouble ==
    /\ at = "small" /\ i >= Len(text)
    /\ at' = "AST_DOUBLE"
    /\ UNCHANGED <<text, i, a, big, small, e>>

(* Mutant of IntegerDigit: the sum is not checked.                         *)
IntegerDigitAddUnchecked ==
    /\ at = "integer" /\ i < Len(text)
    /\ ~ MulOverflows(a, 10)
    /\ a' = 10 * a + Digit
    /\ i' = i + 1
    /\ UNCHANGED <<text, big, small, e, at>>

IntegerDigit ==
    /\ at = "integer" /\ i < Len(text)
    /\ ~ MulOverflows(a, 10) /\ ~ AddOverflows(10 * a, Digit)
    /\ a' = 10 * a + Digit
    /\ i' = i + 1
    /\ UNCHANGED <<text, big, small, e, at>>

(* goto overflow: what is left in a is not used.                           *)
TooLarge ==
    /\ at = "integer" /\ i < Len(text)
    /\ MulOverflows(a, 10) \/ AddOverflows(10 * a, Digit)
    /\ at' = "overflow"
    /\ UNCHANGED <<text, i, a, big, small, e>>

ReturnInteger ==
    /\ at = "integer" /\ i >= Len(text)
    /\ at' = "AST_INTEGER"
    /\ UNCHANGED <<text, i, a, big, small, e>>

Done == at \in {"AST_INTEGER", "AST_DOUBLE", "overflow"}

Returned == Done /\ UNCHANGED vars

Next ==
    \/ BigDigit \/ SkipPoint \/ SmallDigit \/ ReturnDouble
    \/ IntegerDigit \/ TooLarge \/ ReturnInteger
    \/ Returned

Spec == Init /\ [][Next]_vars

----------------------------------------------------------------------------
(* Types: the integer is a long long, and a character is read only where   *)
(* there is one, although the loop to the point does not look at the       *)
(* length: strv_char_at would panic.                                       *)
TypeOK ==
    /\ text \in {s \in Seq(Char) : IsNumeral(s)}
    /\ i \in 0 .. Len(text)
    /\ a \in LongLong
    /\ big \in Int /\ small \in Int /\ e \in Nat
    /\ at \in {"integer", "big", "small", "AST_INTEGER", "AST_DOUBLE", "overflow"}
    /\ at = "big" => i < Len(text)

(* The digits among the first n characters of s, read as one number.      *)
Reading(s, n) ==
    LET f[k \in 0 .. n] ==
            IF k = 0 THEN 0
            ELSE IF IsDigit(s[k]) THEN 10 * f[k - 1] + (s[k] - ASCII0)
            ELSE f[k - 1]
    IN  f[n]

Signed(s, n) == IF Negative(s) THEN - n ELSE n

(* The literal's digits read as one decimal number, with its sign.         *)
Value(s) == Signed(s, Reading(s, Len(s)))

(* 10^n, as a decimal number reads: a 1 and n zeros.                       *)
OneAndZeros == [k \in Nat |-> IF k = 1 THEN ASCII0 + 1 ELSE ASCII0]
PowerOfTen(n) == Reading(OneAndZeros, n + 1)

(* An integer is the literal's value, LLONG_MIN included, and a literal is *)
(* rejected exactly when no long long has its value, although the checks   *)
(* are made on every prefix, before and after the next digit is added.     *)
IntegerIsLiteral ==
    /\ at = "AST_INTEGER" => a = Value(text)
    /\ at = "overflow" => Value(text) \notin LongLong

(* A double is the literal's value: the two halves have the same sign,     *)
(* also when the first is empty or 0, and zeros behind the point count.    *)
DoubleIsLiteral ==
    at = "AST_DOUBLE" =>
        /\ big * PowerOfTen(e) + small = Value(text)
        /\ text[Len(text) - e] = Point

(* What parse_number() returns is the value of the text, or there is none. *)
ValueIsLiteral == IntegerIsLiteral /\ DoubleIsLiteral
=============================================================================
