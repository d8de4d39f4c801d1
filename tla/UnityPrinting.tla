---------------------------- MODULE UnityPrinting ----------------------------
(***************************************************************************)
(* How src/unity.c prints what an assertion compared: numbers by display   *)
(* style, masks, characters, strings and floats.  Text is a sequence of    *)
(* character codes.                                                        *)
(*                                                                         *)
(* The widths are parameters: a byte has ByteBits bits, UNITY_INT is eight *)
(* bytes wide and an int four, and the digits of UnityPrintFloat() are     *)
(* SigDigits.  In the program they are 8 and 7.                            *)
(***************************************************************************)
EXTENDS Integers, SequencesExt

CONSTANTS ByteBits, SigDigits

ASSUME WidthAssumption == ByteBits \in Nat /\ ByteBits > 0 /\ ByteBits % 2 = 0
ASSUME DigitsAssumption == SigDigits \in Nat /\ SigDigits > 1

(* A style is the width of the number in bytes and how it is shown.        *)
Ranges == {"INT", "UINT", "HEX", "CHAR"}
IsInt(style) == style.range \in {"INT", "CHAR"}      (* the 0x10 flag       *)

Wrap(bytes, n) == n % 2^(bytes * ByteBits)
Sign(bytes, n) ==
    LET m == Wrap(bytes, n) IN
    IF 2 * m >= 2^(bytes * ByteBits) THEN m - 2^(bytes * ByteBits) ELSE m
ToUnsigned(n) == Wrap(8, n)                          (* (UNITY_UINT)n       *)
Bit(k, n) == (n \div 2^k) % 2

(* The divisor grows by ten while more than one digit is left above it.    *)
PrintNumberUnsigned(n) ==
    LET top == CHOOSE k \in 0 .. 8 * ByteBits :
                   n \div 10^k <= 9 /\ \A j \in 0 .. k - 1 : n \div 10^j > 9 IN
    [j \in 1 .. top + 1 |-> 48 + ((n \div 10^(top + 1 - j)) % 10)]

PrintNumber(n) ==
    IF n < 0 THEN <<45>> \o PrintNumberUnsigned(ToUnsigned(-n))
    ELSE PrintNumberUnsigned(n)

(* A nibble is half a byte: as wide as the number's bytes are.             *)
PrintNumberHex(nibblebits, n, nibbles) ==
    LET count == IF nibbles > 16 THEN 16 ELSE nibbles
        Nibble(j) == (n \div 2^(nibblebits * j)) % 2^nibblebits IN
    [j \in 1 .. count |-> LET nibble == Nibble(count - j) IN
                          IF nibble <= 9 THEN 48 + nibble ELSE 55 + nibble]

(* The bits of an int only, although the numbers are as wide as UNITY_INT. *)
PrintMask(mask, n) ==
    LET width == 4 * ByteBits IN
    [j \in 1 .. width |-> IF Bit(width - j, mask) = 0 THEN 88 ELSE 48 + Bit(width - j, n)]

(* Mutant of PrintChar: what cannot be printed is shown by its low digit.  *)
PrintCharLowDigit(c) ==
    CASE c \in 32 .. 126 -> <<c>>
      [] OTHER  -> <<92, 120>> \o PrintNumberHex(4, c % 256, 1)

(* The characters of a string are signed and have eight bits.              *)
PrintChar(c) ==
    CASE c \in 32 .. 126 -> <<c>>
      [] c = 13 -> <<92, 114>>
      [] c = 10 -> <<92, 110>>
      [] OTHER  -> <<92, 120>> \o PrintNumberHex(4, c % 256, 2)

PrintQuoted(c) == <<39>> \o PrintChar(c) \o <<39>>

PrintString(s) == FlattenSeq([j \in 1 .. Len(s) |-> PrintChar(s[j])])

PrintStringLen(s, length) ==
    PrintString(SubSeq(s, 1, IF length < Len(s) THEN length ELSE Len(s)))

(* The numbers of style CHAR are narrow: they are shown as any character.  *)
PrintHexByStyle(n, style) ==
    <<48, 120>> \o PrintNumberHex(ByteBits \div 2, ToUnsigned(n), 2 * style.bytes)

PrintIntByStyle(n, style) ==
    CASE style.range = "CHAR" -> PrintQuoted(n)
      [] style.range = "INT"  -> PrintNumber(n)
      [] style.range = "UINT" -> PrintNumberUnsigned(ToUnsigned(n))
      [] OTHER                -> PrintHexByStyle(n, style)

PrintUintByStyle(n, style) ==
    IF style.range = "UINT" THEN PrintNumberUnsigned(n) ELSE PrintHexByStyle(n, style)

-----------------------------------------------------------------------------
(* A float is "NaN", "Inf", "NegInf" or "finite": num millionths, exactly. *)
(* The rounding of float arithmetic itself is left out.                    *)
Unit == 10^6
Precision(num) == num \div 10^5              (* num * UNITY_FLOAT_PRECISION *)
Finite(num) == [kind |-> "finite", num |-> num]
Special(kind) == [kind |-> kind, num |-> 0]

Magnitude(num) == IF num < 0 THEN -num ELSE num
MinScaled == 10^(SigDigits - 1)
MaxScaled == 10^SigDigits
LeastExponent(Enough(_)) ==
    CHOOSE k \in 0 .. 40 : Enough(k) /\ \A j \in 0 .. k - 1 : ~Enough(j)

(* p / q, rounded to the nearest integer, to the even one of two.          *)
RoundDivide(p, q) ==
    LET twice == (2 * p) \div q
        n == (twice + 1) \div 2 IN
    IF n % 2 = 1 /\ twice % 2 = 1 /\ twice * q = 2 * p THEN n - 1 ELSE n

(* Small numbers are scaled up and large ones down until SigDigits digits  *)
(* are before the point; in between the integer part is split off first,   *)
(* so that only the fraction is rounded.                                   *)
Scale(num) ==
    IF num < Unit
    THEN LET k == LeastExponent(LAMBDA e : num * 10^e >= MinScaled * Unit) IN
         [n |-> RoundDivide(num * 10^k, Unit), exponent |-> -k]
    ELSE IF num > MaxScaled * Unit
    THEN LET k == LeastExponent(LAMBDA e : num <= MaxScaled * Unit * 10^e) IN
         [n |-> RoundDivide(num, Unit * 10^k), exponent |-> k]
    ELSE LET k == LeastExponent(LAMBDA e : (num \div Unit) * 10^e >= MinScaled) IN
         [n |-> (num \div Unit) * 10^k + RoundDivide((num % Unit) * 10^k, Unit),
          exponent |-> -k]

(* Mutant of Carry: the exponent stays what it was before the rounding.    *)
CarryNoExponent(s) ==
    IF s.n >= MaxScaled THEN [n |-> MinScaled, exponent |-> s.exponent] ELSE s

(* Rounding may have added a digit.                                        *)
Carry(s) ==
    IF s.n >= MaxScaled THEN [n |-> MinScaled, exponent |-> s.exponent + 1] ELSE s

Digits(n, least) ==
    LET count == LeastExponent(LAMBDA e : n < 10^e /\ e >= least) IN
    [j \in 1 .. count |-> 48 + ((n \div 10^(count - j)) % 10)]

(* Where the point is: so many digits from the end.                        *)
Places(exponent) ==
    IF exponent <= 0 /\ exponent >= -(SigDigits + 3) THEN -exponent ELSE SigDigits - 1
TrailingZeros(n, places) ==
    CHOOSE z \in 0 .. places : n % 10^z = 0 /\ (z = places \/ n % 10^(z + 1) # 0)

WithPoint(digits, decimals) ==
    LET point == Len(digits) - decimals IN
    IF decimals = 0 THEN digits
    ELSE SubSeq(digits, 1, point) \o <<46>> \o SubSeq(digits, point + 1, Len(digits))
Decimal(n, decimals) == WithPoint(Digits(n, decimals + 1), decimals)
Truncated(n, places, zeros) == Decimal(n \div 10^zeros, places - zeros)

Power(exponent) ==
    CASE exponent = 0 -> <<>>
      [] exponent < 0 -> <<101, 45>> \o Digits(-exponent, 2)
      [] exponent > 0 -> <<101, 43>> \o Digits(exponent, 2)

PrintScaled(n, exponent, places) ==
    Truncated(n, places, TrailingZeros(n, places)) \o Power(exponent + places)
PrintPositive(num) ==
    LET s == Carry(Scale(num)) IN PrintScaled(s.n, s.exponent, Places(s.exponent))

(* What is nearer to zero than the precision is shown as zero.             *)
PrintFloat(f) ==
    CASE f.kind = "NaN"    -> <<78>>
      [] f.kind = "Inf"    -> <<73>>
      [] f.kind = "NegInf" -> <<45, 73>>
      [] OTHER             ->
          IF Magnitude(f.num) < Precision(Unit) THEN <<48>>
          ELSE (IF f.num < 0 THEN <<45>> ELSE <<>>) \o PrintPositive(Magnitude(f.num))

-----------------------------------------------------------------------------
(* Reading the printed text back: what the properties compare it with.     *)
DigitValue(c) == IF c >= 65 THEN c - 55 ELSE c - 48
ValueIn(radix, text) == FoldLeft(LAMBDA value, c : value * radix + DigitValue(c), 0, text)

ReadNumber(text) ==
    IF Head(text) = 45 THEN -ValueIn(10, Tail(text))
    ELSE IF Len(text) > 1 /\ text[2] = 120 THEN
             ValueIn(2^(ByteBits \div 2), SubSeq(text, 3, Len(text)))
    ELSE ValueIn(10, text)

Before(c, text) == IF Contains(text, c) THEN SubSeq(text, 1, SelectInSeq(text, LAMBDA d : d = c) - 1)
                   ELSE text
After(c, text) == IF Contains(text, c)
                  THEN SubSeq(text, SelectInSeq(text, LAMBDA d : d = c) + 1, Len(text))
                  ELSE <<>>

(* The millionths a decimal text stands for; -1 if it has finer decimals.  *)
ReadMillionths(text) ==
    LET mantissa == Before(101, text)
        power == After(101, text)
        exponent == CASE power = <<>> -> 0
                      [] Head(power) = 45 -> -ValueIn(10, Tail(power))
                      [] OTHER -> ValueIn(10, Tail(power))
        decimals == Len(After(46, mantissa))
        value == ValueIn(10, Before(46, mantissa) \o After(46, mantissa))
        places == 6 + exponent - decimals IN
    IF places < 0 THEN -1 ELSE value * 10^places
=============================================================================
