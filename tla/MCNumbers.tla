----------------------------- MODULE MCNumbers -----------------------------
(* An instance of Numbers: all literals of up to MaxLen characters, with    *)
(* some of the digits.                                                      *)
EXTENDS NumbersPortable, SequencesExt

CONSTANTS MaxLen, Digits

MCLiterals ==
    {s \in BoundedSeq({Minus, Point} \cup {ASCII0 + d : d \in Digits}, MaxLen) : IsNumeral(s)}
=============================================================================
