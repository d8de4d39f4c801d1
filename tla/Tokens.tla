------------------------------- MODULE Tokens -------------------------------
(***************************************************************************)
(* The token of include/parsing.h, which tokenize() makes and              *)
(* parse_tokens() consumes.  type merges TokenType with the bracket        *)
(* character; begin and size are the slice as_word, as_whitespace or       *)
(* as_number.  A union member that the type does not select is never read  *)
(* by the code: it is zero here.                                           *)
(***************************************************************************)
EXTENDS Naturals, Sequences

TokenType == {"quote", "word", "open", "close", "ws", "number"}

Token == [type : TokenType, src_idx : Nat, len : Nat,
          begin : Nat, size : Nat, depth : Nat]

IsBracket(t) == t.type \in {"open", "close"}

(* The tokens of s come in the order of the source, without repeats.       *)
InSourceOrder(s) ==
    \A m, n \in 1 .. Len(s) : m < n => s[m].src_idx < s[n].src_idx
=============================================================================
