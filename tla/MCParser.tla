------------------------------ MODULE MCParser ------------------------------
(* Instances of Parser: the token sequences of at most MaxTokens tokens    *)
(* that tokenize can return, with tokens of one character each.            *)
EXTENDS Parser, SequencesExt

CONSTANTS Kinds, MaxTokens

LevelOf(kinds, n) ==
    Len(SelectSeq(SubSeq(kinds, 1, n), LAMBDA x : x = "open"))
      - Len(SelectSeq(SubSeq(kinds, 1, n), LAMBDA x : x = "close"))

(* Balanced brackets, quotes before words or numbers only, and no two      *)
(* neighbours that are one token to tokenize.                              *)
Lexable(kinds) ==
    LET n == Len(kinds)
    IN  /\ \A k \in 1 .. n : LevelOf(kinds, k) >= 0
        /\ LevelOf(kinds, n) = 0
        /\ \A k \in 1 .. n : kinds[k] = "quote" => k < n /\ kinds[k + 1] \in {"word", "number"}
        /\ \A k \in 1 .. n - 1 : kinds[k] \in {"ws", "word"} => kinds[k + 1] # kinds[k]

(* A bracket's depth counts itself.                                        *)
TokensOf(kinds) ==
    [k \in 1 .. Len(kinds) |->
        [type |-> kinds[k], src_idx |-> k - 1, len |-> 1,
         begin |-> IF kinds[k] \in {"word", "number", "ws"} THEN k - 1 ELSE 0,
         size  |-> IF kinds[k] \in {"word", "number", "ws"} THEN 1 ELSE 0,
         depth |-> CASE kinds[k] = "open" -> LevelOf(kinds, k)
                     [] kinds[k] = "close" -> LevelOf(kinds, k) + 1
                     [] OTHER -> 0]]

MCTokenStreams == {TokensOf(kinds) : kinds \in {s \in BoundedSeq(Kinds, MaxTokens) : Lexable(s)}}
=============================================================================
