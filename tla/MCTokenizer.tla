---------------------------- MODULE MCTokenizer ----------------------------
(* Instances of Tokenizer.  Every short source over Alphabet, and longer    *)
(* ones over the characters that interact: those of numbers and words, and  *)
(* brackets with what can stand between them.                               *)
EXTENDS Tokenizer, SequencesExt

CONSTANTS Alphabet, MaxLen, MaxFocused

MCSources ==
    BoundedSeq(Alphabet, MaxLen)
    \cup BoundedSeq({"0", ".", "-", "a"}, MaxFocused)
    \cup BoundedSeq({"[", "]", "a", " "}, MaxFocused)
=============================================================================
