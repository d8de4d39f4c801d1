--------------------------- MODULE MCInterpreter ---------------------------
(* Instances of Interpreter: every short input, and longer ones over the    *)
(* characters that interact: lines of words, and blocks.                    *)
EXTENDS Interpreter

CONSTANTS Alphabet, MaxLen, MaxFocused

MCName == <<"a">>

Texts ==
    BoundedSeq(Alphabet, MaxLen)
    \cup BoundedSeq({"a", "'", " ", "n"}, MaxFocused)
    \cup BoundedSeq({"a", "[", "]", " "}, MaxFocused + 1)
    \cup BoundedSeq({"0", "~", "'", "a", "n"}, MaxFocused)

MCInputs ==
    [mode : {"repl", "file"}, text : Texts, ending : {"eof"}]
    \cup [mode : {"repl", "file"}, text : BoundedSeq(Alphabet, 2), ending : {"error", "interrupt"}]
=============================================================================
