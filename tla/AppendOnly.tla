----------------------------- MODULE AppendOnly -----------------------------
(* What a String promises its owner: text that is appended to or emptied.   *)
EXTENDS Sequences

CONSTANT Pieces   (* what is appended at once                               *)

VARIABLE text

AppendPiece == \E piece \in Pieces : text' = text \o piece

Empty == text' = <<>>

Spec == text = <<>> /\ [][AppendPiece \/ Empty]_text
=============================================================================
