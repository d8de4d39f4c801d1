--------------------------- MODULE MCErrorReport ---------------------------
(* All errors in one line of a source of up to MaxLen characters.           *)
EXTENDS ErrorReport, SequencesExt

CONSTANT MaxLen

MCErrors ==
    {r \in [source : BoundedSeq(Char, MaxLen), src_idx : 0 .. MaxLen, len : 1 .. MaxLen] :
        IsError(r)}
=============================================================================
