----------------------------- MODULE Scoreboard -----------------------------
(***************************************************************************)
(* What a test framework promises: a test that runs has not been decided,  *)
(* is decided against it at most once and for good, and is then counted    *)
(* once, under what was decided.                                           *)
(***************************************************************************)
EXTENDS Naturals

VARIABLES verdict, score

Init ==
    /\ verdict = "none"
    /\ score = [passed |-> 0, failed |-> 0, ignored |-> 0]

Start == verdict = "none" /\ verdict' = "open" /\ UNCHANGED score

Decide ==
    /\ verdict = "open"
    /\ verdict' \in {"failed", "ignored"}
    /\ UNCHANGED score

Count ==
    /\ verdict # "none"
    /\ verdict' = "none"
    /\ score' = CASE verdict = "open"    -> [score EXCEPT !.passed = @ + 1]
                  [] verdict = "failed"  -> [score EXCEPT !.failed = @ + 1]
                  [] verdict = "ignored" -> [score EXCEPT !.ignored = @ + 1]

Next == Start \/ Decide \/ Count

Spec == Init /\ [][Next]_<<verdict, score>>
=============================================================================
