------------------------------- MODULE Session -------------------------------
(***************************************************************************)
(* What a user of operative sees of main(): the input is cut into lines    *)
(* (a file is one), each is answered once, in order and by itself, and the *)
(* session ends when the input does.  This is the abstract specification   *)
(* that Interpreter implements; unread is the input not answered yet; what   *)
(* follows the end of the session is never answered.                       *)
(***************************************************************************)
EXTENDS Naturals, Sequences

CONSTANT Answers(_)   (* the outcomes a line can have, from its text alone  *)

VARIABLES
    mode,     (* "file" or "repl"                                           *)
    ending,   (* how the input ends: "eof", "error" or "interrupt"          *)
    unread,   (* what is left of the input                                  *)
    last,     (* the last line answered, and its outcome                    *)
    open      (* "open"; "closed" once main() has returned; "dead" once the *)
              (* process has aborted                                        *)

vars == <<mode, ending, unread, last, open>>

Newlines == {k \in 1 .. Len(unread) : mode = "repl" /\ unread[k] = "n"}
FirstNewline == CHOOSE k \in Newlines : \A m \in Newlines : k <= m

Unanswered == [line |-> <<>>, outcome |-> "none"]

Init == open = "open" /\ last = Unanswered

Answer(line, outcome) ==
    /\ outcome \in Answers(line)
    /\ last' = [line |-> line, outcome |-> outcome]

(* A line that ends in a newline.  The session goes on, unless it panics.  *)
AnswerLine ==
    /\ open = "open" /\ Newlines # {}
    /\ \E outcome \in {"value", "error", "panic"} :
          /\ Answer(SubSeq(unread, 1, FirstNewline - 1), outcome)
          /\ open' = IF outcome = "panic" THEN "dead" ELSE "open"
    /\ unread' = IF open' = "open"
                 THEN SubSeq(unread, FirstNewline + 1, Len(unread)) ELSE <<>>
    /\ UNCHANGED <<mode, ending>>

(* What is left when the input has ended: a file, or the last line.  A     *)
(* REPL whose last line is in error asks for one more, which is empty.     *)
AnswerRest ==
    /\ open = "open" /\ Newlines = {} /\ ending = "eof"
    /\ \E outcome \in {"value", "error", "panic"} :
          /\ Answer(unread, outcome)
          /\ open' = CASE outcome = "panic" -> "dead"
                       [] outcome = "error" /\ mode = "repl" -> "open"
                       [] OTHER -> "closed"
    /\ unread' = <<>>
    /\ UNCHANGED <<mode, ending>>

(* The input breaks off: what was read of the last line is not answered.   *)
BreakOff ==
    /\ open = "open" /\ Newlines = {} /\ ending # "eof"
    /\ open' = IF mode = "repl" /\ ending = "interrupt" THEN "closed" ELSE "dead"
    /\ unread' = <<>>
    /\ UNCHANGED <<mode, ending, last>>

(* assert() on a byte above 127 in the line being typed.                   *)
AbortTyping ==
    /\ open = "open" /\ mode = "repl"
    /\ \E k \in 1 .. Len(unread) :
          unread[k] = "hi" /\ \A m \in 1 .. k - 1 : unread[m] # "n"
    /\ open' = "dead"
    /\ unread' = <<>>
    /\ UNCHANGED <<mode, ending, last>>

Next == AnswerLine \/ AnswerRest \/ BreakOff \/ AbortTyping

Spec == Init /\ [][Next]_vars
=============================================================================
