-------------------------- MODULE EvaluatorMeaning --------------------------
(***************************************************************************)
(* What a program means, by recursion on its forms and without any stack:  *)
(* the reference that the stacks of Evaluator are checked against.         *)
(***************************************************************************)
EXTENDS Evaluator

(* How an evaluation ends, with which value, before which form, and what   *)
(* the last of the forms it evaluated was.                                 *)
Outcome(kind, v, next, last) == [kind |-> kind, value |-> v, next |-> next, last |-> last]

Bound(w) == w \in DOMAIN RootBindings
IsOperative(form) ==
    form.kind = "word" /\ Bound(form.id) /\ RootBindings[form.id].type = "op"
Constant(form) ==
    IF form.kind = "data" THEN [type |-> "data", id |-> form.id] ELSE RootBindings[form.id]
OperativeOf(form) == RootBindings[form.id].id

RECURSIVE Expression(_, _, _), Arguments(_, _, _, _, _), Block(_, _, _, _)

(* The expression that starts at the k-th form.                            *)
Expression(forms, k, last) ==
    IF k > Len(forms) THEN Outcome("panic", Nil, k, last)
    ELSE IF forms[k].kind = "word" /\ ~ Bound(forms[k].id) THEN Outcome("error", Nil, k, last)
    ELSE IF ~ IsOperative(forms[k])
    THEN Outcome("done", Constant(forms[k]), k + 1, Constant(forms[k]))
    ELSE Arguments(forms, k + 1, OperativeOf(forms[k]), <<>>, RootBindings[forms[k].id])

(* A call of op, given args, whose other arguments start at the k-th form. *)
Arguments(forms, k, op, args, last) ==
    IF Len(args) < Arity[op]
    THEN LET arg == Expression(forms, k, last)
         IN  IF arg.kind = "done"
             THEN Arguments(forms, arg.next, op, Append(args, arg.value), arg.last)
             ELSE arg
    ELSE IF op \in Builtin THEN Outcome("done", Apply(op, args), k, last)
    ELSE [Block(Body[op], 1, Nil, last) EXCEPT !.next = k]

(* The rest of a block from its k-th form, its value so far being v.       *)
Block(forms, k, v, last) ==
    IF k > Len(forms) THEN Outcome("done", v, k, last)
    ELSE LET e == Expression(forms, k, last)
         IN  IF e.kind = "done" THEN Block(forms, e.next, e.value, e.last) ELSE e

(* The stack machine computes the program's value, finds the same unbound  *)
(* word, and gives up on the same incomplete call.  The value it computes  *)
(* is not the one it returns: src/main.c:227 returns the value of the last *)
(* form evaluated.  Hence the exception, that the caller gets the meaning  *)
(* of the program only where that form's value is it: not after a call of  *)
(* zero, second or set whose value is another, and not for no forms.       *)
OutcomeCorrect ==
    pc \in {"done", "error", "panic"} =>
        LET meaning == Block(Program, 1, Nil, Indeterminate)
        IN  /\ pc = meaning.kind
            /\ pc = "done" => value = meaning.value /\ result = meaning.last

-----------------------------------------------------------------------------
RECURSIVE OpenCalls(_, _), OpenArguments(_, _, _, _)

(* The calls that wait for arguments when the forms from the k-th on have  *)
(* been read, the outermost first, each with the values of the complete    *)
(* expressions behind its word.                                            *)
OpenCalls(forms, k) ==
    IF k > Len(forms) THEN <<>>
    ELSE LET e == Expression(forms, k, Nil)
         IN  IF e.kind = "done" THEN OpenCalls(forms, e.next)
             ELSE OpenArguments(forms, k + 1, OperativeOf(forms[k]), <<>>)

(* The same for a call of op that has args and goes on at the k-th form.   *)
OpenArguments(forms, k, op, args) ==
    IF k > Len(forms) THEN <<[op |-> op, args |-> args]>>
    ELSE LET e == Expression(forms, k, Nil)
         IN  IF e.kind = "done"
             THEN OpenArguments(forms, e.next, op, Append(args, e.value))
             ELSE <<[op |-> op, args |-> args]>>
                      \o OpenArguments(forms, k + 1, OperativeOf(forms[k]), <<>>)

Walked == SubSeq(fstack[cur].forms, 1, fstack[cur].walk)

(* src/main.c:162: the value of a function is propagated up the chain of   *)
(* frames, through any number of them.  Whenever a frame goes on, also     *)
(* after the functions that it called have ended, the calls that wait in   *)
(* it are those that its forms have left open, and what they were given is *)
(* what the expressions behind their words mean, in order.  The exception  *)
(* is a function that is the last argument of a call: the call is complete *)
(* then and is not run (src/main.c:164), so Programs must have none.       *)
ArgumentsCorrect ==
    pc = "walk" =>
        [n \in 1 .. Len(Calls) |-> [op |-> Calls[n].op, args |-> Calls[n].args]]
            = OpenCalls(Walked, 1)
=============================================================================
