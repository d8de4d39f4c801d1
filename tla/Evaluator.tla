----------------------------- MODULE Evaluator -----------------------------
(***************************************************************************)
(* eval_ast() of src/main.c with the environment of src/runtime/env.c: a   *)
(* tree walker that keeps frames and pending calls on stacks of its own.   *)
(* Operatives are prefix: a word bound to one opens a call, the values     *)
(* after it fill its arguments, and the last argument runs it.             *)
(*                                                                         *)
(* A form is a word to look up or data that evaluates to itself (a quoted  *)
(* word, a number, a frozen block); a value is data, an operative or nil.  *)
(* eval_ast takes any bindings, so the operatives are constants.  main()   *)
(* binds the builtin "identity" only; no builtin makes an OP_FUNCTION yet, *)
(* but eval_ast runs one that it is given.                                 *)
(***************************************************************************)
EXTENDS Naturals, Sequences

CONSTANTS
    Programs,     (* the root blocks to evaluate, sequences of forms        *)
    Word, Data,   (* the words, and the data that forms can be              *)
    Builtin,      (* the operatives of type OP_BUILTIN ...                  *)
    Function,     (* ... and of type OP_FUNCTION                            *)
    Arity,        (* expected_args of each                                  *)
    Body,         (* as_function of each function, a sequence of forms      *)
    Apply(_, _),  (* what a builtin returns for its arguments               *)
    RootBindings, (* the bindings of the root frame: words to values        *)
    FreeRoot,     (* free_root_bindings: TRUE for a file, FALSE in the REPL *)
    SeqSize       (* DEFAULT_SEQ_SIZE                                       *)

Operative == Builtin \cup Function

Form == [kind : {"word"}, id : Word] \cup [kind : {"data"}, id : Data]

Value == [type : {"op"}, id : Operative] \cup [type : {"data"}, id : Data]
            \cup [type : {"nil"}, id : {"nil"}]
Nil == [type |-> "nil", id |-> "nil"]

(* result before its first assignment.                                     *)
Indeterminate == [type |-> "indeterminate", id |-> "indeterminate"]

ASSUME ProgramAssumption ==
    /\ Programs \subseteq Seq(Form)
    /\ Body \in [Function -> Seq(Form)]

ASSUME OperativeAssumption ==
    /\ Builtin \cap Function = {}
    /\ Arity \in [Operative -> Nat]
    /\ DOMAIN RootBindings \subseteq Word
    /\ \A w \in DOMAIN RootBindings : RootBindings[w] \in Value
    /\ FreeRoot \in BOOLEAN
    /\ SeqSize \in Nat \ {0}

ASSUME ApplyAssumption ==
    \A op \in Builtin : \A args \in [1 .. Arity[op] -> Value] : Apply(op, args) \in Value

(* identity, the builtin of default_builtins().                            *)
Identity(args) == args[1]

VARIABLES
    fstack,   (* the FrameStack                                             *)
    fcap,     (* its capacity                                               *)
    cur,      (* the frame f of this iteration, an index in fstack          *)
    value,    (* the value computed last                                    *)
    result,   (* what eval_form returned last; what eval_ast returns        *)
    live,     (* what is allocated and not freed                            *)
    pc        (* "walk": the head of the outer loop; "apply": of the inner; *)
              (* "next": past it; "done", "error", "panic"; "corrupt" once  *)
              (* a write has gone outside the arguments of a call           *)

vars == <<fstack, fcap, cur, value, result, live, pc>>

(* A Call: args_taken is Len(args), args.len is Arity[op].  freed says     *)
(* that args.elements was freed and the call is still on its stack.        *)
Call == [op : Operative, args : Seq(Value), freed : BOOLEAN]

(* Mutant of NewFrame: a function's frame has no parent.                   *)
NewFrameNoParent(forms, bound, parent) ==
    [forms |-> forms, bound |-> bound, parent |-> 0, cstack |-> <<>>, walk |-> 0]

(* A Frame: forms is op.as_function, bound its bindings, parent 0 or an    *)
(* index in fstack, and walk is walk_idx.                                  *)
NewFrame(forms, bound, parent) ==
    [forms |-> forms, bound |-> bound, parent |-> parent, cstack |-> <<>>, walk |-> 0]

NoBindings == [w \in {} |-> Nil]

(* The heap objects that the runtime owns: the fstack array, and for the   *)
(* frame at k its bindings, its cstack array and the arguments of its n-th *)
(* call.  A frame made for a function has no cstack array until a push.    *)
Bindings(k) == [object |-> "bindings", frame |-> k, call |-> 0]
CStack(k)   == [object |-> "cstack", frame |-> k, call |-> 0]
Args(k, n)  == [object |-> "args", frame |-> k, call |-> n]
FStack      == [object |-> "fstack", frame |-> 0, call |-> 0]

Init ==
    /\ \E program \in Programs : fstack = <<NewFrame(program, RootBindings, 0)>>
    /\ fcap = SeqSize
    /\ cur = 1
    /\ value = Nil
    /\ result = Indeterminate
    /\ live = {FStack, Bindings(1), CStack(1)}
    /\ pc = "walk"

----------------------------------------------------------------------------
(* lookup: the bindings of the frame, then of its parents.                 *)
Scope(k) ==
    LET parents[n \in 0 .. Len(fstack)] ==
            IF n = 0 THEN {} ELSE {n} \cup parents[fstack[n].parent]
    IN  parents[k]

IsBound(w) == \E k \in Scope(cur) : w \in DOMAIN fstack[k].bound

Lookup(w) ==
    LET nearest == CHOOSE k \in Scope(cur) :
                      /\ w \in DOMAIN fstack[k].bound
                      /\ \A m \in Scope(cur) : w \in DOMAIN fstack[m].bound => m <= k
    IN  fstack[nearest].bound[w]

Calls == fstack[cur].cstack
Top == Calls[Len(Calls)]

(* Mutant of Full: one argument too late.                                  *)
FullTooLate(c) == Len(c.args) > Arity[c.op]

Full(c) == Len(c.args) = Arity[c.op]

(* The frame under evaluation walks past the form it evaluates.            *)
FormIs(kind) ==
    /\ pc = "walk"
    /\ fstack[cur].walk < Len(fstack[cur].forms)
    /\ fstack[cur].forms[fstack[cur].walk + 1].kind = kind
FormId == fstack[cur].forms[fstack[cur].walk + 1].id

(* c->args.elements[c->args_taken++] = v, c the top call of stack s: the   *)
(* write is in the array or corrupts the heap.                             *)
Writable(s) ==
    s = <<>> \/ (~ s[Len(s)].freed /\ Len(s[Len(s)].args) < Arity[s[Len(s)].op])

(* Mutant of Given: the arguments end up in reverse.                       *)
GivenInFront(s, v) == IF s = <<>> THEN s ELSE [s EXCEPT ![Len(s)].args = <<v>> \o @]

Given(s, v) == IF s = <<>> THEN s ELSE [s EXCEPT ![Len(s)].args = Append(@, v)]
Pop(s) == SubSeq(s, 1, Len(s) - 1)

(* free_runtime.                                                           *)
FreeRuntime ==
    live' = live \ ({FStack} \cup UNION {
                {Bindings(k) : x \in {x \in {k} : FreeRoot \/ k > 1}}
                  \cup {CStack(k)} \cup {Args(k, n) : n \in 1 .. Len(fstack[k].cstack)}
                : k \in 1 .. Len(fstack)})

EvalUnbound ==
    /\ FormIs("word") /\ ~ IsBound(FormId)
    /\ FreeRuntime
    /\ pc' = "error"
    /\ UNCHANGED <<fstack, fcap, cur, value, result>>

(* A value that is no operative is an argument of the call on top.         *)
EvalValue(v) ==
    /\ result' = v /\ value' = v
    /\ fstack' = [fstack EXCEPT ![cur].walk = @ + 1, ![cur].cstack = Given(@, v)]
    /\ pc' = IF Writable(Calls) THEN "apply" ELSE "corrupt"
    /\ UNCHANGED <<fcap, cur, live>>

EvalData ==
    /\ FormIs("data")
    /\ EvalValue([type |-> "data", id |-> FormId])

EvalBoundValue ==
    /\ FormIs("word") /\ IsBound(FormId)
    /\ Lookup(FormId).type # "op"
    /\ EvalValue(Lookup(FormId))

(* Mutant of EvalOperative: only what is no operative becomes the result.  *)
EvalOperativeNoResult ==
    /\ FormIs("word") /\ IsBound(FormId)
    /\ Lookup(FormId).type = "op"
    /\ value' = Lookup(FormId)
    /\ fstack' = [fstack EXCEPT
                    ![cur].walk = @ + 1,
                    ![cur].cstack = Append(@, [op |-> value'.id, args |-> <<>>, freed |-> FALSE])]
    /\ live' = live \cup {CStack(cur), Args(cur, Len(Calls) + 1)}
    /\ pc' = "apply"
    /\ UNCHANGED <<fcap, cur, result>>

EvalOperative ==
    /\ FormIs("word") /\ IsBound(FormId)
    /\ Lookup(FormId).type = "op"
    /\ result' = Lookup(FormId) /\ value' = result'
    /\ fstack' = [fstack EXCEPT
                    ![cur].walk = @ + 1,
                    ![cur].cstack = Append(@, [op |-> result'.id, args |-> <<>>, freed |-> FALSE])]
    /\ live' = live \cup {CStack(cur), Args(cur, Len(Calls) + 1)}
    /\ pc' = "apply"
    /\ UNCHANGED <<fcap, cur>>

(* The inner loop runs the top call while it has all its arguments.        *)
Applying(kind) == pc = "apply" /\ Calls # <<>> /\ Full(Top) /\ Top.op \in kind

(* Mutant of ApplyBuiltin: "if" for the inner "while", so that a call the  *)
(* builtin's value completes is not run.                                   *)
ApplyBuiltinOnce ==
    /\ Applying(Builtin)
    /\ value' = Apply(Top.op, Top.args)
    /\ live' = live \ {Args(cur, Len(Calls))}
    /\ fstack' = [fstack EXCEPT ![cur].cstack = Given(Pop(@), value')]
    /\ pc' = "next"
    /\ UNCHANGED <<fcap, cur, result>>

ApplyBuiltin ==
    /\ Applying(Builtin)
    /\ value' = Apply(Top.op, Top.args)
    /\ live' = live \ {Args(cur, Len(Calls))}
    /\ fstack' = [fstack EXCEPT ![cur].cstack = Given(Pop(@), value')]
    /\ pc' = IF Writable(Pop(Calls)) THEN "apply" ELSE "corrupt"
    /\ UNCHANGED <<fcap, cur, result>>

(* A function gets a frame on top of fstack, its arguments are dropped and *)
(* its call popped.  The push may move the array; then cstack points into  *)
(* the freed one, so the pop is lost on the frame that later iterations    *)
(* see, where the call stays without its arguments.  The loop reads the    *)
(* freed frame once more and ends, unless that makes it run a call: what   *)
(* happens then is not modelled.                                           *)
ApplyFunction ==
    /\ Applying(Function)
    /\ fcap' = IF Len(fstack) = fcap THEN 2 * fcap ELSE fcap
    /\ \E moved \in {m \in BOOLEAN : m => fcap' # fcap} :
          /\ fstack' = Append([fstack EXCEPT ![cur].cstack =
                                  IF moved THEN [@ EXCEPT ![Len(@)].freed = TRUE] ELSE Pop(@)],
                              NewFrame(Body[Top.op], NoBindings, 1))
          /\ pc' = CASE ~ moved                -> "apply"
                     [] moved /\ Writable(Pop(Calls)) -> "next"
                     [] OTHER                  -> "corrupt"
    /\ live' = (live \ {Args(cur, Len(Calls))}) \cup {Bindings(Len(fstack) + 1)}
    /\ UNCHANGED <<cur, value, result>>

(* No call is complete: f becomes the top frame.                           *)
NextIteration ==
    /\ \/ pc = "apply" /\ ~ (Calls # <<>> /\ Full(Top))
       \/ pc = "next"
    /\ cur' = Len(fstack)
    /\ pc' = "walk"
    /\ UNCHANGED <<fstack, fcap, value, result, live>>

AtEnd == pc = "walk" /\ fstack[cur].walk = Len(fstack[cur].forms)

(* A call is still waiting for arguments: panicf.                          *)
PanicIncomplete ==
    /\ AtEnd /\ Calls # <<>>
    /\ pc' = "panic"
    /\ UNCHANGED <<fstack, fcap, cur, value, result, live>>

FreedFrame == {CStack(cur)} \cup {Bindings(k) : k \in {k \in {cur} : FreeRoot \/ Len(fstack) > 1}}

(* Mutant of EndFrame: the bindings of a function's frame are not freed.   *)
EndFrameKeepsFrameBindings ==
    /\ AtEnd /\ Calls = <<>> /\ Len(fstack) > 1
    /\ LET caller == Len(fstack) - 1
           waiting == fstack[caller].cstack
       IN  /\ fstack' = [Pop(fstack) EXCEPT ![caller].cstack = Given(@, value)]
           /\ cur' = caller
           /\ pc' = IF Writable(waiting) THEN "walk" ELSE "corrupt"
    /\ live' = live \ {CStack(cur)}
    /\ UNCHANGED <<fcap, value, result>>

(* Mutant of EndFrame: the caller's call does not get the value.           *)
EndFrameDropsValue ==
    /\ AtEnd /\ Calls = <<>> /\ Len(fstack) > 1
    /\ fstack' = Pop(fstack)
    /\ cur' = Len(fstack) - 1
    /\ pc' = "walk"
    /\ live' = live \ FreedFrame
    /\ UNCHANGED <<fcap, value, result>>

(* A function's frame ends: its value goes to the caller's top call.  That *)
(* call is not run now, even if this was its last argument.                *)
EndFrame ==
    /\ AtEnd /\ Calls = <<>> /\ Len(fstack) > 1
    /\ LET caller == Len(fstack) - 1
           waiting == fstack[caller].cstack
       IN  /\ fstack' = [Pop(fstack) EXCEPT ![caller].cstack = Given(@, value)]
           /\ cur' = caller
           /\ pc' = IF Writable(waiting) THEN "walk" ELSE "corrupt"
    /\ live' = live \ FreedFrame
    /\ UNCHANGED <<fcap, value, result>>

(* The root frame ends: free(fstack.ptr), return result.                   *)
EndRoot ==
    /\ AtEnd /\ Calls = <<>> /\ Len(fstack) = 1
    /\ live' = live \ (FreedFrame \cup {FStack})
    /\ pc' = "done"
    /\ UNCHANGED <<fstack, fcap, cur, value, result>>

(* eval_ast has returned or the process is gone.                           *)
Running == pc \in {"walk", "apply", "next"}
Stopped == ~ Running /\ UNCHANGED vars

Next ==
    \/ EvalUnbound \/ EvalData \/ EvalBoundValue \/ EvalOperative
    \/ ApplyBuiltin \/ ApplyFunction \/ NextIteration
    \/ PanicIncomplete \/ EndFrame \/ EndRoot
    \/ Stopped

Spec == Init /\ [][Next]_vars

----------------------------------------------------------------------------
(* Properties.                                                             *)

Frame == [forms : Seq(Form), bound : {NoBindings, RootBindings}, parent : {0, 1},
          cstack : Seq(Call), walk : Nat]

TypeOK ==
    /\ fstack \in Seq(Frame)
    /\ fcap \in Nat /\ Len(fstack) <= fcap
    /\ cur \in 1 .. Len(fstack)
    /\ value \in Value
    /\ result \in Value \cup {Indeterminate}
    /\ live \subseteq [object : {"fstack", "bindings", "cstack", "args"}, frame : Nat, call : Nat]
    /\ pc \in {"walk", "apply", "next", "done", "error", "panic", "corrupt"}

(* src/main.c:187: a call that has all its arguments has been run before   *)
(* the next form is evaluated, so the form's value has a place to go.      *)
PendingCallsOpen ==
    pc = "walk" => \A n \in 1 .. Len(Calls) : ~ Full(Calls[n]) /\ ~ Calls[n].freed

(* No value is ever written outside the arguments of a call.               *)
ArgumentsInBounds == pc # "corrupt"

(* What is allocated is exactly what the stacks still refer to, so each    *)
(* object is freed once and on time; when eval_ast returns, with a value   *)
(* or an error from any depth of calls, all that is left is the root       *)
(* bindings, and only where the REPL keeps them for the next line.         *)
Owned ==
    {FStack}
    \cup {Bindings(k) : k \in 1 .. Len(fstack)}
    \cup {CStack(k) : k \in {k \in 1 .. Len(fstack) : CStack(k) \in live}}
    \cup UNION {{Args(k, n) : n \in 1 .. Len(fstack[k].cstack)} : k \in 1 .. Len(fstack)}

MemoryOwned ==
    /\ Running => live = Owned /\ CStack(1) \in live
    /\ pc \in {"done", "error"} => live = IF FreeRoot THEN {} ELSE {Bindings(1)}

Program == fstack[1].forms

=============================================================================
