-------------------------- MODULE EvaluatorProofs --------------------------
(***************************************************************************)
(* Proofs about Evaluator.  The types are correct for any table of         *)
(* builtins and functions; that no call is left complete, and no argument  *)
(* written where there is no room, holds as long as there are no functions *)
(* in the table, as in the program that main() runs.                       *)
(***************************************************************************)
EXTENDS Evaluator, SequenceTheorems, TLAPS

(* The root frame ends every chain of parents.                             *)
RootParent == fstack[1].parent = 0

TInv == TypeOK /\ RootParent

----------------------------------------------------------------------------
LEMMA BodyType == \A op \in Function : Body[op] \in Seq(Form)
BY ProgramAssumption

LEMMA BindingType ==
    ASSUME NEW b \in {NoBindings, RootBindings}, NEW w \in DOMAIN b
    PROVE  b[w] \in Value
BY OperativeAssumption DEF NoBindings

(* lookup() sees the frame it starts from and at most the root frame.      *)
LEMMA ScopeFacts ==
    ASSUME TInv, NEW k \in 1 .. Len(fstack)
    PROVE  Scope(k) = IF fstack[k].parent = 0 THEN {k} ELSE {k, 1}
<1> DEFINE Dom == 0 .. Len(fstack)
           Chain(f) == [n \in Dom |-> IF n = 0 THEN {} ELSE {n} \cup f[fstack[n].parent]]
           g == [n \in Dom |-> IF n = 0 THEN {}
                               ELSE IF fstack[n].parent = 0 THEN {n} ELSE {n, 1}]
           h == CHOOSE f : f = Chain(f)
<1>1. Len(fstack) \in Nat /\ 1 \in 1 .. Len(fstack)
  BY DEF TInv, TypeOK
<1>2. \A n \in 1 .. Len(fstack) : fstack[n].parent \in {0, 1}
  <2> TAKE n \in 1 .. Len(fstack)
  <2>1. fstack[n] \in Frame
    BY DEF TInv, TypeOK
  <2> QED BY <2>1 DEF Frame
<1>3. fstack[1].parent = 0
  BY DEF TInv, RootParent
<1>4. 0 \in Dom /\ 1 \in Dom /\ k \in Dom
  BY <1>1
<1>5. g = Chain(g)
  <2>1. ASSUME NEW n \in Dom PROVE g[n] = Chain(g)[n]
    <3>1. CASE n = 0
      BY <3>1
    <3>2. CASE n # 0
      <4>1. n \in 1 .. Len(fstack) /\ fstack[n].parent \in {0, 1}
        BY <3>2, <1>1, <1>2
      <4>2. g[0] = {} /\ g[1] = {1}
        BY <1>3, <1>4
      <4>3. CASE fstack[n].parent = 0
        BY <3>2, <4>2, <4>3
      <4>4. CASE fstack[n].parent = 1
        BY <3>2, <4>2, <4>4
      <4> QED BY <4>1, <4>3, <4>4
    <3> QED BY <3>1, <3>2
  <2> QED BY <2>1
<1>6. h = Chain(h)
  BY <1>5
<1>7. h[0] = {} /\ \A n \in 1 .. Len(fstack) : h[n] = {n} \cup h[fstack[n].parent]
  <2> HIDE DEF h
  <2>1. \A n \in Dom : h[n] = Chain(h)[n]
    BY <1>6
  <2>2. h[0] = {}
    BY <2>1, <1>4
  <2>3. ASSUME NEW n \in 1 .. Len(fstack) PROVE h[n] = {n} \cup h[fstack[n].parent]
    <3>1. n \in Dom /\ n # 0
      BY <1>1
    <3>2. h[n] = Chain(h)[n]
      BY <2>1, <3>1
    <3> QED BY <3>1, <3>2
  <2> QED BY <2>2, <2>3
<1>8. h[1] = {1}
  <2> HIDE DEF h
  <2>1. h[1] = {1} \cup h[fstack[1].parent]
    BY <1>1, <1>7
  <2> QED BY <2>1, <1>3, <1>7
<1>9. h[k] = IF fstack[k].parent = 0 THEN {k} ELSE {k, 1}
  <2> HIDE DEF h
  <2>1. h[k] = {k} \cup h[fstack[k].parent]
    BY <1>7
  <2> QED BY <2>1, <1>2, <1>7, <1>8
<1>10. Scope(k) = h[k]
  BY DEF Scope
<1> QED BY <1>9, <1>10

(* What a word is bound to is a value.                                     *)
LEMMA LookupFacts ==
    ASSUME TInv, NEW w, IsBound(w)
    PROVE  Lookup(w) \in Value
<1>1. cur \in 1 .. Len(fstack) /\ 1 \in 1 .. Len(fstack)
  BY DEF TInv, TypeOK
<1>2. \A k \in 1 .. Len(fstack) : fstack[k].bound \in {NoBindings, RootBindings}
  <2> TAKE k \in 1 .. Len(fstack)
  <2>1. fstack[k] \in Frame
    BY DEF TInv, TypeOK
  <2> QED BY <2>1 DEF Frame
<1> DEFINE Binds(k) == k \in Scope(cur) /\ w \in DOMAIN fstack[k].bound
           Nearest(k) == /\ w \in DOMAIN fstack[k].bound
                         /\ \A m \in Scope(cur) : w \in DOMAIN fstack[m].bound => m <= k
<1>3. Scope(cur) = IF fstack[cur].parent = 0 THEN {cur} ELSE {cur, 1}
  BY <1>1, ScopeFacts
<1>4. \E k \in Scope(cur) : Nearest(k)
  <2>1. PICK k \in Scope(cur) : w \in DOMAIN fstack[k].bound
    BY DEF IsBound
  <2>2. CASE w \in DOMAIN fstack[cur].bound
    BY <2>2, <1>1, <1>3
  <2>3. CASE w \notin DOMAIN fstack[cur].bound
    BY <2>1, <2>3, <1>1, <1>3
  <2> QED BY <2>2, <2>3
<1> DEFINE nearest == CHOOSE k \in Scope(cur) : Nearest(k)
<1>5. nearest \in Scope(cur) /\ Nearest(nearest)
  BY <1>4
<1>6. nearest \in 1 .. Len(fstack) /\ w \in DOMAIN fstack[nearest].bound
  <2> HIDE DEF nearest
  <2> QED BY <1>1, <1>3, <1>5
<1>7. fstack[nearest].bound[w] \in Value
  <2> HIDE DEF nearest
  <2> QED BY <1>2, <1>6, BindingType
<1>8. Lookup(w) = fstack[nearest].bound[w]
  BY DEF Lookup
<1> QED BY <1>7, <1>8

----------------------------------------------------------------------------
(* The parts of a step on fstack.                                          *)
WithWalk(s, k, n)  == [s EXCEPT ![k].walk = n]
WithCalls(s, k, c) == [s EXCEPT ![k].cstack = c]

LEMMA WithWalkType ==
    ASSUME NEW s \in Seq(Frame), NEW k \in 1 .. Len(s), NEW n \in Nat
    PROVE  /\ WithWalk(s, k, n) \in Seq(Frame)
           /\ Len(WithWalk(s, k, n)) = Len(s)
           /\ \A m \in 1 .. Len(s) : WithWalk(s, k, n)[m].parent = s[m].parent
           /\ \A m \in 1 .. Len(s) : WithWalk(s, k, n)[m].cstack = s[m].cstack
           /\ \A m \in 1 .. Len(s) : /\ WithWalk(s, k, n)[m].forms = s[m].forms
                                     /\ WithWalk(s, k, n)[m].bound = s[m].bound
           /\ WithWalk(s, k, n)[k].walk = n
<1>1. \A m \in 1 .. Len(s) : s[m] \in Frame
  OBVIOUS
<1>2. \A m \in 1 .. Len(s) : WithWalk(s, k, n)[m] = IF m = k THEN [s[k] EXCEPT !.walk = n] ELSE s[m]
  BY DEF WithWalk
<1>3. [s[k] EXCEPT !.walk = n] \in Frame
  BY <1>1 DEF Frame
<1>4. Len(WithWalk(s, k, n)) = Len(s) /\ DOMAIN WithWalk(s, k, n) = 1 .. Len(s)
  BY DEF WithWalk
<1>5. WithWalk(s, k, n) \in Seq(Frame)
  BY <1>1, <1>2, <1>3 DEF WithWalk
<1>6. /\ [s[k] EXCEPT !.walk = n].parent = s[k].parent
      /\ [s[k] EXCEPT !.walk = n].cstack = s[k].cstack
      /\ [s[k] EXCEPT !.walk = n].forms = s[k].forms
      /\ [s[k] EXCEPT !.walk = n].bound = s[k].bound
      /\ [s[k] EXCEPT !.walk = n].walk = n
  BY <1>1 DEF Frame
<1> QED BY <1>2, <1>4, <1>5, <1>6

LEMMA WithCallsType ==
    ASSUME NEW s \in Seq(Frame), NEW k \in 1 .. Len(s), NEW c \in Seq(Call)
    PROVE  /\ WithCalls(s, k, c) \in Seq(Frame)
           /\ Len(WithCalls(s, k, c)) = Len(s)
           /\ \A m \in 1 .. Len(s) : WithCalls(s, k, c)[m].parent = s[m].parent
           /\ WithCalls(s, k, c)[k].cstack = c
           /\ \A m \in 1 .. Len(s) : /\ WithCalls(s, k, c)[m].forms = s[m].forms
                                     /\ WithCalls(s, k, c)[m].bound = s[m].bound
                                     /\ WithCalls(s, k, c)[m].walk = s[m].walk
<1>1. \A m \in 1 .. Len(s) : s[m] \in Frame
  OBVIOUS
<1>2. \A m \in 1 .. Len(s) : WithCalls(s, k, c)[m] = IF m = k THEN [s[k] EXCEPT !.cstack = c] ELSE s[m]
  BY DEF WithCalls
<1>3. [s[k] EXCEPT !.cstack = c] \in Frame
  BY <1>1 DEF Frame
<1>4. Len(WithCalls(s, k, c)) = Len(s)
  BY DEF WithCalls
<1>5. WithCalls(s, k, c) \in Seq(Frame)
  BY <1>1, <1>2, <1>3 DEF WithCalls
<1>6. /\ [s[k] EXCEPT !.cstack = c].parent = s[k].parent
      /\ [s[k] EXCEPT !.cstack = c].cstack = c
      /\ [s[k] EXCEPT !.cstack = c].forms = s[k].forms
      /\ [s[k] EXCEPT !.cstack = c].bound = s[k].bound
      /\ [s[k] EXCEPT !.cstack = c].walk = s[k].walk
  BY <1>1 DEF Frame
<1> QED BY <1>2, <1>4, <1>5, <1>6

LEMMA GivenType ==
    ASSUME NEW c \in Seq(Call), NEW v \in Value
    PROVE  Given(c, v) \in Seq(Call) /\ Len(Given(c, v)) = Len(c)
<1>1. CASE c = <<>>
  BY <1>1 DEF Given
<1>2. CASE c # <<>>
  <2> DEFINE top == c[Len(c)]
             given == [top EXCEPT !.args = Append(@, v)]
  <2>1. Len(c) \in 1 .. Len(c) /\ top \in Call
    BY <1>2
  <2>2. given \in Call
    <3>1. top.args \in Seq(Value)
      BY <2>1 DEF Call
    <3>2. Append(top.args, v) \in Seq(Value)
      BY <3>1
    <3> QED BY <2>1, <3>2 DEF Call
  <2>3. Given(c, v) = [c EXCEPT ![Len(c)] = given]
    BY <1>2, <2>1 DEF Given
  <2> QED BY <2>1, <2>2, <2>3
<1> QED BY <1>1, <1>2

LEMMA PopType ==
    ASSUME NEW S, NEW s \in Seq(S), s # <<>>
    PROVE  /\ Pop(s) \in Seq(S)
           /\ Len(Pop(s)) = Len(s) - 1
           /\ \A k \in 1 .. Len(s) - 1 : Pop(s)[k] = s[k]
<1> DEFINE p == SubSeq(s, 1, Len(s) - 1)
<1>1. Len(s) \in Nat /\ Len(s) >= 1 /\ \A k \in 1 .. Len(s) - 1 : s[k] \in S
  OBVIOUS
<1>2. /\ p \in Seq(S)
      /\ Len(p) = IF 1 <= Len(s) - 1 THEN Len(s) - 1 - 1 + 1 ELSE 0
      /\ \A k \in 1 .. Len(s) - 1 - 1 + 1 : p[k] = s[1 + k - 1]
  BY <1>1, SubSeqProperties
<1>3. Pop(s) = p
  BY DEF Pop
<1> HIDE DEF p
<1>4. Len(p) = Len(s) - 1
  <2>1. CASE Len(s) = 1
    BY <2>1, <1>2
  <2>2. CASE Len(s) > 1
    BY <2>2, <1>1, <1>2
  <2>3. \A k \in Nat : k >= 1 => k = 1 \/ k > 1
    OBVIOUS
  <2>4. Len(s) = 1 \/ Len(s) > 1
    BY <1>1, <2>3
  <2> QED BY <2>1, <2>2, <2>4
<1>5. ASSUME NEW k \in 1 .. Len(s) - 1 PROVE p[k] = s[k]
  <2>1. k \in 1 .. Len(s) - 1 - 1 + 1 /\ 1 + k - 1 = k
    BY <1>1
  <2> QED BY <2>1, <1>2
<1> QED BY <1>2, <1>3, <1>4, <1>5

LEMMA CallsType ==
    ASSUME TInv
    PROVE  Calls \in Seq(Call) /\ \A n \in 1 .. Len(Calls) : Calls[n] \in Call
<1>1. fstack[cur] \in Frame
  BY DEF TInv, TypeOK
<1>2. fstack[cur].cstack \in Seq(Call)
  BY <1>1 DEF Frame
<1> QED BY <1>2 DEF Calls

----------------------------------------------------------------------------
(* Types.                                                                  *)

LEMMA FormFacts ==
    ASSUME TInv, NEW kind, FormIs(kind)
    PROVE  /\ fstack[cur] \in Frame
           /\ fstack[cur].walk + 1 \in 1 .. Len(fstack[cur].forms)
           /\ fstack[cur].forms[fstack[cur].walk + 1] \in Form
           /\ kind = "data" => FormId \in Data
<1>1. fstack[cur] \in Frame
  BY DEF TInv, TypeOK
<1>2. fstack[cur].walk \in Nat /\ fstack[cur].forms \in Seq(Form)
  BY <1>1 DEF Frame
<1>3. fstack[cur].walk + 1 \in 1 .. Len(fstack[cur].forms)
  BY <1>2 DEF FormIs
<1>4. fstack[cur].forms[fstack[cur].walk + 1] \in Form
  BY <1>2, <1>3
<1>5. kind = "data" => FormId \in Data
  BY <1>4 DEF FormIs, FormId, Form
<1> QED BY <1>1, <1>3, <1>4, <1>5

LEMMA EvalValueStep ==
    ASSUME TInv, NEW v \in Value, EvalValue(v)
    PROVE  TInv'
<1> DEFINE s == WithWalk(fstack, cur, fstack[cur].walk + 1)
           t == WithCalls(s, cur, Given(Calls, v))
<1>1. fstack \in Seq(Frame) /\ cur \in 1 .. Len(fstack) /\ fstack[cur] \in Frame
  BY DEF TInv, TypeOK
<1>2. fstack[cur].walk + 1 \in Nat
  BY <1>1 DEF Frame
<1>3. Given(Calls, v) \in Seq(Call)
  BY CallsType, GivenType
<1>4. s \in Seq(Frame) /\ Len(s) = Len(fstack) /\ s[1].parent = fstack[1].parent
      /\ s[cur].cstack = Calls
  BY <1>1, <1>2, WithWalkType DEF Calls
<1>5. t \in Seq(Frame) /\ Len(t) = Len(fstack) /\ t[1].parent = fstack[1].parent
  <2>1. 1 \in 1 .. Len(s) /\ cur \in 1 .. Len(s)
    BY <1>1, <1>4
  <2> HIDE DEF s
  <2> QED BY <1>3, <1>4, <2>1, WithCallsType
<1>6. fstack' = t
  BY <1>1, <1>4 DEF EvalValue, WithWalk, WithCalls, Calls
<1>7. UNCHANGED <<fcap, cur, live>> /\ value' = v /\ result' = v /\ pc' \in {"apply", "corrupt"}
  BY DEF EvalValue
<1> HIDE DEF t
<1>8. TypeOK'
  BY <1>5, <1>6, <1>7 DEF TInv, TypeOK
<1>9. RootParent'
  BY <1>5, <1>6 DEF TInv, RootParent
<1> QED BY <1>8, <1>9 DEF TInv

LEMMA EvalOperativeStep ==
    ASSUME TInv, EvalOperative
    PROVE  TInv'
<1> DEFINE call == [op |-> result'.id, args |-> <<>>, freed |-> FALSE]
           s == WithWalk(fstack, cur, fstack[cur].walk + 1)
           calls == Append(Calls, call)
           t == WithCalls(s, cur, calls)
<1>1. fstack \in Seq(Frame) /\ cur \in 1 .. Len(fstack) /\ fstack[cur] \in Frame
  BY DEF TInv, TypeOK
<1>2. fstack[cur].walk + 1 \in Nat
  BY <1>1 DEF Frame
<1>3. result' \in Value /\ result'.type = "op" /\ value' = result'
  BY LookupFacts DEF EvalOperative
<1>4. result'.id \in Operative
  BY <1>3 DEF Value
<1>5. call \in Call
  BY <1>4 DEF Call
<1>6. calls \in Seq(Call)
  BY <1>5, CallsType
<1>7. s \in Seq(Frame) /\ Len(s) = Len(fstack) /\ s[1].parent = fstack[1].parent
      /\ s[cur].cstack = Calls
  BY <1>1, <1>2, WithWalkType DEF Calls
<1>8. t \in Seq(Frame) /\ Len(t) = Len(fstack) /\ t[1].parent = fstack[1].parent
  <2> HIDE DEF s, calls
  <2> QED BY <1>1, <1>6, <1>7, WithCallsType
<1>9. fstack' = t
  BY <1>1, <1>7 DEF EvalOperative, WithWalk, WithCalls, Calls
<1>10. UNCHANGED <<fcap, cur>> /\ pc' = "apply"
       /\ live' = live \cup {CStack(cur), Args(cur, Len(Calls) + 1)}
  BY DEF EvalOperative
<1>11. CStack(cur) \in [object : {"fstack", "bindings", "cstack", "args"}, frame : Nat, call : Nat]
       /\ Args(cur, Len(Calls) + 1) \in [object : {"fstack", "bindings", "cstack", "args"}, frame : Nat, call : Nat]
  BY <1>1, CallsType DEF CStack, Args
<1> HIDE DEF t
<1>12. TypeOK'
  BY <1>3, <1>8, <1>9, <1>10, <1>11 DEF TInv, TypeOK
<1>13. RootParent'
  BY <1>8, <1>9 DEF TInv, RootParent
<1> QED BY <1>12, <1>13 DEF TInv

(* The call that the inner loop is about to run.                           *)
LEMMA TopFacts ==
    ASSUME TInv, NEW kind, Applying(kind)
    PROVE  /\ Calls # <<>> /\ Len(Calls) \in 1 .. Len(Calls)
           /\ Top \in Call /\ Top.op \in kind
           /\ Top.args \in [1 .. Arity[Top.op] -> Value]
<1>1. Calls # <<>> /\ Full(Top) /\ Top.op \in kind
  BY DEF Applying
<1>2. Len(Calls) \in 1 .. Len(Calls)
  BY <1>1, CallsType
<1>3. Top \in Call
  BY <1>2, CallsType DEF Top
<1>4. Top.args \in Seq(Value)
  BY <1>3 DEF Call
<1>5. Top.args \in [1 .. Len(Top.args) -> Value]
  BY <1>4
<1> QED BY <1>1, <1>2, <1>3, <1>5 DEF Full

LEMMA ApplyBuiltinStep ==
    ASSUME TInv, ApplyBuiltin
    PROVE  TInv'
<1> DEFINE v == Apply(Top.op, Top.args)
           c == Given(Pop(Calls), v)
           t == WithCalls(fstack, cur, c)
<1>1. fstack \in Seq(Frame) /\ cur \in 1 .. Len(fstack) /\ 1 \in 1 .. Len(fstack)
  BY DEF TInv, TypeOK
<1>2. Applying(Builtin)
  BY DEF ApplyBuiltin
<1>3. v \in Value
  BY <1>2, TopFacts, ApplyAssumption
<1>4. Pop(Calls) \in Seq(Call)
  BY <1>2, TopFacts, CallsType, PopType
<1>5. c \in Seq(Call)
  <2> HIDE DEF v
  <2> QED BY <1>3, <1>4, GivenType
<1>6. t \in Seq(Frame) /\ Len(t) = Len(fstack) /\ t[1].parent = fstack[1].parent
  <2> HIDE DEF c
  <2> QED BY <1>1, <1>5, WithCallsType
<1>7. fstack' = t /\ value' = v
  BY DEF ApplyBuiltin, WithCalls, Calls
<1>8. UNCHANGED <<fcap, cur, result>> /\ pc' \in {"apply", "corrupt"} /\ live' \subseteq live
  BY DEF ApplyBuiltin
<1> HIDE DEF t, v
<1>9. TypeOK'
  BY <1>3, <1>6, <1>7, <1>8 DEF TInv, TypeOK
<1>10. RootParent'
  BY <1>6, <1>7 DEF TInv, RootParent
<1> QED BY <1>9, <1>10 DEF TInv

LEMMA ApplyFunctionStep ==
    ASSUME TInv, ApplyFunction
    PROVE  TInv'
<1>1. fstack \in Seq(Frame) /\ cur \in 1 .. Len(fstack) /\ 1 \in 1 .. Len(fstack) /\ fcap \in Nat
      /\ Len(fstack) \in Nat /\ Len(fstack) <= fcap
  BY DEF TInv, TypeOK
<1>2. Applying(Function)
  BY DEF ApplyFunction
<1> DEFINE new == NewFrame(Body[Top.op], NoBindings, 1)
           held == [Calls EXCEPT ![Len(Calls)].freed = TRUE]
           grown == IF Len(fstack) = fcap THEN 2 * fcap ELSE fcap
<1>3. new \in Frame
  <2>1. Body[Top.op] \in Seq(Form)
    BY <1>2, TopFacts, BodyType
  <2>2. <<>> \in Seq(Call)
    OBVIOUS
  <2> QED BY <2>1, <2>2 DEF NewFrame, Frame
<1>4. Pop(Calls) \in Seq(Call)
  BY <1>2, TopFacts, CallsType, PopType
<1>5. held \in Seq(Call)
  <2> DEFINE top == [Calls[Len(Calls)] EXCEPT !.freed = TRUE]
  <2>1. top \in Call
    BY <1>2, TopFacts DEF Top, Call
  <2>2. held = [Calls EXCEPT ![Len(Calls)] = top]
    BY <1>2, TopFacts, CallsType
  <2>3. Len(Calls) \in 1 .. Len(Calls) /\ Calls \in Seq(Call)
    BY <1>2, TopFacts, CallsType
  <2> HIDE DEF held, top
  <2> QED BY <2>1, <2>2, <2>3
<1>6. PICK c \in {Pop(Calls), held} : fstack' = Append(WithCalls(fstack, cur, c), new)
  BY DEF ApplyFunction, WithCalls, Calls
<1> DEFINE t == WithCalls(fstack, cur, c)
<1>7. t \in Seq(Frame) /\ Len(t) = Len(fstack) /\ t[1].parent = fstack[1].parent
  <2>1. c \in Seq(Call)
    BY <1>4, <1>5, <1>6
  <2> QED BY <2>1, <1>1, WithCallsType
<1>8. fstack' = Append(t, new)
  BY <1>6
<1> HIDE DEF t, new
<1>9. fstack' \in Seq(Frame) /\ Len(fstack') = Len(fstack) + 1 /\ fstack'[1].parent = fstack[1].parent
  BY <1>1, <1>3, <1>7, <1>8
<1>10. fcap' = grown /\ UNCHANGED <<cur, value, result>> /\ pc' \in {"apply", "next", "corrupt"}
       /\ live' = (live \ {Args(cur, Len(Calls))}) \cup {Bindings(Len(fstack) + 1)}
  BY DEF ApplyFunction
<1>11. fcap' \in Nat /\ Len(fstack) + 1 <= fcap'
  BY <1>1, <1>10
<1>12. Bindings(Len(fstack) + 1) \in [object : {"fstack", "bindings", "cstack", "args"}, frame : Nat, call : Nat]
  BY <1>1 DEF Bindings
<1>13. live' \subseteq [object : {"fstack", "bindings", "cstack", "args"}, frame : Nat, call : Nat]
  BY <1>10, <1>12 DEF TInv, TypeOK
<1>14. cur' \in 1 .. Len(fstack')
  BY <1>1, <1>9, <1>10
<1>15. TypeOK'
  BY <1>9, <1>10, <1>11, <1>13, <1>14 DEF TInv, TypeOK
<1>16. RootParent'
  BY <1>9 DEF TInv, RootParent
<1> QED BY <1>15, <1>16 DEF TInv

LEMMA EndFrameStep ==
    ASSUME TInv, EndFrame
    PROVE  TInv'
<1> DEFINE caller == Len(fstack) - 1
           c == Given(Pop(fstack)[caller].cstack, value)
           t == WithCalls(Pop(fstack), caller, c)
<1>1. fstack \in Seq(Frame) /\ fstack # <<>> /\ Len(fstack) \in Nat /\ Len(fstack) > 1
      /\ value \in Value /\ fcap \in Nat /\ Len(fstack) <= fcap
  BY DEF TInv, TypeOK, EndFrame
<1>2. Pop(fstack) \in Seq(Frame) /\ Len(Pop(fstack)) = caller /\ Pop(fstack)[1] = fstack[1]
  BY <1>1, PopType
<1>3. caller \in 1 .. Len(Pop(fstack)) /\ 1 \in 1 .. Len(Pop(fstack))
  BY <1>1, <1>2
<1>4. Pop(fstack)[caller].cstack \in Seq(Call)
  <2>1. Pop(fstack)[caller] \in Frame
    BY <1>2, <1>3
  <2> QED BY <2>1 DEF Frame
<1>5. c \in Seq(Call)
  BY <1>1, <1>4, GivenType
<1>6. t \in Seq(Frame) /\ Len(t) = caller /\ t[1].parent = fstack[1].parent
  <2> HIDE DEF c, caller
  <2> QED BY <1>2, <1>3, <1>5, WithCallsType
<1>7. fstack' = t
  BY DEF EndFrame, WithCalls
<1>8. cur' = caller /\ pc' \in {"walk", "corrupt"} /\ UNCHANGED <<fcap, value, result>> /\ live' \subseteq live
  BY DEF EndFrame
<1> HIDE DEF t
<1>9. cur' \in 1 .. Len(fstack') /\ Len(fstack') <= fcap'
  BY <1>1, <1>6, <1>7, <1>8
<1>10. TypeOK'
  BY <1>6, <1>7, <1>8, <1>9 DEF TInv, TypeOK
<1>11. RootParent'
  BY <1>6, <1>7 DEF TInv, RootParent
<1> QED BY <1>10, <1>11 DEF TInv

(* The steps that leave the stacks as they are.                            *)
LEMMA StacksKeptStep ==
    ASSUME TInv, UNCHANGED <<fstack, fcap, value, result>>,
           cur' \in 1 .. Len(fstack), live' \subseteq live,
           pc' \in {"walk", "error", "panic", "done"} \cup {pc}
    PROVE  TInv'
BY DEF TInv, TypeOK, RootParent

LEMMA InitTInv == Init => TInv
<1> SUFFICES ASSUME Init PROVE TInv
  OBVIOUS
<1>1. PICK program \in Programs : fstack = <<NewFrame(program, RootBindings, 0)>>
  BY DEF Init
<1>2. NewFrame(program, RootBindings, 0) \in Frame
  <2>1. program \in Seq(Form) /\ <<>> \in Seq(Call)
    BY ProgramAssumption
  <2> QED BY <2>1 DEF NewFrame, Frame
<1>3. fstack \in Seq(Frame) /\ Len(fstack) = 1 /\ fstack[1].parent = 0
  <2>1. NewFrame(program, RootBindings, 0).parent = 0
    BY DEF NewFrame
  <2> QED BY <1>1, <1>2, <2>1
<1>4. fcap \in Nat /\ fcap >= 1
  BY OperativeAssumption DEF Init
<1>5. {FStack, Bindings(1), CStack(1)}
        \subseteq [object : {"fstack", "bindings", "cstack", "args"}, frame : Nat, call : Nat]
  BY DEF FStack, Bindings, CStack
<1>6. Nil \in Value
  BY DEF Nil, Value
<1>7. TypeOK
  BY <1>3, <1>4, <1>5, <1>6 DEF Init, TypeOK
<1> QED BY <1>3, <1>7 DEF TInv, RootParent

LEMMA NextTInv == TInv /\ [Next]_vars => TInv'
<1> SUFFICES ASSUME TInv, [Next]_vars PROVE TInv'
  OBVIOUS
<1>c. cur \in 1 .. Len(fstack) /\ Len(fstack) \in 1 .. Len(fstack)
  BY DEF TInv, TypeOK
<1>1. CASE EvalUnbound
  BY <1>1, <1>c, StacksKeptStep DEF EvalUnbound, FreeRuntime
<1>2. CASE EvalData
  <2>1. [type |-> "data", id |-> FormId] \in Value
    BY <1>2, FormFacts DEF EvalData, Value
  <2> QED BY <1>2, <2>1, EvalValueStep DEF EvalData
<1>3. CASE EvalBoundValue
  BY <1>3, LookupFacts, EvalValueStep DEF EvalBoundValue
<1>4. CASE EvalOperative
  BY <1>4, EvalOperativeStep
<1>5. CASE ApplyBuiltin
  BY <1>5, ApplyBuiltinStep
<1>6. CASE ApplyFunction
  BY <1>6, ApplyFunctionStep
<1>7. CASE NextIteration
  BY <1>7, <1>c, StacksKeptStep DEF NextIteration
<1>8. CASE PanicIncomplete
  BY <1>8, <1>c, StacksKeptStep DEF PanicIncomplete
<1>9. CASE EndFrame
  BY <1>9, EndFrameStep
<1>10. CASE EndRoot
  BY <1>10, <1>c, StacksKeptStep DEF EndRoot
<1>11. CASE UNCHANGED vars
  BY <1>11, <1>c, StacksKeptStep DEF vars
<1> QED BY <1>1, <1>2, <1>3, <1>4, <1>5, <1>6, <1>7, <1>8, <1>9, <1>10, <1>11
        DEF Next, Stopped

LEMMA TypeInvariance == Spec => []TInv
BY InitTInv, NextTInv, PTL DEF Spec

(* Every word that eval_ast looks up and every call it runs has the types  *)
(* the code takes for granted, for any program, table and nesting.         *)
THEOREM TypeCorrect == Spec => []TypeOK
<1>1. TInv => TypeOK
  BY DEF TInv
<1> QED BY <1>1, TypeInvariance, PTL

----------------------------------------------------------------------------
(* The discipline of pending calls, where every operative is a builtin:    *)
(* the only call that may have all its arguments is the top one, and only  *)
(* while the inner loop is about to run it.                                *)
Disciplined(c, complete) ==
    \A n \in 1 .. Len(c) :
        /\ ~ c[n].freed
        /\ Len(c[n].args) <= Arity[c[n].op]
        /\ Full(c[n]) => complete /\ n = Len(c)

BInv ==
    /\ TInv
    /\ Len(fstack) = 1
    /\ pc \in {"walk", "apply", "done", "error", "panic"}
    /\ Disciplined(Calls, pc = "apply")

LEMMA CallArity ==
    ASSUME NEW c \in Call
    PROVE  /\ Len(c.args) \in Nat /\ Arity[c.op] \in Nat
           /\ c.args \in Seq(Value) /\ c.op \in Operative
BY OperativeAssumption DEF Call

(* A value given to the top of open calls finds room, and may complete it. *)
LEMMA GivenDisciplined ==
    ASSUME NEW c \in Seq(Call), NEW v \in Value, Disciplined(c, FALSE)
    PROVE  Writable(c) /\ Disciplined(Given(c, v), TRUE)
<1>1. CASE c = <<>>
  BY <1>1 DEF Writable, Given, Disciplined
<1>2. CASE c # <<>>
  <2> DEFINE top == c[Len(c)]
             given == [top EXCEPT !.args = Append(@, v)]
  <2>1. Len(c) \in 1 .. Len(c) /\ top \in Call
    BY <1>2
  <2>2. /\ Len(top.args) \in Nat /\ Arity[top.op] \in Nat /\ top.args \in Seq(Value)
    BY <2>1, CallArity
  <2>3. ~ top.freed /\ Len(top.args) <= Arity[top.op] /\ Len(top.args) # Arity[top.op]
    BY <2>1 DEF Disciplined, Full
  <2>4. Writable(c)
    BY <2>2, <2>3 DEF Writable
  <2>5. /\ given.op = top.op /\ ~ given.freed
        /\ Len(given.args) = Len(top.args) + 1
    BY <2>1, <2>2, <2>3 DEF Call
  <2>6. Len(given.args) <= Arity[given.op]
    BY <2>2, <2>3, <2>5
  <2>7. Given(c, v) = [c EXCEPT ![Len(c)] = given]
    BY <1>2, <2>1 DEF Given
  <2> HIDE DEF given
  <2>8. /\ Len(Given(c, v)) = Len(c) /\ Given(c, v)[Len(c)] = given
        /\ \A n \in 1 .. Len(c) : n # Len(c) => Given(c, v)[n] = c[n]
    BY <2>1, <2>7
  <2>9. ASSUME NEW n \in 1 .. Len(c)
        PROVE  /\ ~ Given(c, v)[n].freed
               /\ Len(Given(c, v)[n].args) <= Arity[Given(c, v)[n].op]
               /\ Full(Given(c, v)[n]) => n = Len(c)
    <3>1. CASE n = Len(c)
      BY <3>1, <2>5, <2>6, <2>8
    <3>2. CASE n # Len(c)
      BY <3>2, <2>8 DEF Disciplined
    <3> QED BY <3>1, <3>2
  <2> QED BY <2>4, <2>8, <2>9 DEF Disciplined
<1> QED BY <1>1, <1>2

LEMMA PopDisciplined ==
    ASSUME NEW c \in Seq(Call), c # <<>>, NEW b \in BOOLEAN, Disciplined(c, b)
    PROVE  Pop(c) \in Seq(Call) /\ Disciplined(Pop(c), FALSE)
<1>1. /\ Pop(c) \in Seq(Call) /\ Len(Pop(c)) = Len(c) - 1 /\ Len(c) \in Nat
      /\ \A n \in 1 .. Len(c) - 1 : Pop(c)[n] = c[n]
  BY PopType
<1>2. ASSUME NEW n \in 1 .. Len(Pop(c))
      PROVE  n \in 1 .. Len(c) /\ n # Len(c) /\ Pop(c)[n] = c[n]
  BY <1>1
<1> QED BY <1>1, <1>2 DEF Disciplined

(* The calls of the frame after a step that replaces them, and the rest of *)
(* it after a step that walks past n forms.                                *)
Walks(n) ==
    /\ fstack'[1].forms = fstack[1].forms /\ fstack'[1].bound = fstack[1].bound
    /\ fstack'[1].walk = fstack[1].walk + n

LEMMA CallsReplaced ==
    ASSUME BInv, NEW s \in Seq(Frame), Len(s) = 1, NEW c \in Seq(Call),
           fstack' = WithCalls(s, cur, c), cur' = cur
    PROVE  /\ Len(fstack') = 1 /\ Calls' = c
           /\ fstack'[1].forms = s[1].forms /\ fstack'[1].bound = s[1].bound
           /\ fstack'[1].walk = s[1].walk
<1>1. cur \in 1 .. Len(s)
  BY DEF BInv, TInv, TypeOK
<1>2. Len(WithCalls(s, cur, c)) = 1 /\ WithCalls(s, cur, c)[cur].cstack = c
  BY <1>1, WithCallsType
<1>3. /\ WithCalls(s, cur, c)[1].forms = s[1].forms /\ WithCalls(s, cur, c)[1].bound = s[1].bound
      /\ WithCalls(s, cur, c)[1].walk = s[1].walk
  BY <1>1, WithCallsType
<1> QED BY <1>2, <1>3 DEF Calls

LEMMA InitBInv == Init => BInv
<1> SUFFICES ASSUME Init PROVE BInv
  OBVIOUS
<1>1. PICK program \in Programs : fstack = <<NewFrame(program, RootBindings, 0)>>
  BY DEF Init
<1>2. Len(fstack) = 1 /\ Calls = <<>>
  <2>1. NewFrame(program, RootBindings, 0).cstack = <<>>
    BY DEF NewFrame
  <2>2. fstack[1].cstack = <<>> /\ Len(fstack) = 1
    BY <1>1, <2>1
  <2> QED BY <2>2 DEF Calls, Init
<1>3. TInv
  BY InitTInv
<1>4. pc = "walk" /\ Disciplined(<<>>, pc = "apply")
  BY DEF Init, Disciplined
<1> QED BY <1>2, <1>3, <1>4 DEF BInv

LEMMA EvalValueDisciplined ==
    ASSUME BInv, pc = "walk", NEW v \in Value, EvalValue(v), TInv'
    PROVE  BInv' /\ Len(Calls') = Len(Calls) /\ Calls' = Given(Calls, v) /\ pc' = "apply" /\ Walks(1)
<1> DEFINE s == WithWalk(fstack, cur, fstack[cur].walk + 1)
           c == Given(Calls, v)
<1>1. fstack \in Seq(Frame) /\ cur \in 1 .. Len(fstack) /\ fstack[cur] \in Frame /\ TInv
  <2>1. TInv
    BY DEF BInv
  <2> QED BY <2>1 DEF TInv, TypeOK
<1>2. fstack[cur].walk + 1 \in Nat
  BY <1>1 DEF Frame
<1>3. s \in Seq(Frame) /\ Len(s) = 1 /\ s[cur].cstack = Calls
  BY <1>1, <1>2, WithWalkType DEF BInv, Calls
<1>4. c \in Seq(Call) /\ Len(c) = Len(Calls)
  BY <1>1, CallsType, GivenType
<1>5. Writable(Calls) /\ Disciplined(c, TRUE)
  <2>1. Disciplined(Calls, FALSE)
    BY DEF BInv
  <2> QED BY <1>1, <2>1, CallsType, GivenDisciplined
<1>6. fstack' = WithCalls(s, cur, c) /\ cur' = cur
  BY <1>1, <1>3 DEF EvalValue, WithWalk, WithCalls, Calls
<1>c. c = Given(Calls, v)
  OBVIOUS
<1>w. s[1].forms = fstack[1].forms /\ s[1].bound = fstack[1].bound /\ s[1].walk = fstack[1].walk + 1
  <2>1. cur = 1
    BY <1>1 DEF BInv
  <2> QED BY <2>1, <1>1, <1>2, WithWalkType
<1> HIDE DEF s, c
<1>7. Len(fstack') = 1 /\ Calls' = c
  BY <1>3, <1>4, <1>6, CallsReplaced
<1>8. pc' = "apply"
  BY <1>5 DEF EvalValue
<1>9. Disciplined(Calls, pc = "apply")'
  BY <1>5, <1>7, <1>8 DEF Disciplined, Full
<1>10. Walks(1)
  BY <1>3, <1>4, <1>6, <1>w, CallsReplaced DEF Walks
<1> QED BY <1>4, <1>7, <1>8, <1>9, <1>10, <1>c DEF BInv

LEMMA EvalOperativeDisciplined ==
    ASSUME Function = {}, BInv, EvalOperative, TInv'
    PROVE  /\ BInv' /\ Len(Calls') = Len(Calls) + 1 /\ Walks(1)
           /\ Calls'[Len(Calls')] = [op |-> result'.id, args |-> <<>>, freed |-> FALSE]
           /\ \A n \in 1 .. Len(Calls) : Calls'[n] = Calls[n]
           /\ pc' = "apply" /\ result'.id \in Operative
<1> DEFINE call == [op |-> result'.id, args |-> <<>>, freed |-> FALSE]
           s == WithWalk(fstack, cur, fstack[cur].walk + 1)
           c == Append(Calls, call)
<1>1. fstack \in Seq(Frame) /\ cur \in 1 .. Len(fstack) /\ fstack[cur] \in Frame /\ TInv
  <2>1. TInv
    BY DEF BInv
  <2> QED BY <2>1 DEF TInv, TypeOK
<1>2. fstack[cur].walk + 1 \in Nat
  BY <1>1 DEF Frame
<1>3. s \in Seq(Frame) /\ Len(s) = 1 /\ s[cur].cstack = Calls
  BY <1>1, <1>2, WithWalkType DEF BInv, Calls
<1>4. call \in Call
  <2>1. result' \in Value /\ result'.type = "op"
    BY <1>1, LookupFacts DEF EvalOperative
  <2>2. result'.id \in Operative
    BY <2>1 DEF Value
  <2> QED BY <2>2 DEF Call
<1>o. result'.id \in Operative
  <2>1. result' \in Value /\ result'.type = "op"
    BY <1>1, LookupFacts DEF EvalOperative
  <2> QED BY <2>1 DEF Value
<1>w. s[1].forms = fstack[1].forms /\ s[1].bound = fstack[1].bound /\ s[1].walk = fstack[1].walk + 1
  <2>1. cur = 1
    BY <1>1 DEF BInv
  <2> QED BY <2>1, <1>1, <1>2, WithWalkType
<1>5. Calls \in Seq(Call) /\ c \in Seq(Call) /\ Len(c) = Len(Calls) + 1
      /\ c[Len(c)] = call /\ \A n \in 1 .. Len(Calls) : c[n] = Calls[n]
  <2> HIDE DEF call
  <2> QED BY <1>1, <1>4, CallsType
<1>6. fstack' = WithCalls(s, cur, c) /\ cur' = cur /\ pc' = "apply" /\ pc = "walk"
  BY <1>1, <1>3 DEF EvalOperative, FormIs, WithWalk, WithCalls, Calls
<1>7. Len(call.args) = 0 /\ ~ call.freed /\ Arity[call.op] \in Nat
  BY <1>4, CallArity
<1>8. Disciplined(c, TRUE)
  <2>1. Disciplined(Calls, FALSE)
    BY <1>6 DEF BInv
  <2> HIDE DEF c, call
  <2>2. ASSUME NEW n \in 1 .. Len(c)
        PROVE  ~ c[n].freed /\ Len(c[n].args) <= Arity[c[n].op] /\ (Full(c[n]) => n = Len(c))
    <3>1. CASE n = Len(c)
      BY <3>1, <1>5, <1>7
    <3>2. CASE n # Len(c)
      <4>1. n \in 1 .. Len(Calls)
        BY <3>2, <1>5
      <4> QED BY <4>1, <2>1, <1>5 DEF Disciplined
    <3> QED BY <3>1, <3>2
  <2> QED BY <2>2 DEF Disciplined
<1> HIDE DEF s, c
<1>9. Len(fstack') = 1 /\ Calls' = c
  BY <1>3, <1>5, <1>6, CallsReplaced
<1>10. Disciplined(Calls, pc = "apply")'
  BY <1>6, <1>8, <1>9 DEF Disciplined, Full
<1>11. Walks(1)
  BY <1>3, <1>5, <1>6, <1>w, CallsReplaced DEF Walks
<1> QED BY <1>5, <1>6, <1>9, <1>10, <1>11, <1>o DEF BInv

LEMMA ApplyBuiltinDisciplined ==
    ASSUME BInv, ApplyBuiltin, TInv'
    PROVE  /\ BInv' /\ Len(Calls') = Len(Calls) - 1 /\ Walks(0) /\ pc' = "apply"
           /\ Apply(Top.op, Top.args) \in Value
           /\ Calls' = Given(Pop(Calls), Apply(Top.op, Top.args))
<1> DEFINE v == Apply(Top.op, Top.args)
           c == Given(Pop(Calls), v)
<1>1. fstack \in Seq(Frame) /\ cur \in 1 .. Len(fstack) /\ TInv
  <2>1. TInv
    BY DEF BInv
  <2> QED BY <2>1 DEF TInv, TypeOK
<1>2. Applying(Builtin) /\ pc = "apply"
  BY DEF ApplyBuiltin, Applying
<1>3. v \in Value
  BY <1>1, <1>2, TopFacts, ApplyAssumption
<1>4. Pop(Calls) \in Seq(Call) /\ Disciplined(Pop(Calls), FALSE) /\ Len(Pop(Calls)) = Len(Calls) - 1
  <2>1. Calls # <<>> /\ Calls \in Seq(Call) /\ Disciplined(Calls, TRUE)
    BY <1>1, <1>2, TopFacts, CallsType DEF BInv
  <2> QED BY <2>1, PopDisciplined, PopType
<1>5. c \in Seq(Call) /\ Len(c) = Len(Calls) - 1 /\ Writable(Pop(Calls)) /\ Disciplined(c, TRUE)
  <2> HIDE DEF v
  <2> QED BY <1>3, <1>4, GivenType, GivenDisciplined
<1>6. fstack' = WithCalls(fstack, cur, c) /\ cur' = cur
  BY DEF ApplyBuiltin, WithCalls, Calls
<1>7. pc' = "apply"
  BY <1>5 DEF ApplyBuiltin
<1>c. c = Given(Pop(Calls), Apply(Top.op, Top.args))
  OBVIOUS
<1> HIDE DEF c
<1>8. Len(fstack') = 1 /\ Calls' = c
  BY <1>1, <1>5, <1>6, CallsReplaced DEF BInv
<1>9. Disciplined(Calls, pc = "apply")'
  BY <1>5, <1>7, <1>8 DEF Disciplined, Full
<1>10. Walks(0)
  <2>1. fstack[1] \in Frame
    BY <1>1 DEF BInv
  <2>2. fstack[1].walk \in Nat
    BY <2>1 DEF Frame
  <2>3. /\ fstack'[1].forms = fstack[1].forms /\ fstack'[1].bound = fstack[1].bound
        /\ fstack'[1].walk = fstack[1].walk
    BY <1>1, <1>5, <1>6, CallsReplaced DEF BInv
  <2> QED BY <2>2, <2>3 DEF Walks
<1> QED BY <1>3, <1>5, <1>7, <1>8, <1>9, <1>10, <1>c DEF BInv

(* The steps that leave the calls as they are, with none complete.         *)
LEMMA CallsKeptDisciplined ==
    ASSUME BInv, UNCHANGED <<fstack, cur>>, TInv',
           pc' \in {"walk", "done", "error", "panic"}, Disciplined(Calls, FALSE)
    PROVE  BInv'
<1>1. Calls' = Calls /\ Len(fstack') = 1
  BY DEF Calls, BInv
<1>2. Disciplined(Calls, pc = "apply")'
  BY <1>1 DEF Disciplined, Full
<1> QED BY <1>1, <1>2 DEF BInv

LEMMA NextBInv ==
    ASSUME Function = {}
    PROVE  BInv /\ [Next]_vars => BInv'
<1> SUFFICES ASSUME BInv, [Next]_vars PROVE BInv'
  OBVIOUS
<1>t. TInv /\ TInv' /\ Len(fstack) = 1
  BY NextTInv DEF BInv
<1>c. cur = 1 /\ Len(fstack) = 1
  BY <1>t DEF TInv, TypeOK
<1>w. pc # "apply" => Disciplined(Calls, FALSE)
  BY DEF BInv
<1>1. CASE EvalUnbound
  BY <1>1, <1>t, <1>w, CallsKeptDisciplined DEF EvalUnbound, FormIs
<1>2. CASE EvalData
  <2>1. [type |-> "data", id |-> FormId] \in Value
    BY <1>2, <1>t, FormFacts DEF EvalData, Value
  <2> QED BY <1>2, <2>1, <1>t, EvalValueDisciplined DEF EvalData, FormIs
<1>3. CASE EvalBoundValue
  BY <1>3, <1>t, LookupFacts, EvalValueDisciplined DEF EvalBoundValue, FormIs
<1>4. CASE EvalOperative
  BY <1>4, <1>t, EvalOperativeDisciplined
<1>5. CASE ApplyBuiltin
  BY <1>5, <1>t, ApplyBuiltinDisciplined
<1>6. CASE ApplyFunction
  BY <1>6 DEF ApplyFunction, Applying
<1>7. CASE NextIteration
  <2>1. pc = "apply" /\ ~ (Calls # <<>> /\ Full(Top))
    BY <1>7 DEF NextIteration, BInv
  <2>2. Disciplined(Calls, TRUE)
    BY <2>1 DEF BInv
  <2>3. Disciplined(Calls, FALSE)
    BY <2>1, <2>2 DEF Disciplined, Top
  <2> QED BY <1>7, <2>3, <1>t, <1>c, CallsKeptDisciplined DEF NextIteration
<1>8. CASE PanicIncomplete
  BY <1>8, <1>t, <1>w, CallsKeptDisciplined DEF PanicIncomplete, AtEnd
<1>9. CASE EndFrame
  BY <1>9, <1>c DEF EndFrame
<1>10. CASE EndRoot
  BY <1>10, <1>t, <1>w, CallsKeptDisciplined DEF EndRoot, AtEnd
<1>11. CASE UNCHANGED vars
  <2>1. Calls' = Calls
    BY <1>11 DEF vars, Calls
  <2>2. Disciplined(Calls, pc = "apply")'
    BY <1>11, <2>1 DEF vars, BInv, Disciplined, Full
  <2> QED BY <1>11, <1>t, <2>2 DEF vars, BInv
<1> QED BY <1>1, <1>2, <1>3, <1>4, <1>5, <1>6, <1>7, <1>8, <1>9, <1>10, <1>11
        DEF Next, Stopped

(* main.c:187 is right for every table of builtins, of any arity, and any  *)
(* program: before the next form is evaluated every complete call has run. *)
THEOREM BuiltinCallsOpen ==
    ASSUME Function = {}
    PROVE  Spec => []PendingCallsOpen
<1>1. BInv => PendingCallsOpen
  BY DEF BInv, PendingCallsOpen, Disciplined
<1> QED BY <1>1, InitBInv, NextBInv, PTL DEF Spec

(* With such a table eval_ast never writes outside a call's arguments.     *)
THEOREM BuiltinArgumentsInBounds ==
    ASSUME Function = {}
    PROVE  Spec => []ArgumentsInBounds
<1>1. BInv => ArgumentsInBounds
  BY DEF BInv, ArgumentsInBounds
<1> QED BY <1>1, InitBInv, NextBInv, PTL DEF Spec

----------------------------------------------------------------------------
(* Memory, where every operative is a builtin: the objects of one frame    *)
(* with n pending calls.                                                   *)
Objects(n) == {FStack, Bindings(1), CStack(1)} \cup {Args(1, m) : m \in 1 .. n}

MInv ==
    /\ BInv
    /\ pc \in {"walk", "apply"} => live = Objects(Len(Calls))
    /\ pc \in {"done", "error"} => live = IF FreeRoot THEN {} ELSE {Bindings(1)}

LEMMA ObjectsDiffer ==
    /\ FStack # Bindings(1) /\ FStack # CStack(1) /\ Bindings(1) # CStack(1)
    /\ \A m : Args(1, m) \notin {FStack, Bindings(1), CStack(1)}
    /\ \A m, n : Args(1, m) = Args(1, n) => m = n
BY DEF FStack, Bindings, CStack, Args

LEMMA ObjectsGrow ==
    ASSUME NEW n \in Nat
    PROVE  /\ Objects(n + 1) = Objects(n) \cup {CStack(1), Args(1, n + 1)}
           /\ Objects(n + 1) \ {Args(1, n + 1)} = Objects(n)
<1>1. 1 .. n + 1 = (1 .. n) \cup {n + 1} /\ n + 1 \notin 1 .. n
  OBVIOUS
<1>2. {Args(1, m) : m \in 1 .. n + 1} = {Args(1, m) : m \in 1 .. n} \cup {Args(1, n + 1)}
  BY <1>1
<1>3. Args(1, n + 1) \notin {Args(1, m) : m \in 1 .. n}
  BY <1>1, ObjectsDiffer
<1> HIDE DEF Objects
<1>4. Objects(n + 1) = Objects(n) \cup {Args(1, n + 1)} /\ Args(1, n + 1) \notin Objects(n)
      /\ CStack(1) \in Objects(n)
  BY <1>2, <1>3, ObjectsDiffer DEF Objects
<1> QED BY <1>4

(* What free_runtime and the end of the root frame leave.                  *)
LEMMA OneFrame ==
    ASSUME BInv
    PROVE  cur = 1 /\ Len(Calls) \in Nat /\ fstack[1].cstack = Calls
<1>1. TInv /\ Len(fstack) = 1
  BY DEF BInv
<1>2. cur = 1
  BY <1>1 DEF TInv, TypeOK
<1> QED BY <1>1, <1>2, CallsType DEF Calls

LEMMA FreeRuntimeFrees ==
    ASSUME BInv, live = Objects(Len(Calls)), FreeRuntime
    PROVE  live' = IF FreeRoot THEN {} ELSE {Bindings(1)}
<1> DEFINE released(k) ==
             {Bindings(k) : x \in {x \in {k} : FreeRoot \/ k > 1}}
                  \cup {CStack(k)} \cup {Args(k, n) : n \in 1 .. Len(fstack[k].cstack)}
<1>1. 1 .. Len(fstack) = {1}
  BY DEF BInv
<1>2. live' = live \ ({FStack} \cup released(1))
  BY <1>1 DEF FreeRuntime
<1>3. released(1) = (IF FreeRoot THEN {Bindings(1)} ELSE {})
                       \cup {CStack(1)} \cup {Args(1, n) : n \in 1 .. Len(Calls)}
  BY OneFrame
<1> HIDE DEF released
<1> QED BY <1>2, <1>3, ObjectsDiffer DEF Objects

LEMMA EndRootFrees ==
    ASSUME BInv, live = Objects(Len(Calls)), EndRoot
    PROVE  live' = IF FreeRoot THEN {} ELSE {Bindings(1)}
<1>1. Len(fstack) = 1 /\ cur = 1
  BY OneFrame DEF BInv
<1>2. FreedFrame = {CStack(1)} \cup (IF FreeRoot THEN {Bindings(1)} ELSE {})
  BY <1>1 DEF FreedFrame
<1>3. live = {FStack, Bindings(1), CStack(1)}
  <2>1. Len(Calls) = 0
    BY DEF EndRoot
  <2> QED BY <2>1 DEF Objects
<1>4. live' = live \ (FreedFrame \cup {FStack})
  BY DEF EndRoot
<1> QED BY <1>2, <1>3, <1>4, ObjectsDiffer

LEMMA InitMInv == Init => MInv
<1> SUFFICES ASSUME Init PROVE MInv
  OBVIOUS
<1>1. BInv /\ pc = "walk"
  BY InitBInv DEF Init
<1>2. Len(Calls) = 0
  <2>1. PICK program \in Programs : fstack = <<NewFrame(program, RootBindings, 0)>>
    BY DEF Init
  <2>2. fstack[1].cstack = <<>>
    BY <2>1 DEF NewFrame
  <2> QED BY <1>1, <2>2, OneFrame
<1>3. live = Objects(0)
  BY DEF Init, Objects
<1> QED BY <1>1, <1>2, <1>3 DEF MInv

LEMMA NextMInv ==
    ASSUME Function = {}
    PROVE  MInv /\ [Next]_vars => MInv'
<1> SUFFICES ASSUME MInv, [Next]_vars PROVE MInv'
  OBVIOUS
<1>b. BInv /\ BInv' /\ TInv /\ TInv'
  BY NextBInv DEF MInv, BInv
<1>f. cur = 1 /\ Len(fstack) = 1 /\ Len(Calls) \in Nat
  BY <1>b, OneFrame DEF BInv
<1>o. pc \in {"walk", "apply"} => live = Objects(Len(Calls))
  BY DEF MInv
<1>k. UNCHANGED <<fstack, cur>> => Calls' = Calls
  BY DEF Calls
<1>1. CASE EvalUnbound
  <2>1. pc = "walk" /\ pc' = "error" /\ FreeRuntime
    BY <1>1 DEF EvalUnbound, FormIs
  <2> QED BY <2>1, <1>b, <1>o, FreeRuntimeFrees DEF MInv
<1>2. ASSUME NEW v \in Value, EvalValue(v), pc = "walk" PROVE MInv'
  <2>1. Len(Calls') = Len(Calls)
    BY <1>2, <1>b, EvalValueDisciplined
  <2>2. live' = live /\ pc' \in {"apply", "corrupt"}
    BY <1>2 DEF EvalValue
  <2>3. live' = Objects(Len(Calls'))
    BY <1>2, <2>1, <2>2, <1>o
  <2> QED BY <2>2, <2>3, <1>b DEF MInv, Objects, FStack, Bindings, CStack, Args
<1>3. CASE EvalData
  <2>1. [type |-> "data", id |-> FormId] \in Value
    BY <1>3, <1>b, FormFacts DEF EvalData, Value
  <2> QED BY <1>3, <2>1, <1>2 DEF EvalData, FormIs
<1>4. CASE EvalBoundValue
  BY <1>4, <1>b, <1>2, LookupFacts DEF EvalBoundValue, FormIs
<1>5. CASE EvalOperative
  <2>1. Len(Calls') = Len(Calls) + 1
    BY <1>5, <1>b, EvalOperativeDisciplined
  <2>2. live' = live \cup {CStack(1), Args(1, Len(Calls) + 1)} /\ pc = "walk" /\ pc' = "apply"
    BY <1>5, <1>f DEF EvalOperative, FormIs
  <2>3. live' = Objects(Len(Calls'))
    BY <2>1, <2>2, <1>o, <1>f, ObjectsGrow
  <2> QED BY <2>2, <2>3, <1>b DEF MInv, Objects, FStack, Bindings, CStack, Args
<1>6. CASE ApplyBuiltin
  <2>1. Len(Calls') = Len(Calls) - 1
    BY <1>6, <1>b, ApplyBuiltinDisciplined
  <2>2. live' = live \ {Args(1, Len(Calls))} /\ pc = "apply" /\ pc' \in {"apply", "corrupt"}
        /\ Calls # <<>>
    BY <1>6, <1>f DEF ApplyBuiltin, Applying
  <2>3. Len(Calls) - 1 \in Nat /\ Len(Calls) - 1 + 1 = Len(Calls)
    BY <2>2, <1>f, <1>b, CallsType
  <2>4. live' = Objects(Len(Calls'))
    BY <2>1, <2>2, <2>3, <1>o, ObjectsGrow
  <2> QED BY <2>2, <2>4, <1>b DEF MInv, Objects, FStack, Bindings, CStack, Args
<1>7. CASE ApplyFunction
  BY <1>7 DEF ApplyFunction, Applying
<1>8. CASE NextIteration \/ PanicIncomplete
  <2>1. UNCHANGED <<fstack, cur, live>> /\ pc \in {"walk", "apply"} /\ pc' \in {"walk", "panic"}
    BY <1>8, <1>b, <1>f DEF NextIteration, PanicIncomplete, AtEnd, BInv
  <2>2. live' = Objects(Len(Calls'))
    BY <2>1, <1>o, <1>k
  <2> QED BY <2>1, <2>2, <1>b DEF MInv, Objects, FStack, Bindings, CStack, Args
<1>9. CASE EndFrame
  BY <1>9, <1>f DEF EndFrame
<1>10. CASE EndRoot
  <2>1. pc = "walk" /\ pc' = "done"
    BY <1>10 DEF EndRoot, AtEnd
  <2> QED BY <2>1, <1>10, <1>b, <1>o, EndRootFrees DEF MInv, Bindings
<1>11. CASE UNCHANGED vars
  <2>1. UNCHANGED <<fstack, cur, live, pc>>
    BY <1>11 DEF vars
  <2> QED BY <2>1, <1>k, <1>b DEF MInv, Objects, FStack, Bindings, CStack, Args
<1> QED BY <1>1, <1>3, <1>4, <1>5, <1>6, <1>7, <1>8, <1>9, <1>10, <1>11
        DEF Next, Stopped

(* With a table of builtins every object eval_ast allocates is freed, and  *)
(* no sooner than its last use: while it runs what is live is what the     *)
(* stacks refer to, and once it has returned nothing of it is left.        *)
THEOREM BuiltinMemoryOwned ==
    ASSUME Function = {}
    PROVE  Spec => []MemoryOwned
<1>1. ASSUME MInv PROVE MemoryOwned
  <2>1. BInv /\ Len(fstack) = 1 /\ fstack[1].cstack = Calls
    BY <1>1, OneFrame DEF MInv, BInv
  <2>2. CASE Running
    <3>1. live = Objects(Len(Calls)) /\ CStack(1) \in live
      BY <1>1, <2>1, <2>2 DEF MInv, Running, BInv, Objects
    <3>2. Owned = {FStack} \cup {Bindings(1)} \cup {CStack(1)}
                     \cup {Args(1, n) : n \in 1 .. Len(Calls)}
      <4>1. 1 .. Len(fstack) = {1}
        BY <2>1
      <4>2. {Bindings(k) : k \in 1 .. Len(fstack)} = {Bindings(1)}
        BY <4>1
      <4>3. {CStack(k) : k \in {k \in 1 .. Len(fstack) : CStack(k) \in live}} = {CStack(1)}
        BY <4>1, <3>1
      <4>4. UNION {{Args(k, n) : n \in 1 .. Len(fstack[k].cstack)} : k \in 1 .. Len(fstack)}
              = {Args(1, n) : n \in 1 .. Len(Calls)}
        BY <4>1, <2>1
      <4> QED BY <4>2, <4>3, <4>4 DEF Owned
    <3>3. pc \notin {"done", "error"}
      BY <2>2 DEF Running
    <3> QED BY <3>1, <3>2, <3>3 DEF MemoryOwned, Objects
  <2>3. CASE ~ Running
    BY <1>1, <2>3 DEF MInv, MemoryOwned
  <2> QED BY <2>2, <2>3
<1> QED BY <1>1, InitMInv, NextMInv, PTL DEF Spec
----------------------------------------------------------------------------
(* How a program ends, where every operative is a builtin of one argument, *)
(* as in main(): a value completes every call that waits for one, so calls *)
(* are pending after a word and none after data.                           *)
UnaryTable ==
    /\ Function = {} /\ \A op \in Builtin : Arity[op] = 1
    /\ \A w \in DOMAIN RootBindings : RootBindings[w].type = "op"

Known(form) == form.kind = "data" \/ form.id \in DOMAIN RootBindings
EndsInWord(forms, n) == n > 0 /\ forms[n].kind = "word"

(* What eval_form has returned last, of the first n forms.                 *)
ResultOf(forms, n) ==
    /\ n = 0 => result = Indeterminate
    /\ n > 0 /\ forms[n].kind = "data" => result = [type |-> "data", id |-> forms[n].id]

Verdict(forms, n) ==
    /\ n <= Len(forms)
    /\ \A k \in 1 .. n : Known(forms[k])
    /\ ResultOf(forms, n)
    /\ pc = "walk" => (Calls # <<>> <=> EndsInWord(forms, n))
    /\ pc = "apply" =>
          IF EndsInWord(forms, n) THEN Calls # <<>> /\ ~ Full(Top) ELSE Calls # <<>> => Full(Top)
    /\ pc = "done" => n = Len(forms) /\ ~ EndsInWord(forms, n)
    /\ pc = "panic" => n = Len(forms) /\ EndsInWord(forms, n)
    /\ pc = "error" => n < Len(forms) /\ ~ Known(forms[n + 1])

WInv ==
    /\ BInv
    /\ fstack[1].bound = RootBindings
    /\ Verdict(fstack[1].forms, fstack[1].walk)

(* lookup() in one frame.                                                  *)
LEMMA RootLookup ==
    ASSUME BInv, NEW w
    PROVE  /\ IsBound(w) <=> w \in DOMAIN fstack[1].bound
           /\ w \in DOMAIN fstack[1].bound => Lookup(w) = fstack[1].bound[w]
<1>1. TInv /\ cur = 1 /\ 1 \in 1 .. Len(fstack)
  BY OneFrame DEF BInv
<1>2. Scope(cur) = {1}
  BY <1>1, ScopeFacts
<1>3. IsBound(w) <=> w \in DOMAIN fstack[1].bound
  BY <1>2 DEF IsBound
<1>4. ASSUME w \in DOMAIN fstack[1].bound PROVE Lookup(w) = fstack[1].bound[w]
  <2> DEFINE Nearest(k) == /\ w \in DOMAIN fstack[k].bound
                           /\ \A m \in Scope(cur) : w \in DOMAIN fstack[m].bound => m <= k
             nearest == CHOOSE k \in Scope(cur) : Nearest(k)
  <2>1. 1 \in Scope(cur) /\ Nearest(1)
    BY <1>2, <1>4
  <2>2. nearest \in Scope(cur)
    BY <2>1
  <2>3. nearest = 1
    BY <1>2, <2>2
  <2>4. Lookup(w) = fstack[nearest].bound[w]
    BY DEF Lookup
  <2> QED BY <2>3, <2>4
<1> QED BY <1>3, <1>4

LEMMA WalkFacts ==
    ASSUME BInv
    PROVE  /\ cur = 1 /\ fstack[1] \in Frame /\ fstack[1].walk \in Nat /\ fstack[1].forms \in Seq(Form)
           /\ Len(fstack[1].forms) \in Nat
           /\ \A k \in 1 .. Len(fstack[1].forms) : fstack[1].forms[k].kind \in {"word", "data"}
<1>1. cur = 1 /\ fstack[1] \in Frame
  <2>1. cur = 1
    BY OneFrame
  <2>2. fstack \in Seq(Frame) /\ Len(fstack) = 1
    BY DEF BInv, TInv, TypeOK
  <2> QED BY <2>1, <2>2
<1>2. fstack[1].walk \in Nat /\ fstack[1].forms \in Seq(Form)
  BY <1>1 DEF Frame
<1>3. PICK forms \in Seq(Form) : forms = fstack[1].forms
  BY <1>2
<1>4. \A k \in 1 .. Len(forms) : forms[k].kind \in {"word", "data"}
  <2> SUFFICES ASSUME NEW k \in 1 .. Len(forms) PROVE forms[k].kind \in {"word", "data"}
    OBVIOUS
  <2>1. forms[k] \in Form
    OBVIOUS
  <2> QED BY <2>1 DEF Form
<1>5. Len(forms) \in Nat
  OBVIOUS
<1> QED BY <1>1, <1>2, <1>3, <1>4, <1>5

LEMMA NoneOrOne ==
    ASSUME NEW S, NEW s \in Seq(S), Len(s) <= 1, Len(s) # 1
    PROVE  s = <<>>
<1>1. PICK l \in Nat : l = Len(s)
  OBVIOUS
<1>2. l = 0
  BY <1>1
<1> QED BY <1>1, <1>2, EmptySeq

(* A value given to calls of one argument completes the top one.           *)
LEMMA UnaryFull ==
    ASSUME UnaryTable, NEW c \in Seq(Call), NEW v \in Value, Disciplined(c, FALSE), c # <<>>
    PROVE  Given(c, v) # <<>> /\ Full(Given(c, v)[Len(Given(c, v))])
<1> DEFINE top == c[Len(c)]
           given == [top EXCEPT !.args = Append(@, v)]
<1>1. Len(c) \in 1 .. Len(c) /\ top \in Call
  OBVIOUS
<1>2. Len(top.args) \in Nat /\ top.args \in Seq(Value) /\ top.op \in Operative
  BY <1>1, CallArity
<1>3. Arity[top.op] = 1
  BY <1>2 DEF UnaryTable, Operative
<1>4. Len(top.args) <= 1 /\ Len(top.args) # 1
  BY <1>1, <1>3 DEF Disciplined, Full
<1>5. given.op = top.op /\ Len(given.args) = Len(top.args) + 1
  BY <1>1, <1>2 DEF Call
<1>6. Full(given)
  <2>1. PICK a \in Nat : a = Len(top.args)
    BY <1>2
  <2>a. a <= 1 /\ a # 1
    BY <1>4, <2>1
  <2>2. a = 0
    BY <2>a
  <2>3. Len(given.args) = 1 /\ Arity[given.op] = 1
    BY <1>3, <1>5, <2>1, <2>2
  <2> HIDE DEF given
  <2> QED BY <2>3 DEF Full
<1>7. Given(c, v) = [c EXCEPT ![Len(c)] = given]
  BY <1>1 DEF Given
<1> HIDE DEF given
<1>8. Len(Given(c, v)) = Len(c) /\ Given(c, v)[Len(c)] = given
  BY <1>1, <1>7
<1> QED BY <1>1, <1>6, <1>8

LEMMA GivenEmpty == ASSUME NEW v PROVE Given(<<>>, v) = <<>>
BY DEF Given

LEMMA InitWInv == Init => WInv
<1> SUFFICES ASSUME Init PROVE WInv
  OBVIOUS
<1>1. PICK program \in Programs : fstack = <<NewFrame(program, RootBindings, 0)>>
  BY DEF Init
<1>2. fstack[1] = NewFrame(program, RootBindings, 0)
  BY <1>1
<1>3. /\ fstack[1].forms = program /\ fstack[1].bound = RootBindings /\ fstack[1].walk = 0
      /\ fstack[1].cstack = <<>>
  BY <1>2 DEF NewFrame
<1>4. BInv
  BY InitBInv
<1>5. Calls = <<>> /\ pc = "walk" /\ result = Indeterminate
  BY <1>3 DEF Init, Calls
<1>6. program \in Seq(Form)
  BY ProgramAssumption
<1>7. Len(program) \in Nat
  BY <1>6
<1>8. Verdict(program, 0)
  BY <1>5, <1>7 DEF Verdict, ResultOf, EndsInWord
<1> QED BY <1>3, <1>4, <1>8 DEF WInv

(* A form that is data: it and what runs because of it.                    *)
LEMMA DataStep ==
    ASSUME UnaryTable, WInv, EvalData, BInv'
    PROVE  WInv' /\ fstack'[1].forms = fstack[1].forms
<1> DEFINE v == [type |-> "data", id |-> FormId]
<1>1. BInv /\ TInv /\ TInv' /\ FormIs("data") /\ pc = "walk" /\ EvalValue(v)
  BY DEF WInv, BInv, EvalData, FormIs
<1>2. v \in Value
  BY <1>1, FormFacts DEF Value
<1>3. Calls' = Given(Calls, v) /\ pc' = "apply" /\ Walks(1) /\ result' = v
  BY <1>1, <1>2, EvalValueDisciplined DEF EvalValue
<1>4. PICK forms \in Seq(Form), n \in Nat : forms = fstack[1].forms /\ n = fstack[1].walk
  BY <1>1, WalkFacts
<1>5. n < Len(forms) /\ forms[n + 1].kind = "data" /\ FormId = forms[n + 1].id
  BY <1>1, <1>4, WalkFacts DEF FormIs, FormId
<1>6. fstack'[1].forms = forms /\ fstack'[1].walk = n + 1 /\ fstack'[1].bound = RootBindings
  BY <1>3, <1>4 DEF Walks, WInv
<1>7. n + 1 <= Len(forms) /\ \A k \in 1 .. n + 1 : Known(forms[k])
  <2>1. \A k \in 1 .. n : Known(forms[k])
    BY <1>4 DEF WInv, Verdict
  <2>2. Known(forms[n + 1])
    BY <1>5 DEF Known
  <2> QED BY <1>5, <2>1, <2>2
<1>8. ~ EndsInWord(forms, n + 1)
  BY <1>5 DEF EndsInWord
<1>9. (Calls # <<>> => Full(Top))'
  <2>1. Disciplined(Calls, FALSE) /\ Calls \in Seq(Call)
    BY <1>1, CallsType DEF BInv
  <2>2. CASE Calls = <<>>
    BY <1>3, <2>2, GivenEmpty
  <2>3. CASE Calls # <<>>
    <3>1. Full(Given(Calls, v)[Len(Given(Calls, v))])
      BY <1>2, <2>1, <2>3, UnaryFull
    <3> QED BY <1>3, <3>1 DEF Top, Full
  <2> QED BY <2>2, <2>3
<1>10. ResultOf(forms, n + 1)'
  BY <1>3, <1>5 DEF ResultOf
<1>11. Verdict(forms, n + 1)'
  BY <1>3, <1>7, <1>8, <1>9, <1>10 DEF Verdict, EndsInWord
<1> QED BY <1>4, <1>6, <1>11 DEF WInv

LEMMA OperativeStep ==
    ASSUME UnaryTable, WInv, EvalOperative, BInv'
    PROVE  WInv' /\ fstack'[1].forms = fstack[1].forms
<1>1. BInv /\ TInv /\ TInv' /\ FormIs("word") /\ pc = "walk" /\ IsBound(FormId)
  BY DEF WInv, BInv, EvalOperative, FormIs
<1>2. /\ Walks(1) /\ pc' = "apply" /\ result'.id \in Operative
      /\ Len(Calls') = Len(Calls) + 1
      /\ Calls'[Len(Calls')] = [op |-> result'.id, args |-> <<>>, freed |-> FALSE]
  BY <1>1, EvalOperativeDisciplined DEF UnaryTable
<1>4. PICK forms \in Seq(Form), n \in Nat : forms = fstack[1].forms /\ n = fstack[1].walk
  BY <1>1, WalkFacts
<1>5. n < Len(forms) /\ forms[n + 1].kind = "word" /\ FormId = forms[n + 1].id
  BY <1>1, <1>4, WalkFacts DEF FormIs, FormId
<1>6. fstack'[1].forms = forms /\ fstack'[1].walk = n + 1 /\ fstack'[1].bound = RootBindings
  BY <1>2, <1>4 DEF Walks, WInv
<1>7. n + 1 <= Len(forms) /\ \A k \in 1 .. n + 1 : Known(forms[k])
  <2>1. \A k \in 1 .. n : Known(forms[k])
    BY <1>4 DEF WInv, Verdict
  <2>2. FormId \in DOMAIN RootBindings
    BY <1>1, RootLookup DEF WInv
  <2>3. Known(forms[n + 1])
    BY <1>5, <2>2 DEF Known
  <2> QED BY <1>5, <2>1, <2>3
<1>8. EndsInWord(forms, n + 1)
  BY <1>5 DEF EndsInWord
<1>9. (Calls # <<>> /\ ~ Full(Top))'
  <2>1. Calls' # <<>>
    <3>1. Len(Calls) \in Nat /\ Len(<<>>) = 0
      BY <1>1, OneFrame
    <3> QED BY <1>2, <3>1
  <2>2. Calls'[Len(Calls')].args = <<>> /\ Calls'[Len(Calls')].op = result'.id
    BY <1>2
  <2>3. Arity[result'.id] = 1
    BY <1>2 DEF UnaryTable, Operative
  <2>4. ~ Full(Top')
    BY <2>2, <2>3 DEF Full, Top
  <2> QED BY <2>1, <2>4 DEF Full
<1>10. ResultOf(forms, n + 1)'
  BY <1>5 DEF ResultOf
<1>11. Verdict(forms, n + 1)'
  BY <1>2, <1>7, <1>8, <1>9, <1>10 DEF Verdict, EndsInWord
<1> QED BY <1>4, <1>6, <1>11 DEF WInv

LEMMA ApplyStep ==
    ASSUME UnaryTable, WInv, ApplyBuiltin, BInv'
    PROVE  WInv' /\ fstack'[1].forms = fstack[1].forms
<1>1. BInv /\ TInv /\ TInv' /\ pc = "apply" /\ Calls # <<>> /\ Full(Top) /\ result' = result
  BY DEF WInv, BInv, ApplyBuiltin, Applying
<1>2. PICK v \in Value : Calls' = Given(Pop(Calls), v)
  BY <1>1, ApplyBuiltinDisciplined
<1>3. Walks(0) /\ pc' = "apply"
  BY <1>1, ApplyBuiltinDisciplined
<1>4. PICK forms \in Seq(Form), n \in Nat : forms = fstack[1].forms /\ n = fstack[1].walk
  BY <1>1, WalkFacts
<1>5. Verdict(forms, n) /\ ~ EndsInWord(forms, n)
  BY <1>1, <1>4 DEF WInv, Verdict
<1>6. fstack'[1].forms = forms /\ fstack'[1].walk = n /\ fstack'[1].bound = RootBindings
  BY <1>3, <1>4 DEF Walks, WInv
<1>9. (Calls # <<>> => Full(Top))'
  <2>1. Disciplined(Pop(Calls), FALSE) /\ Pop(Calls) \in Seq(Call)
    <3>1. Calls \in Seq(Call) /\ Disciplined(Calls, TRUE)
      BY <1>1, CallsType DEF BInv
    <3> QED BY <1>1, <3>1, PopDisciplined
  <2>2. CASE Pop(Calls) = <<>>
    BY <1>2, <2>2, GivenEmpty
  <2>3. CASE Pop(Calls) # <<>>
    <3>1. Full(Given(Pop(Calls), v)[Len(Given(Pop(Calls), v))])
      BY <2>1, <2>3, UnaryFull
    <3> QED BY <1>2, <3>1 DEF Top, Full
  <2> QED BY <2>2, <2>3
<1>10. ResultOf(forms, n)'
  BY <1>1, <1>5 DEF ResultOf, Verdict
<1>11. Verdict(forms, n)'
  BY <1>3, <1>5, <1>9, <1>10 DEF Verdict, EndsInWord
<1> QED BY <1>4, <1>6, <1>11 DEF WInv

(* The steps that leave the frame alone.                                   *)
LEMMA FrameKept ==
    ASSUME WInv, BInv', UNCHANGED <<fstack, cur, result>>,
           NEW forms \in Seq(Form), NEW n \in Nat, forms = fstack[1].forms, n = fstack[1].walk,
           /\ pc' = "walk" => (Calls # <<>> <=> EndsInWord(forms, n))
           /\ pc' = "done" => n = Len(forms) /\ ~ EndsInWord(forms, n)
           /\ pc' = "panic" => n = Len(forms) /\ EndsInWord(forms, n)
           /\ pc' = "error" => n < Len(forms) /\ ~ Known(forms[n + 1]),
           pc' # "apply"
    PROVE  WInv'
<1>1. Calls' = Calls /\ fstack'[1].forms = forms /\ fstack'[1].walk = n
  BY DEF Calls
<1>2. ResultOf(forms, n)'
  BY DEF WInv, Verdict, ResultOf
<1>3. Verdict(forms, n)'
  BY <1>1, <1>2 DEF WInv, Verdict, EndsInWord
<1> QED BY <1>1, <1>3 DEF WInv

LEMMA NextWInv ==
    ASSUME UnaryTable
    PROVE  WInv /\ [Next]_vars => WInv' /\ fstack'[1].forms = fstack[1].forms
<1> SUFFICES ASSUME WInv, [Next]_vars PROVE WInv' /\ fstack'[1].forms = fstack[1].forms
  OBVIOUS
<1>b. BInv /\ BInv' /\ TInv
  BY NextBInv DEF WInv, BInv, UnaryTable
<1>f. PICK forms \in Seq(Form), n \in Nat : forms = fstack[1].forms /\ n = fstack[1].walk
  BY <1>b, WalkFacts
<1>v. Verdict(forms, n) /\ Len(forms) \in Nat
  BY <1>f, <1>b, WalkFacts DEF WInv
<1>c. cur = 1 /\ Len(fstack) = 1
  BY <1>b, OneFrame DEF BInv
<1>1. CASE EvalUnbound
  <2>1. pc' = "error" /\ UNCHANGED <<fstack, cur, result>>
    BY <1>1 DEF EvalUnbound
  <2>2. n < Len(forms) /\ forms[n + 1].kind = "word" /\ forms[n + 1].id = FormId
    BY <1>1, <1>c, <1>f DEF EvalUnbound, FormIs, FormId
  <2>3. FormId \notin DOMAIN RootBindings
    BY <1>1, <1>b, RootLookup DEF EvalUnbound, WInv
  <2>4. n < Len(forms) /\ ~ Known(forms[n + 1])
    BY <2>2, <2>3 DEF Known
  <2>5. WInv'
    BY <1>b, <1>f, <2>1, <2>4, FrameKept
  <2> QED BY <2>1, <2>5
<1>2. CASE EvalData
  BY <1>2, <1>b, DataStep
<1>3. CASE EvalBoundValue
  <2>1. IsBound(FormId) /\ Lookup(FormId).type # "op"
    BY <1>3 DEF EvalBoundValue
  <2>2. FormId \in DOMAIN RootBindings /\ Lookup(FormId) = RootBindings[FormId]
    BY <2>1, <1>b, RootLookup DEF WInv
  <2> QED BY <2>1, <2>2 DEF UnaryTable
<1>4. CASE EvalOperative
  BY <1>4, <1>b, OperativeStep
<1>5. CASE ApplyBuiltin
  BY <1>5, <1>b, ApplyStep
<1>6. CASE ApplyFunction
  BY <1>6 DEF ApplyFunction, Applying, UnaryTable
<1>7. CASE NextIteration
  <2>1. pc = "apply" /\ ~ (Calls # <<>> /\ Full(Top)) /\ pc' = "walk"
    BY <1>7, <1>b DEF NextIteration, BInv
  <2>2. UNCHANGED <<fstack, cur, result>>
    BY <1>7, <1>c DEF NextIteration
  <2>3. Calls # <<>> <=> EndsInWord(forms, n)
    BY <1>v, <2>1 DEF Verdict
  <2>4. WInv'
    BY <1>b, <1>f, <2>1, <2>2, <2>3, FrameKept
  <2> QED BY <2>2, <2>4
<1>8. CASE PanicIncomplete
  <2>1. pc = "walk" /\ n = Len(forms) /\ Calls # <<>> /\ pc' = "panic"
        /\ UNCHANGED <<fstack, cur, result>>
    BY <1>8, <1>c, <1>f DEF PanicIncomplete, AtEnd
  <2>2. EndsInWord(forms, n)
    BY <1>v, <2>1 DEF Verdict
  <2>3. WInv'
    BY <1>b, <1>f, <2>1, <2>2, FrameKept
  <2> QED BY <2>1, <2>3
<1>9. CASE EndFrame
  BY <1>9, <1>c DEF EndFrame
<1>10. CASE EndRoot
  <2>1. pc = "walk" /\ n = Len(forms) /\ Calls = <<>> /\ pc' = "done"
        /\ UNCHANGED <<fstack, cur, result>>
    BY <1>10, <1>c, <1>f DEF EndRoot, AtEnd
  <2>2. ~ EndsInWord(forms, n)
    BY <1>v, <2>1 DEF Verdict
  <2>3. WInv'
    BY <1>b, <1>f, <2>1, <2>2, FrameKept
  <2> QED BY <2>1, <2>3
<1>11. CASE UNCHANGED vars
  <2>1. UNCHANGED <<fstack, cur, result, pc>> /\ Calls' = Calls
    BY <1>11 DEF vars, Calls
  <2>2. Top' = Top
    BY <2>1 DEF Top
  <2>3. ResultOf(forms, n)'
    BY <1>v, <2>1 DEF Verdict, ResultOf
  <2>4. Verdict(forms, n)'
    BY <1>v, <2>1, <2>2, <2>3 DEF Verdict, EndsInWord, Full
  <2> QED BY <1>b, <1>f, <2>1, <2>4 DEF WInv
<1> QED BY <1>1, <1>2, <1>3, <1>4, <1>5, <1>6, <1>7, <1>8, <1>9, <1>10, <1>11
        DEF Next, Stopped

----------------------------------------------------------------------------
(* What the calls make of the data they were given.                        *)
DataOf(form) == [type |-> "data", id |-> form.id]
OpOf(form) == RootBindings[form.id].id

(* The p-th to the n-th form are words and then data, and v is what their  *)
(* builtins make of the data, applied one by one from the last to the      *)
(* first: made[k] is what the forms from the k-th on come to.              *)
ComesTo(forms, p, n, v) ==
    /\ forms[n].kind = "data" /\ \A k \in p .. n - 1 : forms[k].kind = "word"
    /\ \E made \in [p .. n -> Value] :
          /\ made[p] = v /\ made[n] = DataOf(forms[n])
          /\ \A k \in p .. n - 1 : made[k] = Apply(OpOf(forms[k]), <<made[k + 1]>>)

(* The calls c are those of the words up to the m-th form, and before them *)
(* there is data or nothing.                                               *)
Awaits(forms, m, c) ==
    /\ Len(c) <= m
    /\ \A j \in 1 .. Len(c) : /\ forms[m - Len(c) + j].kind = "word"
                              /\ c[j].op = OpOf(forms[m - Len(c) + j])
    /\ m > Len(c) => forms[m - Len(c)].kind = "data"

(* The calls still to be run, and what the others have come to.            *)
Applied(forms, n) ==
    /\ n = 0 => value = Nil
    /\ \E m \in 0 .. n :
          /\ Awaits(forms, m, Calls)
          /\ IF n = 0 \/ EndsInWord(forms, n) THEN m = n
             ELSE /\ m < n /\ ComesTo(forms, m + 1, n, value)
                  /\ Calls # <<>> => Top.args = <<value>>

AInv ==
    /\ WInv
    /\ pc = "done" => Calls = <<>>
    /\ Applied(fstack[1].forms, fstack[1].walk)

LEMMA DataComes ==
    ASSUME NEW forms \in Seq(Form), NEW n \in 1 .. Len(forms), forms[n].kind = "data"
    PROVE  DataOf(forms[n]) \in Value /\ ComesTo(forms, n, n, DataOf(forms[n]))
<1> DEFINE v == DataOf(forms[n])
           made == [k \in n .. n |-> v]
<1>1. forms[n] \in Form
  OBVIOUS
<1>2. v \in Value
  BY <1>1 DEF Form, Value, DataOf
<1> HIDE DEF v
<1>3. made \in [n .. n -> Value] /\ made[n] = v
  BY <1>2
<1>4. n .. n - 1 = {}
  OBVIOUS
<1> HIDE DEF made
<1>5. v = DataOf(forms[n])
  BY DEF v
<1> QED BY <1>2, <1>3, <1>4, <1>5 DEF ComesTo

LEMMA WordComes ==
    ASSUME NEW forms \in Seq(Form), NEW n \in 1 .. Len(forms), NEW m \in 1 .. n - 1, NEW v,
           ComesTo(forms, m + 1, n, v), forms[m].kind = "word",
           Apply(OpOf(forms[m]), <<v>>) \in Value
    PROVE  ComesTo(forms, m, n, Apply(OpOf(forms[m]), <<v>>))
<1> DEFINE w == Apply(OpOf(forms[m]), <<v>>)
<1>1. PICK made \in [m + 1 .. n -> Value] :
          /\ made[m + 1] = v /\ made[n] = DataOf(forms[n])
          /\ \A k \in m + 1 .. n - 1 : made[k] = Apply(OpOf(forms[k]), <<made[k + 1]>>)
  BY DEF ComesTo
<1> DEFINE longer == [k \in m .. n |-> IF k = m THEN w ELSE made[k]]
<1>w. w = Apply(OpOf(forms[m]), <<v>>) /\ w \in Value
  OBVIOUS
<1> HIDE DEF w
<1>2. longer \in [m .. n -> Value] /\ longer[m] = w
      /\ \A k \in m + 1 .. n : longer[k] = made[k]
  <2>1. ASSUME NEW k \in m .. n PROVE k = m \/ k \in m + 1 .. n
    OBVIOUS
  <2>2. ASSUME NEW k \in m + 1 .. n PROVE k \in m .. n /\ k # m
    OBVIOUS
  <2> QED BY <1>1, <1>w, <2>1, <2>2
<1> HIDE DEF longer
<1>3. n \in m + 1 .. n /\ m + 1 \in m + 1 .. n
  OBVIOUS
<1>4. ASSUME NEW k \in m .. n - 1
      PROVE  forms[k].kind = "word" /\ longer[k] = Apply(OpOf(forms[k]), <<longer[k + 1]>>)
  <2>1. CASE k = m
    BY <2>1, <1>1, <1>2, <1>3, <1>w
  <2>2. CASE k # m
    <3>1. k \in m + 1 .. n - 1 /\ k \in m + 1 .. n /\ k + 1 \in m + 1 .. n
      BY <2>2
    <3>2. forms[k].kind = "word"
      BY <3>1 DEF ComesTo
    <3> QED BY <3>1, <3>2, <1>1, <1>2
  <2> QED BY <2>1, <2>2
<1>5. longer[n] = DataOf(forms[n]) /\ forms[n].kind = "data"
  BY <1>1, <1>2, <1>3 DEF ComesTo
<1> QED BY <1>2, <1>4, <1>5, <1>w DEF ComesTo

LEMMA AwaitsSame ==
    ASSUME NEW forms, NEW m, NEW c, NEW d, Awaits(forms, m, c), Len(d) = Len(c),
           \A j \in 1 .. Len(c) : d[j].op = c[j].op
    PROVE  Awaits(forms, m, d)
BY DEF Awaits

LEMMA AwaitsNone ==
    ASSUME NEW forms, NEW m \in Nat, m > 0 => forms[m].kind = "data"
    PROVE  Awaits(forms, m, <<>>)
<1>1. Len(<<>>) = 0 /\ m - 0 = m
  OBVIOUS
<1> QED BY <1>1 DEF Awaits

LEMMA AwaitsPush ==
    ASSUME NEW forms, NEW m \in Nat, NEW c \in Seq(Call), NEW d \in Seq(Call),
           Awaits(forms, m, c), Len(d) = Len(c) + 1, \A j \in 1 .. Len(c) : d[j] = c[j],
           forms[m + 1].kind = "word", d[Len(d)].op = OpOf(forms[m + 1])
    PROVE  Awaits(forms, m + 1, d)
<1>1. PICK l \in Nat : l = Len(c)
  OBVIOUS
<1>2. Len(d) = l + 1 /\ m + 1 - (l + 1) = m - l
  BY <1>1
<1>3. ASSUME NEW j \in 1 .. l + 1
      PROVE  /\ forms[m + 1 - (l + 1) + j].kind = "word"
             /\ d[j].op = OpOf(forms[m + 1 - (l + 1) + j])
  <2>1. CASE j = l + 1
    <3>1. m + 1 - (l + 1) + j = m + 1
      BY <2>1
    <3> QED BY <2>1, <3>1, <1>2
  <2>2. CASE j # l + 1
    <3>1. j \in 1 .. l
      BY <2>2
    <3> QED BY <3>1, <1>1, <1>2 DEF Awaits
  <2> QED BY <2>1, <2>2
<1>4. l \in 0 .. m /\ (m > l => forms[m - l].kind = "data")
  BY <1>1 DEF Awaits
<1>5. Len(d) <= m + 1 /\ (m + 1 > Len(d) => forms[m + 1 - Len(d)].kind = "data")
  BY <1>2, <1>4
<1>6. \A j \in 1 .. Len(d) : /\ forms[m + 1 - Len(d) + j].kind = "word"
                             /\ d[j].op = OpOf(forms[m + 1 - Len(d) + j])
  BY <1>2, <1>3
<1> QED BY <1>5, <1>6 DEF Awaits

LEMMA AwaitsPop ==
    ASSUME NEW forms, NEW m \in Nat, NEW c \in Seq(Call), c # <<>>, Awaits(forms, m, c)
    PROVE  /\ m - 1 \in Nat /\ Awaits(forms, m - 1, Pop(c))
           /\ forms[m].kind = "word" /\ c[Len(c)].op = OpOf(forms[m])
<1>1. PICK l \in Nat : l = Len(c) - 1
  OBVIOUS
<1>2. Len(c) = l + 1 /\ Len(Pop(c)) = l /\ \A j \in 1 .. l : Pop(c)[j] = c[j]
  BY <1>1, PopType
<1>3. m >= l + 1 /\ m - 1 - l = m - (l + 1) /\ m - (l + 1) + (l + 1) = m
  BY <1>2 DEF Awaits
<1>4. forms[m].kind = "word" /\ c[Len(c)].op = OpOf(forms[m])
  <2>1. l + 1 \in 1 .. Len(c)
    BY <1>2
  <2> QED BY <2>1, <1>2, <1>3 DEF Awaits
<1>5. ASSUME NEW j \in 1 .. l
      PROVE  /\ forms[m - 1 - l + j].kind = "word"
             /\ Pop(c)[j].op = OpOf(forms[m - 1 - l + j])
  <2>1. j \in 1 .. l + 1
    OBVIOUS
  <2> QED BY <2>1, <1>2, <1>3 DEF Awaits
<1>6. m - 1 > l => forms[m - 1 - l].kind = "data"
  BY <1>2, <1>3 DEF Awaits
<1> QED BY <1>2, <1>3, <1>4, <1>5, <1>6 DEF Awaits

(* A value given to calls of one argument is the only one of the top call. *)
LEMMA UnaryGiven ==
    ASSUME UnaryTable, NEW c \in Seq(Call), NEW v \in Value, Disciplined(c, FALSE)
    PROVE  /\ Len(Given(c, v)) = Len(c) /\ \A j \in 1 .. Len(c) : Given(c, v)[j].op = c[j].op
           /\ c # <<>> => Given(c, v)[Len(c)].args = <<v>>
<1>1. CASE c = <<>>
  BY <1>1, GivenEmpty
<1>2. CASE c # <<>>
  <2> DEFINE top == c[Len(c)]
             given == [top EXCEPT !.args = Append(@, v)]
  <2>1. Len(c) \in 1 .. Len(c) /\ top \in Call
    BY <1>2
  <2>2. Len(top.args) \in Nat /\ top.args \in Seq(Value) /\ top.op \in Operative
    BY <2>1, CallArity
  <2>3. Arity[top.op] = 1
    BY <2>2 DEF UnaryTable, Operative
  <2>4. Len(top.args) <= 1 /\ Len(top.args) # 1
    BY <2>1, <2>3 DEF Disciplined, Full
  <2>5. top.args = <<>>
    BY <2>2, <2>4, NoneOrOne
  <2>6. given.op = top.op /\ given.args = <<v>>
    BY <2>1, <2>5 DEF Call
  <2>7. Given(c, v) = [c EXCEPT ![Len(c)] = given]
    BY <1>2 DEF Given
  <2> HIDE DEF given
  <2>8. /\ Len(Given(c, v)) = Len(c) /\ Given(c, v)[Len(c)] = given
        /\ \A j \in 1 .. Len(c) : j # Len(c) => Given(c, v)[j] = c[j]
    BY <2>1, <2>7
  <2> QED BY <2>6, <2>8
<1> QED BY <1>1, <1>2

LEMMA InitAInv == Init => AInv
<1> SUFFICES ASSUME Init PROVE AInv
  OBVIOUS
<1>1. PICK program \in Programs : fstack = <<NewFrame(program, RootBindings, 0)>>
  BY DEF Init
<1>2. fstack[1] = NewFrame(program, RootBindings, 0)
  BY <1>1
<1>3. fstack[1].walk = 0 /\ fstack[1].cstack = <<>>
  BY <1>2 DEF NewFrame
<1>4. Calls = <<>> /\ value = Nil /\ WInv
  BY <1>3, InitWInv DEF Init, Calls
<1>5. Awaits(fstack[1].forms, 0, <<>>)
  BY AwaitsNone
<1>6. 0 \in 0 .. 0
  OBVIOUS
<1> QED BY <1>3, <1>4, <1>5, <1>6 DEF AInv, Applied

(* At the head of the loop, what is pending are the words just read.       *)
LEMMA WalkAwaits ==
    ASSUME AInv, pc = "walk"
    PROVE  Awaits(fstack[1].forms, fstack[1].walk, Calls)
<1>1. BInv /\ WInv
  BY DEF AInv, WInv
<1>2. PICK forms \in Seq(Form), n \in Nat : forms = fstack[1].forms /\ n = fstack[1].walk
  BY <1>1, WalkFacts
<1>3. (Calls # <<>> <=> EndsInWord(forms, n)) /\ n <= Len(forms)
      /\ \A k \in 1 .. Len(forms) : forms[k].kind \in {"word", "data"}
  BY <1>1, <1>2, WalkFacts DEF WInv, Verdict
<1>4. CASE n = 0 \/ EndsInWord(forms, n)
  BY <1>2, <1>4 DEF AInv, Applied
<1>5. CASE ~ (n = 0 \/ EndsInWord(forms, n))
  <2>1. n \in 1 .. Len(forms) /\ forms[n].kind = "data"
    <3>1. n \in 1 .. Len(forms)
      BY <1>3, <1>5
    <3> QED BY <3>1, <1>3, <1>5 DEF EndsInWord
  <2>2. Calls = <<>>
    BY <1>3, <1>5
  <2> QED BY <1>2, <2>1, <2>2, AwaitsNone
<1> QED BY <1>4, <1>5

LEMMA DataApplied ==
    ASSUME UnaryTable, AInv, EvalData, BInv', WInv'
    PROVE  AInv'
<1> DEFINE v == [type |-> "data", id |-> FormId]
<1>1. BInv /\ TInv /\ FormIs("data") /\ pc = "walk" /\ EvalValue(v) /\ TInv'
  BY DEF AInv, WInv, BInv, EvalData, FormIs
<1>2. v \in Value
  BY <1>1, FormFacts DEF Value
<1>3. Calls' = Given(Calls, v) /\ pc' = "apply" /\ Walks(1) /\ value' = v
  BY <1>1, <1>2, EvalValueDisciplined DEF EvalValue
<1>4. PICK forms \in Seq(Form), n \in Nat : forms = fstack[1].forms /\ n = fstack[1].walk
  BY <1>1, WalkFacts
<1>5. n < Len(forms) /\ forms[n + 1].kind = "data" /\ FormId = forms[n + 1].id
  BY <1>1, <1>4, WalkFacts DEF FormIs, FormId
<1>6. fstack'[1].forms = forms /\ fstack'[1].walk = n + 1
  BY <1>3, <1>4 DEF Walks
<1>7. v = DataOf(forms[n + 1])
  BY <1>5 DEF DataOf
<1> HIDE DEF v
<1>8. ComesTo(forms, n + 1, n + 1, value')
  <2>1. n + 1 \in 1 .. Len(forms)
    BY <1>5
  <2> QED BY <2>1, <1>3, <1>5, <1>7, DataComes
<1>9. /\ Len(Calls') = Len(Calls) /\ \A j \in 1 .. Len(Calls) : Calls'[j].op = Calls[j].op
      /\ Calls # <<>> => Calls'[Len(Calls)].args = <<v>>
  <2>1. Disciplined(Calls, FALSE) /\ Calls \in Seq(Call)
    BY <1>1, CallsType DEF BInv
  <2> QED BY <2>1, <1>2, <1>3, UnaryGiven
<1>10. Awaits(forms, n, Calls')
  <2>1. Awaits(forms, n, Calls)
    BY <1>1, <1>4, WalkAwaits
  <2> QED BY <2>1, <1>9, AwaitsSame
<1>11. (Calls # <<>> => Top.args = <<value>>)'
  <2>1. Calls = <<>> => Calls' = <<>>
    BY <1>3, GivenEmpty
  <2> QED BY <2>1, <1>3, <1>9 DEF Top
<1>12. n \in 0 .. n + 1 /\ n < n + 1 /\ n + 1 # 0 /\ ~ EndsInWord(forms, n + 1)
  BY <1>5 DEF EndsInWord
<1>13. Applied(forms, n + 1)'
  BY <1>8, <1>10, <1>11, <1>12 DEF Applied, EndsInWord
<1> QED BY <1>3, <1>6, <1>13 DEF AInv

LEMMA OperativeApplied ==
    ASSUME UnaryTable, AInv, EvalOperative, BInv', WInv'
    PROVE  AInv'
<1>1. BInv /\ TInv /\ TInv' /\ WInv /\ FormIs("word") /\ pc = "walk" /\ IsBound(FormId)
      /\ result' = Lookup(FormId)
  BY DEF AInv, WInv, BInv, EvalOperative, FormIs
<1>2. /\ Walks(1) /\ pc' = "apply" /\ Len(Calls') = Len(Calls) + 1
      /\ Calls'[Len(Calls')] = [op |-> result'.id, args |-> <<>>, freed |-> FALSE]
      /\ \A k \in 1 .. Len(Calls) : Calls'[k] = Calls[k]
  BY <1>1, EvalOperativeDisciplined DEF UnaryTable
<1>3. Calls'[Len(Calls')].op = result'.id
  BY <1>2
<1>4. PICK forms \in Seq(Form), n \in Nat : forms = fstack[1].forms /\ n = fstack[1].walk
  BY <1>1, WalkFacts
<1>5. n < Len(forms) /\ forms[n + 1].kind = "word" /\ FormId = forms[n + 1].id
  BY <1>1, <1>4, WalkFacts DEF FormIs, FormId
<1>6. fstack'[1].forms = forms /\ fstack'[1].walk = n + 1
  BY <1>2, <1>4 DEF Walks
<1>7. result'.id = OpOf(forms[n + 1])
  BY <1>1, <1>5, RootLookup DEF WInv, OpOf
<1>8. Awaits(forms, n + 1, Calls')
  <2>1. Awaits(forms, n, Calls)
    BY <1>1, <1>4, WalkAwaits
  <2>2. Calls \in Seq(Call) /\ Calls' \in Seq(Call)
    <3>1. fstack'[cur'] \in Frame
      BY <1>1 DEF TInv, TypeOK
    <3>2. fstack'[cur'].cstack \in Seq(Call)
      BY <3>1 DEF Frame
    <3> QED BY <3>2, <1>1, CallsType DEF Calls
  <2> QED BY <2>1, <2>2, <1>2, <1>3, <1>5, <1>7, AwaitsPush
<1>9. n + 1 \in 0 .. n + 1 /\ n + 1 # 0 /\ EndsInWord(forms, n + 1)
  BY <1>5 DEF EndsInWord
<1>10. Applied(forms, n + 1)'
  BY <1>8, <1>9 DEF Applied, EndsInWord
<1> QED BY <1>2, <1>6, <1>10 DEF AInv

LEMMA BuiltinApplied ==
    ASSUME UnaryTable, AInv, ApplyBuiltin, BInv', WInv'
    PROVE  AInv'
<1> DEFINE w == Apply(Top.op, Top.args)
<1>1. BInv /\ TInv /\ TInv' /\ WInv /\ pc = "apply" /\ Calls # <<>> /\ Full(Top) /\ value' = w
  BY DEF AInv, WInv, BInv, ApplyBuiltin, Applying
<1>2. Walks(0) /\ pc' = "apply" /\ w \in Value /\ Calls' = Given(Pop(Calls), w)
  BY <1>1, ApplyBuiltinDisciplined
<1>3. PICK forms \in Seq(Form), n \in Nat : forms = fstack[1].forms /\ n = fstack[1].walk
  BY <1>1, WalkFacts
<1>4. ~ EndsInWord(forms, n) /\ n <= Len(forms)
  BY <1>1, <1>3 DEF WInv, Verdict
<1>5. fstack'[1].forms = forms /\ fstack'[1].walk = n
  BY <1>2, <1>3 DEF Walks
<1>6. PICK m \in 0 .. n :
          /\ Awaits(forms, m, Calls)
          /\ IF n = 0 \/ EndsInWord(forms, n) THEN m = n
             ELSE /\ m < n /\ ComesTo(forms, m + 1, n, value)
                  /\ Calls # <<>> => Top.args = <<value>>
  BY <1>3 DEF AInv, Applied
<1>7. Calls \in Seq(Call) /\ Disciplined(Calls, TRUE)
  BY <1>1, CallsType DEF BInv
<1>8. /\ m - 1 \in Nat /\ Awaits(forms, m - 1, Pop(Calls))
      /\ forms[m].kind = "word" /\ Top.op = OpOf(forms[m])
  <2>1. m \in Nat
    OBVIOUS
  <2> QED BY <2>1, <1>1, <1>6, <1>7, AwaitsPop DEF Top
<1>9. n # 0 /\ m < n /\ ComesTo(forms, m + 1, n, value) /\ Top.args = <<value>>
  <2>1. n # 0
    BY <1>8
  <2> QED BY <2>1, <1>1, <1>4, <1>6
<1>10. w = Apply(OpOf(forms[m]), <<value>>)
  BY <1>8, <1>9
<1> HIDE DEF w
<1>11. ComesTo(forms, m, n, w)
  <2>1. n \in 1 .. Len(forms) /\ m \in 1 .. n - 1
    BY <1>4, <1>8, <1>9
  <2> QED BY <2>1, <1>2, <1>8, <1>9, <1>10, WordComes
<1>12. /\ Len(Calls') = Len(Pop(Calls))
       /\ \A j \in 1 .. Len(Pop(Calls)) : Calls'[j].op = Pop(Calls)[j].op
       /\ Pop(Calls) # <<>> => Calls'[Len(Pop(Calls))].args = <<w>>
  <2>1. Disciplined(Pop(Calls), FALSE) /\ Pop(Calls) \in Seq(Call)
    BY <1>1, <1>7, PopDisciplined
  <2> QED BY <2>1, <1>2, UnaryGiven
<1>13. Awaits(forms, m - 1, Calls')
  BY <1>8, <1>12, AwaitsSame
<1>14. (Calls # <<>> => Top.args = <<value>>)'
  <2>1. Pop(Calls) = <<>> => Calls' = <<>>
    BY <1>2, GivenEmpty
  <2> QED BY <2>1, <1>1, <1>12 DEF Top
<1>15. m - 1 \in 0 .. n /\ m - 1 < n /\ m - 1 + 1 = m
  BY <1>8, <1>9
<1>16. Applied(forms, n)'
  <2>1. ComesTo(forms, m - 1 + 1, n, value')
    BY <1>1, <1>11, <1>15
  <2> QED BY <2>1, <1>4, <1>9, <1>13, <1>14, <1>15 DEF Applied, EndsInWord
<1> QED BY <1>2, <1>5, <1>16 DEF AInv

LEMMA NextAInv ==
    ASSUME UnaryTable
    PROVE  AInv /\ [Next]_vars => AInv'
<1> SUFFICES ASSUME AInv, [Next]_vars PROVE AInv'
  OBVIOUS
<1>b. WInv /\ WInv' /\ BInv /\ BInv' /\ TInv
  BY NextWInv DEF AInv, WInv, BInv
<1>c. cur = 1 /\ Len(fstack) = 1
  BY <1>b, OneFrame DEF BInv
<1>1. ASSUME UNCHANGED <<fstack, cur, value>>, (pc = "done" => Calls = <<>>)'
      PROVE  AInv'
  <2>1. Calls' = Calls
    BY <1>1 DEF Calls
  <2>2. Top' = Top
    BY <2>1 DEF Top
  <2>3. Applied(fstack[1].forms, fstack[1].walk)'
    BY <1>1, <2>1, <2>2 DEF AInv, Applied, EndsInWord
  <2> QED BY <1>1, <1>b, <2>3 DEF AInv
<1>2. CASE EvalData
  BY <1>2, <1>b, DataApplied
<1>3. CASE EvalBoundValue
  <2>1. IsBound(FormId) /\ Lookup(FormId).type # "op"
    BY <1>3 DEF EvalBoundValue
  <2>2. FormId \in DOMAIN RootBindings /\ Lookup(FormId) = RootBindings[FormId]
    BY <2>1, <1>b, RootLookup DEF WInv
  <2> QED BY <2>1, <2>2 DEF UnaryTable
<1>4. CASE EvalOperative
  BY <1>4, <1>b, OperativeApplied
<1>5. CASE ApplyBuiltin
  BY <1>5, <1>b, BuiltinApplied
<1>6. CASE ApplyFunction
  BY <1>6 DEF ApplyFunction, Applying, UnaryTable
<1>7. CASE EvalUnbound \/ PanicIncomplete
  BY <1>1, <1>7 DEF EvalUnbound, PanicIncomplete
<1>8. CASE NextIteration
  BY <1>1, <1>8, <1>c DEF NextIteration
<1>9. CASE EndFrame
  BY <1>9, <1>c DEF EndFrame
<1>10. CASE EndRoot
  <2>1. Calls' = <<>> /\ UNCHANGED <<fstack, cur, value>>
    BY <1>10 DEF EndRoot, Calls
  <2> QED BY <1>1, <2>1
<1>11. CASE UNCHANGED vars
  <2>1. UNCHANGED <<fstack, cur, value, pc>> /\ Calls' = Calls
    BY <1>11 DEF vars, Calls
  <2> QED BY <1>1, <2>1 DEF AInv
<1> QED BY <1>2, <1>3, <1>4, <1>5, <1>6, <1>7, <1>8, <1>9, <1>10, <1>11
        DEF Next, Stopped

(* With a table of unary builtins, like that of main(), a program of any   *)
(* length fails if one of its words is not bound, panics if all are and it *)
(* ends in one, and otherwise computes (value) what the builtins of the    *)
(* words before its last form make of that form, the nearest one first.    *)
(* It returns (result, src/main.c:227) the last form itself: that is the   *)
(* value computed if the builtin is identity.                              *)
UnaryOutcome ==
    /\ pc = "error" <=> ~ Running /\ \E k \in 1 .. Len(Program) : ~ Known(Program[k])
    /\ pc = "panic" =>
          Program # <<>> /\ Program[Len(Program)].kind = "word"
    /\ pc = "done" =>
          IF Program = <<>> THEN value = Nil /\ result = Indeterminate
          ELSE /\ \E p \in 1 .. Len(Program) :
                     /\ p > 1 => Program[p - 1].kind = "data"
                     /\ ComesTo(Program, p, Len(Program), value)
               /\ result = DataOf(Program[Len(Program)])

THEOREM UnaryProgramsAnswered ==
    ASSUME UnaryTable
    PROVE  Spec => []UnaryOutcome
<1>1. ASSUME AInv PROVE UnaryOutcome
  <2>1. BInv /\ WInv
    BY <1>1 DEF AInv, WInv
  <2>2. PICK forms \in Seq(Form), n \in Nat : forms = fstack[1].forms /\ n = fstack[1].walk
    BY <2>1, WalkFacts
  <2>3. /\ Verdict(forms, n) /\ Len(forms) \in Nat
        /\ \A k \in 1 .. Len(forms) : forms[k].kind \in {"word", "data"}
    BY <2>1, <2>2, WalkFacts DEF WInv
  <2>4. pc \in {"walk", "apply", "done", "error", "panic"}
    BY <2>1 DEF BInv
  <2>5. ASSUME pc = "error" PROVE ~ Running /\ \E k \in 1 .. Len(forms) : ~ Known(forms[k])
    <3>1. n < Len(forms) /\ ~ Known(forms[n + 1])
      BY <2>3, <2>5 DEF Verdict
    <3>2. n + 1 \in 1 .. Len(forms)
      BY <2>3, <3>1
    <3> QED BY <2>5, <3>1, <3>2 DEF Running
  <2>6. ASSUME pc \in {"done", "panic"} PROVE \A k \in 1 .. Len(forms) : Known(forms[k])
    BY <2>3, <2>6 DEF Verdict
  <2>7. pc = "error" <=> ~ Running /\ \E k \in 1 .. Len(forms) : ~ Known(forms[k])
    BY <2>4, <2>5, <2>6 DEF Running
  <2>8. ASSUME pc = "panic" PROVE forms # <<>> /\ forms[Len(forms)].kind = "word"
    <3>1. n = Len(forms) /\ EndsInWord(forms, n)
      BY <2>3, <2>8 DEF Verdict
    <3> QED BY <2>3, <3>1 DEF EndsInWord
  <2>9. ASSUME pc = "done", forms = <<>> PROVE value = Nil /\ result = Indeterminate
    <3>1. n = 0 /\ ResultOf(forms, n)
      BY <2>3, <2>9 DEF Verdict
    <3> QED BY <3>1, <1>1, <2>2 DEF AInv, Applied, ResultOf
  <2>10. ASSUME pc = "done", forms # <<>>
         PROVE  /\ \E p \in 1 .. Len(forms) :
                      /\ p > 1 => forms[p - 1].kind = "data"
                      /\ ComesTo(forms, p, Len(forms), value)
                /\ result = DataOf(forms[Len(forms)])
    <3>1. n = Len(forms) /\ ~ EndsInWord(forms, n) /\ ResultOf(forms, n) /\ Calls = <<>>
      BY <1>1, <2>3, <2>10 DEF Verdict, AInv
    <3>2. n > 0 /\ n \in 1 .. Len(forms)
      BY <2>3, <2>10, <3>1
    <3>3. forms[n].kind = "data"
      BY <2>3, <3>1, <3>2 DEF EndsInWord
    <3>4. PICK m \in 0 .. n : Awaits(forms, m, <<>>) /\ m < n /\ ComesTo(forms, m + 1, n, value)
      BY <1>1, <2>2, <3>1, <3>2 DEF AInv, Applied
    <3>5. m + 1 > 1 => forms[m + 1 - 1].kind = "data"
      <4>1. Len(<<>>) = 0 /\ m - 0 = m /\ m + 1 - 1 = m
        OBVIOUS
      <4> QED BY <4>1, <3>4 DEF Awaits
    <3>6. m + 1 \in 1 .. Len(forms)
      BY <3>1, <3>4
    <3>7. result = DataOf(forms[Len(forms)])
      BY <3>1, <3>2, <3>3 DEF ResultOf, DataOf
    <3> QED BY <3>1, <3>4, <3>5, <3>6, <3>7
  <2> QED BY <2>2, <2>7, <2>8, <2>9, <2>10 DEF UnaryOutcome, Program
<1> QED BY <1>1, InitAInv, NextAInv, PTL DEF Spec

=============================================================================
