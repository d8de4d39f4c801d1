----------------------------- MODULE Environment -----------------------------
(***************************************************************************)
(* The bindings of a frame, src/runtime/env.c: bind() and                  *)
(* lookup_bindings() on a sequence that is searched from its start.  Keys  *)
(* are the literals that def() in src/main.c gives to bind().              *)
(***************************************************************************)
EXTENDS Strings

CONSTANTS Values   (* what words are bound to                               *)

VARIABLE bindings  (* the ScopeBindings                                     *)

vars == <<stringvars, bindings>>

(* alloc_bindings()                                                        *)
Init == StringsInit /\ bindings = Alloc(DefaultSize)

(* Mutant of Matches: the first binding that is not before the key.        *)
MatchesNotBefore(key) == {k \in 1 .. bindings.len : Compare(bindings.data[k].word, key) >= 0}

Matches(key) == {k \in 1 .. bindings.len : Compare(bindings.data[k].word, key) = 0}

(* lookup_bindings()                                                       *)
LookupBindings(key) ==
    IF Matches(key) # {}
    THEN [is_bound |-> TRUE, value |-> bindings.data[Least(Matches(key))].value]
    ELSE [is_bound |-> FALSE, value |-> Junk]

(* bind(): a word that is bound already gets the value where it is.  The   *)
(* code compares the key with the binding's word, lookup_bindings() the    *)
(* other way round; Matches serves both, as strv_cmp() is 0 one way if and *)
(* only if it is the other (ComparesInOrder).                              *)
Rebind(key, v) ==
    /\ subject = "bindings" /\ Matches(key) # {}
    /\ bindings' = [bindings EXCEPT !.data[Least(Matches(key))].value = v]
    /\ UNCHANGED stringvars

BindNew(key, v) ==
    /\ subject = "bindings" /\ Matches(key) = {}
    /\ bindings' \in Pushed(bindings, [word |-> key, value |-> v])
    /\ UNCHANGED stringvars

Next ==
    \/ StringsNext /\ UNCHANGED bindings
    \/ \E key \in Literals, v \in Values : Rebind(key, v) \/ BindNew(key, v)

Spec == Init /\ [][Next]_vars

----------------------------------------------------------------------------
Dictionary == INSTANCE Dictionary WITH
    Words <- Literals, map <- [w \in Literals |-> LookupBindings(w)]

(* Bindings are a map: bind() changes what lookup_bindings() finds for its *)
(* own word and nothing else, though it compares the words the other way   *)
(* round and the array moves as it grows.                                  *)
ImplementsDictionary == Dictionary!Spec
=============================================================================
