----------------------------- MODULE Dictionary -----------------------------
(* What the bindings of a frame promise: a map from words to values.        *)
CONSTANTS Words, Values, Junk

VARIABLE map

Init == \A w \in Words : map[w] = [is_bound |-> FALSE, value |-> Junk]

Bind(word, v) == map' = [map EXCEPT ![word] = [is_bound |-> TRUE, value |-> v]]

Next == \E word \in Words, v \in Values : Bind(word, v)

Spec == Init /\ [][Next]_map
=============================================================================
