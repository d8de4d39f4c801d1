---------------------------- MODULE GrowingArray ----------------------------
(***************************************************************************)
(* The arrays of operative: String of src/string/string.c and every        *)
(* sequence of include/seq.h have a length, a capacity and memory that     *)
(* realloc() may move when they grow.  id is the address of that memory;   *)
(* what was allocated and not written yet is Junk.  A growing array has    *)
(* several successors, for realloc() may move it or not.                   *)
(***************************************************************************)
EXTENDS Naturals, Sequences

CONSTANTS
    DefaultSize,   (* DEFAULT_STRING_SIZE and DEFAULT_SEQ_SIZE              *)
    Junk           (* what memory holds before it is written                *)

ASSUME SizeAssumption == DefaultSize \in Nat \ {0}

(* alloc_..._cap()                                                         *)
Alloc(cap) == [id |-> 1, len |-> 0, data |-> [k \in 1 .. cap |-> Junk]]

Capacity(a) == Len(a.data)
Content(a) == SubSeq(a.data, 1, a.len)

(* Mutant of Realloc: malloc(), which copies nothing.                      *)
ReallocFresh(a, cap) == {[a EXCEPT !.id = a.id + 1, !.data = [k \in 1 .. cap |-> Junk]]}

(* realloc() to a larger capacity.                                         *)
Realloc(a, cap) ==
    {[a EXCEPT !.id = id, !.data = @ \o [k \in 1 .. cap - Len(@) |-> Junk]] :
        id \in {a.id, a.id + 1}}

(* Room for one more element, doubling the capacity when it is used up.    *)
Grown(a) ==
    IF a.len < Capacity(a) THEN {a}
    ELSE Realloc(a, IF Capacity(a) > 0 THEN 2 * Capacity(a) ELSE DefaultSize)

(* ptr[len++] = x                                                          *)
Put(a, x) == [a EXCEPT !.data[a.len + 1] = x, !.len = @ + 1]

(* ..._push()                                                              *)
Pushed(a, x) == {Put(b, x) : b \in Grown(a)}
=============================================================================
