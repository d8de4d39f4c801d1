-------------------------- MODULE NumbersPortable --------------------------
(***************************************************************************)
(* parse_number() compiled by a compiler without overflow builtins, and    *)
(* compiled by one with them, of the same Literals.                        *)
(***************************************************************************)
EXTENDS Numbers

Builtin == INSTANCE Numbers WITH HasBuiltins <- TRUE

(* The two halves of src/miscutil.c are interchangeable: whatever the      *)
(* program does with the hand-written range checks it also does with       *)
(* __builtin_add_overflow and __builtin_mul_overflow.                      *)
ImplementsBuiltin == Builtin!Spec
=============================================================================
