---------------------------- MODULE MCEnvironment ----------------------------
(* An instance of Environment with the strings it is made of.               *)
EXTENDS Environment

MCLiterals == {<<>>, <<1>>, <<2>>, <<1, 2>>}
=============================================================================
