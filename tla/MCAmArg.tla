------------------------------- MODULE MCAmArg -------------------------------
(* Two AmArg variables, one int value and one member name: enough for a    *)
(* value to be copied into the other, shared by reference, converted by    *)
(* assertArray/assertStruct and grown to two elements.                     *)
EXTENDS AmArg, TLC

CONSTANTS a, b

MCVars == {a, b}
=============================================================================
