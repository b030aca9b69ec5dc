------------------------------- MODULE Calls --------------------------------
(***************************************************************************)
(* A program that makes one call of a pure function and keeps its name,    *)
(* its arguments and its results in call.                                  *)
(***************************************************************************)

VARIABLE call

NoCall == [f |-> "none"]

CallInit == call = NoCall
=============================================================================
