------------------------------- MODULE MCPool -------------------------------
(***************************************************************************)
(* Pool for TLC: calls and slots are model values, interchangeable in the  *)
(* runs that check safety only.                                            *)
(***************************************************************************)
EXTENDS Pool, TLC

Symmetric == Permutations(Calls) \cup Permutations(Slots)
=============================================================================
