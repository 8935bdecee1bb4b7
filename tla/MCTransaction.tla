---------------------------- MODULE MCTransaction ----------------------------
(***************************************************************************)
(* Transaction for TLC: the configurations bound the number of frames.     *)
(***************************************************************************)
EXTENDS Transaction
=============================================================================
