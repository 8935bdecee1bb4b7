------------------------------ MODULE MCService ------------------------------
(***************************************************************************)
(* Service for TLC: two goroutines stop the service while a probe runs.    *)
(***************************************************************************)
EXTENDS Service
=============================================================================
