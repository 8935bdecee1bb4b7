--------------------------- MODULE MCTestDatabase ---------------------------
(***************************************************************************)
(* TestDatabase for TLC: the goroutines are model values.                  *)
(***************************************************************************)
EXTENDS TestDatabase
=============================================================================
