------------------------ MODULE MCObservedTransaction ------------------------
(***************************************************************************)
(* ObservedTransaction for TLC.  The codes are one that may be retried and *)
(* one that may not, a connection error with and one without a category of *)
(* its own, and the codes of a shutdown, of a refused statement and of a   *)
(* missing savepoint.                                                      *)
(***************************************************************************)
EXTENDS ObservedTransaction

MCCodes == {"40P01", "23505", "08006", "08999", "57P01", "25P02", "3B001"}
=============================================================================
