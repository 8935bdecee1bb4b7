---------------------------- MODULE PoolContract ----------------------------
(***************************************************************************)
(* What Pool promises its callers (doc comments of pool.go), without how:  *)
(* calls are admitted until shutdown begins, connections are lent while    *)
(* the pool is not drained, it drains only when shutdown has begun and     *)
(* nothing is lent, and Shutdown confirms only a drained pool.             *)
(***************************************************************************)
CONSTANTS Calls, Slots

VARIABLES
  admission,  \* are new calls admitted?
  inflight,   \* the admitted calls that have no result yet
  lent,       \* who has the connection of each slot
  drained,    \* has the native pool released everything?
  confirmed   \* the calls that Shutdown told so

cvars == <<admission, inflight, lent, drained, confirmed>>

Init ==
  /\ admission = TRUE
  /\ inflight = {}
  /\ lent = [s \in Slots |-> "nobody"]
  /\ drained = FALSE
  /\ confirmed = {}

Begin(c) ==
  /\ admission
  /\ inflight' = inflight \cup {c}
  /\ UNCHANGED <<admission, lent, drained, confirmed>>

End(c) ==
  /\ inflight' = inflight \ {c}
  /\ UNCHANGED <<admission, lent, drained, confirmed>>

\* Raw borrowers need no admission, only a pool that is not drained.
Lend(s, who) ==
  /\ ~drained
  /\ lent[s] = "nobody"
  /\ who \in inflight \cup {"raw"}
  /\ lent' = [lent EXCEPT ![s] = who]
  /\ UNCHANGED <<admission, inflight, drained, confirmed>>

GiveBack(s) ==
  /\ lent' = [lent EXCEPT ![s] = "nobody"]
  /\ UNCHANGED <<admission, inflight, drained, confirmed>>

Shut ==
  /\ admission' = FALSE
  /\ UNCHANGED <<inflight, lent, drained, confirmed>>

Drain ==
  /\ ~admission
  /\ \A s \in Slots : lent[s] = "nobody"
  /\ drained' = TRUE
  /\ UNCHANGED <<admission, inflight, lent, confirmed>>

Confirm(c) ==
  /\ drained
  /\ confirmed' = confirmed \cup {c}
  /\ UNCHANGED <<admission, inflight, lent, drained>>

\* The goroutine that was told goes on to another call.
Forget(c) ==
  /\ confirmed' = confirmed \ {c}
  /\ UNCHANGED <<admission, inflight, lent, drained>>

Next ==
  \/ \E c \in Calls : Begin(c) \/ End(c) \/ Confirm(c) \/ Forget(c)
  \/ \E s \in Slots : GiveBack(s) \/ \E who \in Calls \cup {"raw"} : Lend(s, who)
  \/ Shut
  \/ Drain

Spec == Init /\ [][Next]_cvars
=============================================================================
