--------------------------- MODULE ServiceAdapter ---------------------------
(***************************************************************************)
(* adapters/service/service.go: one PostgreSQL pool in a service           *)
(* lifecycle.  Start runs once, in one goroutine; any number of goroutines *)
(* stop the component after Start returned (the ordered lifecycle the      *)
(* adapter asks for) and readiness probes run at any time.                 *)
(*                                                                         *)
(* The constructor and the resource are the environment: every call of     *)
(* them is a step that makes it and a step in which it returns, with a     *)
(* result of the environment's choice.  Service puts Connect and Pool in   *)
(* their place.  Errors are sets of sentinels, {} is nil.                  *)
(***************************************************************************)
EXTENDS Naturals

CONSTANTS
  Stoppers,  \* goroutines that call Component.Stop
  Probes     \* goroutines that run the readiness check

VARIABLES
  options,     \* the Options given to New
  phase,       \* where construction and Start are
  startErr,    \* the result of Start
  candidate,   \* the local resource of start: "none", "nil" or "pool"
  active,      \* adapter.active; adapter.resource is the candidate from then on
  stopOnce,    \* adapter.stopOnce: "free", "running", "done"
  stopErr,     \* adapter.stopErr
  stop,        \* where each stopper is
  stopResult,  \* what each stopper got
  probe,       \* where each probe is
  lateProbe,   \* history: the probe began after some Stop returned
  shutdowns,   \* history: calls of resource.Shutdown
  closedErr    \* history: the result of resource.Shutdown

startVars   == <<options, phase, startErr, candidate>>
stopVars    == <<stopOnce, stopErr, stop, stopResult>>
probeVars   == <<probe, lateProbe>>
closeVars   == <<shutdowns, closedErr>>
adapterVars == <<startVars, active, stopVars, probeVars, closeVars>>

Options == [named : BOOLEAN, construct : BOOLEAN, pool : BOOLEAN,
            transfer : BOOLEAN, ping : BOOLEAN]

ShutdownErrors == {{}, {"ShutdownTimeout"}}

PingErrors == {{}, {"Ping"}}

owned(o) == o.construct \/ o.transfer

Init ==
  /\ options \in Options
  /\ phase = "new"
  /\ startErr = {}
  /\ candidate = "none"
  /\ active = FALSE
  /\ stopOnce = "free"
  /\ stopErr = {}
  /\ stop = [t \in Stoppers |-> "idle"]
  /\ stopResult = [t \in Stoppers |-> {}]
  /\ probe = [p \in Probes |-> "idle"]
  /\ lateProbe = [p \in Probes |-> FALSE]
  /\ shutdowns = 0
  /\ closedErr = {}

\* A name and exactly one of Pool and Construct are required.
New ==
  /\ phase = "new"
  /\ phase' = IF options.named /\ options.construct # options.pool
                THEN "idle" ELSE "rejected"
  /\ UNCHANGED <<options, startErr, candidate, active, stopVars, probeVars,
                 closeVars>>

(***************************************************************************)
(* start                                                                   *)
(***************************************************************************)
StartReturns(e) == phase' = "returned" /\ startErr' = e

Proceed == phase' = (IF options.ping THEN "ping" ELSE "activate") /\ UNCHANGED startErr

\* The constructor is called, or the pool handed in is taken.
Start ==
  /\ phase = "idle"
  /\ IF options.construct
       THEN phase' = "construct" /\ UNCHANGED <<candidate, startErr>>
       ELSE candidate' = "pool" /\ Proceed
  /\ UNCHANGED <<options, active, stopVars, probeVars, closeVars>>

\* Mutant: a typed nil passes for a pool.
ConstructReturnsTypedNil(r) ==
  /\ phase = "construct"
  /\ candidate' = r
  /\ IF r = "none" THEN StartReturns({"Construct"}) ELSE Proceed
  /\ UNCHANGED <<options, active, stopVars, probeVars, closeVars>>

\* The constructor returns an error, a typed nil, which is refused, or a pool.
ConstructReturns(r) ==
  /\ phase = "construct"
  /\ candidate' = r
  /\ CASE r = "none" -> StartReturns({"Construct"})
       [] r = "nil"  -> StartReturns({"Unavailable"})
       [] r = "pool" -> Proceed
  /\ UNCHANGED <<options, active, stopVars, probeVars, closeVars>>

StartPing ==
  /\ phase = "ping"
  /\ phase' = "pinging"
  /\ UNCHANGED <<options, startErr, candidate, active, stopVars, probeVars,
                 closeVars>>

\* Mutant: a failed startup leaves the pool to Stop.
StartPingReturnsKeepsPool(e) ==
  /\ phase = "pinging"
  /\ IF e = {} THEN phase' = "activate" /\ UNCHANGED startErr
               ELSE StartReturns({"Validation"})
  /\ UNCHANGED <<options, candidate, active, stopVars, probeVars, closeVars>>

StartPingReturns(e) ==
  /\ phase = "pinging"
  /\ CASE e = {} -> phase' = "activate" /\ UNCHANGED startErr
       [] e # {} /\ owned(options)  -> phase' = "cleanup" /\ UNCHANGED startErr
       [] e # {} /\ ~owned(options) -> StartReturns({"Validation"})
  /\ UNCHANGED <<options, candidate, active, stopVars, probeVars, closeVars>>

StartCleanup ==
  /\ phase = "cleanup"
  /\ phase' = "cleaning"
  /\ shutdowns' = shutdowns + 1
  /\ UNCHANGED <<options, startErr, candidate, active, stopVars, probeVars,
                 closedErr>>

\* Both failures are kept.
StartCleanupReturns(e) ==
  /\ phase = "cleaning"
  /\ closedErr' = e
  /\ StartReturns({"Validation"} \cup e)
  /\ UNCHANGED <<options, candidate, active, stopVars, probeVars, shutdowns>>

StartActivate ==
  /\ phase = "activate"
  /\ active' = TRUE
  /\ StartReturns({})
  /\ UNCHANGED <<options, candidate, stopVars, probeVars, closeVars>>

(***************************************************************************)
(* stop.  sync.Once: the first caller runs the body, and the others wait   *)
(* for it to finish.                                                       *)
(***************************************************************************)
Stop(t) ==
  /\ phase = "returned"
  /\ stop[t] \in {"idle", "done"}
  /\ stop' = [stop EXCEPT ![t] = "once"]
  /\ UNCHANGED <<startVars, active, stopOnce, stopErr, stopResult, probeVars,
                 closeVars>>

Snapshot(t, flag) ==
  /\ stop[t] = "once"
  /\ stopOnce = "free"
  /\ stopOnce' = flag
  /\ stop' = [stop EXCEPT ![t] = IF active /\ owned(options)
                                   THEN "shutdown" ELSE "once"]
  /\ UNCHANGED <<startVars, stopErr, stopResult, probeVars, closeVars>>

\* Mutant: the flag of the Once is set before its body has run.
StopSnapshotFlagFirst(t) == active' = FALSE /\ Snapshot(t, "done")

\* Mutant: the Once is never finished unless there is a pool to shut down.
StopSnapshotStuck(t) == active' = FALSE /\ Snapshot(t, "running")

\* Mutant: only an owned pool is deactivated.
StopSnapshotOwnedOnly(t) ==
  /\ active' = (active /\ ~owned(options))
  /\ Snapshot(t, IF active /\ owned(options) THEN "running" ELSE "done")

\* Under the mutex: take the snapshot and close admission.
StopSnapshot(t) ==
  /\ active' = FALSE
  /\ Snapshot(t, IF active /\ owned(options) THEN "running" ELSE "done")

StopShutdown(t) ==
  /\ stop[t] = "shutdown"
  /\ shutdowns' = shutdowns + 1
  /\ stop' = [stop EXCEPT ![t] = "closing"]
  /\ UNCHANGED <<startVars, active, stopOnce, stopErr, stopResult, probeVars,
                 closedErr>>

ShutdownReturns(t, e, kept) ==
  /\ stop[t] = "closing"
  /\ closedErr' = e
  /\ stopErr' = kept
  /\ stopOnce' = "done"
  /\ stop' = [stop EXCEPT ![t] = "once"]
  /\ UNCHANGED <<startVars, active, stopResult, probeVars, shutdowns>>

\* Mutant: the error of the shutdown is not retained.
StopShutdownForgets(t, e) == ShutdownReturns(t, e, {})

StopShutdownReturns(t, e) == ShutdownReturns(t, e, e)

StopReturns(t) ==
  /\ stop[t] = "once"
  /\ stopOnce = "done"
  /\ stopResult' = [stopResult EXCEPT ![t] = stopErr]
  /\ stop' = [stop EXCEPT ![t] = "done"]
  /\ UNCHANGED <<startVars, active, stopOnce, stopErr, probeVars, closeVars>>

(***************************************************************************)
(* The readiness check: Pool takes the snapshot under the read lock, the   *)
(* ping follows without it.                                                *)
(***************************************************************************)
Readiness(p) ==
  /\ phase # "rejected" /\ phase # "new"
  /\ probe[p] \in {"idle", "unavailable"}
  /\ lateProbe' = [lateProbe EXCEPT ![p] = \E t \in Stoppers : stop[t] = "done"]
  /\ probe' = [probe EXCEPT ![p] = IF active THEN "ping" ELSE "unavailable"]
  /\ UNCHANGED <<startVars, active, stopVars, closeVars>>

ReadinessPing(p) ==
  /\ probe[p] = "ping"
  /\ probe' = [probe EXCEPT ![p] = "pinging"]
  /\ UNCHANGED <<startVars, active, stopVars, lateProbe, closeVars>>

\* The check returns what the ping did; the adapter keeps nothing of it.
ReadinessReturns(p) ==
  /\ probe[p] = "pinging"
  /\ probe' = [probe EXCEPT ![p] = "idle"]
  /\ UNCHANGED <<startVars, active, stopVars, lateProbe, closeVars>>

\* Nothing is left to do for an adapter that New refused.
Rejected == phase = "rejected" /\ UNCHANGED adapterVars

-----------------------------------------------------------------------------
Next ==
  \/ New \/ Start \/ StartPing \/ StartCleanup \/ StartActivate \/ Rejected
  \/ \E r \in {"none", "nil", "pool"} : ConstructReturns(r)
  \/ \E e \in PingErrors : StartPingReturns(e)
  \/ \E e \in ShutdownErrors : StartCleanupReturns(e)
  \/ \E t \in Stoppers :
       \/ Stop(t) \/ StopSnapshot(t) \/ StopShutdown(t) \/ StopReturns(t)
       \/ \E e \in ShutdownErrors : StopShutdownReturns(t, e)
  \/ \E p \in Probes : Readiness(p) \/ ReadinessPing(p) \/ ReadinessReturns(p)

Spec == Init /\ [][Next]_adapterVars

-----------------------------------------------------------------------------
Sentinels == {"Construct", "Unavailable", "Validation", "ShutdownTimeout", "Ping"}

\* Every variable has its type.
TypeOK ==
  /\ options \in Options
  /\ phase \in {"new", "rejected", "idle", "construct", "ping", "pinging",
                "cleanup", "cleaning", "activate", "returned"}
  /\ startErr \in SUBSET Sentinels
  /\ candidate \in {"none", "nil", "pool"}
  /\ active \in BOOLEAN
  /\ active => candidate = "pool"
  /\ stopOnce \in {"free", "running", "done"}
  /\ stopErr \in ShutdownErrors
  /\ stop \in [Stoppers -> {"idle", "once", "shutdown", "closing", "done"}]
  /\ stopResult \in [Stoppers -> ShutdownErrors]
  /\ probe \in [Probes -> {"idle", "ping", "pinging", "unavailable"}]
  /\ lateProbe \in [Probes -> BOOLEAN]
  /\ shutdowns \in Nat
  /\ closedErr \in ShutdownErrors

(***************************************************************************)
(* Ownership: a shared pool is never shut down; an owned one is shut down  *)
(* once, by the failed startup or by the first Stop, and that call has     *)
(* been made when either of them returns (service.go:177-181, 198-204).    *)
(***************************************************************************)
OwnedPoolShutOnce ==
  /\ shutdowns <= 1
  /\ shutdowns = 1 => options.construct \/ options.transfer
  /\ phase = "returned" /\ candidate = "pool" /\ owned(options) =>
       ((startErr # {} \/ \E t \in Stoppers : stop[t] = "done")
          => shutdowns = 1 /\ \A t \in Stoppers : stop[t] # "closing")

(***************************************************************************)
(* Every Stop, the first, a concurrent or a repeated one, reports the      *)
(* error that the one shutdown it stands for had (service.go:136, 202-206).*)
(***************************************************************************)
StopsAgree ==
  \A t \in Stoppers : stop[t] = "done" =>
    stopResult[t] = IF startErr = {} /\ owned(options) THEN closedErr ELSE {}

(***************************************************************************)
(* A probe that begins after a Stop returned does not touch the pool and   *)
(* reports ErrUnavailable, whatever probes with an older snapshot do       *)
(* (service.go:154-162).                                                   *)
(***************************************************************************)
LateProbesUnavailable ==
  \A p \in Probes : lateProbe[p] => probe[p] = "unavailable"
=============================================================================
