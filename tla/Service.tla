------------------------------- MODULE Service -------------------------------
(***************************************************************************)
(* A service that runs the adapter of adapters/service with the pool of    *)
(* this package as its resource: the constructor is Connect, and Ping and  *)
(* Shutdown of the resource are the calls of Pool that the same goroutine  *)
(* makes.  The rest of the application borrows connections through Raw.    *)
(* A pool handed in by the application is one that Connect opened before.  *)
(***************************************************************************)
EXTENDS Connect

CONSTANTS Stoppers, Probes

ASSUME ServiceAssumption == Stoppers \cup Probes \subseteq Calls \ {Connector}

VARIABLES options, phase, startErr, candidate, active, stopOnce, stopErr,
          stop, stopResult, probe, lateProbe, shutdowns, closedErr

Adapter == INSTANCE ServiceAdapter

adapterVars == <<options, phase, startErr, candidate, active, stopOnce,
                 stopErr, stop, stopResult, probe, lateProbe,
                 shutdowns, closedErr>>
serviceVars == <<adapterVars, allVars>>

\* TransferOwnership says nothing about a pool the adapter constructs.
ServiceInit ==
  /\ Adapter!Init
  /\ options.construct => ~options.transfer
  /\ Init
  /\ stage = IF options.pool THEN "connected" ELSE "entry"
  /\ policy \in IF options.pool THEN {"lazy"} ELSE {"lazy", "ping"}
  /\ created = options.pool
  /\ result = {}

(***************************************************************************)
(* A call of the pool and its return: Returns of Pool leaves the operation *)
(* in op when it succeeded.                                                *)
(***************************************************************************)
Makes(call, step) == step /\ call /\ UNCHANGED connectVars

Returned(c, o, errors, e) ==
  /\ pc[c] = "done"
  /\ e \in errors
  /\ op[c] = IF e = {} THEN o ELSE "none"
  /\ UNCHANGED allVars

PingReturned(c, e) == Returned(c, "Ping", Adapter!PingErrors, e)

ShutdownReturned(c, e) == Returned(c, "Shutdown", Adapter!ShutdownErrors, e)

\* A constructor of the application's may also return a typed nil.
ConstructorReturned(r) ==
  /\ CASE r = "pool" -> stage = "connected"
       [] r = "none" -> stage = "failed"
       [] r = "nil"  -> stage = "entry"
  /\ UNCHANGED allVars

StartStep ==
  \/ (Adapter!New \/ Adapter!Start \/ Adapter!StartActivate) /\ UNCHANGED allVars
  \/ \E r \in {"none", "nil", "pool"} :
       Adapter!ConstructReturns(r) /\ ConstructorReturned(r)
  \/ Makes(Ping(Connector), Adapter!StartPing)
  \/ \E e \in Adapter!PingErrors :
       Adapter!StartPingReturns(e) /\ PingReturned(Connector, e)
  \/ Makes(Shutdown(Connector), Adapter!StartCleanup)
  \/ \E e \in Adapter!ShutdownErrors :
       Adapter!StartCleanupReturns(e) /\ ShutdownReturned(Connector, e)

StopStep(t) ==
  \/ (Adapter!StopSnapshot(t) \/ Adapter!StopReturns(t)) /\ UNCHANGED allVars
  \/ Makes(Shutdown(t), Adapter!StopShutdown(t))
  \/ \E e \in Adapter!ShutdownErrors :
       Adapter!StopShutdownReturns(t, e) /\ ShutdownReturned(t, e)

ProbeStep(p) ==
  \/ Makes(Ping(p), Adapter!ReadinessPing(p))
  \/ /\ Adapter!ReadinessReturns(p)
     /\ \E e \in Adapter!PingErrors : PingReturned(p, e)

(***************************************************************************)
(* Connect runs inside the constructor; the pool it leaves runs by itself. *)
(***************************************************************************)
Connecting ==
  \/ phase = "construct" /\ ConnectStep
  \/ stage = "ping" /\ PingStep /\ UNCHANGED connectVars
  \/ /\ stage \in {"ping", "closing"}
     /\ \E s \in Slots : NativeStep(s)
     /\ UNCHANGED connectVars

Progress(c) ==
  \/ PingResult(c) \/ ShutdownOnce(c) \/ ShutdownDone(c) \/ ShutdownCtx(c)
  \/ Observe(c)

PoolStep ==
  /\ stage = "connected"
  /\ \/ \E c \in Calls : Progress(c) \/ ContextStep(c) \/ NativeCallStep(c)
     \/ \E s \in Slots : NativeSlotStep(s)
     \/ CleanupStep
  /\ UNCHANGED connectVars

-----------------------------------------------------------------------------
ServiceNext ==
  \/ StartStep
  \/ \E t \in Stoppers : StopStep(t) \/ (Adapter!Stop(t) /\ UNCHANGED allVars)
  \/ \E p \in Probes : ProbeStep(p) \/ (Adapter!Readiness(p) /\ UNCHANGED allVars)
  \/ (Connecting \/ PoolStep) /\ UNCHANGED adapterVars
  \/ Adapter!Rejected /\ UNCHANGED allVars

ServiceSpec == ServiceInit /\ [][ServiceNext]_serviceVars

(***************************************************************************)
(* As in Pool and Connect: goroutines are scheduled, timers fire, dials    *)
(* end and contexts are honoured.  Nothing is assumed of the service that  *)
(* calls Stop, or of whoever borrows through Raw.                          *)
(***************************************************************************)
Alone(step) == step /\ UNCHANGED <<adapterVars, connectVars>>

Scheduled(c) == Alone(Progress(c) \/ GiveUp(c) \/ Probe(c))

ServiceFairness ==
  /\ WF_serviceVars(\/ StartStep \/ Scheduled(Connector)
                    \/ phase = "construct" /\ ConnectStep /\ UNCHANGED adapterVars)
  /\ \A t \in Stoppers : WF_serviceVars(StopStep(t) \/ Scheduled(t))
  /\ \A p \in Probes : WF_serviceVars(ProbeStep(p) \/ Scheduled(p))
  /\ \A c \in Calls : WF_serviceVars(Alone(Expire(c)))
  /\ \A s \in Slots : WF_serviceVars(Alone(DialOK(s) \/ DialFail(s)))
  /\ WF_serviceVars(Alone(CleanupStep))

ServiceFairSpec == ServiceSpec /\ ServiceFairness

-----------------------------------------------------------------------------
\* Every variable has its type.
ServiceTypeOK == TypeOK /\ Adapter!TypeOK

(***************************************************************************)
(* The adapter's own properties with this pool as its resource: the pool   *)
(* is shut down once and only if it is owned (service.go:177-181, 198-204),*)
(***************************************************************************)
OwnedPoolShutOnce == Adapter!OwnedPoolShutOnce

\* every Stop reports the error of that one shutdown (service.go:202-206),
StopsAgree == Adapter!StopsAgree

\* and a probe begun after a Stop never reaches the pool (service.go:154-162).
LateProbesUnavailable == Adapter!LateProbesUnavailable

Drained == native = "closed" /\ \A s \in Slots : slot[s] = "none"

(***************************************************************************)
(* A Stop of a started service that has no error means that no connection  *)
(* is left, if the service owned the pool, and so does a failed startup    *)
(* that reports no timeout of its cleanup; a pool that was only handed in  *)
(* stays open (service.go:178-186, 202-206; pool.go:339-344).              *)
(***************************************************************************)
StoppedMeansDrained ==
  /\ Adapter!owned(options) /\ candidate = "pool" =>
       /\ \A t \in Stoppers :
            startErr = {} /\ stop[t] = "done" /\ stopResult[t] = {} => Drained
       /\ startErr = {"Validation"} => Drained
  /\ options.pool /\ ~options.transfer => ~closed /\ native = "open"

(***************************************************************************)
(* Start returns: the ping of Connect, the startup ping and the cleanup    *)
(* are bounded, and the close after a failed ping of Connect waits only    *)
(* for dials (service.go:166-192, pool.go:161-167).                        *)
(***************************************************************************)
StartupReturns == <>(phase \in {"returned", "rejected"})

(***************************************************************************)
(* Every Stop returns, those that wait for the Once included, even if the  *)
(* application never gives a connection back (service.go:196-206,          *)
(* pool.go:337-352).                                                       *)
(***************************************************************************)
StopsReturn == \A t \in Stoppers : stop[t] = "once" ~> stop[t] = "done"
=============================================================================
