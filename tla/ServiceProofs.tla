---------------------------- MODULE ServiceProofs ----------------------------
(***************************************************************************)
(* Proofs about Service for any number of stoppers, probes and slots: the  *)
(* adapter over its own invariant, and the pool it runs over the invariant *)
(* of PoolProofs.                                                          *)
(***************************************************************************)
EXTENDS Service, PoolProofs

-----------------------------------------------------------------------------
(***************************************************************************)
(* The adapter's inductive invariant, in parts.                            *)
(***************************************************************************)

\* Until Start has returned nothing is active and nobody has stopped.
StartInv ==
  /\ phase # "returned" =>
       /\ ~active /\ startErr = {} /\ stopOnce = "free"
       /\ \A t \in Stoppers : stop[t] = "idle"
  /\ phase \in {"new", "rejected", "idle", "construct"} => candidate = "none"
  /\ phase \in {"ping", "pinging", "cleanup", "cleaning", "activate"}
       => candidate = "pool"
  /\ phase \notin {"new", "rejected"} => options.construct # options.pool
  /\ phase \in {"cleanup", "cleaning"} => Adapter!owned(options)
  /\ phase = "returned" /\ startErr = {} => candidate = "pool"

\* How often the pool has been shut down, by whom and with what result.
ShutdownInv ==
  /\ shutdowns \in {0, 1}
  /\ phase \notin {"cleaning", "returned"} => shutdowns = 0
  /\ phase = "cleaning" => shutdowns = 1
  /\ phase = "returned" /\ startErr # {} =>
       /\ ~active
       /\ shutdowns = IF candidate = "pool" /\ Adapter!owned(options) THEN 1 ELSE 0
  /\ phase = "returned" /\ startErr = {} =>
       /\ ~Adapter!owned(options) => shutdowns = 0
       /\ stopOnce = "free" => shutdowns = 0
       /\ stopOnce = "done" /\ Adapter!owned(options) => shutdowns = 1

\* The Once: one stopper is inside its body, and its result stays.
OnceInv ==
  /\ stopOnce # "free" => ~active
  /\ stopOnce = "free" => (active <=> phase = "returned" /\ startErr = {})
  /\ stopOnce # "done" => stopErr = {}
  /\ stopOnce = "done" =>
       stopErr = IF startErr = {} /\ Adapter!owned(options) THEN closedErr ELSE {}
  /\ \A t \in Stoppers :
       /\ stop[t] \in {"shutdown", "closing"} =>
            /\ stopOnce = "running"
            /\ startErr = {}
            /\ Adapter!owned(options)
            /\ shutdowns = IF stop[t] = "closing" THEN 1 ELSE 0
       /\ stop[t] = "done" => stopOnce = "done" /\ stopResult[t] = stopErr
  /\ \A t, u \in Stoppers :
       {stop[t], stop[u]} \subseteq {"shutdown", "closing"} => t = u

\* A probe that reaches the pool saw it active.
ProbeInv ==
  \A p \in Probes :
    /\ probe[p] \in {"ping", "pinging"} => candidate = "pool"
    /\ lateProbe[p] => probe[p] = "unavailable"

AdapterInv ==
  /\ Adapter!TypeOK
  /\ StartInv
  /\ ShutdownInv
  /\ OnceInv
  /\ ProbeInv

(***************************************************************************)
(* The invariant of the composition.                                       *)
(***************************************************************************)

\* The adapter has a pool only from a Connect that is over.
StageInv ==
  /\ candidate = "pool" \/ options.pool => stage = "connected"
  /\ stage \in {"entry", "prepare", "factory"} => ~created
  /\ stage = "closing" => closes = 1
  /\ closed => shutdowns = 1

\* The pool is as PoolProofs says unless Connect closed it behind its back.
PoolInv == stage \notin {"closing", "failed"} => IInv

\* An operation that returned has no error any more: no Shutdown(nil) here.
DoneInv == \A c \in Calls : pc[c] = "done" => err[c] = {}

\* A shutdown that the adapter saw succeed was signalled.
DrainInv ==
  /\ (stopOnce = "done" /\ startErr = {} /\ Adapter!owned(options)
        /\ closedErr = {}) => closeDone
  /\ (phase = "returned" /\ candidate = "pool" /\ Adapter!owned(options)
        /\ startErr = {"Validation"}) => closeDone

ServiceInv ==
  /\ TypeOK
  /\ AdapterInv
  /\ StageInv
  /\ PoolInv
  /\ DoneInv
  /\ DrainInv
  /\ FailedConnectLeavesNothing

-----------------------------------------------------------------------------
LEMMA AdapterInit == Adapter!Init => AdapterInv
<1> SUFFICES ASSUME Adapter!Init PROVE AdapterInv
  OBVIOUS
<1> USE DEF Adapter!Init
<1>1. Adapter!TypeOK
  BY DEF Adapter!TypeOK, Adapter!ShutdownErrors
<1>2. StartInv /\ ShutdownInv /\ OnceInv /\ ProbeInv
  BY DEF StartInv, ShutdownInv, OnceInv, ProbeInv
<1> QED
  BY <1>1, <1>2 DEF AdapterInv

\* Every step of the adapter keeps the adapter's invariant.
LEMMA AdapterStep ==
  ASSUME AdapterInv, [Adapter!Next]_(Adapter!adapterVars)
  PROVE  AdapterInv'
<1> USE DEF AdapterInv, StartInv, ShutdownInv, OnceInv, ProbeInv,
          Adapter!TypeOK, Adapter!startVars, Adapter!stopVars,
          Adapter!probeVars, Adapter!closeVars, Adapter!StartReturns,
          Adapter!Proceed
<1>1. CASE Adapter!New
  BY <1>1 DEF Adapter!New
<1>2. CASE Adapter!Start
  BY <1>2 DEF Adapter!Start
<1>3. CASE Adapter!StartPing
  BY <1>3 DEF Adapter!StartPing
<1>4. CASE Adapter!StartCleanup
  BY <1>4 DEF Adapter!StartCleanup
<1>5. CASE Adapter!StartActivate
  BY <1>5 DEF Adapter!StartActivate, Adapter!Sentinels
<1>6. CASE Adapter!Rejected
  BY <1>6 DEF Adapter!Rejected, Adapter!adapterVars
<1>7. ASSUME NEW r \in {"none", "nil", "pool"}, Adapter!ConstructReturns(r)
      PROVE  AdapterInv'
  <2>1. CASE r = "none"
    BY <1>7, <2>1 DEF Adapter!ConstructReturns, Adapter!Sentinels
  <2>2. CASE r = "nil"
    BY <1>7, <2>2 DEF Adapter!ConstructReturns, Adapter!Sentinels
  <2>3. CASE r = "pool"
    BY <1>7, <2>3 DEF Adapter!ConstructReturns
  <2> QED
    BY <2>1, <2>2, <2>3
<1>8. ASSUME NEW e \in Adapter!PingErrors, Adapter!StartPingReturns(e)
      PROVE  AdapterInv'
  BY <1>8 DEF Adapter!StartPingReturns, Adapter!Sentinels
<1>9. ASSUME NEW e \in Adapter!ShutdownErrors, Adapter!StartCleanupReturns(e)
      PROVE  AdapterInv'
  BY <1>9 DEF Adapter!StartCleanupReturns, Adapter!Sentinels, Adapter!ShutdownErrors
<1>10. ASSUME NEW t \in Stoppers, Adapter!Stop(t)
      PROVE  AdapterInv'
  BY <1>10 DEF Adapter!Stop
<1>11. ASSUME NEW t \in Stoppers, Adapter!StopSnapshot(t)
      PROVE  AdapterInv'
  <2>1. CASE active /\ Adapter!owned(options)
    BY <1>11, <2>1 DEF Adapter!StopSnapshot, Adapter!Snapshot
  <2>2. CASE ~(active /\ Adapter!owned(options))
    BY <1>11, <2>2 DEF Adapter!StopSnapshot, Adapter!Snapshot
  <2> QED
    BY <2>1, <2>2
<1>12. ASSUME NEW t \in Stoppers, Adapter!StopShutdown(t)
      PROVE  AdapterInv'
  BY <1>12 DEF Adapter!StopShutdown
<1>13. ASSUME NEW t \in Stoppers, Adapter!StopReturns(t)
      PROVE  AdapterInv'
  BY <1>13 DEF Adapter!StopReturns
<1>14. ASSUME NEW t \in Stoppers, NEW e \in Adapter!ShutdownErrors,
             Adapter!StopShutdownReturns(t, e)
      PROVE  AdapterInv'
  BY <1>14 DEF Adapter!StopShutdownReturns, Adapter!ShutdownReturns
<1>15. ASSUME NEW p \in Probes, Adapter!Readiness(p)
      PROVE  AdapterInv'
  BY <1>15 DEF Adapter!Readiness
<1>16. ASSUME NEW p \in Probes, Adapter!ReadinessPing(p)
      PROVE  AdapterInv'
  BY <1>16 DEF Adapter!ReadinessPing
<1>17. ASSUME NEW p \in Probes, Adapter!ReadinessReturns(p)
      PROVE  AdapterInv'
  BY <1>17 DEF Adapter!ReadinessReturns
<1>18. CASE UNCHANGED Adapter!adapterVars
  BY <1>18 DEF Adapter!adapterVars
<1> QED
  BY <1>1, <1>2, <1>3, <1>4, <1>5, <1>6, <1>7, <1>8, <1>9, <1>10, <1>11, <1>12, <1>13, <1>14, <1>15, <1>16, <1>17, <1>18 DEF Adapter!Next

-----------------------------------------------------------------------------
(***************************************************************************)
(* How the steps of the composition look from each of its parts.           *)
(***************************************************************************)

\* To the adapter: a step of its own, or none.
LEMMA SeenByAdapter ==
  ASSUME [ServiceNext]_serviceVars
  PROVE  [Adapter!Next]_(Adapter!adapterVars)
<1> USE DEF Adapter!Next
<1>1. CASE StartStep
  BY <1>1 DEF StartStep, Makes
<1>2. ASSUME NEW t \in Stoppers, StopStep(t) \/ Adapter!Stop(t)
      PROVE  Adapter!Next
  BY <1>2 DEF StopStep, Makes
<1>3. ASSUME NEW p \in Probes, ProbeStep(p) \/ Adapter!Readiness(p)
      PROVE  Adapter!Next
  BY <1>3 DEF ProbeStep, Makes
<1>4. CASE UNCHANGED adapterVars
  BY <1>4 DEF adapterVars, Adapter!adapterVars, Adapter!startVars,
              Adapter!stopVars, Adapter!probeVars, Adapter!closeVars
<1>5. CASE Adapter!Rejected
  BY <1>5
<1>6. CASE UNCHANGED serviceVars
  BY <1>4, <1>6 DEF serviceVars
<1> QED
  BY <1>1, <1>2, <1>3, <1>4, <1>5, <1>6 DEF ServiceNext

\* The goroutines that may call the pool, and when.
CallsPool(c) ==
  /\ c \in Calls
  /\ candidate = "pool"
  /\ Ping(c) \/ (Shutdown(c) /\ shutdowns' = shutdowns + 1)

\* The pool at work, without a call of the adapter.
Works ==
  \/ \E c \in Calls : Progress(c) \/ ContextStep(c) \/ NativeCallStep(c)
  \/ \E s \in Slots : NativeSlotStep(s)
  \/ CleanupStep

\* Connect before and after the native pool is touched.
ConnectMoves ==
  \/ ConnectEntry \/ ConnectPrepare \/ ConnectFactory \/ ConnectReady
  \/ ConnectClose \/ ConnectCloseReturns

\* To the pool: a call, its own work, a step of Connect, or nothing.
LEMMA SeenByPool ==
  ASSUME AdapterInv, [ServiceNext]_serviceVars
  PROVE  \/ UNCHANGED allVars
         \/ (\E c \in Calls : CallsPool(c)) /\ UNCHANGED connectVars
         \/ /\ Works \/ Ping(Connector)
            /\ stage \in {"ping", "closing", "connected"}
            /\ stage = "closing" => closes' = closes
            /\ UNCHANGED connectVars
            /\ UNCHANGED adapterVars
         \/ ConnectMoves /\ UNCHANGED adapterVars
<1> USE ConnectAssumption, ServiceAssumption DEF AdapterInv
<1>1. CASE StartStep
  BY <1>1 DEF StartStep, Makes, PingReturned, ShutdownReturned, Returned,
              ConstructorReturned, CallsPool, StartInv, Adapter!StartPing,
              Adapter!StartCleanup
<1>2. ASSUME NEW t \in Stoppers, StopStep(t)
      PROVE  UNCHANGED allVars \/ (CallsPool(t) /\ UNCHANGED connectVars)
  BY <1>2 DEF StopStep, Makes, ShutdownReturned, Returned, CallsPool, StartInv,
              OnceInv, Adapter!StopShutdown
<1>3. ASSUME NEW p \in Probes, ProbeStep(p)
      PROVE  UNCHANGED allVars \/ (CallsPool(p) /\ UNCHANGED connectVars)
  BY <1>3 DEF ProbeStep, Makes, PingReturned, Returned, CallsPool, ProbeInv,
              Adapter!ReadinessPing
<1>4. CASE Connecting /\ UNCHANGED adapterVars
  <2>1. CASE ConnectStep
    BY <1>4, <2>1 DEF ConnectStep, ConnectMoves, ConnectPing
  <2>2. CASE stage = "ping" /\ PingStep /\ UNCHANGED connectVars
    BY <1>4, <2>2 DEF PingStep, Works, Progress
  <2>3. CASE /\ stage \in {"ping", "closing"}
             /\ \E s \in Slots : NativeStep(s)
             /\ UNCHANGED connectVars
    <3>1. closes' = closes
      BY <2>3 DEF NativeStep, DialOK, DialFail, BackgroundDial, Evict, lifecycle
    <3> QED
      BY <1>4, <2>3, <3>1 DEF NativeStep, Works, NativeSlotStep
  <2> QED
    BY <1>4, <2>1, <2>2, <2>3 DEF Connecting
<1>5. CASE PoolStep /\ UNCHANGED adapterVars
  BY <1>5 DEF PoolStep, Works
<1> QED
  BY <1>1, <1>2, <1>3, <1>4, <1>5 DEF ServiceNext, serviceVars

-----------------------------------------------------------------------------
\* A call and the pool's work are steps of Pool.
LEMMA PoolSteps ==
  /\ Works => Next
  /\ \A c \in Calls : Ping(c) \/ Shutdown(c) => Next
<1>1. ASSUME NEW c \in Calls, Progress(c) PROVE CallStep(c)
  BY <1>1 DEF Progress, CallStep
<1>2. Works => Next
  BY <1>1 DEF Works, Next
<1>3. ASSUME NEW c \in Calls, Ping(c) \/ Shutdown(c) PROVE Next
  BY <1>3 DEF CallStep, Next
<1> QED
  BY <1>2, <1>3

\* The composition keeps the types of the pool.
LEMMA ServiceTypeStep ==
  ASSUME TypeOK, AdapterInv, [ServiceNext]_serviceVars
  PROVE  TypeOK'
<1>1. CASE [Next]_vars
  BY <1>1, TypeStep
<1>2. CASE ConnectClose \/ ConnectCloseReturns
  BY <1>2 DEF ConnectClose, ConnectCloseReturns, TypeOK, SlotStates, lifecycle,
              slots, calls
<1>3. CASE UNCHANGED allVars \/ ConnectEntry \/ ConnectPrepare \/ ConnectFactory
             \/ ConnectReady
  BY <1>1, <1>3 DEF allVars, ConnectEntry, ConnectPrepare, ConnectFactory,
                    ConnectReady
<1>4. CASE Works \/ Ping(Connector) \/ \E c \in Calls : CallsPool(c)
  BY <1>1, <1>4, PoolSteps, ConnectAssumption DEF CallsPool
<1> QED
  BY <1>2, <1>3, <1>4, SeenByPool DEF ConnectMoves

\* The pool's own invariant survives until Connect closes the native pool.
LEMMA PoolInvStep ==
  ASSUME AdapterInv, PoolInv, [ServiceNext]_serviceVars
  PROVE  PoolInv'
<1>1. CASE [Next]_vars /\ (stage' \notin {"closing", "failed"}
                             => stage \notin {"closing", "failed"})
  BY <1>1, InvStep DEF PoolInv
<1>2. CASE UNCHANGED allVars \/ ConnectEntry \/ ConnectPrepare \/ ConnectFactory
             \/ ConnectReady
  BY <1>1, <1>2 DEF allVars, connectVars, ConnectEntry, ConnectPrepare,
                    ConnectFactory, ConnectReady
<1>3. CASE ConnectClose \/ ConnectCloseReturns
  BY <1>3 DEF PoolInv, ConnectClose, ConnectCloseReturns, Advance, Fail
<1>4. CASE (Works \/ Ping(Connector) \/ \E c \in Calls : CallsPool(c))
             /\ UNCHANGED connectVars
  BY <1>1, <1>4, PoolSteps, ConnectAssumption DEF CallsPool, connectVars
<1> QED
  BY <1>2, <1>3, <1>4, SeenByPool DEF ConnectMoves

\* Nothing in the service passes Shutdown a nil context.
LEMMA DoneStep ==
  ASSUME TypeOK, AdapterInv, DoneInv, [ServiceNext]_serviceVars
  PROVE  DoneInv'
<1> USE DEF DoneInv, TypeOK, calls, slots, lifecycle
<1>1. CASE UNCHANGED calls
  BY <1>1
<1>2. CASE UNCHANGED allVars \/ ConnectMoves
  BY <1>1, <1>2 DEF allVars, vars, ConnectMoves, ConnectEntry, ConnectPrepare,
                    ConnectFactory, ConnectReady, ConnectClose,
                    ConnectCloseReturns
<1>3. ASSUME NEW c \in Calls, Ping(c) \/ Shutdown(c)
      PROVE  DoneInv'
  BY <1>3 DEF Ping, Admit, Shutdown, Enter
<1>4. ASSUME NEW c \in Calls, Progress(c)
      PROVE  DoneInv'
  BY <1>4 DEF Progress, PingResult, Classified, ShutdownOnce, ShutdownDone,
              ShutdownCtx, ShutdownReturns, Observe, Returns
<1>5. ASSUME NEW c \in Calls, ContextStep(c)
      PROVE  DoneInv'
  BY <1>5 DEF ContextStep, Cancel, Expire, EndCtx
<1>6. ASSUME NEW c \in Calls, NEW e, NativeReturns(c, e)
      PROVE  DoneInv'
  BY <1>6 DEF NativeReturns
<1>7. ASSUME NEW c \in Calls, Granted(c)
      PROVE  DoneInv'
  BY <1>7 DEF Granted
<1>8. ASSUME NEW c \in Calls, NativeCallStep(c)
      PROVE  DoneInv'
  BY <1>1, <1>6, <1>7, <1>8 DEF NativeCallStep, TakeIdle, Dial, GiveUp, Refuse,
                                Probe
<1>9. ASSUME NEW s \in Slots, NativeSlotStep(s)
      PROVE  DoneInv'
  <2>1. CASE DialOK(s)
    BY <1>1, <1>7, <2>1 DEF DialOK
  <2>2. CASE DialFail(s)
    BY <1>1, <1>6, <2>2 DEF DialFail
  <2> QED
    BY <1>1, <1>9, <2>1, <2>2 DEF NativeSlotStep, BackgroundDial, Evict,
                                  RawBorrow, RawRelease
<1>10. CASE CleanupStep
  BY <1>1, <1>10 DEF CleanupStep, CleanupClose, NativeCloseReturns, CleanupSignal
<1> QED
  BY <1>2, <1>3, <1>4, <1>5, <1>8, <1>9, <1>10, ConnectAssumption, SeenByPool
     DEF Works, CallsPool

\* Only Shutdown closes admission, and the signal is never taken back.
LEMMA FlagSteps ==
  /\ Works => closed' = closed /\ (closeDone => closeDone')
  /\ \A c \in Calls : Ping(c) => closed' = closed /\ closeDone' = closeDone
  /\ \A c \in Calls : Shutdown(c) => closeDone' = closeDone
<1> USE DEF lifecycle
<1>1. ASSUME NEW c \in Calls, Progress(c) \/ ContextStep(c) \/ NativeCallStep(c)
      PROVE  closed' = closed /\ closeDone' = closeDone
  <2>1. CASE Progress(c)
    BY <2>1 DEF Progress, PingResult, Classified, ShutdownOnce, ShutdownDone,
                ShutdownCtx, ShutdownReturns, Observe, Returns
  <2>2. CASE ContextStep(c)
    BY <2>2 DEF ContextStep, Cancel, Expire, EndCtx
  <2>3. CASE NativeCallStep(c)
    BY <2>3 DEF NativeCallStep, TakeIdle, Dial, GiveUp, Refuse, Probe
  <2> QED
    BY <1>1, <2>1, <2>2, <2>3
<1>2. ASSUME NEW s \in Slots, NativeSlotStep(s)
      PROVE  closed' = closed /\ closeDone' = closeDone
  BY <1>2 DEF NativeSlotStep, DialOK, DialFail, BackgroundDial, Evict, RawBorrow,
              RawRelease
<1>3. CleanupStep => closed' = closed /\ (closeDone => closeDone')
  BY DEF CleanupStep, CleanupClose, NativeCloseReturns, CleanupSignal
<1>4. Works => closed' = closed /\ (closeDone => closeDone')
  BY <1>1, <1>2, <1>3 DEF Works
<1> QED
  BY <1>4 DEF Ping, Admit, Shutdown

\* The adapter's candidate, while nobody constructs or starts.
LEMMA CandidateSteps ==
  ASSUME AdapterInv, StageInv, [ServiceNext]_serviceVars
  PROVE  /\ options' = options
         /\ candidate' = "pool" => candidate = "pool" \/ stage = "connected"
         /\ shutdowns' \in {shutdowns, shutdowns + 1}
<1> USE DEF Adapter!startVars, Adapter!closeVars
<1>1. CASE StartStep
  <2>1. CASE Adapter!Start
    BY <2>1 DEF Adapter!Start, AdapterInv, StartInv, StageInv, Adapter!TypeOK,
                Adapter!Options, Adapter!Proceed
  <2>2. ASSUME NEW r \in {"none", "nil", "pool"}, Adapter!ConstructReturns(r),
               ConstructorReturned(r)
        PROVE  /\ options' = options
               /\ candidate' = "pool" => candidate = "pool" \/ stage = "connected"
               /\ shutdowns' \in {shutdowns, shutdowns + 1}
    <3>1. options' = options /\ candidate' = r /\ shutdowns' = shutdowns
      BY <2>2 DEF Adapter!ConstructReturns
    <3>2. r = "pool" => stage = "connected"
      BY <2>2 DEF ConstructorReturned
    <3> QED
      BY <3>1, <3>2
  <2> QED
    BY <1>1, <2>1, <2>2 DEF StartStep, Makes, Adapter!New, Adapter!StartActivate,
                     Adapter!StartPing, Adapter!StartPingReturns,
                     Adapter!StartCleanup, Adapter!StartCleanupReturns
<1>2. ASSUME NEW t \in Stoppers, StopStep(t) \/ Adapter!Stop(t)
      PROVE  /\ options' = options /\ candidate' = candidate
             /\ shutdowns' \in {shutdowns, shutdowns + 1}
  BY <1>2 DEF StopStep, Makes, Adapter!Stop, Adapter!StopSnapshot,
              Adapter!Snapshot, Adapter!StopReturns, Adapter!StopShutdown,
              Adapter!StopShutdownReturns, Adapter!ShutdownReturns
<1>3. ASSUME NEW p \in Probes, ProbeStep(p) \/ Adapter!Readiness(p)
      PROVE  options' = options /\ candidate' = candidate /\ shutdowns' = shutdowns
  BY <1>3 DEF ProbeStep, Makes, Adapter!Readiness, Adapter!ReadinessPing,
              Adapter!ReadinessReturns
<1>4. CASE UNCHANGED adapterVars \/ Adapter!Rejected \/ UNCHANGED serviceVars
  BY <1>4 DEF adapterVars, serviceVars, Adapter!Rejected, Adapter!adapterVars
<1> QED
  BY <1>1, <1>2, <1>3, <1>4 DEF ServiceNext

\* Connect's stage, the adapter's candidate and the closed flag stay in step.
LEMMA StageStep ==
  ASSUME AdapterInv, AdapterInv', StageInv, PoolInv, [ServiceNext]_serviceVars
  PROVE  StageInv'
<1>1. /\ options' = options
      /\ candidate' = "pool" => candidate = "pool" \/ stage = "connected"
      /\ shutdowns' \in {shutdowns, shutdowns + 1}
      /\ shutdowns \in {0, 1} /\ shutdowns' \in {0, 1}
  BY CandidateSteps DEF AdapterInv, ShutdownInv
<1>2. CASE UNCHANGED connectVars /\ UNCHANGED closes /\ closed' = closed
  BY <1>1, <1>2 DEF StageInv, connectVars
<1>3. CASE UNCHANGED allVars
  BY <1>2, <1>3 DEF allVars, vars, lifecycle
<1>4. ASSUME NEW c \in Calls, CallsPool(c), UNCHANGED connectVars
      PROVE  StageInv'
  <2>1. CASE Ping(c)
    BY <1>2, <1>4, <2>1 DEF Ping, Admit, lifecycle
  <2>2. CASE Shutdown(c) /\ shutdowns' = shutdowns + 1
    <3>1. shutdowns' = 1
      BY <1>1, <2>2
    <3> QED
      BY <1>1, <1>4, <2>2, <3>1 DEF StageInv, connectVars, Shutdown
  <2> QED
    BY <1>4, <2>1, <2>2 DEF CallsPool
<1>5. CASE /\ Works \/ Ping(Connector)
           /\ stage = "closing" => closes' = closes
           /\ UNCHANGED connectVars
           /\ UNCHANGED adapterVars
  <2>1. closed' = closed
    BY <1>5, FlagSteps, ConnectAssumption
  <2> QED
    BY <1>1, <1>5, <2>1 DEF StageInv, connectVars, adapterVars
<1>6. CASE ConnectMoves /\ UNCHANGED adapterVars
  <2>1. closed' = closed /\ shutdowns' = shutdowns /\ candidate' = candidate
    BY <1>6 DEF ConnectMoves, ConnectEntry, ConnectPrepare, ConnectFactory,
                ConnectReady, ConnectClose, ConnectCloseReturns, adapterVars,
                vars, lifecycle
  <2>2. CASE ConnectEntry \/ ConnectPrepare
    BY <1>1, <2>1, <2>2 DEF ConnectEntry, ConnectPrepare, Advance, Fail, StageInv
  <2>3. CASE ConnectFactory \/ ConnectReady \/ ConnectCloseReturns
    BY <1>1, <2>1, <2>3 DEF ConnectFactory, ConnectReady, ConnectCloseReturns,
                            Advance, Fail, StageInv
  <2>4. CASE ConnectClose
    <3>1. closes = 0
      BY <2>4 DEF ConnectClose, PoolInv, IInv, LifecycleInv, StageInv, TypeOK,
                  AdapterInv, StartInv, ShutdownInv, OnceInv
    <3> QED
      BY <1>1, <2>1, <2>4, <3>1 DEF ConnectClose, Advance, StageInv
  <2> QED
    BY <1>6, <2>2, <2>3, <2>4 DEF ConnectMoves
<1> QED
  BY <1>3, <1>4, <1>5, <1>6, SeenByPool

\* A Connect that failed is over, and its native pool stays closed.
LEMMA FailedStep ==
  ASSUME AdapterInv, StageInv, FailedConnectLeavesNothing,
         [ServiceNext]_serviceVars
  PROVE  FailedConnectLeavesNothing'
<1> USE DEF FailedConnectLeavesNothing
<1>1. CASE UNCHANGED allVars
  BY <1>1 DEF allVars, connectVars, vars, lifecycle, slots
<1>2. CASE stage # "failed" /\ UNCHANGED connectVars
  BY <1>2 DEF connectVars
<1>3. CASE \E c \in Calls : CallsPool(c) /\ UNCHANGED connectVars
  BY <1>2, <1>3 DEF CallsPool, StageInv
<1>4. CASE ConnectMoves
  <2>1. CASE ConnectEntry \/ ConnectPrepare
    BY <2>1 DEF ConnectEntry, ConnectPrepare, Advance, Fail, StageInv
  <2>2. CASE ConnectFactory \/ ConnectReady \/ ConnectClose
    BY <2>2 DEF ConnectFactory, ConnectReady, ConnectClose, Advance, Fail,
                StageInv
  <2>3. CASE ConnectCloseReturns
    BY <2>3 DEF ConnectCloseReturns, StageInv, lifecycle, slots
  <2> QED
    BY <1>4, <2>1, <2>2, <2>3 DEF ConnectMoves
<1> QED
  BY <1>1, <1>2, <1>3, <1>4, SeenByPool

\* What the resource returned from Shutdown with a nil error means.
LEMMA ShutdownConfirms ==
  ASSUME PoolInv, DoneInv, stage = "connected", NEW c \in Calls,
         ShutdownReturned(c, {})
  PROVE  closeDone
BY DEF ShutdownReturned, Returned, PoolInv, DoneInv, IInv, ConfirmInv

\* The adapter reports success only for a close that was signalled.
LEMMA DrainStep ==
  ASSUME AdapterInv, AdapterInv', StageInv, PoolInv, DoneInv, DrainInv,
         [ServiceNext]_serviceVars
  PROVE  DrainInv'
<1>1. closeDone => closeDone'
  <2>1. CASE UNCHANGED allVars \/ ConnectMoves
    BY <2>1 DEF allVars, vars, lifecycle, ConnectMoves, ConnectEntry,
                ConnectPrepare, ConnectFactory, ConnectReady, ConnectClose,
                ConnectCloseReturns
  <2> QED
    BY <2>1, SeenByPool, FlagSteps, ConnectAssumption DEF CallsPool
<1>2. CASE UNCHANGED <<options, phase, startErr, candidate, stopOnce, closedErr>>
  BY <1>1, <1>2 DEF DrainInv
<1>3. CASE StartStep
  <2>1. CASE Adapter!New \/ Adapter!Start \/ Adapter!StartPing
               \/ Adapter!StartCleanup \/ Adapter!StartActivate
    BY <1>1, <2>1 DEF DrainInv, Adapter!New, Adapter!Start, Adapter!StartPing,
         Adapter!StartCleanup, Adapter!StartActivate, Adapter!StartReturns,
         Adapter!Proceed, Adapter!stopVars, Adapter!closeVars, AdapterInv,
         StartInv
  <2>2. ASSUME NEW r \in {"none", "nil", "pool"}, Adapter!ConstructReturns(r)
        PROVE  DrainInv'
    <3>1. stopOnce' = "free" /\ (phase' = "returned" => startErr' # {"Validation"})
      BY <2>2 DEF Adapter!ConstructReturns, Adapter!StartReturns,
                  Adapter!Proceed, Adapter!stopVars, AdapterInv, StartInv
    <3> QED
      BY <3>1 DEF DrainInv
  <2>3. ASSUME NEW e \in Adapter!PingErrors, Adapter!StartPingReturns(e)
        PROVE  DrainInv'
    <3>1. /\ stopOnce' = "free"
          /\ phase' = "returned" => ~Adapter!owned(options)
          /\ options' = options
      BY <2>3 DEF Adapter!StartPingReturns, Adapter!StartReturns,
                  Adapter!stopVars, AdapterInv, StartInv
    <3> QED
      BY <3>1 DEF DrainInv
  <2>4. ASSUME NEW e \in Adapter!ShutdownErrors,
               Adapter!StartCleanupReturns(e), ShutdownReturned(Connector, e)
        PROVE  DrainInv'
    <3>1. /\ stopOnce' = "free" /\ candidate = "pool"
          /\ startErr' = {"Validation"} \cup e
      BY <2>4 DEF Adapter!StartCleanupReturns, Adapter!StartReturns,
                  Adapter!stopVars, AdapterInv, StartInv
    <3>2. e # {} => startErr' # {"Validation"}
      BY <3>1 DEF Adapter!ShutdownErrors
    <3>3. e = {} => closeDone
      BY <2>4, <3>1, ShutdownConfirms, ConnectAssumption DEF StageInv
    <3> QED
      BY <1>1, <3>1, <3>2, <3>3 DEF DrainInv
  <2> QED
    BY <1>3, <2>1, <2>2, <2>3, <2>4 DEF StartStep, Makes
<1>4. ASSUME NEW t \in Stoppers, StopStep(t)
      PROVE  DrainInv'
  <2> USE DEF Adapter!startVars, Adapter!closeVars
  <2>1. CASE Adapter!StopSnapshot(t)
    BY <1>1, <2>1 DEF Adapter!StopSnapshot, Adapter!Snapshot, DrainInv,
                      AdapterInv, StartInv, OnceInv, Adapter!TypeOK
  <2>2. CASE Adapter!StopReturns(t) \/ Adapter!StopShutdown(t)
    BY <1>2, <2>2 DEF Adapter!StopReturns, Adapter!StopShutdown
  <2>3. ASSUME NEW e \in Adapter!ShutdownErrors,
               Adapter!StopShutdownReturns(t, e), ShutdownReturned(t, e)
        PROVE  DrainInv'
    <3>1. /\ closedErr' = e /\ candidate = "pool" /\ startErr = {}
          /\ UNCHANGED <<options, phase, startErr, candidate>>
      BY <2>3 DEF Adapter!StopShutdownReturns, Adapter!ShutdownReturns,
                  AdapterInv, StartInv, OnceInv
    <3>2. e = {} => closeDone
      BY <2>3, <3>1, ShutdownConfirms, ServiceAssumption DEF StageInv
    <3> QED
      BY <1>1, <3>1, <3>2 DEF DrainInv
  <2> QED
    BY <1>4, <2>1, <2>2, <2>3 DEF StopStep, Makes
<1>5. ASSUME NEW t \in Stoppers, Adapter!Stop(t)
      PROVE  DrainInv'
  BY <1>2, <1>5 DEF Adapter!Stop, Adapter!startVars, Adapter!closeVars
<1>6. ASSUME NEW p \in Probes, ProbeStep(p) \/ Adapter!Readiness(p)
      PROVE  DrainInv'
  BY <1>2, <1>6 DEF ProbeStep, Makes, Adapter!Readiness, Adapter!ReadinessPing,
       Adapter!ReadinessReturns, Adapter!startVars, Adapter!stopVars,
       Adapter!closeVars
<1>7. CASE UNCHANGED adapterVars \/ Adapter!Rejected \/ UNCHANGED serviceVars
  BY <1>2, <1>7 DEF adapterVars, serviceVars, Adapter!Rejected,
       Adapter!adapterVars, Adapter!startVars, Adapter!stopVars,
       Adapter!closeVars
<1> QED
  BY <1>3, <1>4, <1>5, <1>6, <1>7 DEF ServiceNext

-----------------------------------------------------------------------------
LEMMA ServiceInitInv == ServiceInit => ServiceInv
<1> SUFFICES ASSUME ServiceInit PROVE ServiceInv
  OBVIOUS
<1>1. IInv /\ AdapterInv
  BY InitInv, AdapterInit DEF ServiceInit
<1>2. TypeOK /\ PoolInv
  BY <1>1 DEF IInv, PoolInv
<1>3. StageInv /\ DrainInv /\ FailedConnectLeavesNothing
  BY DEF ServiceInit, Init, Adapter!Init, StageInv, DrainInv,
         FailedConnectLeavesNothing
<1>4. DoneInv
  BY DEF ServiceInit, Init, DoneInv
<1> QED
  BY <1>1, <1>2, <1>3, <1>4 DEF ServiceInv

\* ServiceInv is an invariant of the composition.
THEOREM ServiceInvariance == ServiceSpec => []ServiceInv
<1>1. ServiceInv /\ [ServiceNext]_serviceVars => ServiceInv'
  <2> SUFFICES ASSUME ServiceInv, [ServiceNext]_serviceVars
               PROVE  ServiceInv'
    OBVIOUS
  <2>1. AdapterInv'
    BY SeenByAdapter, AdapterStep DEF ServiceInv
  <2> QED
    BY <2>1, ServiceTypeStep, StageStep, PoolInvStep, DoneStep, DrainStep,
       FailedStep DEF ServiceInv
<1> QED
  BY ServiceInitInv, <1>1, PTL DEF ServiceSpec

\* Pool, adapter and Connect keep their types, for any number of goroutines.
THEOREM ServiceTypeCorrect == ServiceSpec => []ServiceTypeOK
<1>1. ServiceInv => ServiceTypeOK
  BY DEF ServiceInv, AdapterInv, ServiceTypeOK
<1> QED
  BY ServiceInvariance, <1>1, PTL

(***************************************************************************)
(* With this pool in its environment the adapter still behaves as its own  *)
(* specification says: the composition adds no step to it.                 *)
(***************************************************************************)
THEOREM ServiceImplementsAdapter == ServiceSpec => Adapter!Spec
<1>1. ServiceInit => Adapter!Init
  BY DEF ServiceInit
<1>2. [ServiceNext]_serviceVars => [Adapter!Next]_(Adapter!adapterVars)
  BY SeenByAdapter
<1> QED
  BY <1>1, <1>2, PTL DEF ServiceSpec, Adapter!Spec

(***************************************************************************)
(* A shared pool is never shut down and an owned one at most once, before  *)
(* the failed Start or any Stop returns, for any number of stoppers.       *)
(***************************************************************************)
THEOREM ShutsOwnedPoolOnce == ServiceSpec => []OwnedPoolShutOnce
<1>1. ServiceInv => OwnedPoolShutOnce
  BY DEF ServiceInv, AdapterInv, StartInv, ShutdownInv, OnceInv,
         OwnedPoolShutOnce, Adapter!OwnedPoolShutOnce, Adapter!owned,
         Adapter!TypeOK
<1> QED
  BY ServiceInvariance, <1>1, PTL

\* First, concurrent and repeated Stops all report the one shutdown's error.
THEOREM StopsAlwaysAgree == ServiceSpec => []StopsAgree
<1>1. ServiceInv => StopsAgree
  BY DEF ServiceInv, AdapterInv, OnceInv, StopsAgree, Adapter!StopsAgree
<1> QED
  BY ServiceInvariance, <1>1, PTL

\* No probe that begins after a Stop returned reaches the pool.
THEOREM RefusesLateProbes == ServiceSpec => []LateProbesUnavailable
<1>1. ServiceInv => LateProbesUnavailable
  BY DEF ServiceInv, AdapterInv, ProbeInv, LateProbesUnavailable,
         Adapter!LateProbesUnavailable
<1> QED
  BY ServiceInvariance, <1>1, PTL

\* A Connect that reports an error leaves no native pool behind.
THEOREM ConnectLeavesNothing == ServiceSpec => []FailedConnectLeavesNothing
<1>1. ServiceInv => FailedConnectLeavesNothing
  BY DEF ServiceInv
<1> QED
  BY ServiceInvariance, <1>1, PTL

(***************************************************************************)
(* A nil Stop of a service that owns its pool means no connection is left, *)
(* and a pool that was only handed in stays open, whatever the stoppers,   *)
(* the probes and the application's borrowers do.                          *)
(***************************************************************************)
THEOREM StopDrains == ServiceSpec => []StoppedMeansDrained
<1>1. ServiceInv => StoppedMeansDrained
  <2> SUFFICES ASSUME ServiceInv PROVE StoppedMeansDrained
    OBVIOUS
  <2> USE DEF ServiceInv, AdapterInv
  <2>1. candidate = "pool" /\ closeDone => Drained
    BY DEF StageInv, PoolInv, IInv, LifecycleInv, SlotInv, TypeOK, Drained
  <2>2. ASSUME Adapter!owned(options), candidate = "pool", NEW t \in Stoppers,
               startErr = {}, stop[t] = "done", stopResult[t] = {}
        PROVE  Drained
    BY <2>1, <2>2 DEF OnceInv, DrainInv
  <2>3. ASSUME Adapter!owned(options), candidate = "pool",
               startErr = {"Validation"}
        PROVE  Drained
    BY <2>1, <2>3 DEF StartInv, DrainInv
  <2>4. ASSUME options.pool, ~options.transfer
        PROVE  ~closed /\ native = "open"
    <3>1. shutdowns = 0
      BY <2>4 DEF StartInv, ShutdownInv, OnceInv, Adapter!owned, Adapter!TypeOK,
                  Adapter!Options
    <3>2. ~closed /\ stage = "connected"
      BY <2>4, <3>1 DEF StageInv
    <3> QED
      BY <3>2 DEF PoolInv, IInv, TypeOK, LifecycleInv
  <2> QED
    BY <2>2, <2>3, <2>4 DEF StoppedMeansDrained
<1> QED
  BY ServiceInvariance, <1>1, PTL
=============================================================================
