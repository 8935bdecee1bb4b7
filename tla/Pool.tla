-------------------------------- MODULE Pool --------------------------------
(***************************************************************************)
(* The wrapper of pool.go around a native pgxpool: bounded Acquire and     *)
(* Ping, shutdown admission, and a native close that one goroutine runs    *)
(* while every Shutdown caller waits on its own deadline.                  *)
(*                                                                         *)
(* A call is one goroutine inside one operation, together with the         *)
(* connection that operation gave it.  The native pool (pgxpool and        *)
(* puddle, outside this repository) is modelled by its connection slots;   *)
(* its actions allow every result the wrapper has to cope with.            *)
(*                                                                         *)
(* An error is the set of sentinels that errors.Is finds in it: {} is nil  *)
(* and errors.Join is set union.                                           *)
(***************************************************************************)
EXTENDS Naturals, FiniteSets

CONSTANTS
  Calls,            \* the goroutines that call the pool
  Slots,            \* the connection slots; their number is MaxConns
  CallerEnds,       \* how the caller's own context may end
  ObserverMayExit   \* may an observer call runtime.Goexit? (observe.go:62)

ASSUME PoolAssumption ==
  /\ IsFiniteSet(Slots)
  /\ Slots # {}
  /\ {"raw", "nobody"} \cap Calls = {}
  /\ CallerEnds \subseteq {"canceled", "callerDeadline"}
  /\ ObserverMayExit \in BOOLEAN

VARIABLES
  closed,     \* p.closed: admission has been closed
  once,       \* p.closeOnce has run
  closeDone,  \* p.closeDone has been closed
  cleanup,    \* where the cleanup goroutine of Shutdown is
  closes,     \* history: how often backend.Close was called
  native,     \* the native pool: open, closing, closed
  slot,       \* the state of each connection slot
  owner,      \* who dials or borrows the connection of a slot
  pc,         \* where each call is
  op,         \* which operation each call runs
  ctx,        \* why the derived context of each call is done, if it is
  err,        \* the error of each call so far
  stats,      \* the local stats of each Acquire
  late        \* history: the call began after some Shutdown closed admission

lifecycle == <<closed, once, closeDone, cleanup, closes>>
slots     == <<slot, owner>>
calls     == <<pc, op, ctx, err, stats, late>>
vars      == <<lifecycle, native, slots, calls>>

Operations  == {"none", "Acquire", "Ping", "Shutdown"}
Locations   == {"ready", "native", "probe", "sample", "classify", "once",
                "wait", "observe", "done", "exited"}
SlotStates  == {"none", "constructing", "idle", "acquired"}
Sentinels   == {"AcquireTimeout", "PoolExhausted", "HealthTimeout",
                "PoolClosed", "ShutdownTimeout", "ContextRequired",
                "Canceled", "DeadlineExceeded", "NativeClosed", "Connect",
                "Native"}
Holders     == Calls \cup {"raw", "nobody"}

(***************************************************************************)
(* Contexts.  A caller's context is live, or done by cancellation or by    *)
(* the caller's own deadline; "timeout" is the configured bound added by   *)
(* boundedContext.  The first cause stays.                                 *)
(***************************************************************************)
CallerContexts == {"live"} \cup CallerEnds
Contexts       == CallerContexts \cup {"timeout"}

CtxDone(c) == ctx[c] # "live"

CtxErr(c) == IF ctx[c] = "canceled" THEN {"Canceled"} ELSE {"DeadlineExceeded"}

\* errors.Is(context.Cause(ctx), ErrAcquireTimeout)
CauseIsAcquireTimeout(c) == ctx[c] = "timeout"

(***************************************************************************)
(* The statistics snapshot.                                                *)
(***************************************************************************)
Having(st) == Cardinality({s \in Slots : slot[s] = st})

Stats == [AcquiredConns     |-> Having("acquired"),
          ConstructingConns |-> Having("constructing"),
          IdleConns         |-> Having("idle"),
          MaxConns          |-> Cardinality(Slots)]

ZeroStats == [AcquiredConns |-> 0, ConstructingConns |-> 0,
              IdleConns |-> 0, MaxConns |-> 0]

\* Mutant: idle connections count as used up.
SaturatedByTotal(st) ==
  /\ st.MaxConns > 0
  /\ st.AcquiredConns + st.ConstructingConns + st.IdleConns >= st.MaxConns

poolIsSaturated(st) ==
  /\ st.MaxConns > 0
  /\ st.AcquiredConns + st.ConstructingConns >= st.MaxConns

(***************************************************************************)
(* newPool: everything is open and no connection exists (lazy startup).    *)
(***************************************************************************)
Init ==
  /\ closed = FALSE
  /\ once = FALSE
  /\ closeDone = FALSE
  /\ cleanup = "none"
  /\ closes = 0
  /\ native = "open"
  /\ slot = [s \in Slots |-> "none"]
  /\ owner = [s \in Slots |-> "nobody"]
  /\ pc = [c \in Calls |-> "ready"]
  /\ op = [c \in Calls |-> "none"]
  /\ ctx = [c \in Calls |-> "live"]
  /\ err = [c \in Calls |-> {}]
  /\ stats = [c \in Calls |-> ZeroStats]
  /\ late = [c \in Calls |-> FALSE]

(***************************************************************************)
(* Beginning a call.  A goroutine that still has a connection or is inside *)
(* an operation is busy; a second connection is another call's.            *)
(***************************************************************************)
Held(c) == {s \in Slots : owner[s] = c}

CanCall(c) == pc[c] \in {"ready", "done"} /\ Held(c) = {}

Enter(c, o, x, p, e) ==
  /\ CanCall(c)
  /\ pc' = [pc EXCEPT ![c] = p]
  /\ op' = [op EXCEPT ![c] = o]
  /\ ctx' = [ctx EXCEPT ![c] = x]
  /\ err' = [err EXCEPT ![c] = e]
  /\ late' = [late EXCEPT ![c] = once]
  /\ UNCHANGED stats

\* The admission check both operations start with, and the early return.
Admit(c, o) ==
  /\ \E x \in CallerContexts :
       \/ closed /\ Enter(c, o, x, "observe", {"PoolClosed"})
       \/ ~closed /\ Enter(c, o, x, "native", {})
  /\ UNCHANGED <<lifecycle, native, slots>>

\* Mutant: Acquire does not look at p.closed.
AcquireUnchecked(c) ==
  /\ \E x \in CallerContexts : Enter(c, "Acquire", x, "native", {})
  /\ UNCHANGED <<lifecycle, native, slots>>

Acquire(c) == Admit(c, "Acquire")

Ping(c) == Admit(c, "Ping")

(***************************************************************************)
(* The native pool serving a call that is inside backend.Acquire or        *)
(* backend.Ping.  The configured bound of a dial (ConnectTimeout) and the  *)
(* cancellation of dials by a closing pool are errors of the dial, not of  *)
(* the call's context.                                                     *)
(***************************************************************************)
Waiting(c) == pc[c] = "native" /\ Held(c) = {}

NativeReturns(c, e) ==
  /\ err' = [err EXCEPT ![c] = e]
  /\ pc' = [pc EXCEPT ![c] = IF op[c] = "Ping" THEN "classify" ELSE "sample"]
  /\ UNCHANGED <<op, ctx, stats, late>>

Granted(c) ==
  /\ pc' = [pc EXCEPT ![c] = IF op[c] = "Ping" THEN "probe" ELSE "sample"]
  /\ UNCHANGED <<op, ctx, err, stats, late>>

SetSlot(s, st, who) ==
  /\ slot' = [slot EXCEPT ![s] = st]
  /\ owner' = [owner EXCEPT ![s] = who]

\* A connection goes back: kept idle by an open pool or destroyed.
GiveBack(s) ==
  \E st \in (IF native = "open" THEN {"idle", "none"} ELSE {"none"}) :
    SetSlot(s, st, "nobody")

TakeIdle(c) ==
  /\ Waiting(c)
  /\ native = "open"
  /\ \E s \in Slots : slot[s] = "idle" /\ SetSlot(s, "acquired", c)
  /\ Granted(c)
  /\ UNCHANGED <<lifecycle, native>>

Dial(c) ==
  /\ Waiting(c)
  /\ native = "open"
  /\ \A s \in Slots : slot[s] # "idle"
  /\ \E s \in Slots : slot[s] = "none" /\ SetSlot(s, "constructing", c)
  /\ UNCHANGED <<lifecycle, native, calls>>

DialOK(s) ==
  /\ slot[s] = "constructing"
  /\ IF owner[s] \in Calls
       THEN SetSlot(s, "acquired", owner[s]) /\ Granted(owner[s])
       ELSE GiveBack(s) /\ UNCHANGED calls
  /\ UNCHANGED <<lifecycle, native>>

DialErrors == {{"Connect"}, {"DeadlineExceeded"}}
                \cup (IF native = "open" THEN {} ELSE {{"Canceled"}})

DialFail(s) ==
  /\ slot[s] = "constructing"
  /\ SetSlot(s, "none", "nobody")
  /\ IF owner[s] \in Calls
       THEN \E e \in DialErrors : NativeReturns(owner[s], e)
       ELSE UNCHANGED calls
  /\ UNCHANGED <<lifecycle, native>>

\* The context ends the wait; a dial already begun goes on without a caller.
GiveUp(c) ==
  /\ pc[c] = "native"
  /\ CtxDone(c)
  /\ owner' = [s \in Slots |-> IF owner[s] = c THEN "nobody" ELSE owner[s]]
  /\ NativeReturns(c, CtxErr(c))
  /\ UNCHANGED <<lifecycle, native, slot>>

\* A waiter that gets its turn after the native close began.
Refuse(c) ==
  /\ Waiting(c)
  /\ native # "open"
  /\ \E s \in Slots : slot[s] = "none"
  /\ NativeReturns(c, {"NativeClosed"})
  /\ UNCHANGED <<lifecycle, native, slots>>

\* The round trip of a ping on its connection, and the release inside Ping.
Probe(c) ==
  /\ pc[c] = "probe"
  /\ \E s \in Held(c) : GiveBack(s)
  /\ \/ ~CtxDone(c) /\ \E e \in {{}, {"Native"}} : NativeReturns(c, e)
     \/ CtxDone(c) /\ \E e \in {{}, CtxErr(c)} : NativeReturns(c, e)
  /\ UNCHANGED <<lifecycle, native>>

\* Background work of the native pool: MinConns dials, lifetime evictions.
BackgroundDial(s) ==
  /\ native = "open"
  /\ slot[s] = "none"
  /\ SetSlot(s, "constructing", "nobody")
  /\ UNCHANGED <<lifecycle, native, calls>>

Evict(s) ==
  /\ slot[s] = "idle"
  /\ SetSlot(s, "none", "nobody")
  /\ UNCHANGED <<lifecycle, native, calls>>

(***************************************************************************)
(* Raw hands out the native pool: borrowing through it passes no admission *)
(* check and no bound.                                                     *)
(***************************************************************************)
RawBorrow(s) ==
  /\ native = "open"
  /\ slot[s] = "idle"
  /\ SetSlot(s, "acquired", "raw")
  /\ UNCHANGED <<lifecycle, native, calls>>

RawRelease(s) ==
  /\ slot[s] = "acquired" /\ owner[s] = "raw"
  /\ GiveBack(s)
  /\ UNCHANGED <<lifecycle, native, calls>>

(***************************************************************************)
(* After the native call.                                                  *)
(***************************************************************************)
AcquireSample(c) ==
  /\ pc[c] = "sample"
  /\ stats' = [stats EXCEPT ![c] = Stats]
  /\ pc' = [pc EXCEPT ![c] = "classify"]
  /\ UNCHANGED <<lifecycle, native, slots, op, ctx, err, late>>

\* Mutant: the err != nil conjunct of the test is missing.
AcquireErrorUnguarded(c) ==
  IF CauseIsAcquireTimeout(c)
    THEN err[c] \cup {"AcquireTimeout"}
           \cup (IF poolIsSaturated(stats[c]) THEN {"PoolExhausted"} ELSE {})
    ELSE err[c]

AcquireError(c) ==
  IF err[c] # {} /\ CauseIsAcquireTimeout(c)
    THEN err[c] \cup {"AcquireTimeout"}
           \cup (IF poolIsSaturated(stats[c]) THEN {"PoolExhausted"} ELSE {})
    ELSE err[c]

PingError(c) ==
  IF "DeadlineExceeded" \in err[c] THEN err[c] \cup {"HealthTimeout"} ELSE err[c]

Classified(c, e) ==
  /\ pc[c] = "classify"
  /\ err' = [err EXCEPT ![c] = e]
  /\ pc' = [pc EXCEPT ![c] = "observe"]
  /\ UNCHANGED <<lifecycle, native, slots, op, ctx, stats, late>>

AcquireResult(c) == op[c] = "Acquire" /\ Classified(c, AcquireError(c))

PingResult(c) == op[c] = "Ping" /\ Classified(c, PingError(c))

(***************************************************************************)
(* safeObserve and the return of the operation.  A panic of the observer   *)
(* is recovered; runtime.Goexit ends the goroutine with what it holds.     *)
(* What a returned error said is forgotten: only success has a sequel.     *)
(***************************************************************************)
Returns(c, p) ==
  /\ pc[c] = "observe"
  /\ pc' = [pc EXCEPT ![c] = p]
  /\ op' = [op EXCEPT ![c] = IF err[c] = {} THEN op[c] ELSE "none"]
  /\ err' = [err EXCEPT ![c] = {}]
  /\ ctx' = [ctx EXCEPT ![c] = "live"]
  /\ stats' = [stats EXCEPT ![c] = ZeroStats]
  /\ late' = [late EXCEPT ![c] = FALSE]
  /\ UNCHANGED <<lifecycle, native, slots>>

Observe(c) == Returns(c, "done")

ObserverExit(c) == ObserverMayExit /\ Returns(c, "exited")

\* The caller of Acquire gives its connection back.
Release(c) ==
  /\ pc[c] = "done"
  /\ \E s \in Held(c) : GiveBack(s)
  /\ UNCHANGED <<lifecycle, native, calls>>

(***************************************************************************)
(* The caller's context and the timers, while the operation looks at them. *)
(***************************************************************************)
EndCtx(c, x) ==
  /\ ctx[c] = "live"
  /\ ctx' = [ctx EXCEPT ![c] = x]
  /\ UNCHANGED <<lifecycle, native, slots, pc, op, err, stats, late>>

Cancel(c) ==
  /\ pc[c] \in {"native", "probe", "sample", "classify", "once", "wait"}
  /\ \E x \in CallerEnds : EndCtx(c, x)

\* Mutant: the bound of a Shutdown call is missing.
ExpireCalls(c) ==
  /\ pc[c] \in {"native", "probe", "sample", "classify"}
  /\ EndCtx(c, "timeout")

\* Mutant: only Shutdown has a bound.
ExpireShutdownOnly(c) == pc[c] = "wait" /\ EndCtx(c, "timeout")

\* Mutant: the timer leaves a cause that is none of the four.
ExpireUnknown(c) ==
  /\ pc[c] \in {"native", "probe", "sample", "classify", "wait"}
  /\ EndCtx(c, "DeadlineExceeded")

\* The configured timeout of boundedContext fires.
Expire(c) ==
  /\ pc[c] \in {"native", "probe", "sample", "classify", "wait"}
  /\ EndCtx(c, "timeout")

(***************************************************************************)
(* Shutdown.                                                               *)
(***************************************************************************)
ShutdownNil(c) ==
  /\ Enter(c, "Shutdown", "live", "done", {"ContextRequired"})
  /\ UNCHANGED <<lifecycle, native, slots>>

\* Mutant: admission is closed only by a caller whose context is live.
ShutdownIfLive(c) ==
  /\ \E x \in CallerContexts :
       /\ Enter(c, "Shutdown", x, "once", {})
       /\ closed' = (closed \/ x = "live")
  /\ UNCHANGED <<once, closeDone, cleanup, closes, native, slots>>

\* p.closed.Store(true)
Shutdown(c) ==
  /\ \E x \in CallerContexts : Enter(c, "Shutdown", x, "once", {})
  /\ closed' = TRUE
  /\ UNCHANGED <<once, closeDone, cleanup, closes, native, slots>>

\* Mutant: the close runs per caller, without the sync.Once.
ShutdownEveryTime(c) ==
  /\ pc[c] = "once"
  /\ once' = TRUE
  /\ cleanup' = "spawned"
  /\ pc' = [pc EXCEPT ![c] = "wait"]
  /\ UNCHANGED <<closed, closeDone, closes, native, slots,
                 op, ctx, err, stats, late>>

\* Mutant: a caller whose context is done does not start the cleanup.
ShutdownOnceIfLive(c) ==
  /\ pc[c] = "once"
  /\ once' = TRUE
  /\ cleanup' = IF once \/ CtxDone(c) THEN cleanup ELSE "spawned"
  /\ pc' = [pc EXCEPT ![c] = "wait"]
  /\ UNCHANGED <<closed, closeDone, closes, native, slots,
                 op, ctx, err, stats, late>>

\* p.closeOnce.Do: the first caller starts the cleanup goroutine.
ShutdownOnce(c) ==
  /\ pc[c] = "once"
  /\ once' = TRUE
  /\ cleanup' = IF once THEN cleanup ELSE "spawned"
  /\ pc' = [pc EXCEPT ![c] = "wait"]
  /\ UNCHANGED <<closed, closeDone, closes, native, slots,
                 op, ctx, err, stats, late>>

\* The two cases of the select; when both are ready either may be taken.
ShutdownReturns(c, e) ==
  /\ pc[c] = "wait"
  /\ err' = [err EXCEPT ![c] = e]
  /\ pc' = [pc EXCEPT ![c] = "observe"]
  /\ UNCHANGED <<lifecycle, native, slots, op, ctx, stats, late>>

ShutdownDone(c) == closeDone /\ ShutdownReturns(c, {})

ShutdownCtx(c) ==
  CtxDone(c) /\ ShutdownReturns(c, {"ShutdownTimeout"} \cup CtxErr(c))

(***************************************************************************)
(* The cleanup goroutine: backend.Close, which destroys the idle           *)
(* connections and returns when every other one is back, then the signal.  *)
(***************************************************************************)
CleanupClose ==
  /\ cleanup = "spawned"
  /\ cleanup' = "closing"
  /\ closes' = closes + 1
  /\ native' = IF native = "open" THEN "closing" ELSE native
  /\ slot' = [s \in Slots |-> IF slot[s] = "idle" THEN "none" ELSE slot[s]]
  /\ UNCHANGED <<closed, once, closeDone, owner, calls>>

NativeCloseReturns ==
  /\ cleanup = "closing"
  /\ \A s \in Slots : slot[s] = "none"
  /\ native' = "closed"
  /\ cleanup' = "returned"
  /\ UNCHANGED <<closed, once, closeDone, closes, slots, calls>>

\* Mutant: the signal does not wait for backend.Close to return.
SignalEarly ==
  /\ cleanup \in {"closing", "returned"}
  /\ ~closeDone
  /\ closeDone' = TRUE
  /\ cleanup' = IF cleanup = "returned" THEN "exited" ELSE cleanup
  /\ UNCHANGED <<closed, once, closes, native, slots, calls>>

CleanupSignal ==
  /\ cleanup = "returned"
  /\ closeDone' = TRUE
  /\ cleanup' = "exited"
  /\ UNCHANGED <<closed, once, closes, native, slots, calls>>

-----------------------------------------------------------------------------
CallStep(c) ==
  \/ Acquire(c) \/ Ping(c) \/ ShutdownNil(c) \/ Shutdown(c)
  \/ AcquireSample(c) \/ AcquireResult(c) \/ PingResult(c)
  \/ ShutdownOnce(c) \/ ShutdownDone(c) \/ ShutdownCtx(c)
  \/ Observe(c) \/ ObserverExit(c) \/ Release(c)

ContextStep(c) == Cancel(c) \/ Expire(c)

NativeCallStep(c) ==
  TakeIdle(c) \/ Dial(c) \/ GiveUp(c) \/ Refuse(c) \/ Probe(c)

NativeSlotStep(s) ==
  \/ DialOK(s) \/ DialFail(s) \/ BackgroundDial(s) \/ Evict(s)
  \/ RawBorrow(s) \/ RawRelease(s)

CleanupStep == CleanupClose \/ NativeCloseReturns \/ CleanupSignal

Next ==
  \/ \E c \in Calls : CallStep(c) \/ ContextStep(c) \/ NativeCallStep(c)
  \/ \E s \in Slots : NativeSlotStep(s)
  \/ CleanupStep

Spec == Init /\ [][Next]_vars

(***************************************************************************)
(* Fairness: runnable goroutines are scheduled, timers fire, an observer   *)
(* is prompt, and the native pool honours the context of a call and its    *)
(* own ConnectTimeout.  Nothing is assumed of callers.                     *)
(***************************************************************************)
CallProgress(c) ==
  \/ AcquireSample(c) \/ AcquireResult(c) \/ PingResult(c)
  \/ ShutdownOnce(c) \/ ShutdownDone(c) \/ ShutdownCtx(c)
  \/ Observe(c) \/ ObserverExit(c)

Fairness ==
  /\ \A c \in Calls : /\ WF_vars(CallProgress(c))
                      /\ WF_vars(Expire(c))
                      /\ WF_vars(GiveUp(c))
                      /\ WF_vars(Probe(c))
  /\ \A s \in Slots : WF_vars(DialOK(s) \/ DialFail(s))
  /\ WF_vars(CleanupStep)

FairSpec == Spec /\ Fairness

-----------------------------------------------------------------------------
\* Every variable has its type.
TypeOK ==
  /\ closed \in BOOLEAN
  /\ once \in BOOLEAN
  /\ closeDone \in BOOLEAN
  /\ cleanup \in {"none", "spawned", "closing", "returned", "exited"}
  /\ closes \in Nat
  /\ native \in {"open", "closing", "closed"}
  /\ slot \in [Slots -> SlotStates]
  /\ owner \in [Slots -> Holders]
  /\ pc \in [Calls -> Locations]
  /\ op \in [Calls -> Operations]
  /\ ctx \in [Calls -> Contexts]
  /\ err \in [Calls -> SUBSET Sentinels]
  /\ stats \in [Calls -> [AcquiredConns : Nat, ConstructingConns : Nat,
                          IdleConns : Nat, MaxConns : Nat]]
  /\ late \in [Calls -> BOOLEAN]

(***************************************************************************)
(* However many goroutines call Shutdown, with whatever contexts, the      *)
(* native pool is closed once, after admission was closed, and closeDone   *)
(* is closed only when that close has returned (pool.go:326-333).          *)
(***************************************************************************)
CloseOnce ==
  /\ closes = IF native = "open" THEN 0 ELSE 1
  /\ native # "open" => closed
  /\ closeDone => native = "closed"

(***************************************************************************)
(* An Acquire or Ping that begins after some Shutdown got past its Once,   *)
(* even one whose context was already canceled, never reaches the native   *)
(* pool: it reports exactly ErrPoolClosed (pool.go:210, 243, 318).         *)
(***************************************************************************)
LateCallsRefused ==
  \A c \in Calls :
    late[c] /\ op[c] \in {"Acquire", "Ping"} =>
      pc[c] = "observe" /\ err[c] = {"PoolClosed"}

(***************************************************************************)
(* A Shutdown that returned nil is proof of resource release: the native   *)
(* pool is closed and no connection is borrowed, idle or being dialled,    *)
(* not even by a call admitted before the shutdown or through Raw          *)
(* (pool.go:339-344).                                                      *)
(***************************************************************************)
ConfirmedMeansDrained ==
  \A c \in Calls :
    op[c] = "Shutdown" /\ pc[c] \in {"observe", "done"} /\ err[c] = {} =>
      native = "closed" /\ \A s \in Slots : slot[s] = "none"

(***************************************************************************)
(* ErrAcquireTimeout is reported only for the configured bound, never for  *)
(* the caller's own cancellation or deadline, and ErrPoolExhausted only    *)
(* with it and with a sample in which no slot was idle or unused           *)
(* (pool.go:17-19, 224-229).                                               *)
(***************************************************************************)
ExhaustionAttribution ==
  \A c \in Calls : pc[c] = "observe" =>
    /\ "AcquireTimeout" \in err[c] => ctx[c] = "timeout"
    /\ "PoolExhausted" \in err[c] =>
         /\ "AcquireTimeout" \in err[c]
         /\ stats[c].IdleConns = 0
         /\ stats[c].AcquiredConns + stats[c].ConstructingConns
              = stats[c].MaxConns

(***************************************************************************)
(* No connection is lost: a borrowed one belongs to a Raw borrower or to a *)
(* call that will return it or has returned it with a nil error, so that a *)
(* timeout racing a grant never strands one (pool.go:222-235).             *)
(***************************************************************************)
NoLostConnection ==
  \A s \in Slots : slot[s] = "acquired" =>
    \/ owner[s] = "raw"
    \/ /\ owner[s] \in Calls
       /\ pc[owner[s]] \in {"probe", "sample", "classify", "observe", "done"}
       /\ op[owner[s]] \in {"Acquire", "Ping"}
       /\ err[owner[s]] = {}

(***************************************************************************)
(* Every operation returns, whatever other callers do: no call waits for a *)
(* connection nobody gives back, or for a close that never ends.           *)
(***************************************************************************)
BoundedWaits ==
  \A c \in Calls : pc[c] \notin {"ready", "done", "exited"}
                     ~> pc[c] \in {"done", "exited"}

(***************************************************************************)
(* Once admission is closed the native close finishes and is signalled,    *)
(* even if every Shutdown caller has stopped waiting: the only thing that  *)
(* can hold it up is a borrowed connection that is never returned          *)
(* (pool.go:316-319).                                                      *)
(***************************************************************************)
Drains ==
  closed ~> closeDone \/ [](\E s \in Slots : slot[s] = "acquired")

-----------------------------------------------------------------------------
(***************************************************************************)
(* The pool implements PoolContract.                                       *)
(***************************************************************************)
InFlight == {c \in Calls : pc[c] \in {"native", "probe", "sample", "classify"}}

Lent == [s \in Slots |-> IF slot[s] = "acquired" THEN owner[s] ELSE "nobody"]

Confirmed == {c \in Calls : /\ op[c] = "Shutdown"
                            /\ pc[c] \in {"observe", "done"}
                            /\ err[c] = {}}

Contract == INSTANCE PoolContract
              WITH admission <- ~closed, inflight <- InFlight, lent <- Lent,
                   drained <- (native = "closed"), confirmed <- Confirmed

\* What the pool promises its callers: see PoolContract.
ImplementsContract == Contract!Spec

-----------------------------------------------------------------------------
(***************************************************************************)
(* Statements of the documentation that the code does not keep; each has a *)
(* run of its own that exhibits the behaviour.                             *)
(***************************************************************************)

(***************************************************************************)
(* docs/faq.md:16: ErrShutdownTimeout means native close is still waiting  *)
(* for borrowed connections.  A Shutdown call takes the timeout branch     *)
(* only while the native close has not been signalled (pool.go:338).       *)
(***************************************************************************)
TimeoutMeansStillClosing ==
  [][\A c \in Calls :
       pc[c] = "wait" /\ "ShutdownTimeout" \in err'[c] => ~closeDone]_vars

(***************************************************************************)
(* pool.go:21: ErrHealthTimeout identifies a configured or caller          *)
(* health-check deadline (pool.go:256-258).                                *)
(***************************************************************************)
HealthTimeoutIsDeadline ==
  \A c \in Calls : pc[c] = "observe" /\ "HealthTimeout" \in err[c] =>
    ctx[c] \in {"timeout", "callerDeadline"}
=============================================================================
