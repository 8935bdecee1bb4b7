------------------------------- MODULE Connect -------------------------------
(***************************************************************************)
(* connect of pool.go, composed with the pool it constructs: the checks of *)
(* the context, PrepareConfig, the native constructor and, for             *)
(* StartupPing, a Ping of the new pool whose failure closes the native     *)
(* pool before Connect returns.  Service composes these steps with the     *)
(* adapter that calls Connect and the pool that lives on after it.         *)
(***************************************************************************)
EXTENDS Pool

CONSTANT Connector  \* the call that runs Connect

ASSUME ConnectAssumption == Connector \in Calls

VARIABLES
  stage,    \* where Connect is
  policy,   \* input.StartupPolicy
  created,  \* history: the factory returned a native pool
  result    \* the error of Connect

connectVars == <<stage, policy, created, result>>
allVars     == <<connectVars, vars>>

Fail(e) == stage' = "failed" /\ result' = e

Advance(s) == stage' = s /\ UNCHANGED result

\* A nil or finished context is refused before any configuration.
ConnectEntry ==
  /\ stage = "entry"
  /\ \/ Advance("prepare")
     \/ \E e \in {{"ContextRequired"}, {"Canceled"}, {"DeadlineExceeded"}} : Fail(e)
  /\ UNCHANGED <<policy, created, vars>>

\* PrepareConfig, and the check of the context after it.
ConnectPrepare ==
  /\ stage = "prepare"
  /\ \/ Advance("factory")
     \/ \E e \in {{"Config"}, {"Canceled"}, {"DeadlineExceeded"}} : Fail(e)
  /\ UNCHANGED <<policy, created, vars>>

ConnectFactory ==
  /\ stage = "factory"
  /\ \/ /\ Advance(IF policy = "lazy" THEN "connected" ELSE "ping")
        /\ created' = TRUE
     \/ Fail({"Startup", "Native"}) /\ UNCHANGED created
  /\ UNCHANGED <<policy, vars>>

ConnectPing ==
  /\ stage = "ping" /\ pc[Connector] = "ready"
  /\ Ping(Connector)
  /\ UNCHANGED connectVars

\* The ping came back without an error.
ConnectReady ==
  /\ stage = "ping"
  /\ pc[Connector] = "done" /\ op[Connector] = "Ping"
  /\ Advance("connected")
  /\ UNCHANGED <<policy, created, vars>>

\* Mutant: a failed ping abandons the native pool.
ConnectAbandons ==
  /\ stage = "ping"
  /\ pc[Connector] = "done" /\ op[Connector] = "none"
  /\ Fail({"Startup"})
  /\ UNCHANGED <<policy, created, vars>>

\* The ping failed: backend.Close, in the goroutine of Connect.
ConnectClose ==
  /\ stage = "ping"
  /\ pc[Connector] = "done" /\ op[Connector] = "none"
  /\ Advance("closing")
  /\ native' = "closing"
  /\ closes' = closes + 1
  /\ slot' = [s \in Slots |-> IF slot[s] = "idle" THEN "none" ELSE slot[s]]
  /\ UNCHANGED <<policy, created, closed, once, closeDone, cleanup, owner, calls>>

ConnectCloseReturns ==
  /\ stage = "closing"
  /\ \A s \in Slots : slot[s] = "none"
  /\ native' = "closed"
  /\ Fail({"Startup"})
  /\ UNCHANGED <<policy, created, lifecycle, slots, calls>>

\* The steps of the startup ping inside the pool.
PingStep ==
  LET c == Connector
  IN  PingResult(c) \/ Observe(c) \/ ContextStep(c) \/ NativeCallStep(c)

\* The native pool works as soon as it exists; nobody has borrowed from it.
NativeStep(s) == DialOK(s) \/ DialFail(s) \/ BackgroundDial(s) \/ Evict(s)

ConnectStep ==
  \/ ConnectEntry \/ ConnectPrepare \/ ConnectFactory \/ ConnectPing
  \/ ConnectReady \/ ConnectClose \/ ConnectCloseReturns

-----------------------------------------------------------------------------
(***************************************************************************)
(* Connect is all or nothing: when it reports an error, the native pool it *)
(* may have constructed is closed, without an idle, borrowed or            *)
(* half-dialled connection left behind (pool.go:111-113, 161-165).         *)
(***************************************************************************)
FailedConnectLeavesNothing ==
  stage = "failed" /\ created =>
    /\ native = "closed" /\ closes = 1
    /\ \A s \in Slots : slot[s] = "none"
=============================================================================
