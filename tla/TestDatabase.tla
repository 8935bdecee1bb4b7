---------------------------- MODULE TestDatabase ----------------------------
(***************************************************************************)
(* postgrestest/database.go: Open starts a container, asks for its         *)
(* connection string and runs the setup hook; what goes wrong once the     *)
(* start has succeeded terminates the container.  Shutdown starts one      *)
(* termination that does not depend on any caller, and lets each caller    *)
(* wait.                                                                   *)
(*                                                                         *)
(* The container is external.  Errors are sets of sentinels, {} is nil.    *)
(***************************************************************************)
EXTENDS Naturals

CONSTANTS
  Opener,   \* the goroutine in Open
  Closers   \* goroutines that call Shutdown on the opened database

ASSUME TestDatabaseAssumption == Opener \notin Closers

Callers == Closers \cup {Opener}

VARIABLES
  pc,            \* where each goroutine is
  ctx,           \* its context: "live", "canceled" or "deadline"
  result,        \* the error it returned with
  exit,          \* how Open is left: "return", "panic", "goexit"
  setupEnd,      \* history: how the setup hook ended
  handed,        \* Open returned the database to its caller
  container,     \* "none", "running", "gone", "unknown"
  attempts,      \* history: calls of Terminate
  once,          \* d.shutdownOnce has run
  terminator,    \* the termination goroutine
  shutdownErr,   \* d.shutdownErr
  shutdownDone   \* d.shutdownDone has been closed

fixture == <<once, terminator, shutdownErr, shutdownDone>>
vars    == <<pc, ctx, result, exit, setupEnd, handed, container, attempts,
             fixture>>

Init ==
  /\ pc = [c \in Callers |-> IF c = Opener THEN "entry" ELSE "idle"]
  /\ ctx = [c \in Callers |-> "live"]
  /\ result = [c \in Callers |-> {}]
  /\ exit = "none"
  /\ setupEnd = "none"
  /\ handed = FALSE
  /\ container = "none"
  /\ attempts = 0
  /\ once = FALSE
  /\ terminator = "none"
  /\ shutdownErr = {}
  /\ shutdownDone = FALSE

\* Mutant: the text of the context instead of its sentinel.
CtxText(c) == {ctx[c]}

CtxCause(c) == IF ctx[c] = "canceled" THEN {"Canceled"} ELSE {"DeadlineExceeded"}

At(c, p) == pc[c] = p
Goto(c, p) == pc' = [pc EXCEPT ![c] = p]

\* Open is over: how, with which error, and whether it hands a database over.
OpenEnds(how, e, db) ==
  /\ Goto(Opener, "done")
  /\ exit' = how
  /\ result' = [result EXCEPT ![Opener] = e]
  /\ handed' = db

\* A nil or finished context is refused before a container is started.
OpenEntry ==
  /\ At(Opener, "entry")
  /\ \/ /\ ctx[Opener] = "live"
        /\ Goto(Opener, "start")
        /\ UNCHANGED <<exit, result, handed>>
     \/ ctx[Opener] # "live" /\ OpenEnds("return", CtxCause(Opener), FALSE)
     \/ OpenEnds("return", {"ContextRequired"}, FALSE)
  /\ UNCHANGED <<ctx, setupEnd, container, attempts, fixture>>

\* The starter returns its container together with the error: one that came up
\* but was not ready in time, or none.  Open drops it either way.
OpenStart ==
  /\ At(Opener, "start")
  /\ \/ /\ container' = "running"
        /\ Goto(Opener, "dsn")
        /\ UNCHANGED <<exit, result, handed>>
     \/ /\ container' \in {"none", "running"}
        /\ OpenEnds("return", {"Start"}, FALSE)
  /\ UNCHANGED <<ctx, setupEnd, attempts, fixture>>

(***************************************************************************)
(* container.Terminate under a detached, bounded context: it works, or     *)
(* fails, or panics, and a container it failed on may be up or not.        *)
(***************************************************************************)
Terminate(ok) ==
  /\ attempts' = attempts + 1
  /\ container' = IF ok THEN "gone" ELSE "unknown"

\* Without a connection string the container is terminated in place; a panic
\* of that termination is dropped.
OpenDSN ==
  /\ At(Opener, "dsn")
  /\ \/ /\ \E p \in {"setup", "ok"} : Goto(Opener, p)
        /\ UNCHANGED <<exit, result, handed, container, attempts>>
     \/ \E cleanup \in {{}, {"Terminate"}} : \E ok \in BOOLEAN :
          /\ cleanup # {} => ~ok
          /\ Terminate(ok)
          /\ OpenEnds("return", {"DSN"} \cup cleanup, FALSE)
  /\ UNCHANGED <<ctx, setupEnd, fixture>>

\* The hook ends; every end but nil goes through Shutdown with a context of
\* its own, detached from the caller's.
SetupEnds(how, p) ==
  /\ At(Opener, "setup")
  /\ setupEnd' = how
  /\ Goto(Opener, p)
  /\ UNCHANGED <<result, exit, handed, container, attempts, fixture>>

\* Mutant: without the completed flag a Goexit in the hook is not noticed.
OpenSetupUnflagged ==
  \/ SetupEnds("nil", "ok") /\ UNCHANGED ctx
  \/ \E how \in {"error", "panic"} :
       SetupEnds(how, "once") /\ ctx' = [ctx EXCEPT ![Opener] = "live"]
  \/ /\ At(Opener, "setup")
     /\ setupEnd' = "goexit"
     /\ OpenEnds("goexit", {}, FALSE)
     /\ UNCHANGED <<ctx, container, attempts, fixture>>

OpenSetup ==
  \/ SetupEnds("nil", "ok") /\ UNCHANGED ctx
  \/ \E how \in {"error", "panic", "goexit"} :
       SetupEnds(how, "once") /\ ctx' = [ctx EXCEPT ![Opener] = "live"]

OpenReturns ==
  /\ At(Opener, "ok")
  /\ OpenEnds("return", {}, TRUE)
  /\ UNCHANGED <<ctx, setupEnd, container, attempts, fixture>>

(***************************************************************************)
(* Shutdown.                                                               *)
(***************************************************************************)
ShutdownNil(c) ==
  /\ c \in Closers /\ handed
  /\ pc[c] \in {"idle", "done"}
  /\ Goto(c, "done")
  /\ result' = [result EXCEPT ![c] = {"ContextRequired"}]
  /\ UNCHANGED <<ctx, exit, setupEnd, handed, container, attempts, fixture>>

Shutdown(c) ==
  /\ c \in Closers /\ handed
  /\ pc[c] \in {"idle", "done"}
  /\ Goto(c, "once")
  /\ ctx' \in {[ctx EXCEPT ![c] = x] : x \in {"live", "canceled", "deadline"}}
  /\ result' = [result EXCEPT ![c] = {}]
  /\ UNCHANGED <<exit, setupEnd, handed, container, attempts, fixture>>

\* Mutant: every caller starts a termination.
ShutdownEveryTime(c) ==
  /\ At(c, "once")
  /\ once' = TRUE
  /\ terminator' = "spawned"
  /\ Goto(c, "wait")
  /\ UNCHANGED <<ctx, result, exit, setupEnd, handed, container, attempts,
                 shutdownErr, shutdownDone>>

ShutdownOnce(c) ==
  /\ At(c, "once")
  /\ once' = TRUE
  /\ terminator' = IF once THEN terminator ELSE "spawned"
  /\ Goto(c, "wait")
  /\ UNCHANGED <<ctx, result, exit, setupEnd, handed, container, attempts,
                 shutdownErr, shutdownDone>>

\* What the failed setup makes of the result of its Shutdown.
AfterSetup(e) ==
  IF setupEnd = "error" THEN OpenEnds("return", {"Setup"} \cup e, FALSE)
                        ELSE OpenEnds(setupEnd, {}, FALSE)

\* Either case of the select.
ShutdownReturns(c, e) ==
  /\ At(c, "wait")
  /\ IF c = Opener
       THEN AfterSetup(e)
       ELSE /\ Goto(c, "done")
            /\ result' = [result EXCEPT ![c] = e]
            /\ UNCHANGED <<exit, handed>>
  /\ UNCHANGED <<ctx, setupEnd, container, attempts, fixture>>

ShutdownDone(c) == shutdownDone /\ ShutdownReturns(c, shutdownErr)

ShutdownCtx(c) == ctx[c] # "live" /\ ShutdownReturns(c, CtxCause(c))

(***************************************************************************)
(* The termination goroutine; a panic of Terminate becomes an error.       *)
(***************************************************************************)
TerminatorRuns ==
  /\ terminator = "spawned"
  /\ \E e \in {{}, {"Terminate"}, {"TerminatePanicked"}} :
       Terminate(e = {}) /\ shutdownErr' = e
  /\ terminator' = "ran"
  /\ UNCHANGED <<pc, ctx, result, exit, setupEnd, handed, once, shutdownDone>>

\* Mutant: a panic of Terminate ends the goroutine before the signal.
TerminatorSignalsUnlessPanic ==
  /\ terminator = "ran"
  /\ "TerminatePanicked" \notin shutdownErr
  /\ shutdownDone' = TRUE
  /\ terminator' = "exited"
  /\ UNCHANGED <<pc, ctx, result, exit, setupEnd, handed, container, attempts,
                 once, shutdownErr>>

\* Mutant: the signal does not wait for the result of Terminate.
TerminatorSignalsEarly ==
  /\ terminator \in {"spawned", "ran"} /\ ~shutdownDone
  /\ shutdownDone' = TRUE
  /\ terminator' = IF terminator = "ran" THEN "exited" ELSE terminator
  /\ UNCHANGED <<pc, ctx, result, exit, setupEnd, handed, container, attempts,
                 once, shutdownErr>>

TerminatorSignals ==
  /\ terminator = "ran"
  /\ shutdownDone' = TRUE
  /\ terminator' = "exited"
  /\ UNCHANGED <<pc, ctx, result, exit, setupEnd, handed, container, attempts,
                 once, shutdownErr>>

\* A context ends while its operation is looking at it; the cleanup context
\* of a failed setup can only time out.
EndCtx(c) ==
  /\ pc[c] \notin {"idle", "done"}
  /\ ctx[c] = "live"
  /\ \E x \in (IF c = Opener /\ setupEnd # "none" THEN {"deadline"}
                                                  ELSE {"canceled", "deadline"}) :
       ctx' = [ctx EXCEPT ![c] = x]
  /\ UNCHANGED <<pc, result, exit, setupEnd, handed, container, attempts, fixture>>

\* Open failed: once its termination is over nothing is left to do.
Finished ==
  /\ pc[Opener] = "done" /\ ~handed
  /\ terminator \in {"none", "exited"}
  /\ UNCHANGED vars

-----------------------------------------------------------------------------
OpenStep == OpenEntry \/ OpenStart \/ OpenDSN \/ OpenSetup \/ OpenReturns

ShutdownStep(c) == ShutdownOnce(c) \/ ShutdownDone(c) \/ ShutdownCtx(c)

TerminatorStep == TerminatorRuns \/ TerminatorSignals

Next ==
  \/ OpenStep
  \/ \E c \in Callers : ShutdownNil(c) \/ Shutdown(c) \/ ShutdownStep(c) \/ EndCtx(c)
  \/ TerminatorStep
  \/ Finished

Spec == Init /\ [][Next]_vars

\* Goroutines run and Terminate returns within its cleanup bound; no caller's
\* context is assumed to end.
Fairness ==
  /\ WF_vars(OpenStep)
  /\ \A c \in Callers : WF_vars(ShutdownStep(c))
  /\ WF_vars(TerminatorStep)

FairSpec == Spec /\ Fairness

-----------------------------------------------------------------------------
Sentinels == {"ContextRequired", "Canceled", "DeadlineExceeded", "Start", "DSN",
              "Setup", "Terminate", "TerminatePanicked"}

\* Every variable has its type.
TypeOK ==
  /\ pc \in [Callers -> {"idle", "entry", "start", "dsn", "setup", "ok", "once",
                         "wait", "done"}]
  /\ ctx \in [Callers -> {"live", "canceled", "deadline"}]
  /\ result \in [Callers -> SUBSET Sentinels]
  /\ exit \in {"none", "return", "panic", "goexit"}
  /\ setupEnd \in {"none", "nil", "error", "panic", "goexit"}
  /\ handed \in BOOLEAN
  /\ container \in {"none", "running", "gone", "unknown"}
  /\ attempts \in Nat
  /\ once \in BOOLEAN
  /\ terminator \in {"none", "spawned", "ran", "exited"}
  /\ shutdownErr \in SUBSET Sentinels
  /\ shutdownDone \in BOOLEAN

(***************************************************************************)
(* A container is terminated at most once and, when Open handed it over,   *)
(* only by a Shutdown; the signal follows the termination                  *)
(* (database.go:233-252).                                                  *)
(***************************************************************************)
TerminatedOnce ==
  /\ attempts <= 1
  /\ shutdownDone => attempts = 1
  /\ attempts = 1 => exit # "none" \/ once
  /\ handed /\ ~once => container = "running"

(***************************************************************************)
(* Open that fails has begun the termination of a container that is up,    *)
(* whether the connection string or the hook failed, panicked or ended its *)
(* goroutine, and reports the original cause; a setup error that joins no  *)
(* cleanup error proves the container gone (database.go:136-144, 177-203). *)
(* The one exception is a failed start: its container is dropped and may   *)
(* run on (database.go:131-134).                                           *)
(***************************************************************************)
FailedOpenCleansUp ==
  pc[Opener] = "done" /\ ~handed /\ container # "none" =>
    /\ once \/ attempts = 1 \/ result[Opener] = {"Start"}
    /\ setupEnd = "error" => exit = "return" /\ "Setup" \in result[Opener]
    /\ setupEnd \in {"panic", "goexit"} => exit = setupEnd
    /\ result[Opener] = {"Setup"} => container = "gone"

(***************************************************************************)
(* A Shutdown that does not report the end of its own context reports the  *)
(* result of the one termination, which is final by then, whichever caller *)
(* started it, and nil proves the container gone (database.go:231-235,     *)
(* 244-258).                                                               *)
(***************************************************************************)
ResultsShared ==
  \A c \in Closers : pc[c] = "done" /\ result[c] # {"ContextRequired"} =>
    \/ ctx[c] # "live" /\ result[c] = CtxCause(c)
    \/ /\ shutdownDone /\ result[c] = shutdownErr
       /\ result[c] = {} => container = "gone"

(***************************************************************************)
(* A Shutdown once begun ends in the signal and every caller gets its      *)
(* answer, even without a deadline of its own and when Terminate panics    *)
(* (database.go:233-252, 261-269).                                         *)
(***************************************************************************)
ShutdownAnswers == \A c \in Callers : pc[c] = "once" ~> pc[c] = "done"
=============================================================================
