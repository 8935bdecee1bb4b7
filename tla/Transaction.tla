---------------------------- MODULE Transaction ----------------------------
(***************************************************************************)
(* RunTransaction and RunSavepoint of transaction.go, and RunIsolated of   *)
(* postgrestest/transaction.go: one goroutine runs a transaction (frame 1),*)
(* to be committed or, isolated, to be rolled back in any case, whose      *)
(* callback may run savepoints (the other frames), one after the other or  *)
(* nested.  Begin, callback, commit and rollback are foreign code that may *)
(* return an error, panic or, except for rollback, end the goroutine with  *)
(* runtime.Goexit.                                                         *)
(*                                                                         *)
(* The pgx session and the server are external.  A write is the number of  *)
(* the frame whose callback made it; pending[f] are the writes that stand  *)
(* or fall with frame f.                                                   *)
(***************************************************************************)
EXTENDS Naturals

CONSTANT MaxFrames  \* bound: the transaction and its savepoints

ASSUME TransactionAssumption == MaxFrames \in Nat \ {0}

Frames == 1 .. MaxFrames

VARIABLES
  faulty,         \* may a rollback time out, fail or panic by itself?
  isolated,       \* is frame 1 run by RunIsolated?
  pc,             \* where each frame is
  parent,         \* the frame whose callback started a savepoint
  ctxDone,        \* is the context of the frame done?
  exit,           \* how the frame's function is being left
  err,            \* the sentinels of the frame's error
  needsRollback,  \* the local of runInTransaction
  observed,       \* the outcome reported to the observer
  bodyEnd,        \* history: how the callback ended
  commitEnd,      \* history: how tx.Commit ended
  rollbackEnd,    \* history: how tx.Rollback ended
  borrowed,       \* is the transaction's pool connection still borrowed?
  broken,         \* is the connection closed?
  aborted,        \* does the server refuse statements until a rollback?
  live,           \* does the server still have the frame's (save)point?
  pending,        \* writes that stand or fall with the frame
  durable,        \* the committed writes
  wrote           \* history: the frames whose callback wrote

runVars     == <<faulty, isolated>>
frameVars   == <<pc, parent, exit, err, needsRollback, observed>>
endVars     == <<bodyEnd, commitEnd, rollbackEnd>>
sessionVars == <<borrowed, broken, aborted, live, pending, durable>>
vars        == <<runVars, frameVars, endVars, sessionVars, ctxDone, wrote>>

Locations == {"unused", "begin", "body", "child", "commit", "deferred",
              "outer", "done"}
Exits     == {"none", "return", "panic", "goexit"}
Outcomes  == {"none", "success", "error", "panic", "aborted"}
Ends      == {"none", "nil", "error", "panic", "goexit"}
Sentinels == {"NilCallback", "Begin", "Callback", "Commit", "Rollback"}

Init ==
  /\ faulty \in BOOLEAN
  /\ isolated = FALSE
  /\ pc = [f \in Frames |-> "unused"]
  /\ parent = [f \in Frames |-> 0]
  /\ ctxDone = [f \in Frames |-> FALSE]
  /\ exit = [f \in Frames |-> "none"]
  /\ err = [f \in Frames |-> {}]
  /\ needsRollback = [f \in Frames |-> FALSE]
  /\ observed = [f \in Frames |-> "none"]
  /\ bodyEnd = [f \in Frames |-> "none"]
  /\ commitEnd = [f \in Frames |-> "none"]
  /\ rollbackEnd = [f \in Frames |-> "none"]
  /\ borrowed = FALSE
  /\ broken = FALSE
  /\ aborted = FALSE
  /\ live = [f \in Frames |-> FALSE]
  /\ pending = [f \in Frames |-> {}]
  /\ durable = {}
  /\ wrote = {}

(***************************************************************************)
(* The session.  A lost connection takes all pending writes with it; a     *)
(* savepoint that is released, or left behind, adds its writes to its      *)
(* parent's.                                                               *)
(***************************************************************************)
Lose ==
  /\ broken' = TRUE
  /\ live' = [f \in Frames |-> FALSE]
  /\ pending' = [f \in Frames |-> {}]
  /\ UNCHANGED aborted

Merge(f) ==
  pending' = [pending EXCEPT ![parent[f]] = @ \cup pending[f], ![f] = {}]

Usable(f) == ~broken /\ ~aborted /\ live[f]

\* COMMIT or RELEASE SAVEPOINT takes effect.
Keep(f) ==
  /\ Usable(f)
  /\ live' = [live EXCEPT ![f] = FALSE]
  /\ IF f = 1
       THEN durable' = pending[f] /\ pending' = [pending EXCEPT ![f] = {}]
       ELSE Merge(f) /\ UNCHANGED durable
  /\ UNCHANGED <<broken, aborted>>

\* ROLLBACK or ROLLBACK TO SAVEPOINT takes effect.
Undo(f) ==
  /\ ~broken
  /\ live[f] \/ f = 1
  /\ live' = [live EXCEPT ![f] = FALSE]
  /\ pending' = [pending EXCEPT ![f] = {}]
  /\ aborted' = FALSE
  /\ UNCHANGED <<broken, durable>>

\* A savepoint stays behind: its statement was not sent or had no effect.
LeaveBehind(f) ==
  /\ ~broken
  /\ f # 1
  /\ Merge(f)
  /\ live' = [live EXCEPT ![f] = FALSE]
  /\ UNCHANGED <<broken, aborted, durable>>

\* Going back to a savepoint that is already released is an error that
\* makes the server refuse the rest of the transaction.
NoSuchSavepoint(f) ==
  /\ ~broken
  /\ f # 1 /\ ~live[f]
  /\ aborted' = TRUE
  /\ UNCHANGED <<broken, live, pending, durable>>

NoEffect == UNCHANGED <<broken, aborted, live, pending, durable>>

\* A pgxpool transaction gives its connection back when it ends.
ReturnConnection(f) == borrowed' = (borrowed /\ f # 1)

(***************************************************************************)
(* RunTransaction, RunIsolated and RunSavepoint up to begin.  A nil        *)
(* callback is refused with no effect and no observation.                  *)
(***************************************************************************)
Start(f, p) ==
  /\ pc[f] = "unused"
  /\ parent' = [parent EXCEPT ![f] = p]
  /\ ctxDone' = [ctxDone EXCEPT ![f] = IF p = 0 THEN FALSE ELSE ctxDone[p]]
  /\ UNCHANGED <<faulty, exit, needsRollback, observed, endVars, sessionVars,
                 wrote>>

Began(f) ==
  /\ pc' = [pc EXCEPT ![f] = "begin"]
  /\ UNCHANGED err

RunTransaction == Start(1, 0) /\ Began(1) /\ UNCHANGED isolated

RunIsolated == Start(1, 0) /\ Began(1) /\ isolated' = TRUE

\* Savepoints take the next unused frame: frames are numbered in call order.
RunSavepoint(f, g) ==
  /\ pc[f] = "body"
  /\ g > 1 /\ pc[g] = "unused" /\ \A h \in 1 .. g - 1 : pc[h] # "unused"
  /\ pc' = [pc EXCEPT ![f] = "child", ![g] = "begin"]
  /\ UNCHANGED <<err, isolated>>
  /\ Start(g, f)

NilCallback ==
  /\ Start(1, 0)
  /\ pc' = [pc EXCEPT ![1] = "done"]
  /\ err' = [err EXCEPT ![1] = {"NilCallback"}]
  /\ UNCHANGED isolated

(***************************************************************************)
(* Leaving runInTransaction: how, with which error, and where next.        *)
(***************************************************************************)
Leave(f, p, x, e) ==
  /\ pc' = [pc EXCEPT ![f] = p]
  /\ exit' = [exit EXCEPT ![f] = x]
  /\ err' = [err EXCEPT ![f] = e]

BeginReturns(f) ==
  /\ pc[f] = "begin"
  /\ ~ctxDone[f] /\ ~broken /\ ~aborted
  /\ pc' = [pc EXCEPT ![f] = "body"]
  /\ needsRollback' = [needsRollback EXCEPT ![f] = TRUE]
  /\ live' = [live EXCEPT ![f] = TRUE]
  /\ borrowed' = TRUE
  /\ UNCHANGED <<parent, exit, err, observed, endVars, broken, aborted,
                 pending, durable, ctxDone, wrote, runVars>>

\* A statement fails: on the server, or with the connection.
Fails ==
  \/ aborted' = TRUE /\ UNCHANGED <<broken, live, pending>>
  \/ Lose

\* The deferred cleanup is not registered yet.  A SAVEPOINT that was sent
\* fails the way any statement of the enclosing transaction does.
BeginFails(f) ==
  /\ pc[f] = "begin"
  /\ \/ Leave(f, "outer", "return", {"Begin"}) /\ NoEffect
     \/ /\ Leave(f, "outer", "return", {"Begin"})
        /\ f # 1 /\ Usable(parent[f]) /\ Fails /\ UNCHANGED durable
     \/ /\ \E x \in {"panic", "goexit"} : Leave(f, "outer", x, {})
        /\ NoEffect
  /\ UNCHANGED <<parent, needsRollback, observed, endVars, borrowed, ctxDone,
                 wrote, runVars>>

(***************************************************************************)
(* The callback.                                                           *)
(***************************************************************************)
Write(f) ==
  /\ pc[f] = "body"
  /\ ~ctxDone[f] /\ Usable(f)
  /\ pending' = [pending EXCEPT ![f] = @ \cup {f}]
  /\ wrote' = wrote \cup {f}
  /\ UNCHANGED <<frameVars, endVars, borrowed, broken, aborted, live, durable,
                 ctxDone, runVars>>

StatementFails(f) ==
  /\ pc[f] = "body"
  /\ Usable(f)
  /\ Fails
  /\ UNCHANGED <<frameVars, endVars, borrowed, durable, ctxDone, wrote, runVars>>

EndBody(f, how) == bodyEnd' = [bodyEnd EXCEPT ![f] = how]

\* The frame of RunIsolated: nothing of it is committed.
Isolated(f) == isolated /\ f = 1

\* Mutant: the isolated transaction is committed when its callback is content.
CallbackReturnsCommits(f) ==
  /\ pc[f] = "body"
  /\ \/ /\ EndBody(f, "nil")
        /\ pc' = [pc EXCEPT ![f] = "commit"]
        /\ UNCHANGED <<exit, err>>
     \/ EndBody(f, "error") /\ Leave(f, "deferred", "return", {"Callback"})
  /\ UNCHANGED <<parent, needsRollback, observed, commitEnd, rollbackEnd,
                 sessionVars, ctxDone, wrote, runVars>>

CallbackReturns(f) ==
  /\ pc[f] = "body"
  /\ \/ /\ EndBody(f, "nil")
        /\ IF Isolated(f)
             THEN Leave(f, "deferred", "return", {})
             ELSE pc' = [pc EXCEPT ![f] = "commit"] /\ UNCHANGED <<exit, err>>
     \/ EndBody(f, "error") /\ Leave(f, "deferred", "return", {"Callback"})
  /\ UNCHANGED <<parent, needsRollback, observed, commitEnd, rollbackEnd,
                 sessionVars, ctxDone, wrote, runVars>>

CallbackTerminates(f) ==
  /\ pc[f] = "body"
  /\ \E x \in {"panic", "goexit"} : EndBody(f, x) /\ Leave(f, "deferred", x, {})
  /\ UNCHANGED <<parent, needsRollback, observed, commitEnd, rollbackEnd,
                 sessionVars, ctxDone, wrote, runVars>>

\* A savepoint is over: the callback goes on with its result, or recovers
\* its panic, or is taken down by it; Goexit cannot be recovered.
ChildEnds(f, g) ==
  /\ pc[f] = "child"
  /\ parent[g] = f /\ pc[g] = "done"
  /\ \A h \in Frames : parent[h] = f => h <= g
  /\ \/ /\ exit[g] # "goexit"
        /\ pc' = [pc EXCEPT ![f] = "body"]
        /\ UNCHANGED <<exit, err, bodyEnd>>
     \/ /\ exit[g] \in {"panic", "goexit"}
        /\ EndBody(f, exit[g])
        /\ Leave(f, "deferred", exit[g], {})
  /\ UNCHANGED <<parent, needsRollback, observed, commitEnd, rollbackEnd,
                 sessionVars, ctxDone, wrote, runVars>>

(***************************************************************************)
(* tx.Commit.  A returned result is terminal, a panic or Goexit leaves the *)
(* rollback armed.                                                         *)
(***************************************************************************)
Lost(f) ==
  /\ ~broken
  /\ Lose
  /\ durable' \in {durable, IF f = 1 /\ ~aborted THEN pending[f] ELSE durable}

\* A commit that fails without an answer: the connection is given up, except
\* that a release not sent, or refused, leaves its savepoint behind.
CommitRefused(f) ==
  /\ broken \/ aborted \/ ctxDone[f]
  /\ \/ broken /\ NoEffect
     \/ LeaveBehind(f)
     \/ f = 1 /\ ~broken /\ Lose /\ UNCHANGED durable

\* Mutant: a commit error is not terminal, the rollback stays armed.
CommitReturnsArmed(f) ==
  /\ pc[f] = "commit"
  /\ \/ /\ ~ctxDone[f] /\ Keep(f)
        /\ Leave(f, "deferred", "return", {})
        /\ commitEnd' = [commitEnd EXCEPT ![f] = "nil"]
        /\ needsRollback' = [needsRollback EXCEPT ![f] = FALSE]
     \/ /\ CommitRefused(f) \/ Lost(f)
        /\ Leave(f, "deferred", "return", {"Commit"})
        /\ commitEnd' = [commitEnd EXCEPT ![f] = "error"]
        /\ UNCHANGED needsRollback
  /\ ReturnConnection(f)
  /\ UNCHANGED <<parent, observed, bodyEnd, rollbackEnd, ctxDone, wrote, runVars>>

\* Mutant: the commit error is dropped.
CommitErrorDropped(f) ==
  /\ pc[f] = "commit"
  /\ \/ ~ctxDone[f] /\ Keep(f)
     \/ CommitRefused(f) \/ Lost(f)
  /\ Leave(f, "deferred", "return", {})
  /\ commitEnd' = [commitEnd EXCEPT ![f] = "nil"]
  /\ needsRollback' = [needsRollback EXCEPT ![f] = FALSE]
  /\ ReturnConnection(f)
  /\ UNCHANGED <<parent, observed, bodyEnd, rollbackEnd, ctxDone, wrote, runVars>>

CommitReturns(f) ==
  /\ pc[f] = "commit"
  /\ \/ /\ ~ctxDone[f] /\ Keep(f)
        /\ Leave(f, "deferred", "return", {})
        /\ commitEnd' = [commitEnd EXCEPT ![f] = "nil"]
     \/ /\ CommitRefused(f) \/ Lost(f)
        /\ Leave(f, "deferred", "return", {"Commit"})
        /\ commitEnd' = [commitEnd EXCEPT ![f] = "error"]
  /\ needsRollback' = [needsRollback EXCEPT ![f] = FALSE]
  /\ ReturnConnection(f)
  /\ UNCHANGED <<parent, observed, bodyEnd, rollbackEnd, ctxDone, wrote, runVars>>

CommitTerminates(f) ==
  /\ pc[f] = "commit"
  /\ \E x \in {"panic", "goexit"} :
       Leave(f, "deferred", x, {}) /\ commitEnd' = [commitEnd EXCEPT ![f] = x]
  /\ NoEffect \/ Keep(f)
  /\ UNCHANGED <<parent, needsRollback, observed, bodyEnd, rollbackEnd,
                 borrowed, ctxDone, wrote, runVars>>

(***************************************************************************)
(* The deferred cleanup.  The rollback runs under its own detached         *)
(* context; its error joins a returned error and is dropped otherwise, its *)
(* panic is recovered, except that isolation which had no other cause to   *)
(* report lets it propagate.                                               *)
(***************************************************************************)
RollbackSucceeds(f) == Undo(f)

\* Mutant: the rollback runs under the caller's context.
RollbackFailsWithCaller(f) ==
  \/ broken /\ NoEffect
  \/ NoSuchSavepoint(f)
  \/ (faulty \/ ctxDone[f]) /\ LeaveBehind(f)

RollbackFails(f) ==
  \/ broken /\ NoEffect
  \/ NoSuchSavepoint(f)
  \/ faulty /\ (LeaveBehind(f) \/ (~broken /\ Lose /\ UNCHANGED durable))

RollbackPanics(f) ==
  faulty /\ ((f = 1 /\ NoEffect) \/ Undo(f) \/ LeaveBehind(f))

\* Mutant: a panic of the rollback is not recovered.
RolledBackUnrecovered(f, how) ==
  /\ pc[f] = "deferred"
  /\ needsRollback[f]
  /\ rollbackEnd' = [rollbackEnd EXCEPT ![f] = how]
  /\ Leave(f, "outer", IF how = "panic" THEN "panic" ELSE exit[f],
           IF exit[f] = "return" /\ how = "error"
             THEN err[f] \cup {"Rollback"} ELSE err[f])
  /\ UNCHANGED <<parent, needsRollback, observed, bodyEnd, commitEnd, ctxDone,
                 wrote, runVars>>

\* The end of the rollback, and what the deferred function makes of it.
RolledBack(f, how) ==
  /\ pc[f] = "deferred"
  /\ needsRollback[f]
  /\ rollbackEnd' = [rollbackEnd EXCEPT ![f] = how]
  /\ Leave(f, "outer",
           IF how = "panic" /\ Isolated(f) /\ exit[f] = "return" /\ err[f] = {}
             THEN "panic" ELSE exit[f],
           IF exit[f] = "return" /\ how = "error"
             THEN err[f] \cup {"Rollback"} ELSE err[f])
  /\ UNCHANGED <<parent, needsRollback, observed, bodyEnd, commitEnd, ctxDone,
                 wrote, runVars>>

Rollback(f) ==
  \/ RolledBack(f, "nil") /\ RollbackSucceeds(f) /\ ReturnConnection(f)
  \/ RolledBack(f, "error") /\ RollbackFails(f) /\ ReturnConnection(f)
  \/ RolledBack(f, "panic") /\ RollbackPanics(f) /\ UNCHANGED borrowed

\* Mutant: a frame left by Goexit is taken for one that needs no cleanup.
NoRollbackIfNil(f) ==
  /\ pc[f] = "deferred"
  /\ ~needsRollback[f] \/ (exit[f] # "panic" /\ err[f] = {})
  /\ pc' = [pc EXCEPT ![f] = "outer"]
  /\ UNCHANGED <<parent, exit, err, needsRollback, observed, endVars,
                 sessionVars, ctxDone, wrote, runVars>>

NoRollback(f) ==
  /\ pc[f] = "deferred"
  /\ ~needsRollback[f]
  /\ pc' = [pc EXCEPT ![f] = "outer"]
  /\ UNCHANGED <<parent, exit, err, needsRollback, observed, endVars,
                 sessionVars, ctxDone, wrote, runVars>>

(***************************************************************************)
(* The deferred observation of RunTransaction and RunSavepoint; there is   *)
(* none in RunIsolated.                                                    *)
(***************************************************************************)
\* Mutant: without the completed flag a Goexit looks like a nil error.
OutcomeByError(f) ==
  CASE exit[f] = "panic"                    -> "panic"
    [] exit[f] # "panic" /\ err[f] = {}     -> "success"
    [] exit[f] # "panic" /\ err[f] # {}     -> "error"

\* Mutant: the outcome names the error's text.
OutcomeUnbounded(f) ==
  CASE exit[f] = "panic"                  -> "panic"
    [] exit[f] = "goexit"                 -> "aborted"
    [] exit[f] = "return" /\ err[f] = {}  -> "success"
    [] exit[f] = "return" /\ err[f] # {}  -> "postgres: begin transaction"

Outcome(f) ==
  CASE exit[f] = "panic"                  -> "panic"
    [] exit[f] = "goexit"                 -> "aborted"
    [] exit[f] = "return" /\ err[f] = {}  -> "success"
    [] exit[f] = "return" /\ err[f] # {}  -> "error"

Observe(f) ==
  /\ pc[f] = "outer"
  /\ observed' = [observed EXCEPT ![f] = IF Isolated(f) THEN "none" ELSE Outcome(f)]
  /\ pc' = [pc EXCEPT ![f] = "done"]
  /\ UNCHANGED <<parent, exit, err, needsRollback, endVars, sessionVars,
                 ctxDone, wrote, runVars>>

\* A caller's context ends, and with it those derived from it in callbacks.
Cancel(f) ==
  /\ pc[f] \in {"begin", "body", "child", "commit"}
  /\ ~ctxDone[f]
  /\ ctxDone' = [g \in Frames |-> ctxDone[g] \/ (g >= f /\ pc[g] \notin {"unused", "done"})]
  /\ UNCHANGED <<frameVars, endVars, sessionVars, wrote, runVars>>

Terminated == pc[1] = "done" /\ UNCHANGED vars

-----------------------------------------------------------------------------
Step(f) ==
  \/ BeginReturns(f) \/ BeginFails(f)
  \/ CallbackReturns(f) \/ CallbackTerminates(f)
  \/ \E g \in Frames : ChildEnds(f, g)
  \/ CommitReturns(f) \/ CommitTerminates(f)
  \/ Rollback(f) \/ NoRollback(f) \/ Observe(f)

Next ==
  \/ RunTransaction \/ RunIsolated \/ NilCallback
  \/ \E f \in Frames :
       \/ Step(f) \/ Write(f) \/ StatementFails(f) \/ Cancel(f)
       \/ \E g \in Frames : RunSavepoint(f, g)
  \/ Terminated

Spec == Init /\ [][Next]_vars

-----------------------------------------------------------------------------
\* Every variable has its type.
TypeOK ==
  /\ faulty \in BOOLEAN /\ isolated \in BOOLEAN
  /\ pc \in [Frames -> Locations]
  /\ parent \in [Frames -> {0} \cup Frames]
  /\ ctxDone \in [Frames -> BOOLEAN]
  /\ exit \in [Frames -> Exits]
  /\ err \in [Frames -> SUBSET Sentinels]
  /\ needsRollback \in [Frames -> BOOLEAN]
  /\ observed \in [Frames -> Outcomes]
  /\ bodyEnd \in [Frames -> Ends]
  /\ commitEnd \in [Frames -> Ends]
  /\ rollbackEnd \in [Frames -> Ends]
  /\ borrowed \in BOOLEAN /\ broken \in BOOLEAN /\ aborted \in BOOLEAN
  /\ live \in [Frames -> BOOLEAN]
  /\ pending \in [Frames -> SUBSET Frames]
  /\ durable \in SUBSET Frames
  /\ wrote \in SUBSET Frames

(***************************************************************************)
(* Every transaction or savepoint whose callback ran is finalized once: a  *)
(* commit result is terminal, and everything else, Goexit and a panic of   *)
(* commit included, gets one rollback (transaction.go:170-197).            *)
(***************************************************************************)
FinalizedOnce ==
  \A f \in Frames :
    /\ pc[f] \in {"outer", "done"} /\ bodyEnd[f] # "none" =>
         (rollbackEnd[f] = "none" <=> commitEnd[f] \in {"nil", "error"})
    /\ commitEnd[f] # "none" => bodyEnd[f] = "nil"

(***************************************************************************)
(* The caller sees the original cause: the cleanup adds its error to a     *)
(* returned error and can replace neither a returned error nor a panic nor *)
(* the end of the goroutine (transaction.go:58-61).                        *)
(***************************************************************************)
CausePreserved ==
  \A f \in Frames : pc[f] = "done" =>
    /\ bodyEnd[f] = "error" =>
         /\ exit[f] = "return"
         /\ err[f] = {"Callback"} \cup
                     (IF rollbackEnd[f] = "error" THEN {"Rollback"} ELSE {})
    /\ bodyEnd[f] \in {"panic", "goexit"} => exit[f] = bodyEnd[f]
    /\ commitEnd[f] \in {"panic", "goexit"} => exit[f] = commitEnd[f]
    /\ commitEnd[f] = "error" => exit[f] = "return" /\ err[f] = {"Commit"}

(***************************************************************************)
(* The observer hears of success exactly when the commit succeeded, and of *)
(* a goroutine that ends as aborted although its error is nil              *)
(* (transaction.go:79-96, 129-144).                                        *)
(***************************************************************************)
ObservedTruthfully ==
  \A f \in Frames : pc[f] = "done" /\ ~Isolated(f) =>
    /\ observed[f] = "success" <=> commitEnd[f] = "nil"
    /\ observed[f] = "aborted" <=> "goexit" \in {bodyEnd[f], commitEnd[f], exit[f]}
    /\ observed[f] = "none" <=> err[f] = {"NilCallback"}

(***************************************************************************)
(* When RunTransaction or RunIsolated is over its pool connection is back, *)
(* except that a rollback that panicked itself may have kept it            *)
(* (transaction.go:171-186, postgrestest/transaction.go:58-76).            *)
(***************************************************************************)
ConnectionReturned ==
  pc[1] = "done" /\ borrowed => rollbackEnd[1] = "panic"

(***************************************************************************)
(* The frame and the frames whose callbacks it runs in: the least set that *)
(* holds the frame and, with a frame, its parent.                          *)
(***************************************************************************)
Chain(up, f) ==
  {g \in Frames : \A S \in SUBSET Frames :
     f \in S /\ (\A h \in S : up[h] \in S \cup {0}) => g \in S}

Enclosing(f) == Chain(parent, f)

(***************************************************************************)
(* What a failed callback, or one inside it, wrote is never committed      *)
(* later by an enclosing transaction that goes on, unless the rollback     *)
(* itself failed: cancelling the caller's context is not enough, since the *)
(* cleanup context is detached from it (transaction.go:221-223).           *)
(***************************************************************************)
FailedWritesUndone ==
  \A f \in durable : \A a \in Enclosing(f) :
    \/ bodyEnd[a] = "error"
    \/ bodyEnd[a] \in {"panic", "goexit"}
    \/ a # 1 /\ commitEnd[a] \in {"panic", "goexit"}
    => faulty /\ rollbackEnd[a] \in {"error", "panic"}

(***************************************************************************)
(* When RunTransaction returns nil, everything written under callbacks     *)
(* that were all kept is committed (transaction.go:193-201).               *)
(***************************************************************************)
SuccessIsDurable ==
  pc[1] = "done" /\ exit[1] = "return" /\ err[1] = {} =>
    \A f \in wrote :
      (\A a \in Enclosing(f) : commitEnd[a] = "nil") => f \in durable

(***************************************************************************)
(* RunIsolated never makes a write durable, and returns nil only when its  *)
(* callback did and the rollback has taken effect: isolation that may have *)
(* failed is reported (postgrestest/transaction.go:31-40, 58-76).          *)
(***************************************************************************)
IsolationComplete ==
  isolated =>
    /\ durable = {}
    /\ pc[1] = "done" /\ exit[1] = "return" /\ err[1] = {} =>
         /\ bodyEnd[1] = "nil" /\ rollbackEnd[1] = "nil"
         /\ ~borrowed /\ pending[1] = {}
=============================================================================
