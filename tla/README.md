# go-postgres in TLA+

This directory holds a TLA+ model of [go-postgres](../src/README.md): a thin Go
layer over pgx that bounds every wait on a connection pool, runs transactions
and savepoints with guaranteed cleanup, fits a pool into a service lifecycle,
and provides test databases. TLC checks the modules on small instances. TLAPS
proves every safety property of the passing runs, and the refinement of the
pool's contract, for any number of goroutines, connections and savepoints, any
configuration and any set of SQLSTATEs; liveness is TLC's alone.

Run from this directory: `tlc -workers 2 -config X.cfg M` for a run,
`tlapm M.tla` for the proofs of a module `M` (`PoolProofs`, `PoolRefinement`,
`AdmissionProofs`, `TransactionProofs`, `ObservedProofs`, `ServiceProofs`,
`TestDatabaseProofs`). `PROJECT.json` lists the runs and the theorems, maps every
definition to the source lines it models, and lists the hazards the properties
are aimed at.

## The system

| Component | Source | State | Operations |
| --- | --- | --- | --- |
| Pool | `pool.go` | `closed`, `closeOnce`, `closeDone`, the native pool | `Acquire`, `Ping`, `Readiness`, `Liveness`, `Stats`, `Raw`, `Shutdown` and its cleanup goroutine |
| Connect | `pool.go` | none of its own | context checks, `PrepareConfig`, native constructor, startup ping, close on failure |
| Configuration admission | `config.go`, `config_limits.go`, `resolve.go` | the native configuration in preparation | `PrepareConfig`, resolver, `Configure` hook, two validations |
| Transactions | `transaction.go` | `needsRollback`, `completed`, the error per frame | `RunTransaction`, `RunSavepoint` |
| Isolation | `postgrestest/transaction.go` | `completed`, the error | `RunIsolated` |
| Service adapter | `adapters/service/service.go` | `resource`, `active`, `stopOnce`, `stopErr` | `New`, start, stop, readiness |
| Test database | `postgrestest/database.go` | `shutdownOnce`, `shutdownDone`, `shutdownErr`, the container | `Open`, `Shutdown` and its termination goroutine |
| Observation | `observe.go`, `slog.go`, `internal/telemetry`, `adapters/otel` | none | `safeObserve`, bounded categories, exporters |
| Error classification | `errors.go` | none | `Classify`, `SQLState`, retryability |

How they interact: `Connect` calls `PrepareConfig` and pings the pool it builds;
the service adapter drives a pool (or any `Resource`) from lifecycle hooks;
transactions borrow a pool connection through a native `Beginner`; every pool
and transaction operation ends in a synchronous observer callback; both shutdown
operations start one goroutine that no caller's deadline can stop, and publish
its end by closing a channel.

What is hard here: admission is an atomic load, so calls that passed it run on
into a pool being closed; timers race grants, dials and the end of the close in
`select` statements; native code decides which of several errors a wait returns
and the wrapper infers the cause afterwards; callbacks, commits, rollbacks, setup
hooks and terminations may return an error, panic or end their goroutine, one on
top of the other; a savepoint's failure must stay a failure although the
enclosing transaction goes on; a trusted hook may edit what has been validated.

## Modules

| Module | Models | Composes |
| --- | --- | --- |
| `Pool` | the pool and, as environment, pgxpool | refines `PoolContract` |
| `PoolContract` | what the pool promises: admission, lending, draining, confirmation | |
| `PoolProofs` | theorems about `Pool` | extends `Pool` |
| `PoolRefinement` | `Pool` implements `PoolContract` | extends `PoolProofs` |
| `Connect` | `connect` around a pool that exists from the factory on | extends `Pool` |
| `ServiceAdapter` | the adapter; constructor and resource are its environment | |
| `Service` | a service: the adapter over `Connect` and the pool it leaves | extends `Connect`, instantiates `ServiceAdapter` |
| `ServiceProofs` | theorems about `Service`, `Connect` and `ServiceAdapter` | extends `Service`, `PoolProofs` |
| `Admission` | `PrepareConfig` | |
| `AdmissionProofs` | theorems about `Admission` | extends `Admission` |
| `Transaction` | the three transaction runners over one pgx session | |
| `TransactionProofs` | theorems about `Transaction` | extends `Transaction` |
| `Classification` | `Classify`, the telemetry categories and the built-in observers, as operators | |
| `ObservedTransaction` | the error graphs and observations of the runners | extends `Transaction`, `Classification` |
| `ObservedProofs` | theorems about `Classification` and `ObservedTransaction` | extends `ObservedTransaction`, `TransactionProofs` |
| `TestDatabase` | the container fixture | |
| `TestDatabaseProofs` | theorems about `TestDatabase` | extends `TestDatabase` |
| `MC*` | the same for TLC: symmetry, small sets of inputs | |

Conventions. An error is the set of sentinels `errors.Is` finds in it, `{}` is
nil and `errors.Join` is union; wording is left out. A derived context is the
reason why it is done: the caller's cancellation, the caller's deadline or the
configured bound; the first reason stays, as `context.Cause` has it. Definitions
whose comment begins with *Mutant* are plausible mistakes in the definition that
follows; nothing uses them, they show that the properties can fail.

### Pool

A *call* is one goroutine inside one operation together with the connection that
operation gave it, so a goroutine that holds several connections is several
calls. `pc` follows the operation between its interaction points: admission and
context derivation (`Acquire`, `Ping`: the load of `closed` and the entry into
the native pool), the native wait (`native`, `probe`), the statistics sample
(`AcquireSample`), the labelling of the error (`AcquireResult`, `PingResult`)
and the observer (`Observe`, `ObserverExit` for one that calls
`runtime.Goexit`). `Shutdown` is the store of `closed`, `ShutdownOnce` the
`sync.Once`, `ShutdownDone` and `ShutdownCtx` are the two ready cases of the
select, and `CleanupClose`, `NativeCloseReturns`, `CleanupSignal` the cleanup
goroutine. `Liveness` is a read of `closed`, `Readiness` a `Ping` and a sample.

pgxpool and puddle are not part of the repository. They are modelled by
connection slots that are unused, being dialled, idle or acquired, with these
rules: a waiter takes an idle slot or starts a dial; a dial goes on in the
background when its waiter gives up and its connection becomes idle; a waiter
whose context is done may still be granted; a closed native pool refuses new
waiters, destroys idle connections and its `Close` returns when no slot is in
use; the health check opens and evicts connections by itself; `Raw` borrowers
come and go without admission.

### Connect

The stages of `connect` in order; in stage `ping` the steps of the pool's `Ping`
are those of `Pool`, and after a failed ping `backend.Close` runs in the
goroutine of `Connect`. `PrepareConfig` is one step with a success or an error;
`Admission` has its detail. These are the steps of one goroutine; `Service` runs
them.

### Admission

The numeric fields are functions over field names with the code's own bounds and
defaults in seconds, bytes and entries. Strings and collections are lengths: the
charge loop of `admitNativeShape` refuses exactly when their sum exceeds the
budget, since lengths are not negative. Every refusal is the sentinel `Config`,
with `Hook` when the cause of `Configure` is kept. TLS is the name each host is
verified under, because the per-host clone exists for that name. `Edit` lets the
hook change any field while it runs. Panics of the resolver and of the hook
propagate out of `PrepareConfig` by design and are left out.

### Transaction

One goroutine; frame 1 is the transaction (`RunTransaction`, or `RunIsolated`
when `isolated`), further frames are savepoints opened by callbacks. Each frame
goes through begin, callback, commit, the deferred cleanup and the deferred
observation of its runner. Any of begin, callback and commit may return an
error, panic or Goexit; rollback may fail or panic when `faulty`, which is
chosen once per behaviour so that statements about working rollbacks stay sharp.
The session is external: `pending` are the writes that stand or fall with a
frame, a released savepoint hands them to its parent, an aborted transaction
refuses statements until a rollback, a savepoint whose statement was never sent
leaves its writes with the parent, and a lost connection takes everything with
it, except what a commit under way may have made durable.

### Classification and ObservedTransaction

An error graph is the sequence of its leaves in the order in which `errors.Is`
and `errors.As` search it: wrapping keeps the sequence, `errors.Join` appends.
That order is what `Classify` depends on, because the first `PgError` and the
first error with a retry answer decide. A leaf is a SQLSTATE or one of ten other
kinds of error that the code tells apart, among them three network errors and
two context errors that differ only in what pgconn says about having sent data.

`ObservedTransaction` adds to every failing step of `Transaction` the leaf that
pgx raises for it. Which ones are possible follows from what the step did to the
session (external): a commit that took effect can only have failed in its
answer, a session that was lost before answers "conn closed", an aborted
transaction answers `25P02`. A callback returns an error of its own, the last
statement's error, a savepoint's error or one of a second connection it waited
for. `Observe` delivers the observation, which the slog and OpenTelemetry
observers each project once more.

### ServiceAdapter, Service and TestDatabase

`ServiceAdapter` follows `New`, `start` and `stop` through the mutex sections
and the `sync.Once` (a second stopper waits until the first one's body is done);
stop runs after start, the order the adapter asks its host for. A call of the
constructor or the resource is two steps, the call and its return with a result
that the environment chooses. In `Service` the environment is the repository's
own code: the constructor is `Connect`, `Ping` and `Shutdown` are the calls of
`Pool` that the same goroutine makes, and the return is possible when that call
is done. Other goroutines borrow through `Raw` and may keep what they got.
`TestDatabase` follows `Open` and both of its cleanup paths; a failed `Terminate`
leaves a container that may or may not exist (`unknown`). The testcontainers
starter is external: it returns a container and an error side by side, so a start
that fails may leave a running container or none. `startDatabase` drops it in
either case; `FailedOpenCleansUp` names that as the one way in which a failed
`Open` leaves a container without an attempt to terminate it.

## Runs

| Run | Shows | Bound |
| --- | --- | --- |
| `pool_safety` | late calls refused, timeouts attributed, no connection lost | 2 calls, 2 slots |
| `pool_shutdown_crowd` | closed once, nil means drained, refinement of `PoolContract` | 3 calls, 1 slot |
| `pool_bounded_waits` | every call returns; a shutdown finishes unless a connection is kept for ever | 2 calls, 1 slot |
| `pool_shutdown_timeout_doc` | *violated*: `ErrShutdownTimeout` after the close has finished | 2 calls, 1 slot |
| `pool_health_timeout_doc` | *violated*: `ErrHealthTimeout` without a health deadline | 1 call, 1 slot |
| `config_admission` | what is admitted is finite, in time, and keeps timers, host names and hooks | see below |
| `config_ping_timeout_doc` | *violated*: a ping timeout above one hour is admitted | see below |
| `transaction` | one finalization, cause kept, connection back, failed work undone, success durable, truthful observation, complete isolation | 3 frames |
| `transaction_advice` | retry advice repeats no committed work, cleanup keeps the diagnosis, labels, log and metrics agree | 2 frames, 7 SQLSTATEs |
| `retry_advice_doc` | *violated*: a failure after sending is called retryable | 2 frames, 7 SQLSTATEs |
| `service` | ownership, agreement of stops, readiness after stop, nothing left after a failed `Connect`, a failed startup or a confirmed stop; start and stops return | 2 stoppers, 1 probe, 1 slot, all options |
| `test_database` | one termination, an `Open` that fails after the start cleans up, nil means gone, every caller is answered, with one result | 2 closers |

Why the bounds are enough for the interesting cases. Two calls and two slots let
one call hold, one wait, one slot dial in the background and one idle, and let
the sample of an Acquire be taken while the other call moves a connection. Three
calls on one slot are a holder, a waiter and a shutdown caller, or two
concurrent shutdown callers and a holder; calls repeat any number of operations,
so longer histories are covered, not only more goroutines. `pool_shutdown_crowd`
drops the caller's deadline (`CallerEnds`), which differs from cancellation only
in labels that `pool_safety` checks. Three frames have a savepoint in a
savepoint and two savepoints in a row; the error graphs need no third frame,
since a graph passes through a savepoint as it does through a transaction. The
seven SQLSTATEs of `transaction_advice` have a retryable kind, a specific kind, a
connection code, one code of class 08 that the categories do not name, and the
answers the session itself gives. In `service` the starter, both stoppers, the
probe and the Raw borrowers compete for one connection, so that each of them
meets a saturated pool, a dial under way and a pool being closed by another; a
caller's deadline is dropped as above. The inputs of `config_admission` deviate
from the zero `Config` in up to two numeric fields with values on both sides of
every bound, and the hook edits one more field, so that every relation of two
fields, typed, native or one of each, is exercised.

`pool_bounded_waits` switches deadlock checking off: with observers that end
their goroutine every call may have exited, and nothing is left to happen.

### Fairness

Safety runs assume none. Liveness assumes only what the runtime and pgx give:
a runnable goroutine is scheduled (`CallProgress`, `CleanupStep`, `OpenStep`; in
`Service` the starter, each stopper and each probe as one process each), a configured timer fires (`Expire`), pgxpool returns
from a wait whose context is done (`GiveUp`) and from a probe (`Probe`), a dial
ends because `ConnectTimeout` bounds it, and observers are prompt, as the
`Observer` comment asks. Callers promise nothing: they may keep a connection for
ever, never cancel and never call again; nobody has to call `Stop`. `Drains` therefore names the one thing
that may hold a shutdown up, a connection that stays borrowed. `ShutdownAnswers`
does not assume that any caller's context ends. That the timers exist at all is
`WaitsHaveTimers` of `Admission`: `boundedContext` arms none for a timeout that
is not positive, and admission lets no such timeout through.

## Proofs

Every proof has the same shape. None of the properties is inductive as it
stands, so each module states an invariant that is, as a conjunction of named
parts; a lemma per part shows, one step per action, that the step preserves it;
the theorems follow from the invariant. The invariants were checked by TLC on
the instances of the runs before they were proved. The assumptions are the
`ASSUME`s of the modules, which TLC evaluates in every run.

### Pool

`PoolProofs` proves, for any set of calls, any finite non-empty set of slots
and any way callers' contexts may end:

| Theorem | States |
| --- | --- |
| `TypeCorrect` | `TypeOK` |
| `ClosesOnce` | `CloseOnce` |
| `RefusesLateCalls` | `LateCallsRefused` |
| `ConfirmsDrained` | `ConfirmedMeansDrained` |
| `AttributesExhaustion` | `ExhaustionAttribution` |
| `LosesNoConnection` | `NoLostConnection`, if no observer ends its goroutine |

The assumption is `PoolAssumption`: finitely many slots, at least one, and two
names that are not calls. None of the properties is inductive by itself. The
invariant `IInv` adds: `LifecycleInv`, the flags as functions of where the
cleanup goroutine is, which makes "closed once" and "signalled after the close"
one fact; `CallInv`, what a location says about operation and error, without
which an error label could be carried into a later phase; `ConfirmInv`, that a
Shutdown without an error saw the signal; `SlotInv`, who may own a slot in which
state, that no call owns two and that a closed native pool has none, which links
confirmation to draining and a grant to the call that must return it; and
`StatsInv`, that a sample counts each slot at most once, from which
`SaturationIsFull` concludes that a saturated sample has no idle slot. Each part
has a lemma with one step per action; `Invariance` puts them together.

`PoolRefinement` proves `Spec => ImplementsContract`, the property that
`pool_shutdown_crowd` checks, under the same assumption. The contract sees five
values of the pool: whether admission is closed, the calls in flight, the
connections lent, the state of the native pool, the confirmed shutdowns. One
lemma per action of the contract says when a step that has a given effect on the
five is that action, `Stutters` when it is none; then every action of the pool
is put under one of them, with `IInv` where the contract's guard needs it (the
native pool closes only when nothing is lent).

### Admission

`AdmissionProofs` proves, for any set of typed inputs, any native configuration
a resolver may return and any edits of the hook, as often as it likes:

| Theorem | States |
| --- | --- |
| `TypeCorrect` | `TypeOK` |
| `AdmitsOnlyFinite` | `AdmittedIsFinite` |
| `TimersAlwaysArmed` | `WaitsHaveTimers` |
| `AdmitsInTime` | `AdmittedInTime` |
| `NamesOwnHost` | `TLSNamesOwnHost` |
| `RunsSessionInitLast` | `SessionInitLast` |

The assumption is `AdmissionAssumption`: the types of the constants, and that a
resolver's configuration has at most one native `AfterConnect` hook, which is a
single function field in pgx. The invariant adds to `TypeOK` that past the first
validation the input is admitted (`InputInv`: the limits that the second
validation charges against come from it), and that a returned configuration
passed the second validation while the context was live (`OutputInv`).
`LimitsBelowCeiling` shows that a limit left at zero cannot exceed its ceiling,
`TypedType` and `ComposeKeeps` that the typed overrides and the session hook
leave a configuration a configuration, the latter without touching what was
validated before it. `TLSInv` carries what `applyTLSConfig` did to each host
through the later stages, and `HookInv` says that the session hook has not been
composed yet, so that the one composition finds the native hook alone.

### Transactions

`TransactionProofs` proves, for any number of frames (`TransactionAssumption`:
at least one), that is for savepoints nested to any depth and one after the
other:

| Theorem | States |
| --- | --- |
| `TypeCorrect` | `TypeOK` |
| `FinalizesOnce` | `FinalizedOnce` |
| `PreservesCause` | `CausePreserved` |
| `ObservesTruthfully` | `ObservedTruthfully` |
| `ReturnsConnection` | `ConnectionReturned` |
| `IsolatesCompletely` | `IsolationComplete` |
| `UndoesFailedWrites` | `FailedWritesUndone` |
| `SucceedsDurably` | `SuccessIsDurable` |

The first five follow from `ControlInv`. Its part `StackInv` says that the
active frames form a stack in which all but the top wait for a child: the code's
call stack, which in the model is only a parent per frame. `FrameInv` gives for
each location what error, exit and outcomes the frame has there, `BorrowInv` when
the connection is out and `SessionInv` which savepoints the server has and whose
writes may be pending. The last two theorems are about writes, which move up one
frame with each released savepoint, and need `WritesInv`: `ChainInv`, that the
frames enclosing an active one wait for it; `PendingInv`, that a write pending
with a frame came from there or through frames that kept it, or else the server
refuses everything until this frame is rolled back (the release took effect and
the runner panicked after it); `DurableInv`, the same for what is committed; and
`KeptInv`, the converse, that a kept write is still there. The enclosing frames
are the least set closed under `parent`, so that no induction over the nesting
is needed.

`ObservedProofs` proves, for any set of SQLSTATEs that contains the three the
session answers with (`ServerAssumption`) and none of the other leaf names
(`CodesAssumption`):

| Theorem | States |
| --- | --- |
| `RetriesRepeatNothing` | `RetryRepeatsNothing` |
| `KeepsDiagnosis` | `CleanupKeepsDiagnosis` |
| `LabelsAlwaysAgree` | `LabelsAgree` |
| `SinksAlwaysAgree` | `SinksAgree` |

Its first part is about error graphs of any length: that `errors.As` finds the
first matching leaf (`AsFirst`), that a leaf joined behind a graph with a match
changes nothing (`AsAppend`), hence that a PostgreSQL error keeps its diagnosis
when a rollback error is joined (`JoinKeepsDiagnosis`), and that every kind and
SQLSTATE that `Classify` gives is one of the bounded categories or made one
(`ClassifyLabels`). The second part starts from the fact that every step is a
step of `Transaction`, so that `ControlInv` and `WritesInv` hold, and adds
`AdviceInv` (a frame has a graph exactly when it has an error, the callback's
graph is at its head with at most the rollback's leaf behind it, and what was
delivered is the observation of the frame as it still is), `EnteredInv` (whoever
wrote did so inside callbacks that were entered) and `RetryInv` (a commit with a
retryable error lost the connection, and nothing is durable). Retry advice is
then safe by two different arguments: after a failed callback because the
rollback undid its writes, after a failed commit because nothing was committed.

### Service

`ServiceProofs` proves, for any number of stoppers, probes, Raw borrowers and
slots and all options (`PoolAssumption`; `ConnectAssumption` and
`ServiceAssumption`: starter, stoppers and probes are calls, the starter neither
of the others):

| Theorem | States |
| --- | --- |
| `ServiceTypeCorrect` | `ServiceTypeOK` |
| `ShutsOwnedPoolOnce` | `OwnedPoolShutOnce` |
| `StopsAlwaysAgree` | `StopsAgree` |
| `RefusesLateProbes` | `LateProbesUnavailable` |
| `ConnectLeavesNothing` | `FailedConnectLeavesNothing` |
| `StopDrains` | `StoppedMeansDrained` |

`AdapterInv` is an invariant of the adapter alone, whatever its resource
answers: what has happened before start returned (`StartInv`), how often, by whom
and with what result the pool was shut down (`ShutdownInv`), who is inside the
`sync.Once` and that its result stays (`OnceInv`), and which probes may reach the
pool (`ProbeInv`). `ServiceImplementsAdapter` shows that the composition takes only
the adapter's steps. The rest joins it to the pool: `StageInv`, that the adapter
has a pool only from a `Connect` that is over; `PoolInv`, the invariant of
`PoolProofs`, which holds in the composition except while `Connect` closes the
native pool of a failed startup without the wrapper's `Shutdown`; `DoneInv`; and
`DrainInv`, that a shutdown the adapter saw succeed was signalled by the pool,
from which `ConfirmsDrained`'s argument gives that no connection is left.

### Test database

`TestDatabaseProofs` proves, for any number of closers
(`TestDatabaseAssumption`: the goroutine in `Open` is none of them):

| Theorem | States |
| --- | --- |
| `TypeCorrect` | `TypeOK` |
| `TerminatesOnce` | `TerminatedOnce` |
| `CleansUpFailedOpen` | `FailedOpenCleansUp` |
| `SharesResults` | `ResultsShared` |

The invariant adds `OpenInv` (how Open ended so far, and that only a database it
handed out is closed by others), `TerminatorInv` (the `sync.Once`, the goroutine
it starts and the channel are one fact) and `ContainerInv` (the container is up
until the one termination ran, whose result then fixes what became of it; without
a termination there is none, or it was dropped by a failed start). `SetupReturns`
shows that a setup error is returned alone only when the container is gone.

### Model-checked only

Liveness, because fairness is outside the prover: `BoundedWaits` and `Drains` of
the pool, `StartupReturns` and `StopsReturn` of the service, `ShutdownAnswers` of
the test database. TLC checks them on the bounds above, and the four runs that
expect a violation are its counterexamples. Nothing else rests on a bound.

## Disagreements with the documentation

* A `select` with both cases ready picks one at random. `Shutdown` of the pool
  may report `ErrShutdownTimeout` for a close that has finished, where
  `docs/faq.md:16` reads it as a close still waiting. Not a run: `Shutdown` of a
  test database may in the same way report its context where `database.go:231`
  promises the shared result; `ResultsShared` is what holds.
* `Ping` labels every deadline error, so a dial that hits `ConnectTimeout` is an
  `ErrHealthTimeout` although `pool.go:21` reserves it for health deadlines.
* `PingTimeout` is validated in the native configuration after the hook, the pool
  uses the one in the input; `docs/migration.md:78` bounds it by one hour.
* `IsRetryable` is true for a failed read after data was sent, once the rollback
  on the lost connection has joined its own "conn closed", which pgconn calls safe
  to retry; `docs/errors.md:25` reads the advice as a guarantee that nothing was
  sent. The transaction is gone with its connection, so `RetryRepeatsNothing`
  holds all the same.
* Not a run, since no doc promises more: a container that came up but was not ready
  in time is returned with the error of the start (`database.go:120-126`) and
  dropped without a termination (`database.go:131-134`), so it may run on until
  something else reaps it. Failures of the connection string and of the setup hook
  do terminate it.
* Not a run: a callback error without a SQLSTATE can change its kind when the
  rollback joins an error that has one, or a cancellation.
  `CleanupKeepsDiagnosis` is about PostgreSQL errors.
* Not a run: `ErrPoolExhausted` judges the pool by a sample taken after the wait.
  `ExhaustionAttribution` shows that the label agrees with that sample, not that
  the pool was exhausted when the timer fired.
* Not a run: a `Stop` after a startup that failed reports nil although the cleanup
  of that startup may have timed out and the pool may still drain; the error was
  `Start`'s. `StoppedMeansDrained` speaks of `Stop` after a successful start.
* Not a run: `errors.go:34` calls `ErrorCancellation` the caller's cancellation,
  but a dial that the native pool cancels because it is being closed has the same
  kind.
* Not a run: an Acquire that fails to dial just as the configured timer fires is
  labelled `ErrAcquireTimeout` without `context.DeadlineExceeded`
  (`docs/pool-and-lifecycle.md:82` names both).

## Not modelled

* The construction of the slog and OpenTelemetry observers, durations, error
  wording, redaction: formatting and I/O. The pool gauges: last write wins, and
  the code promises no order between concurrent deliveries.
* The native metadata in `ErrorInfo` (constraint, detail, hint...): copied data.
* Transactions that borrow from `Pool`: they go to the native pool through a
  `Beginner`, which `Pool` has as a Raw borrower.
* The `timeout <= 0` branch of the derived contexts: unreachable through
  `Connect`, by `WaitsHaveTimers`.
* Goexit inside `Rollback`, observers that Goexit in a transaction, `stop` before
  `start`: outside what the code promises or its host does.
* Images, credentials and ports of the fixture, the examples, CI scripts.

## Plan

Done, in this order: `Pool`, `PoolContract`, `PoolProofs`, `Connect`,
`Transaction`, `ServiceAdapter`, `TestDatabase`, `Admission`, `AdmissionProofs`,
`Classification`, `ObservedTransaction`, `Service`; the pool first because every
other component waits on it. Then the proofs: `TestDatabaseProofs`,
`PoolRefinement`, `ServiceProofs`, `TransactionProofs`, `ObservedProofs`.

Left, in this order:

1. That a transaction that borrows from `Pool` is a Raw borrower, as a
   refinement instead of a remark.
2. An abstract specification of the fixture (open, closed once, one result) that
   `TestDatabase` implements.
3. Shorter proofs where two lemmas share their case analysis.
