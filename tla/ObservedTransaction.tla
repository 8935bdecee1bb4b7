------------------------- MODULE ObservedTransaction -------------------------
(***************************************************************************)
(* Transaction with the error graphs its functions return, what Classify   *)
(* makes of them, and the observation that RunTransaction and RunSavepoint *)
(* deliver.  Every step of Transaction keeps its effect; the leaves of an  *)
(* error are those that pgx raises for what has just happened to the       *)
(* session (external).                                                     *)
(***************************************************************************)
EXTENDS Transaction, Classification

ASSUME ServerAssumption == {"25P02", "3B001", "57P01"} \subseteq Codes

VARIABLES
  failure,    \* the leaf of the last statement that failed in a callback
  graph,      \* the error graph of each frame
  cause,      \* history: the graph the callback returned
  delivered   \* the observations delivered for each frame

adviceVars   == <<failure, graph, cause, delivered>>
observedVars == <<vars, adviceVars>>

ObservedInit ==
  /\ Init
  /\ failure = "other"
  /\ graph = [f \in Frames |-> <<>>]
  /\ cause = [f \in Frames |-> <<>>]
  /\ delivered = [f \in Frames |-> <<>>]

(***************************************************************************)
(* The leaves pgx raises, by what the step did to the session.             *)
(***************************************************************************)
CallerErrors(f) == IF ctxDone[f] THEN {"canceled", "deadline"} ELSE {}

\* A statement that is not sent, or that an aborted transaction refuses.
Refused(f) ==
  IF broken THEN {"locked"}
  ELSE (IF aborted THEN {"25P02"} ELSE {})
         \cup (IF ctxDone[f] THEN {"canceledUnsent", "deadlineUnsent"} ELSE {})

\* The connection is lost with the statement: other is an unexpected EOF.
LostAfterSending == {"net", "other", "57P01"}

LostConnection == LostAfterSending \cup {"netUnsent", "netPartial"}

StatementLeaves(f) ==
  IF broken' # broken THEN LostConnection \cup CallerErrors(f)
  ELSE IF aborted' # aborted THEN Codes
  ELSE Refused(f)

\* Taking a connection and BEGIN, or SAVEPOINT.
BeginLeaves(f) ==
  IF f = 1 THEN Codes \cup LostConnection \cup CallerErrors(f)
  ELSE StatementLeaves(f) \cup {"other"}

\* A commit that took effect failed only in its answer.
CommitLeaves(f) ==
  CASE durable' # durable           -> LostAfterSending \cup CallerErrors(f)
    [] durable' = durable /\ f = 1 /\ ~broken ->
         Codes \cup LostConnection \cup CallerErrors(f)
    [] OTHER                        -> StatementLeaves(f)

RollbackLeaves(f) ==
  CASE broken               -> {"locked"}
    [] ~broken /\ broken'   -> LostConnection \cup {"deadline"}
    [] ~broken /\ ~broken'  -> {"deadlineUnsent", "other"}
                                 \cup IF f # 1 /\ ~live[f] THEN {"3B001"} ELSE {}

\* A callback returns what it saw: an error of its own, the error of a
\* statement or of a savepoint, or that of a second connection it waited for.
CallbackGraphs(f) ==
  {<<"other">>, <<failure>>, <<"exhausted", "other", "deadline">>}
    \cup {<<l>> : l \in Refused(f) \cup CallerErrors(f)}
    \cup {graph[g] : g \in {h \in Frames : parent[h] = f /\ graph[h] # <<>>}}

(***************************************************************************)
(* The errors of runInTransaction.                                         *)
(***************************************************************************)
\* Mutant: the rollback error comes first.
JoinRollbackFirst(e, l) == <<l>> \o e

\* errors.Join of the callback's error and the rollback's.
Join(e, l) == Append(e, l)

\* The step gave the frame an error, or another one.
Errs(f, leaves) ==
  /\ IF err'[f] = err[f]
       THEN UNCHANGED graph
       ELSE \E l \in leaves : graph' = [graph EXCEPT ![f] = Join(@, l)]
  /\ UNCHANGED <<failure, cause, delivered>>

StatementErrs(f) ==
  /\ failure' \in StatementLeaves(f)
  /\ UNCHANGED <<graph, cause, delivered>>

CallbackErrs(f) ==
  /\ IF err'[f] = err[f]
       THEN UNCHANGED graph
       ELSE \E e \in CallbackGraphs(f) : graph' = [graph EXCEPT ![f] = e]
  /\ cause' = [cause EXCEPT ![f] = graph'[f]]
  /\ UNCHANGED <<failure, delivered>>

(***************************************************************************)
(* The deferred observation: of the error, or of a panic or Goexit with no *)
(* error, projected by safeObserve.                                        *)
(***************************************************************************)
Observation(f) ==
  LET operation == IF f = 1 THEN "transaction" ELSE "savepoint"
  IN  IF exit[f] = "return" THEN observationFor(operation, graph[f])
      ELSE [observationFor(operation, <<>>) EXCEPT !.Outcome = Outcome(f)]

safeObserve(f) ==
  delivered' = [delivered EXCEPT ![f] = Append(@, boundedObservation(Observation(f)))]

Delivers(f) ==
  /\ IF Isolated(f) THEN UNCHANGED delivered ELSE safeObserve(f)
  /\ UNCHANGED <<failure, graph, cause>>

-----------------------------------------------------------------------------
ObservedStep(f) ==
  \/ BeginFails(f) /\ Errs(f, BeginLeaves(f))
  \/ CallbackReturns(f) /\ CallbackErrs(f)
  \/ CommitReturns(f) /\ Errs(f, CommitLeaves(f))
  \/ Rollback(f) /\ Errs(f, RollbackLeaves(f))
  \/ StatementFails(f) /\ StatementErrs(f)
  \/ Observe(f) /\ Delivers(f)

QuietStep(f) ==
  \/ BeginReturns(f) \/ CallbackTerminates(f) \/ CommitTerminates(f)
  \/ NoRollback(f) \/ Write(f) \/ Cancel(f)
  \/ \E g \in Frames : ChildEnds(f, g) \/ RunSavepoint(f, g)

ObservedNext ==
  \/ \E f \in Frames : ObservedStep(f)
  \/ /\ \/ RunTransaction \/ RunIsolated \/ NilCallback \/ Terminated
        \/ \E f \in Frames : QuietStep(f)
     /\ UNCHANGED adviceVars

ObservedSpec == ObservedInit /\ [][ObservedNext]_observedVars

-----------------------------------------------------------------------------
(***************************************************************************)
(* Advice to retry never repeats work: when IsRetryable holds for the      *)
(* error of a transaction or savepoint, nothing written under it is ever   *)
(* committed, unless the rollback itself failed.  A release that was not   *)
(* sent leaves its writes to the parent, and a commit may have taken effect*)
(* although it reports an error (errors.go:84-86, 109-129).                *)
(***************************************************************************)
RetryRepeatsNothing ==
  \A g \in durable : \A f \in Enclosing(g) :
    IsRetryable(graph[f]) => faulty /\ rollbackEnd[f] \in {"error", "panic"}

(***************************************************************************)
(* What the callback's PostgreSQL error means is not changed by the error  *)
(* of the cleanup that is joined to it: a unique violation stays one when  *)
(* the server then shuts down (errors.go:84-86, transaction.go:180).       *)
(***************************************************************************)
CleanupKeepsDiagnosis ==
  \A f \in Frames : pc[f] = "done" /\ Has(cause[f], Codes) =>
    /\ Classify(graph[f]) = Classify(cause[f])
    /\ SQLState(graph[f]) = SQLState(cause[f])

(***************************************************************************)
(* One observation is delivered for every run and its labels agree with    *)
(* each other and with the error: an error has a kind, an exact SQLSTATE is*)
(* the one the kind was derived from, a specific kind is never reported    *)
(* with an unknown SQLSTATE, and an unknown one stands for a native error  *)
(* the categories do not name (observe.go:93-100, categories.go:16-33).    *)
(***************************************************************************)
LabelsAgree ==
  \A f \in Frames : pc[f] = "done" /\ ~Isolated(f) /\ err[f] # {"NilCallback"} =>
    /\ Len(delivered[f]) = 1
    /\ LET o == delivered[f][1]
       IN  /\ o.Outcome = "error" <=> o.ErrorKind # ""
           /\ exit[f] = "return" => (o.Outcome = "error" <=> err[f] # {})
           /\ IsKind(graph[f], o.ErrorKind)
           /\ o.SQLState \notin {"", "unknown"} =>
                o.ErrorKind = kindForSQLState(o.SQLState)
           /\ o.SQLState = "unknown" =>
                /\ o.ErrorKind \in {"unknown", "connectivity"}
                /\ SQLState(graph[f]) \in Codes \ SQLStateCategories

(***************************************************************************)
(* The log and the metrics tell the same story although each projects the  *)
(* labels itself: slog is at error level exactly when the commit did not   *)
(* succeed, a panic and Goexit included, and both sinks have the same      *)
(* labels (slog.go:24-46, observer.go:59-76).                              *)
(***************************************************************************)
SinksAgree ==
  \A f \in Frames : \A i \in DOMAIN delivered[f] :
    LET log == slogRecord(delivered[f][i])
        metric == otelRecord(delivered[f][i])
    IN  /\ log.level = "debug" <=> commitEnd[f] = "nil"
        /\ log.labels = metric.labels

(***************************************************************************)
(* Advice to retry a network failure means that nothing was sent, as       *)
(* docs/errors.md says of IsRetryable.                                     *)
(***************************************************************************)
RetryMeansUnsent ==
  \A f \in Frames : pc[f] = "done" /\ IsRetryable(graph[f]) =>
    \/ retryableKind(Classify(graph[f]).Kind)
    \/ ~Has(graph[f], {"net", "netPartial"})
=============================================================================
