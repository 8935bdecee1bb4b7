--------------------------- MODULE Classification ---------------------------
(***************************************************************************)
(* errors.go, observe.go, internal/telemetry/categories.go and the built-in*)
(* observers (slog.go, adapters/otel/observer.go): what an error graph is  *)
(* classified as, and which labels an operation is reported with.          *)
(*                                                                         *)
(* An error graph is the sequence of its leaves in the depth-first order in*)
(* which errors.Is and errors.As search it: wrapping keeps the sequence,   *)
(* errors.Join concatenates, <<>> is nil.  A leaf is the SQLSTATE of a     *)
(* PgError or one of OtherLeaves:                                          *)
(*   exhausted, canceled, deadline  ErrPoolExhausted and the context errors*)
(*   canceledUnsent, deadlineUnsent a context error pgconn raised before   *)
(*                                  sending                                *)
(*   net                            a network error of a read or a dial    *)
(*   netUnsent, netPartial          a write that sent nothing, or a part   *)
(*   locked                         pgconn's "conn closed"                 *)
(*   other                          any other error                        *)
(***************************************************************************)
EXTENDS Naturals, Sequences

CONSTANT Codes  \* the SQLSTATEs the server answers with

OtherLeaves == {"exhausted", "canceled", "deadline", "canceledUnsent",
                "deadlineUnsent", "net", "netUnsent", "netPartial", "locked",
                "other"}

ASSUME CodesAssumption == Codes \cap OtherLeaves = {}

Leaves == Codes \cup OtherLeaves

(***************************************************************************)
(* What pgconn and the standard library make of a leaf (external).         *)
(***************************************************************************)
IsCanceled         == {"canceled", "canceledUnsent"}
IsDeadlineExceeded == {"deadline", "deadlineUnsent"}
IsNetError         == {"net", "netUnsent", "netPartial"} \cup IsDeadlineExceeded
KnowsSafeToRetry   == {"netUnsent", "netPartial", "locked", "canceledUnsent",
                       "deadlineUnsent"}

Has(e, set) == \E i \in DOMAIN e : e[i] \in set

\* errors.As: the first leaf that matches.
As(e, set) ==
  e[CHOOSE i \in DOMAIN e : e[i] \in set /\ \A j \in 1 .. i - 1 : e[j] \notin set]

\* pgconn.SafeToRetry asks the first error of the graph that has an answer.
SafeToRetry(e) == Has(e, KnowsSafeToRetry) /\ As(e, KnowsSafeToRetry) # "netPartial"

(***************************************************************************)
(* errors.go                                                               *)
(***************************************************************************)
kindForSQLState(code) ==
  CASE code = "23505" -> "unique_violation"
    [] code = "23503" -> "foreign_key_violation"
    [] code = "23514" -> "check_violation"
    [] code = "23P01" -> "exclusion_violation"
    [] code = "40001" -> "serialization_failure"
    [] code = "40P01" -> "deadlock"
    [] code = "57014" -> "query_canceled"
    [] code = "55P03" -> "lock_unavailable"
    [] code \in {"57P01", "57P02", "57P03", "53300"} -> "connectivity"
    [] SubSeq(code, 1, 2) = "08" -> "connectivity"
    [] OTHER -> "unknown"

retryableKind(kind) == kind \in {"serialization_failure", "deadlock"}

Info(kind, code, retryable) ==
  [Kind |-> kind, SQLState |-> code, Retryable |-> retryable]

\* Mutant: the network is asked about before the context.
ClassifyNetworkFirst(e) ==
  IF e = <<>> THEN Info("", "", FALSE)
  ELSE IF Has(e, Codes) THEN
         LET kind == kindForSQLState(As(e, Codes))
         IN  Info(kind, As(e, Codes), retryableKind(kind))
  ELSE IF Has(e, {"exhausted"})      THEN Info("pool_exhaustion", "", FALSE)
  ELSE IF Has(e, IsNetError)         THEN Info("connectivity", "", SafeToRetry(e))
  ELSE IF Has(e, IsCanceled)         THEN Info("cancellation", "", FALSE)
  ELSE Info("unknown", "", FALSE)

Classify(e) ==
  IF e = <<>> THEN Info("", "", FALSE)
  ELSE IF Has(e, Codes) THEN
         LET kind == kindForSQLState(As(e, Codes))
         IN  Info(kind, As(e, Codes), retryableKind(kind))
  ELSE IF Has(e, {"exhausted"})      THEN Info("pool_exhaustion", "", FALSE)
  ELSE IF Has(e, IsCanceled)         THEN Info("cancellation", "", FALSE)
  ELSE IF Has(e, IsDeadlineExceeded) THEN Info("timeout", "", FALSE)
  ELSE IF Has(e, IsNetError)         THEN Info("connectivity", "", SafeToRetry(e))
  ELSE Info("unknown", "", FALSE)

SQLState(e) == IF Has(e, Codes) THEN As(e, Codes) ELSE ""

\* IsUniqueViolation and its siblings are IsKind of their kind.
IsKind(e, kind) == Classify(e).Kind = kind

IsRetryable(e) == Classify(e).Retryable

(***************************************************************************)
(* internal/telemetry: the finite categories of every label.               *)
(***************************************************************************)
OperationCategories == {"pool.acquire", "pool.ping", "pool.close", "transaction", "savepoint"}

OutcomeCategories == {"success", "error", "panic", "aborted"}

ErrorKindCategories ==
  {"", "unknown", "unique_violation", "foreign_key_violation",
   "check_violation", "exclusion_violation", "serialization_failure",
   "deadlock", "timeout", "cancellation", "query_canceled",
   "lock_unavailable", "connectivity", "pool_exhaustion"}

\* Mutant: a SQLSTATE that is classified is missing from the categories.
SQLStateCategoriesShort ==
  {"", "23505", "23503", "23514", "23P01", "40001", "57014", "55P03",
   "57P01", "57P02", "57P03", "53300", "08000", "08001", "08003", "08004",
   "08006", "08007", "08P01"}

SQLStateCategories ==
  {"", "23505", "23503", "23514", "23P01", "40001", "40P01", "57014", "55P03",
   "57P01", "57P02", "57P03", "53300", "08000", "08001", "08003", "08004",
   "08006", "08007", "08P01"}

project(value, categories) == IF value \in categories THEN value ELSE "unknown"

(***************************************************************************)
(* observe.go.  A delivered observation carries projected labels, whichever*)
(* operation produced it; a transaction samples no pool statistics.        *)
(***************************************************************************)
observationFor(operation, e) ==
  [Operation |-> operation,
   Outcome   |-> IF e = <<>> THEN "success" ELSE "error",
   ErrorKind |-> Classify(e).Kind,
   SQLState  |-> Classify(e).SQLState,
   HasPoolStats |-> FALSE]

boundedObservation(o) ==
  [o EXCEPT !.Operation = project(@, OperationCategories),
            !.Outcome   = project(@, OutcomeCategories),
            !.ErrorKind = project(@, ErrorKindCategories),
            !.SQLState  = project(@, SQLStateCategories)]

(***************************************************************************)
(* The built-in observers.                                                 *)
(***************************************************************************)
\* Mutant: the level follows the error kind.
slogRecordByKind(o) ==
  LET b == boundedObservation(o)
  IN  [level  |-> IF b.ErrorKind # "" THEN "error" ELSE "debug",
       labels |-> <<b.Operation, b.Outcome, b.ErrorKind, b.SQLState>>,
       gauges |-> b.HasPoolStats]

slogRecord(o) ==
  LET b == boundedObservation(o)
  IN  [level  |-> IF b.Outcome # "success" THEN "error" ELSE "debug",
       labels |-> <<b.Operation, b.Outcome, b.ErrorKind, b.SQLState>>,
       gauges |-> b.HasPoolStats]

\* An absent status code is the empty label.
otelRecord(o) ==
  [labels |-> <<project(o.Operation, OperationCategories), project(o.Outcome, OutcomeCategories),
                project(o.ErrorKind, ErrorKindCategories),
                IF o.SQLState # "" THEN project(o.SQLState, SQLStateCategories) ELSE "">>,
   gauges |-> o.HasPoolStats]
=============================================================================
