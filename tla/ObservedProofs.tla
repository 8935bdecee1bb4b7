--------------------------- MODULE ObservedProofs ---------------------------
(***************************************************************************)
(* Proofs about Classification, for any error graph and any set of         *)
(* SQLSTATEs, and about ObservedTransaction, for any number of savepoints. *)
(***************************************************************************)
EXTENDS ObservedTransaction, TransactionProofs, WellFoundedInduction

-----------------------------------------------------------------------------
(***************************************************************************)
(* errors.As: the first leaf that matches.                                 *)
(***************************************************************************)
FirstIn(e, set, i) ==
  i \in DOMAIN e /\ e[i] \in set /\ \A j \in 1 .. i - 1 : e[j] \notin set

LEMMA Least ==
  ASSUME NEW T \in SUBSET Nat, T # {}
  PROVE  \E i \in T : \A j \in T : i <= j
<1> DEFINE R == OpToRel(<, Nat)
<1>1. IsWellFoundedOn(R, Nat)
  BY NatLessThanWellFounded
<1>2. \A x, y \in Nat : x < y => <<x, y>> \in R
  BY DEF OpToRel
<1> HIDE DEF R
<1>3. PICK i \in T : \A j \in T : ~(<<j, i>> \in R)
  BY <1>1, WFMin
<1>4. ASSUME NEW j \in T PROVE i <= j
  <2>1. i \in Nat /\ j \in Nat
    OBVIOUS
  <2>2. ~(j < i)
    BY <1>2, <1>3, <2>1
  <2> QED
    BY <2>1, <2>2
<1> QED
  BY <1>4

\* If a leaf matches, one is the first that does.
LEMMA FirstExists ==
  ASSUME NEW e \in Seq(Leaves), NEW set, Has(e, set)
  PROVE  \E i \in 1 .. Len(e) : FirstIn(e, set, i)
<1>1. DOMAIN e = 1 .. Len(e) /\ Len(e) \in Nat
  OBVIOUS
<1>2. PICK T \in SUBSET Nat : T = {i \in 1 .. Len(e) : e[i] \in set}
  <2>1. {i \in 1 .. Len(e) : e[i] \in set} \in SUBSET Nat
    BY <1>1
  <2> QED
    BY <2>1, Zenon
<1>3. T # {}
  BY <1>1, <1>2 DEF Has
<1>4. PICK i \in T : \A j \in T : i <= j
  BY <1>3, Least
<1>5. i \in 1 .. Len(e) /\ e[i] \in set
  BY <1>2, <1>4
<1>6. ASSUME NEW j \in 1 .. i - 1 PROVE e[j] \notin set
  <2>1. j \in Nat /\ i \in Nat /\ j < i /\ j \in 1 .. Len(e)
    BY <1>1, <1>5
  <2>2. j \notin T
    BY <1>4, <2>1
  <2> QED
    BY <1>2, <2>1, <2>2
<1> QED
  BY <1>1, <1>5, <1>6 DEF FirstIn

\* The first match is what As returns.
LEMMA AsFirst ==
  ASSUME NEW e \in Seq(Leaves), NEW set, NEW i, FirstIn(e, set, i)
  PROVE  As(e, set) = e[i]
<1>1. PICK k : k = CHOOSE j \in DOMAIN e :
                     e[j] \in set /\ \A h \in 1 .. j - 1 : e[h] \notin set
  OBVIOUS
<1>2. FirstIn(e, set, k)
  BY <1>1 DEF FirstIn
<1>3. DOMAIN e = 1 .. Len(e) /\ Len(e) \in Nat
  OBVIOUS
<1>4. i \in Nat /\ k \in Nat /\ i >= 1 /\ k >= 1
  BY <1>2, <1>3 DEF FirstIn
<1>5. ~(i < k) /\ ~(k < i)
  <2>1. i < k => i \in 1 .. k - 1
    BY <1>4
  <2>2. k < i => k \in 1 .. i - 1
    BY <1>4
  <2> QED
    BY <1>2, <2>1, <2>2 DEF FirstIn
<1>6. i = k
  BY <1>4, <1>5
<1> QED
  BY <1>1, <1>6 DEF As

LEMMA AsMatches ==
  ASSUME NEW e \in Seq(Leaves), NEW set, Has(e, set)
  PROVE  As(e, set) \in set
<1>1. PICK i \in 1 .. Len(e) : FirstIn(e, set, i)
  BY FirstExists
<1> QED
  BY <1>1, AsFirst DEF FirstIn

\* What is joined behind a match does not change it.
LEMMA AsAppend ==
  ASSUME NEW e \in Seq(Leaves), NEW l \in Leaves, NEW set, Has(e, set)
  PROVE  Has(Append(e, l), set) /\ As(Append(e, l), set) = As(e, set)
<1>1. PICK i \in 1 .. Len(e) : FirstIn(e, set, i)
  BY FirstExists
<1>2. PICK d \in Seq(Leaves) : d = Append(e, l)
  <2>1. Append(e, l) \in Seq(Leaves)
    OBVIOUS
  <2> QED
    BY <2>1, Zenon
<1>3. /\ DOMAIN d = 1 .. Len(e) + 1 /\ Len(e) \in Nat
      /\ \A j \in 1 .. Len(e) : d[j] = e[j]
  BY <1>2
<1>4. i \in DOMAIN d /\ d[i] \in set /\ d[i] = e[i]
  BY <1>1, <1>3 DEF FirstIn
<1>5. ASSUME NEW j \in 1 .. i - 1 PROVE d[j] \notin set
  <2>1. j \in 1 .. Len(e)
    BY <1>3
  <2> QED
    BY <1>1, <1>3, <2>1 DEF FirstIn
<1>6. FirstIn(d, set, i)
  BY <1>4, <1>5 DEF FirstIn
<1>7. As(d, set) = As(e, set)
  BY <1>1, <1>4, <1>6, AsFirst
<1>8. Has(d, set)
  BY <1>4 DEF Has
<1> QED
  BY <1>2, <1>7, <1>8

LEMMA AsSingle ==
  ASSUME NEW l \in Leaves, NEW set
  PROVE  /\ Has(<<l>>, set) <=> l \in set
         /\ l \in set => As(<<l>>, set) = l
<1>1. <<l>> \in Seq(Leaves) /\ DOMAIN <<l>> = {1} /\ <<l>>[1] = l
  OBVIOUS
<1>2. Has(<<l>>, set) <=> l \in set
  BY <1>1 DEF Has
<1>3. ASSUME l \in set PROVE As(<<l>>, set) = l
  <2>1. FirstIn(<<l>>, set, 1)
    BY <1>1, <1>3 DEF FirstIn
  <2> QED
    BY <1>1, <2>1, AsFirst
<1> QED
  BY <1>2, <1>3

-----------------------------------------------------------------------------
(***************************************************************************)
(* What Classify says.                                                     *)
(***************************************************************************)
RetryableLeaves == {"40001", "40P01", "netUnsent"}

\* Every code has a kind, and one of the finite categories.
LEMMA KindKnown ==
  ASSUME NEW c
  PROVE  /\ kindForSQLState(c) \in ErrorKindCategories \ {""}
         /\ retryableKind(kindForSQLState(c)) => c \in {"40001", "40P01"}
         /\ c \notin SQLStateCategories => kindForSQLState(c) \in {"unknown", "connectivity"}
BY DEF kindForSQLState, ErrorKindCategories, retryableKind, SQLStateCategories

LEMMA InfoFields ==
  ASSUME NEW kind, NEW code, NEW retryable
  PROVE  /\ Info(kind, code, retryable).Kind = kind
         /\ Info(kind, code, retryable).SQLState = code
         /\ Info(kind, code, retryable).Retryable = retryable
BY DEF Info

\* An error has a kind, nil has none; the SQLSTATE is that of SQLState.
LEMMA ClassifyLabels ==
  ASSUME NEW e \in Seq(Leaves)
  PROVE  /\ Classify(e).Kind \in ErrorKindCategories
         /\ Classify(e).Kind = "" <=> e = <<>>
         /\ Classify(e).SQLState = SQLState(e)
         /\ Has(e, Codes) => /\ SQLState(e) \in Codes
                             /\ Classify(e).Kind = kindForSQLState(SQLState(e))
                             /\ Classify(e).Retryable = retryableKind(Classify(e).Kind)
         /\ ~Has(e, Codes) => SQLState(e) = ""
         /\ e = <<>> => ~Has(e, Codes) /\ ~Classify(e).Retryable
<1>1. e = <<>> => ~Has(e, Codes)
  BY DEF Has
<1>2. CASE e = <<>>
  BY <1>1, <1>2 DEF Classify, Info, SQLState, ErrorKindCategories
<1>3. CASE e # <<>> /\ Has(e, Codes)
  <2>1. PICK kind : kind = kindForSQLState(As(e, Codes))
    OBVIOUS
  <2>2. /\ Classify(e).Kind = kind /\ Classify(e).SQLState = As(e, Codes)
        /\ Classify(e).Retryable = retryableKind(kind)
    <3>1. Classify(e) = Info(kind, As(e, Codes), retryableKind(kind))
      BY <1>3, <2>1 DEF Classify
    <3> QED
      BY <3>1, InfoFields
  <2>3. As(e, Codes) \in Codes /\ SQLState(e) = As(e, Codes)
    BY <1>3, AsMatches DEF SQLState
  <2>4. kind \in ErrorKindCategories \ {""}
    BY <2>1, KindKnown
  <2> QED
    BY <1>3, <2>1, <2>2, <2>3, <2>4
<1>4. CASE e # <<>> /\ ~Has(e, Codes)
  <2>1. Classify(e).Kind \in ErrorKindCategories \ {""} /\ Classify(e).SQLState = ""
    BY <1>4 DEF Classify, Info, ErrorKindCategories
  <2> QED
    BY <1>4, <2>1 DEF SQLState
<1> QED
  BY <1>2, <1>3, <1>4

\* A single error is retryable for its code, or because nothing was sent.
LEMMA RetryableSingle ==
  ASSUME NEW l \in Leaves, IsRetryable(<<l>>)
  PROVE  l \in RetryableLeaves
<1>1. <<l>> \in Seq(Leaves) /\ <<l>> # <<>>
  OBVIOUS
<1>2. CASE l \in Codes
  <2>1. Has(<<l>>, Codes) /\ As(<<l>>, Codes) = l
    BY <1>2, AsSingle
  <2>2. SQLState(<<l>>) = l
    BY <2>1 DEF SQLState
  <2>3. retryableKind(kindForSQLState(l))
    BY <1>1, <2>1, <2>2, ClassifyLabels DEF IsRetryable
  <2> QED
    BY <2>3, KindKnown DEF RetryableLeaves
<1>3. CASE l \notin Codes
  <2>1. /\ ~Has(<<l>>, Codes)
        /\ Has(<<l>>, {"exhausted"}) <=> l \in {"exhausted"}
        /\ Has(<<l>>, IsCanceled) <=> l \in IsCanceled
        /\ Has(<<l>>, IsDeadlineExceeded) <=> l \in IsDeadlineExceeded
        /\ Has(<<l>>, IsNetError) <=> l \in IsNetError
        /\ Has(<<l>>, KnowsSafeToRetry) <=> l \in KnowsSafeToRetry
        /\ l \in KnowsSafeToRetry => As(<<l>>, KnowsSafeToRetry) = l
    BY <1>3, AsSingle
  <2>2. Classify(<<l>>).Retryable =>
          /\ l \notin IsDeadlineExceeded /\ l \in IsNetError
          /\ SafeToRetry(<<l>>)
    BY <1>1, <2>1 DEF Classify, Info
  <2>3. l \in KnowsSafeToRetry /\ l # "netPartial" /\ l \in IsNetError \ IsDeadlineExceeded
    BY <2>1, <2>2 DEF IsRetryable, SafeToRetry
  <2> QED
    BY <2>3 DEF KnowsSafeToRetry, IsNetError, IsDeadlineExceeded, RetryableLeaves
<1> QED
  BY <1>2, <1>3

\* An error joined behind a PostgreSQL error does not change what it means.
LEMMA JoinKeepsDiagnosis ==
  ASSUME NEW e \in Seq(Leaves), NEW l \in Leaves, Has(e, Codes)
  PROVE  /\ Classify(Append(e, l)) = Classify(e)
         /\ SQLState(Append(e, l)) = SQLState(e)
<1>1. PICK d : d = Append(e, l)
  OBVIOUS
<1>2. Has(d, Codes) /\ As(d, Codes) = As(e, Codes)
  BY <1>1, AsAppend
<1>3. d # <<>> /\ e # <<>>
  BY <1>2 DEF Has
<1>4. Classify(d) = Classify(e) /\ SQLState(d) = SQLState(e)
  BY <1>2, <1>3 DEF Classify, SQLState
<1> QED
  BY <1>1, <1>4

-----------------------------------------------------------------------------
(***************************************************************************)
(* The inductive invariant.  A frame has an error graph exactly when it has*)
(* an error; the callback's graph is at its head, with at most the leaf of *)
(* the rollback behind it; and what was delivered is the observation of the*)
(* frame as it still is.                                                   *)
(***************************************************************************)
Silent(f) == pc[f] # "done" \/ Isolated(f) \/ err[f] = {"NilCallback"}

GraphOK(f) ==
  /\ graph[f] \in Seq(Leaves)
  /\ graph[f] = <<>> <=> err[f] \in {{}, {"NilCallback"}}

CauseOK(f) ==
  /\ cause[f] \in Seq(Leaves)
  /\ cause[f] # <<>> =>
       /\ bodyEnd[f] = "error"
       /\ \/ graph[f] = cause[f]
          \/ /\ pc[f] \in {"outer", "done"}
             /\ \E l \in Leaves : graph[f] = Append(cause[f], l)

DeliveredOK(f) ==
  delivered[f] = IF Silent(f) THEN <<>> ELSE <<boundedObservation(Observation(f))>>

AdviceOK(f) == GraphOK(f) /\ CauseOK(f) /\ DeliveredOK(f)

AdviceInv ==
  /\ failure \in Leaves
  /\ graph \in [Frames -> Seq(Leaves)]
  /\ cause \in [Frames -> Seq(Leaves)]
  /\ DOMAIN delivered = Frames
  /\ \A f \in Frames : AdviceOK(f)

\* Whoever wrote did so in callbacks that were entered.
Entered(a) == pc[a] \in {"body", "child"} \/ bodyEnd[a] # "none"

EnteredInv == \A f \in wrote : \A a \in Enclosing(f) : Entered(a)

\* A commit whose error may be retried has lost the connection, and all writes.
RetryInv ==
  \A f \in Frames : commitEnd[f] = "error" /\ IsRetryable(graph[f]) => broken /\ durable = {}

ObservedInv == ControlInv /\ WritesInv /\ AdviceInv /\ EnteredInv /\ RetryInv

-----------------------------------------------------------------------------
\* Every step is a step of Transaction.
LEMMA StepsOfTransaction ==
  [ObservedNext]_observedVars => [Next]_vars
<1>1. ASSUME NEW f \in Frames, ObservedStep(f) PROVE Next
  BY <1>1 DEF ObservedStep, Next, Step
<1>2. ASSUME NEW f \in Frames, QuietStep(f) PROVE Next
  BY <1>2 DEF QuietStep, Next, Step
<1>3. ASSUME RunTransaction \/ RunIsolated \/ NilCallback \/ Terminated PROVE Next
  BY <1>3 DEF Next
<1>4. ASSUME UNCHANGED observedVars PROVE UNCHANGED vars
  BY <1>4 DEF observedVars
<1> QED
  BY <1>1, <1>2, <1>3, <1>4 DEF ObservedNext

\* The errors of the session are leaves.
LEMMA SessionLeaves ==
  ASSUME NEW f \in Frames
  PROVE  /\ StatementLeaves(f) \subseteq Leaves
         /\ BeginLeaves(f) \subseteq Leaves
         /\ CommitLeaves(f) \subseteq Leaves
         /\ RollbackLeaves(f) \subseteq Leaves
         /\ Refused(f) \subseteq Leaves /\ CallerErrors(f) \subseteq Leaves
<1> USE ServerAssumption DEF Leaves, OtherLeaves
<1>1. CallerErrors(f) \subseteq Leaves /\ Refused(f) \subseteq Leaves
  BY DEF CallerErrors, Refused
<1>2. LostAfterSending \subseteq Leaves /\ LostConnection \subseteq Leaves
  BY DEF LostAfterSending, LostConnection
<1>3. StatementLeaves(f) \subseteq Leaves
  BY <1>1, <1>2 DEF StatementLeaves
<1>4. BeginLeaves(f) \subseteq Leaves
  BY <1>1, <1>2, <1>3 DEF BeginLeaves
<1>5. CommitLeaves(f) \subseteq Leaves
  BY <1>1, <1>2, <1>3 DEF CommitLeaves
<1>6. RollbackLeaves(f) \subseteq Leaves
  <2>1. RollbackLeaves(f) = {"locked"} \/ RollbackLeaves(f) = LostConnection \cup {"deadline"}
        \/ RollbackLeaves(f) =
             {"deadlineUnsent", "other"} \cup IF f # 1 /\ ~live[f] THEN {"3B001"} ELSE {}
    BY DEF RollbackLeaves
  <2> QED
    BY <1>2, <2>1
<1> QED
  BY <1>1, <1>3, <1>4, <1>5, <1>6

\* A callback that fails returns an error.
LEMMA CallbackLeaves ==
  ASSUME AdviceInv, NEW f \in Frames, NEW e \in CallbackGraphs(f)
  PROVE  e \in Seq(Leaves) /\ e # <<>>
<1>1. CASE e \in {<<"other">>, <<failure>>, <<"exhausted", "other", "deadline">>}
  <2>1. failure \in Leaves /\ {"other", "exhausted", "deadline"} \subseteq Leaves
    BY DEF AdviceInv, Leaves, OtherLeaves
  <2>2. CASE e = <<"exhausted", "other", "deadline">>
    BY <2>1, <2>2
  <2>3. CASE \E l \in {"other", failure} : e = <<l>>
    BY <2>1, <2>3
  <2> QED
    BY <1>1, <2>2, <2>3
<1>2. CASE \E l \in Refused(f) \cup CallerErrors(f) : e = <<l>>
  BY <1>2, SessionLeaves
<1>3. CASE \E g \in Frames : e = graph[g] /\ graph[g] # <<>>
  BY <1>3 DEF AdviceInv
<1> QED
  BY <1>1, <1>2, <1>3 DEF CallbackGraphs

\* A frame whose result does not change stays as it is.
LEMMA AdviceRests ==
  ASSUME NEW f \in Frames, AdviceOK(f),
         graph'[f] = graph[f], cause'[f] = cause[f], delivered'[f] = delivered[f],
         err'[f] = err[f], bodyEnd[f] = "error" => bodyEnd'[f] = "error",
         pc[f] \in {"outer", "done"} => pc'[f] \in {"outer", "done"},
         pc'[f] = "done" <=> pc[f] = "done",
         pc[f] = "done" => exit'[f] = exit[f] /\ (f = 1 => isolated' = isolated)
  PROVE  AdviceOK(f)'
<1>1. GraphOK(f)'
  BY DEF AdviceOK, GraphOK
<1>2. CauseOK(f)'
  BY DEF AdviceOK, CauseOK
<1>3. DeliveredOK(f)'
  <2>1. CASE pc[f] # "done"
    BY <2>1 DEF AdviceOK, DeliveredOK, Silent
  <2>2. CASE pc[f] = "done"
    <3>1. (Silent(f))' <=> Silent(f)
      BY <2>2 DEF Silent, Isolated
    <3>2. (Observation(f))' = Observation(f)
      <4>1. (Outcome(f))' = Outcome(f)
        BY <2>2 DEF Outcome
      <4> QED
        BY <2>2, <4>1 DEF Observation
    <3> QED
      BY <3>1, <3>2 DEF AdviceOK, DeliveredOK
  <2> QED
    BY <2>1, <2>2
<1> QED
  BY <1>1, <1>2, <1>3 DEF AdviceOK

-----------------------------------------------------------------------------
\* A step of one frame leaves the results of the others alone.
LEMMA OthersResult ==
  ASSUME TypeOK, NEW k \in Frames, Step(k)
  PROVE  /\ isolated' = isolated
         /\ \A a \in Frames \ {k} : exit'[a] = exit[a] /\ err'[a] = err[a]
<1> USE DEF frameVars, runVars, Leave, TypeOK
<1>1. CASE BeginReturns(k) \/ BeginFails(k)
  BY <1>1 DEF BeginReturns, BeginFails
<1>2. CASE CallbackReturns(k) \/ CallbackTerminates(k)
  BY <1>2 DEF CallbackReturns, CallbackTerminates
<1>3. CASE \E c \in Frames : ChildEnds(k, c)
  BY <1>3 DEF ChildEnds
<1>4. CASE CommitReturns(k) \/ CommitTerminates(k)
  BY <1>4 DEF CommitReturns, CommitTerminates
<1>5. CASE Rollback(k)
  BY <1>5 DEF Rollback, RolledBack
<1>6. CASE NoRollback(k) \/ Observe(k)
  BY <1>6 DEF NoRollback, Observe
<1> QED
  BY <1>1, <1>2, <1>3, <1>4, <1>5, <1>6 DEF Step

\* It is enough to look at the frame that takes the step.
LEMMA AdviceOf ==
  ASSUME TypeOK, AdviceInv, NEW k \in Frames, Step(k),
         failure' = failure,
         graph' \in [Frames -> Seq(Leaves)], cause' \in [Frames -> Seq(Leaves)],
         DOMAIN delivered' = Frames,
         \A f \in Frames \ {k} : /\ graph'[f] = graph[f] /\ cause'[f] = cause[f]
                                 /\ delivered'[f] = delivered[f],
         AdviceOK(k)'
  PROVE  AdviceInv'
<1>1. ASSUME NEW f \in Frames \ {k} PROVE AdviceOK(f)'
  <2>1. AdviceOK(f)
    BY DEF AdviceInv
  <2>2. /\ isolated' = isolated /\ exit'[f] = exit[f] /\ err'[f] = err[f]
        /\ pc'[f] = pc[f] /\ bodyEnd'[f] = bodyEnd[f]
    BY OthersResult, OthersRest
  <2> QED
    BY <2>1, <2>2, AdviceRests
<1>2. \A f \in Frames : AdviceOK(f)'
  BY <1>1
<1> QED
  BY <1>2 DEF AdviceInv

\* A frame without an error has neither a graph nor a cause.
LEMMA NoErrorYet ==
  ASSUME ControlInv, AdviceInv, NEW k \in Frames,
         pc[k] \in {"unused", "begin", "body", "child", "commit"}
  PROVE  /\ err[k] = {} /\ bodyEnd[k] \in {"none", "nil"}
         /\ graph[k] = <<>> /\ cause[k] = <<>> /\ delivered[k] = <<>>
<1>1. FrameOK(k) /\ AdviceOK(k)
  BY DEF ControlInv, FrameInv, AdviceInv
<1>2. err[k] = {} /\ bodyEnd[k] \in {"none", "nil"}
  BY <1>1 DEF FrameOK, Fresh
<1>3. graph[k] = <<>> /\ cause[k] = <<>>
  BY <1>1, <1>2 DEF AdviceOK, GraphOK, CauseOK
<1>4. delivered[k] = <<>>
  BY <1>1 DEF AdviceOK, DeliveredOK, Silent
<1> QED
  BY <1>2, <1>3, <1>4

\* What Errs does to the graph of the frame.
LEMMA ErrsGraph ==
  ASSUME AdviceInv, NEW k \in Frames, NEW leaves, leaves \subseteq Leaves, Errs(k, leaves)
  PROVE  /\ UNCHANGED <<failure, cause, delivered>>
         /\ graph' \in [Frames -> Seq(Leaves)]
         /\ \A f \in Frames \ {k} : graph'[f] = graph[f]
         /\ err'[k] = err[k] => graph'[k] = graph[k]
         /\ err'[k] # err[k] =>
              graph'[k] # <<>> /\ \E l \in leaves : graph'[k] = Append(graph[k], l)
<1>1. UNCHANGED <<failure, cause, delivered>>
  BY DEF Errs
<1>2. graph \in [Frames -> Seq(Leaves)]
  BY DEF AdviceInv
<1>3. CASE err'[k] = err[k]
  BY <1>1, <1>2, <1>3 DEF Errs
<1>4. CASE err'[k] # err[k]
  <2>1. PICK l \in leaves : graph' = [graph EXCEPT ![k] = Append(@, l)]
    BY <1>4 DEF Errs, Join
  <2>2. l \in Leaves /\ graph[k] \in Seq(Leaves)
    BY <1>2
  <2>3. Append(graph[k], l) \in Seq(Leaves) /\ Append(graph[k], l) # <<>>
    BY <2>2
  <2>4. graph' \in [Frames -> Seq(Leaves)] /\ graph'[k] = Append(graph[k], l)
        /\ \A f \in Frames \ {k} : graph'[f] = graph[f]
    BY <1>2, <2>1, <2>3
  <2> QED
    BY <1>1, <1>4, <2>3, <2>4
<1> QED
  BY <1>3, <1>4

\* A frame that is left with its first error, or with none.
LEMMA FirstError ==
  ASSUME ControlInv, AdviceInv, NEW k \in Frames,
         pc[k] \in {"begin", "commit"}, Step(k), pc'[k] \in {"outer", "deferred"},
         NEW leaves, leaves \subseteq Leaves, Errs(k, leaves),
         err'[k] # {"NilCallback"}
  PROVE  AdviceInv'
<1>1. /\ err[k] = {} /\ bodyEnd[k] \in {"none", "nil"}
      /\ graph[k] = <<>> /\ cause[k] = <<>> /\ delivered[k] = <<>>
  BY NoErrorYet
<1>2. /\ UNCHANGED <<failure, cause, delivered>>
      /\ graph' \in [Frames -> Seq(Leaves)]
      /\ \A f \in Frames \ {k} : graph'[f] = graph[f]
      /\ err'[k] = {} => graph'[k] = <<>>
      /\ err'[k] # {} => graph'[k] # <<>>
  BY <1>1, ErrsGraph
<1>3. GraphOK(k)'
  BY <1>2 DEF GraphOK
<1>4. CauseOK(k)'
  <2>1. cause'[k] = <<>> /\ <<>> \in Seq(Leaves)
    BY <1>1, <1>2
  <2> QED
    BY <2>1 DEF CauseOK
<1>5. DeliveredOK(k)'
  BY <1>1, <1>2 DEF DeliveredOK, Silent
<1> QED
  BY <1>2, <1>3, <1>4, <1>5, AdviceOf DEF AdviceOK, ControlInv, AdviceInv

\* The callback returns nil, or its error becomes the graph and the cause.
LEMMA AdviceCallback ==
  ASSUME ControlInv, AdviceInv, NEW k \in Frames, CallbackReturns(k), CallbackErrs(k)
  PROVE  AdviceInv'
<1>1. /\ err[k] = {} /\ graph[k] = <<>> /\ cause[k] = <<>> /\ delivered[k] = <<>>
  BY NoErrorYet DEF CallbackReturns
<1>2. /\ pc'[k] \in {"commit", "deferred"}
      /\ err'[k] = {} \/ (err'[k] = {"Callback"} /\ bodyEnd'[k] = "error")
  <2>1. pc \in [Frames -> Locations] /\ err \in [Frames -> SUBSET Sentinels]
        /\ bodyEnd \in [Frames -> Ends]
    BY DEF ControlInv, TypeOK
  <2> QED
    BY <1>1, <2>1 DEF CallbackReturns, Leave, EndBody
<1>3. Step(k)
  BY DEF Step
<1>4. /\ graph \in [Frames -> Seq(Leaves)] /\ cause \in [Frames -> Seq(Leaves)]
      /\ DOMAIN delivered = Frames
      /\ failure' = failure /\ delivered' = delivered
  BY DEF AdviceInv, CallbackErrs
<1>5. /\ graph' \in [Frames -> Seq(Leaves)]
      /\ \A f \in Frames \ {k} : graph'[f] = graph[f]
      /\ err'[k] = {} => graph'[k] = <<>>
      /\ err'[k] # {} => graph'[k] # <<>>
  <2>1. CASE err'[k] = {}
    BY <1>1, <1>4, <2>1 DEF CallbackErrs
  <2>2. CASE err'[k] # {}
    <3>1. PICK e \in CallbackGraphs(k) : graph' = [graph EXCEPT ![k] = e]
      BY <1>1, <2>2 DEF CallbackErrs
    <3>2. e \in Seq(Leaves) /\ e # <<>>
      BY CallbackLeaves
    <3> QED
      BY <1>4, <2>2, <3>1, <3>2
  <2> QED
    BY <2>1, <2>2
<1>6. /\ cause' \in [Frames -> Seq(Leaves)] /\ cause'[k] = graph'[k]
      /\ \A f \in Frames \ {k} : cause'[f] = cause[f]
  <2>1. cause' = [cause EXCEPT ![k] = graph'[k]] /\ graph'[k] \in Seq(Leaves)
    BY <1>5 DEF CallbackErrs
  <2> QED
    BY <1>4, <2>1
<1>7. GraphOK(k)'
  BY <1>2, <1>5 DEF GraphOK
<1>8. CauseOK(k)'
  BY <1>2, <1>5, <1>6 DEF CauseOK
<1>9. DeliveredOK(k)'
  BY <1>1, <1>2, <1>4 DEF DeliveredOK, Silent
<1> QED
  BY <1>3, <1>4, <1>5, <1>6, <1>7, <1>8, <1>9, AdviceOf DEF AdviceOK, ControlInv

\* The rollback's error is joined behind the callback's.
LEMMA AdviceRollback ==
  ASSUME ControlInv, AdviceInv, NEW k \in Frames, Rollback(k), Errs(k, RollbackLeaves(k))
  PROVE  AdviceInv'
<1>1. AdviceOK(k) /\ FrameOK(k)
  BY DEF ControlInv, FrameInv, AdviceInv
<1>2. /\ pc[k] = "deferred" /\ pc'[k] = "outer" /\ bodyEnd' = bodyEnd
      /\ err'[k] = err[k] \/ err'[k] = err[k] \cup {"Rollback"}
  <2>1. pc \in [Frames -> Locations] /\ err \in [Frames -> SUBSET Sentinels]
    BY DEF ControlInv, TypeOK
  <2> QED
    BY <2>1 DEF Rollback, RolledBack, Leave
<1>3. "NilCallback" \notin err[k]
  BY <1>1, <1>2 DEF FrameOK, CauseErr
<1>4. Step(k)
  BY DEF Step
<1>5. /\ UNCHANGED <<failure, cause, delivered>>
      /\ graph' \in [Frames -> Seq(Leaves)]
      /\ \A f \in Frames \ {k} : graph'[f] = graph[f]
      /\ err'[k] = err[k] => graph'[k] = graph[k]
      /\ err'[k] # err[k] =>
           graph'[k] # <<>> /\ \E l \in Leaves : graph'[k] = Append(graph[k], l)
  BY ErrsGraph, SessionLeaves
<1>6. GraphOK(k)'
  <2>1. CASE err'[k] = err[k]
    BY <1>1, <1>5, <2>1 DEF AdviceOK, GraphOK
  <2>2. CASE err'[k] # err[k]
    <3>1. graph'[k] # <<>> /\ graph'[k] \in Seq(Leaves) /\ "Rollback" \in err'[k]
      BY <1>2, <1>5, <2>2
    <3> QED
      BY <3>1 DEF GraphOK
  <2> QED
    BY <2>1, <2>2
<1>7. CauseOK(k)'
  <2>1. /\ cause[k] \in Seq(Leaves)
        /\ cause[k] # <<>> => bodyEnd[k] = "error" /\ graph[k] = cause[k]
    BY <1>1, <1>2 DEF AdviceOK, CauseOK
  <2>2. graph'[k] = graph[k] \/ \E l \in Leaves : graph'[k] = Append(graph[k], l)
    BY <1>5
  <2> QED
    BY <1>2, <1>5, <2>1, <2>2 DEF CauseOK
<1>8. DeliveredOK(k)'
  BY <1>1, <1>2, <1>5 DEF AdviceOK, DeliveredOK, Silent
<1> QED
  BY <1>4, <1>5, <1>6, <1>7, <1>8, AdviceOf DEF AdviceOK, ControlInv, AdviceInv

\* One observation, of the frame as it stays.
LEMMA AdviceObserve ==
  ASSUME ControlInv, AdviceInv, NEW k \in Frames, Observe(k), Delivers(k)
  PROVE  AdviceInv'
<1>1. AdviceOK(k) /\ FrameOK(k)
  BY DEF ControlInv, FrameInv, AdviceInv
<1>2. /\ pc[k] = "outer" /\ pc'[k] = "done"
      /\ UNCHANGED <<exit, err, bodyEnd, isolated>>
  <2>1. pc \in [Frames -> Locations]
    BY DEF ControlInv, TypeOK
  <2> QED
    BY <2>1 DEF Observe, endVars, runVars
<1>3. err[k] # {"NilCallback"}
  BY <1>1, <1>2 DEF FrameOK, NeverBegan, CleanedUp, CauseErr
<1>4. Step(k)
  BY DEF Step
<1>5. UNCHANGED <<failure, graph, cause>>
  BY DEF Delivers
<1>6. delivered[k] = <<>> /\ DOMAIN delivered = Frames
  BY <1>1, <1>2 DEF AdviceOK, DeliveredOK, Silent, AdviceInv
<1>7. (Observation(k))' = Observation(k) /\ ((Isolated(k))' <=> Isolated(k))
  <2>1. (Outcome(k))' = Outcome(k)
    BY <1>2 DEF Outcome
  <2> QED
    BY <1>2, <1>5, <2>1 DEF Observation, Isolated
<1>8. /\ DOMAIN delivered' = Frames
      /\ \A f \in Frames \ {k} : delivered'[f] = delivered[f]
      /\ delivered'[k] = IF Isolated(k) THEN <<>> ELSE <<boundedObservation(Observation(k))>>
  <2>1. CASE Isolated(k)
    BY <1>6, <2>1 DEF Delivers
  <2>2. CASE ~Isolated(k)
    <3>1. PICK o : o = boundedObservation(Observation(k))
      OBVIOUS
    <3>2. delivered' = [delivered EXCEPT ![k] = Append(<<>>, o)]
      BY <1>6, <2>2, <3>1 DEF Delivers, safeObserve
    <3>3. Append(<<>>, o) = <<o>>
      OBVIOUS
    <3> QED
      BY <1>6, <2>2, <3>1, <3>2, <3>3
  <2> QED
    BY <2>1, <2>2
<1>9. DeliveredOK(k)'
  <2>1. (Silent(k))' <=> Isolated(k)
    BY <1>2, <1>3, <1>7 DEF Silent
  <2> QED
    BY <1>7, <1>8, <2>1 DEF DeliveredOK
<1>10. GraphOK(k)' /\ CauseOK(k)'
  BY <1>1, <1>2, <1>5 DEF AdviceOK, GraphOK, CauseOK
<1> QED
  BY <1>4, <1>5, <1>8, <1>9, <1>10, AdviceOf DEF AdviceOK, ControlInv, AdviceInv

\* Steps that raise no error.
LEMMA AdviceQuiet ==
  ASSUME ControlInv, AdviceInv, UNCHANGED adviceVars, NEW k \in Frames, QuietStep(k)
  PROVE  AdviceInv'
<1> USE DEF frameVars, endVars, runVars
<1>1. UNCHANGED <<failure, graph, cause, delivered>>
  BY DEF adviceVars
<1>2. TypeOK /\ \A f \in Frames : AdviceOK(f) /\ FrameOK(f)
  BY DEF ControlInv, FrameInv, AdviceInv
<1>3. pc[k] \in {"unused", "begin", "body", "child", "commit"} =>
        err[k] = {} /\ bodyEnd[k] \in {"none", "nil"}
  BY NoErrorYet
<1>4. /\ err' = err
      /\ bodyEnd[k] = "error" => bodyEnd'[k] = "error"
      /\ \A f \in Frames \ {k} : bodyEnd'[f] = bodyEnd[f] /\ exit'[f] = exit[f]
      /\ \A f \in Frames : /\ pc[f] \in {"outer", "done"} => pc'[f] \in {"outer", "done"}
                           /\ pc'[f] = "done" <=> pc[f] = "done"
      /\ pc[k] = "done" => exit'[k] = exit[k]
      /\ isolated' = isolated
  <2>1. /\ pc \in [Frames -> Locations] /\ err \in [Frames -> SUBSET Sentinels]
        /\ bodyEnd \in [Frames -> Ends] /\ exit \in [Frames -> Exits]
    BY <1>2 DEF TypeOK
  <2>2. CASE BeginReturns(k)
    BY <2>1, <2>2 DEF BeginReturns
  <2>3. CASE CallbackTerminates(k)
    BY <1>3, <2>1, <2>3 DEF CallbackTerminates, Leave, EndBody
  <2>4. CASE CommitTerminates(k)
    BY <1>3, <2>1, <2>4 DEF CommitTerminates, Leave
  <2>5. CASE NoRollback(k)
    BY <2>1, <2>5 DEF NoRollback
  <2>6. CASE Write(k) \/ Cancel(k)
    BY <2>6 DEF Write, Cancel
  <2>7. CASE \E g \in Frames : ChildEnds(k, g)
    <3>1. pc[k] = "child" /\ isolated' = isolated
      BY <2>7 DEF ChildEnds
    <3>2. CASE pc' = [pc EXCEPT ![k] = "body"] /\ UNCHANGED <<exit, err, bodyEnd>>
      BY <2>1, <3>1, <3>2
    <3>3. CASE \E x \in {"panic", "goexit"} : EndBody(k, x) /\ Leave(k, "deferred", x, {})
      BY <1>3, <2>1, <3>1, <3>3 DEF Leave, EndBody
    <3> QED
      BY <2>7, <3>2, <3>3 DEF ChildEnds
  <2>8. CASE \E g \in Frames : RunSavepoint(k, g)
    BY <2>1, <2>8 DEF RunSavepoint, Start
  <2> QED
    BY <2>2, <2>3, <2>4, <2>5, <2>6, <2>7, <2>8 DEF QuietStep
<1>5. ASSUME NEW f \in Frames PROVE AdviceOK(f)'
  BY <1>1, <1>2, <1>4, AdviceRests
<1> QED
  BY <1>1, <1>5 DEF AdviceInv

\* The call of a runner.
LEMMA AdviceStart ==
  ASSUME ControlInv, AdviceInv, UNCHANGED adviceVars,
         RunTransaction \/ RunIsolated \/ NilCallback
  PROVE  AdviceInv'
<1>1. UNCHANGED <<failure, graph, cause, delivered>>
  BY DEF adviceVars
<1>2. 1 \in Frames /\ \A f \in Frames : AdviceOK(f) /\ FrameOK(f)
  BY FrameNumbers DEF ControlInv, FrameInv, AdviceInv
<1>3. /\ pc[1] = "unused" /\ pc'[1] \in {"begin", "done"}
      /\ \A f \in Frames \ {1} : pc'[f] = pc[f] /\ err'[f] = err[f]
      /\ UNCHANGED <<exit, bodyEnd>>
      /\ \/ pc'[1] = "begin" /\ err'[1] = err[1]
         \/ pc'[1] = "done" /\ err'[1] = {"NilCallback"}
  <2>1. /\ pc \in [Frames -> Locations] /\ err \in [Frames -> SUBSET Sentinels]
    BY DEF ControlInv, TypeOK
  <2> QED
    BY <1>2, <2>1 DEF RunTransaction, RunIsolated, NilCallback, Start, Began, endVars
<1>4. graph[1] = <<>> /\ cause[1] = <<>> /\ delivered[1] = <<>>
  BY <1>2, <1>3, NoErrorYet
<1>5. ASSUME NEW f \in Frames \ {1} PROVE AdviceOK(f)'
  BY <1>1, <1>2, <1>3, <1>5, AdviceRests
<1>6. AdviceOK(1)'
  <2>1. CASE pc'[1] = "begin" /\ err'[1] = err[1]
    BY <1>1, <1>2, <1>3, <2>1, AdviceRests
  <2>2. CASE pc'[1] = "done" /\ err'[1] = {"NilCallback"}
    <3>1. <<>> \in Seq(Leaves)
      OBVIOUS
    <3> QED
      BY <1>1, <1>4, <2>2, <3>1 DEF AdviceOK, GraphOK, CauseOK, DeliveredOK, Silent
  <2> QED
    BY <1>3, <2>1, <2>2
<1> QED
  BY <1>1, <1>5, <1>6 DEF AdviceInv

LEMMA AdviceStep ==
  ASSUME ControlInv, AdviceInv, [ObservedNext]_observedVars
  PROVE  AdviceInv'
<1>1. ASSUME UNCHANGED <<vars, adviceVars>> PROVE AdviceInv'
  <2>1. /\ UNCHANGED <<failure, graph, cause, delivered>>
        /\ UNCHANGED <<pc, err, exit, bodyEnd, isolated>>
    BY <1>1 DEF adviceVars, vars, frameVars, endVars, runVars
  <2>2. ASSUME NEW f \in Frames PROVE AdviceOK(f)'
    BY <2>1, AdviceRests DEF AdviceInv
  <2> QED
    BY <2>1, <2>2 DEF AdviceInv
<1>2. ASSUME NEW k \in Frames, ObservedStep(k) PROVE AdviceInv'
  <2> USE SessionLeaves
  <2>1. pc \in [Frames -> Locations] /\ err \in [Frames -> SUBSET Sentinels]
    BY DEF ControlInv, TypeOK
  <2>2. CASE BeginFails(k) /\ Errs(k, BeginLeaves(k))
    <3>1. /\ pc[k] = "begin" /\ pc'[k] = "outer" /\ err'[k] # {"NilCallback"}
      BY <2>1, <2>2 DEF BeginFails, Leave
    <3>2. Step(k)
      BY <2>2 DEF Step
    <3> QED
      BY <2>2, <3>1, <3>2, FirstError
  <2>3. CASE CallbackReturns(k) /\ CallbackErrs(k)
    BY <2>3, AdviceCallback
  <2>4. CASE CommitReturns(k) /\ Errs(k, CommitLeaves(k))
    <3>1. /\ pc[k] = "commit" /\ pc'[k] = "deferred" /\ err'[k] # {"NilCallback"}
      BY <2>1, <2>4 DEF CommitReturns, Leave
    <3>2. Step(k)
      BY <2>4 DEF Step
    <3> QED
      BY <2>4, <3>1, <3>2, FirstError
  <2>5. CASE Rollback(k) /\ Errs(k, RollbackLeaves(k))
    BY <2>5, AdviceRollback
  <2>6. CASE StatementFails(k) /\ StatementErrs(k)
    <3>1. /\ failure' \in Leaves /\ UNCHANGED <<graph, cause, delivered>>
          /\ UNCHANGED <<pc, err, exit, bodyEnd, isolated>>
      BY <2>6 DEF StatementErrs, StatementFails, frameVars, endVars, runVars
    <3>2. ASSUME NEW f \in Frames PROVE AdviceOK(f)'
      BY <3>1, AdviceRests DEF AdviceInv
    <3> QED
      BY <3>1, <3>2 DEF AdviceInv
  <2>7. CASE Observe(k) /\ Delivers(k)
    BY <2>7, AdviceObserve
  <2> QED
    BY <1>2, <2>2, <2>3, <2>4, <2>5, <2>6, <2>7 DEF ObservedStep
<1> QED
  BY <1>1, <1>2, AdviceQuiet, AdviceStart DEF ObservedNext, observedVars, Terminated

-----------------------------------------------------------------------------
\* A callback that was entered stays entered.
LEMMA EnteredStays ==
  ASSUME ControlInv, NEW a \in Frames, Entered(a), [Next]_vars
  PROVE  Entered(a)'
<1> USE DEF frameVars, endVars, runVars, Entered
<1>1. /\ pc \in [Frames -> Locations] /\ bodyEnd \in [Frames -> Ends] /\ FrameOK(a)
  BY DEF ControlInv, TypeOK, FrameInv
<1>2. CASE RunTransaction \/ RunIsolated \/ NilCallback
  <2>1. bodyEnd' = bodyEnd /\ pc[1] = "unused" /\ (a # 1 => pc'[a] = pc[a])
    BY <1>1, <1>2 DEF RunTransaction, RunIsolated, NilCallback, Start, Began
  <2> QED
    BY <2>1
<1>3. ASSUME NEW k \in Frames, NEW n \in Frames, RunSavepoint(k, n) PROVE Entered(a)'
  BY <1>1, <1>3 DEF RunSavepoint, Start
<1>4. ASSUME NEW k \in Frames, Write(k) \/ StatementFails(k) \/ Cancel(k) PROVE Entered(a)'
  BY <1>4 DEF Write, StatementFails, Cancel
<1>5. CASE UNCHANGED vars
  BY <1>5 DEF vars
<1>6. ASSUME NEW k \in Frames, Step(k) PROVE Entered(a)'
  <2>1. CASE a # k
    BY <1>6, <2>1, OthersRest DEF ControlInv
  <2>2. CASE a = k /\ (BeginReturns(k) \/ BeginFails(k))
    BY <1>1, <2>2 DEF BeginReturns, BeginFails, FrameOK, Fresh
  <2>3. CASE a = k /\ (CallbackReturns(k) \/ CallbackTerminates(k))
    BY <1>1, <2>3 DEF CallbackReturns, CallbackTerminates, EndBody
  <2>4. CASE a = k /\ \E c \in Frames : ChildEnds(k, c)
    BY <1>1, <2>4 DEF ChildEnds, EndBody
  <2>5. CASE a = k /\ (CommitReturns(k) \/ CommitTerminates(k))
    BY <1>1, <2>5 DEF CommitReturns, CommitTerminates
  <2>6. CASE a = k /\ Rollback(k)
    BY <1>1, <2>6 DEF Rollback, RolledBack
  <2>7. CASE a = k /\ (NoRollback(k) \/ Observe(k))
    BY <1>1, <2>7 DEF NoRollback, Observe
  <2> QED
    BY <1>6, <2>1, <2>2, <2>3, <2>4, <2>5, <2>6, <2>7 DEF Step
<1> QED
  BY <1>2, <1>3, <1>4, <1>5, <1>6 DEF Next, Terminated

\* A frame that was called keeps its enclosing frames.
LEMMA EnclosingStays ==
  ASSUME ControlInv, ControlInv', [Next]_vars, NEW f \in Frames, pc[f] # "unused"
  PROVE  (Enclosing(f))' = Enclosing(f)
<1>1. TypeOK /\ StackInv /\ TypeOK' /\ 1 \in Frames
  BY FrameNumbers DEF ControlInv
<1>2. CASE parent' = parent
  BY <1>2 DEF Enclosing
<1>3. CASE parent' = [parent EXCEPT ![1] = 0]
  <2>1. parent' = parent
    BY <1>1, <1>3 DEF TypeOK, StackInv, Ordered
  <2> QED
    BY <1>2, <2>1
<1>4. ASSUME NEW k \in Frames, NEW n \in Frames, RunSavepoint(k, n)
      PROVE  (Enclosing(f))' = Enclosing(f)
  <2>1. f # n
    BY <1>4 DEF RunSavepoint
  <2> QED
    BY <1>1, <1>4, <2>1, EnclosingGrows
<1> QED
  BY <1>1, <1>2, <1>3, <1>4, ControlStep

LEMMA EnteredStep ==
  ASSUME ControlInv, ControlInv', WritesInv, EnteredInv, [Next]_vars
  PROVE  EnteredInv'
<1>1. /\ TypeOK /\ StackInv /\ SessionInv /\ wrote \subseteq Frames
      /\ \A f \in wrote : pc[f] # "unused"
  BY DEF ControlInv, TypeOK, SessionInv
<1>2. ASSUME NEW f \in wrote, NEW a \in Enclosing(f) PROVE Entered(a)'
  <2>1. a \in Frames /\ Entered(a)
    BY <1>1, <1>2, EnclosingFrames DEF EnteredInv
  <2> QED
    BY <2>1, EnteredStays
<1>3. \A f \in wrote : (Enclosing(f))' = Enclosing(f)
  BY <1>1, EnclosingStays
<1>4. CASE wrote' = wrote
  BY <1>2, <1>3, <1>4 DEF EnteredInv
<1>5. ASSUME NEW k \in Frames, Write(k) PROVE EnteredInv'
  <2>1. pc[k] = "body" /\ wrote' = wrote \cup {k} /\ pc' = pc
    BY <1>5 DEF Write, frameVars
  <2>2. (Enclosing(k))' = Enclosing(k) /\ Enclosing(k) \subseteq Frames
    BY <1>1, <2>1, EnclosingStays, EnclosingFrames
  <2>3. \A a \in Enclosing(k) : pc[a] \in {"body", "child"}
    BY <2>1 DEF WritesInv, ChainInv, Active
  <2>4. \A a \in Enclosing(k) : Entered(a)'
    BY <2>1, <2>3 DEF Entered
  <2> QED
    BY <1>2, <1>3, <2>1, <2>2, <2>4 DEF EnteredInv
<1>6. wrote' = wrote \/ \E k \in Frames : Write(k)
  <2>1. CASE RunTransaction \/ RunIsolated \/ NilCallback
    BY <2>1 DEF RunTransaction, RunIsolated, NilCallback, Start
  <2>2. CASE \E k \in Frames : Step(k)
    BY <1>1, <2>2, OthersRest
  <2>3. CASE \E k, n \in Frames : RunSavepoint(k, n)
    BY <2>3 DEF RunSavepoint, Start
  <2>4. CASE \E k \in Frames : StatementFails(k) \/ Cancel(k)
    BY <2>4 DEF StatementFails, Cancel
  <2>5. CASE UNCHANGED vars
    BY <2>5 DEF vars
  <2> QED
    BY <2>1, <2>2, <2>3, <2>4, <2>5 DEF Next, Terminated
<1> QED
  BY <1>4, <1>5, <1>6

-----------------------------------------------------------------------------
\* A closed connection stays closed and nothing is committed over it.
LEMMA BrokenStays ==
  ASSUME ControlInv, [Next]_vars, broken, durable = {}
  PROVE  broken' /\ durable' = {}
<1> USE DEF sessionVars
<1>1. /\ TypeOK /\ StackInv /\ SessionInv /\ 1 \in Frames
  BY FrameNumbers DEF ControlInv
<1>2. CASE RunTransaction \/ RunIsolated \/ NilCallback
  BY <1>2 DEF RunTransaction, RunIsolated, NilCallback, Start
<1>3. CASE \E k, n \in Frames : RunSavepoint(k, n)
  BY <1>3 DEF RunSavepoint, Start
<1>4. CASE \E k \in Frames : Write(k) \/ StatementFails(k) \/ Cancel(k)
  BY <1>4 DEF Write, StatementFails, Cancel, Usable
<1>5. CASE UNCHANGED vars
  BY <1>5 DEF vars
<1>6. ASSUME NEW k \in Frames, Step(k) PROVE broken' /\ durable' = {}
  <2>1. pending[1] = {}
    BY <1>1 DEF SessionInv
  <2>2. durable' = {}
    BY <1>6, <2>1, OnlyCommitStores
  <2>3. CASE BeginReturns(k)
    BY <2>3 DEF BeginReturns
  <2>4. CASE CallbackReturns(k) \/ CallbackTerminates(k) \/ \E c \in Frames : ChildEnds(k, c)
    BY <2>2, <2>4 DEF CallbackReturns, CallbackTerminates, ChildEnds
  <2>5. CASE NoRollback(k) \/ Observe(k)
    BY <2>2, <2>5 DEF NoRollback, Observe
  <2>6. CASE Effect(k)
    BY <2>2, <2>6 DEF Effect, NoEffect, Keep, Undo, LeaveBehind, NoSuchSavepoint, Lost,
                      Fails, Lose
  <2>7. BeginFails(k) => Effect(k)
    BY DEF BeginFails, Effect
  <2> QED
    BY <1>6, <2>3, <2>4, <2>5, <2>6, <2>7, CommitEffect, RollbackEffect DEF Step
<1> QED
  BY <1>2, <1>3, <1>4, <1>5, <1>6 DEF Next, Terminated

\* What a commit that fails does to the session.
LEMMA CommitFails ==
  ASSUME ControlInv, NEW k \in Frames, CommitReturns(k), commitEnd'[k] = "error"
  PROVE  /\ durable = {}
         /\ aborted' = aborted
         /\ broken' \in BOOLEAN
         /\ k = 1 => broken'
         /\ broken => broken'
         /\ CommitRefused(k) \/ Lost(k)
<1>1. /\ TypeOK /\ StackInv /\ SessionInv /\ pc[k] = "commit" /\ commitEnd \in [Frames -> Ends]
  BY DEF ControlInv, CommitReturns, TypeOK
<1>2. durable = {}
  <2>1. CASE k = 1
    BY <1>1, <2>1 DEF SessionInv
  <2>2. CASE k # 1
    <3>1. 1 \in Frames /\ 1 < k
      BY <2>2, FrameNumbers
    <3>2. Active(k) /\ Active(1)
      BY <1>1 DEF Active, StackInv, Stacked
    <3>3. pc[1] = "child"
      BY <1>1, <3>1, <3>2 DEF StackInv, Stacked
    <3> QED
      BY <1>1, <3>3 DEF SessionInv
  <2> QED
    BY <2>1, <2>2
<1>3. CommitRefused(k) \/ Lost(k)
  BY <1>1 DEF CommitReturns
<1>4. /\ aborted' = aborted /\ broken' \in BOOLEAN
      /\ k = 1 => broken'
      /\ broken => broken'
  <2>1. broken \in BOOLEAN
    BY <1>1 DEF TypeOK
  <2>2. CASE broken /\ NoEffect
    BY <2>1, <2>2, Zenon DEF NoEffect
  <2>3. CASE LeaveBehind(k)
    BY <2>1, <2>3, Zenon DEF LeaveBehind
  <2>4. CASE Lose
    BY <2>4, Zenon DEF Lose
  <2> QED
    BY <1>3, <2>2, <2>3, <2>4 DEF CommitRefused, Lost
<1> QED
  BY <1>2, <1>3, <1>4

\* A commit that says it may be retried has lost the connection.
LEMMA CommitRetry ==
  ASSUME ControlInv, NEW k \in Frames, CommitReturns(k), commitEnd'[k] = "error",
         NEW l \in CommitLeaves(k), l \in RetryableLeaves
  PROVE  broken' /\ durable' = {}
<1>1. /\ durable = {} /\ aborted' = aborted /\ broken' \in BOOLEAN
      /\ k = 1 => broken'
      /\ broken => broken'
  BY CommitFails
<1>2. broken \in BOOLEAN
  BY DEF ControlInv, TypeOK
<1>3. durable' = durable
  <2>1. l \notin LostAfterSending \cup CallerErrors(k)
    BY DEF RetryableLeaves, LostAfterSending, CallerErrors
  <2> QED
    BY <2>1 DEF CommitLeaves
<1>4. CASE k = 1
  BY <1>1, <1>3, <1>4
<1>5. CASE k # 1
  <2>1. l \in StatementLeaves(k)
    BY <1>3, <1>5 DEF CommitLeaves
  <2>2. l \notin Refused(k)
    BY DEF RetryableLeaves, Refused
  <2>3. broken' # broken
    BY <1>1, <2>1, <2>2 DEF StatementLeaves
  <2> QED
    BY <1>1, <1>2, <1>3, <2>3
<1> QED
  BY <1>4, <1>5

\* Nothing is joined to the error of a commit.
LEMMA CommitErrorStays ==
  ASSUME ControlInv, AdviceInv, [ObservedNext]_observedVars, NEW f \in Frames,
         commitEnd[f] = "error"
  PROVE  graph'[f] = graph[f]
<1>1. FrameOK(f) /\ pc[f] \in Locations /\ graph \in [Frames -> Seq(Leaves)]
  BY DEF ControlInv, FrameInv, TypeOK, AdviceInv
<1>2. pc[f] \in {"deferred", "outer", "done"} /\ (pc[f] = "deferred" => ~needsRollback[f])
  BY <1>1 DEF FrameOK, Fresh, Ended, Locations
<1>3. CASE UNCHANGED adviceVars
  BY <1>3 DEF adviceVars
<1>4. ASSUME NEW k \in Frames, ObservedStep(k) PROVE graph'[f] = graph[f]
  <2>1. CASE BeginFails(k) /\ Errs(k, BeginLeaves(k))
    <3>1. k # f
      BY <1>2, <2>1 DEF BeginFails
    <3> QED
      BY <2>1, <3>1, ErrsGraph, SessionLeaves
  <2>2. CASE CallbackReturns(k) /\ CallbackErrs(k)
    <3>1. k # f
      BY <1>2, <2>2 DEF CallbackReturns
    <3> QED
      BY <1>1, <2>2, <3>1 DEF CallbackErrs
  <2>3. CASE CommitReturns(k) /\ Errs(k, CommitLeaves(k))
    <3>1. k # f
      BY <1>2, <2>3 DEF CommitReturns
    <3> QED
      BY <2>3, <3>1, ErrsGraph, SessionLeaves
  <2>4. CASE Rollback(k) /\ Errs(k, RollbackLeaves(k))
    <3>1. k # f
      BY <1>2, <2>4 DEF Rollback, RolledBack
    <3> QED
      BY <2>4, <3>1, ErrsGraph, SessionLeaves
  <2>5. CASE StatementErrs(k) \/ Delivers(k)
    BY <2>5 DEF StatementErrs, Delivers
  <2> QED
    BY <1>4, <2>1, <2>2, <2>3, <2>4, <2>5 DEF ObservedStep
<1> QED
  BY <1>3, <1>4 DEF ObservedNext, observedVars

\* The error of a commit comes from a commit that returns it.
LEMMA OnlyCommitErrs ==
  ASSUME ControlInv, [ObservedNext]_observedVars, NEW f \in Frames,
         commitEnd[f] # "error", commitEnd'[f] = "error"
  PROVE  CommitReturns(f) /\ Errs(f, CommitLeaves(f))
<1> USE DEF endVars
<1>1. TypeOK /\ commitEnd \in [Frames -> Ends]
  BY DEF ControlInv, TypeOK
<1>2. CASE UNCHANGED vars \/ RunTransaction \/ RunIsolated \/ NilCallback
  BY <1>2 DEF vars, RunTransaction, RunIsolated, NilCallback, Start
<1>3. ASSUME NEW k \in Frames, QuietStep(k) PROVE FALSE
  <2>1. CASE BeginReturns(k) \/ NoRollback(k) \/ Write(k) \/ Cancel(k) \/ CallbackTerminates(k)
    BY <2>1 DEF BeginReturns, NoRollback, Write, Cancel, CallbackTerminates
  <2>2. CASE CommitTerminates(k)
    BY <1>1, <2>2 DEF CommitTerminates
  <2>3. CASE \E g \in Frames : ChildEnds(k, g) \/ RunSavepoint(k, g)
    BY <2>3 DEF ChildEnds, RunSavepoint, Start
  <2> QED
    BY <1>3, <2>1, <2>2, <2>3 DEF QuietStep
<1>4. ASSUME NEW k \in Frames, ObservedStep(k)
      PROVE  CommitReturns(f) /\ Errs(f, CommitLeaves(f))
  <2>1. CASE BeginFails(k) \/ CallbackReturns(k) \/ StatementFails(k) \/ Observe(k)
    BY <2>1 DEF BeginFails, CallbackReturns, StatementFails, Observe
  <2>2. CASE Rollback(k)
    BY <2>2 DEF Rollback, RolledBack
  <2>3. CASE CommitReturns(k) /\ Errs(k, CommitLeaves(k))
    <3>1. k = f
      BY <1>1, <2>3 DEF CommitReturns
    <3> QED
      BY <2>3, <3>1
  <2> QED
    BY <1>4, <2>1, <2>2, <2>3 DEF ObservedStep
<1> QED
  BY <1>2, <1>3, <1>4 DEF ObservedNext, observedVars, Terminated

LEMMA RetryStep ==
  ASSUME ControlInv, AdviceInv, RetryInv, [ObservedNext]_observedVars
  PROVE  RetryInv'
<1> SUFFICES ASSUME NEW f \in Frames, commitEnd'[f] = "error", IsRetryable(graph'[f])
             PROVE  broken' /\ durable' = {}
  BY DEF RetryInv
<1>1. CASE commitEnd[f] = "error"
  <2>1. graph'[f] = graph[f]
    BY <1>1, CommitErrorStays
  <2>2. broken /\ durable = {}
    BY <1>1, <2>1 DEF RetryInv
  <2> QED
    BY <2>2, BrokenStays, StepsOfTransaction
<1>2. CASE commitEnd[f] # "error"
  <2>1. CommitReturns(f) /\ Errs(f, CommitLeaves(f))
    BY <1>2, OnlyCommitErrs
  <2>2. graph[f] = <<>>
    BY <2>1, NoErrorYet DEF CommitReturns
  <2>3. graph'[f] # <<>>
    <3>1. IsRetryable(<<>>) => FALSE
      <4>1. <<>> \in Seq(Leaves)
        OBVIOUS
      <4> QED
        BY <4>1, ClassifyLabels DEF IsRetryable
    <3> QED
      BY <3>1
  <2>4. PICK l \in CommitLeaves(f) : graph'[f] = Append(<<>>, l)
    BY <2>1, <2>2, <2>3, ErrsGraph, SessionLeaves
  <2>5. l \in Leaves /\ graph'[f] = <<l>>
    BY <2>4, SessionLeaves
  <2>6. l \in RetryableLeaves
    BY <2>5, RetryableSingle
  <2> QED
    BY <2>1, <2>6, CommitRetry
<1> QED
  BY <1>1, <1>2

-----------------------------------------------------------------------------
LEMMA ObservedInitial == ObservedInit => ObservedInv
<1> SUFFICES ASSUME ObservedInit PROVE ObservedInv
  OBVIOUS
<1>1. ControlInv /\ WritesInv
  BY ControlInit, WritesInit DEF ObservedInit
<1>2. <<>> \in Seq(Leaves)
  OBVIOUS
<1>3. ASSUME NEW f \in Frames PROVE AdviceOK(f)
  BY <1>2 DEF ObservedInit, Init, AdviceOK, GraphOK, CauseOK, DeliveredOK, Silent
<1>4. AdviceInv
  BY <1>2, <1>3 DEF ObservedInit, AdviceInv, Leaves, OtherLeaves
<1>5. EnteredInv /\ RetryInv
  BY DEF ObservedInit, Init, EnteredInv, RetryInv
<1> QED
  BY <1>1, <1>4, <1>5 DEF ObservedInv

LEMMA ObservedInvStep == ObservedInv /\ [ObservedNext]_observedVars => ObservedInv'
BY StepsOfTransaction, ControlNext, WritesNext, AdviceStep, EnteredStep, RetryStep DEF ObservedInv

LEMMA ObservedInvariance == ObservedSpec => []ObservedInv
BY ObservedInitial, ObservedInvStep, PTL DEF ObservedSpec

(***************************************************************************)
(* Advice to retry never repeats work: nothing written under a transaction *)
(* or savepoint whose error IsRetryable accepts is ever committed, unless  *)
(* its rollback failed (errors.go:84-86, 109-129).                         *)
(***************************************************************************)
THEOREM RetriesRepeatNothing == ObservedSpec => []RetryRepeatsNothing
<1>1. ObservedInv => RetryRepeatsNothing
  <2> SUFFICES ASSUME ObservedInv, NEW g \in durable, NEW f \in Enclosing(g),
                      IsRetryable(graph[f])
               PROVE  faulty /\ rollbackEnd[f] \in {"error", "panic"}
    BY DEF RetryRepeatsNothing
  <2>1. g \in wrote /\ g \in Frames /\ ~isolated /\ durable # {}
    BY DEF ObservedInv, ControlInv, SessionInv, TypeOK
  <2>2. f \in Frames
    BY <2>1, EnclosingFrames DEF ObservedInv, ControlInv
  <2>3. Entered(f) /\ FrameOK(f) /\ AdviceOK(f) /\ pc[f] \in Locations
        /\ bodyEnd[f] \in Ends /\ commitEnd[f] \in Ends
    BY <2>1, <2>2 DEF ObservedInv, EnteredInv, ControlInv, FrameInv, AdviceInv, TypeOK
  <2>4. graph[f] \in Seq(Leaves) /\ graph[f] # <<>>
    BY <2>3, ClassifyLabels DEF AdviceOK, GraphOK, IsRetryable
  <2>5. err[f] # {} /\ err[f] # {"NilCallback"}
    BY <2>3, <2>4 DEF AdviceOK, GraphOK
  <2>6. commitEnd[f] # "error"
    BY <2>1, <2>2 DEF ObservedInv, RetryInv
  <2>7. ~Isolated(f) /\ bodyEnd[f] # "none"
    BY <2>1, <2>3, <2>5 DEF Isolated, Entered, FrameOK, Fresh
  <2>8. bodyEnd[f] = "error"
    <3>1. CASE pc[f] = "deferred"
      BY <2>3, <2>5, <2>6, <3>1 DEF FrameOK, CauseErr
    <3>2. CASE CleanedUp(f)
      BY <2>3, <2>5, <2>6, <2>7, <3>2 DEF CleanedUp, Ended, CauseErr, CauseExit, Ends
    <3> QED
      BY <2>3, <2>5, <2>7, <3>1, <3>2 DEF FrameOK, Fresh, NeverBegan, Locations
  <2>9. ~Tainted(f)
    BY DEF ObservedInv, WritesInv, DurableInv
  <2> QED
    BY <2>8, <2>9 DEF Tainted
<1> QED
  BY <1>1, ObservedInvariance, PTL

(***************************************************************************)
(* The error of the cleanup does not change the kind, the SQLSTATE or the  *)
(* advice of the callback's PostgreSQL error (errors.go:84-86,             *)
(* transaction.go:180).                                                    *)
(***************************************************************************)
THEOREM KeepsDiagnosis == ObservedSpec => []CleanupKeepsDiagnosis
<1>1. ObservedInv => CleanupKeepsDiagnosis
  <2> SUFFICES ASSUME ObservedInv, NEW f \in Frames, Has(cause[f], Codes)
               PROVE  /\ Classify(graph[f]) = Classify(cause[f])
                      /\ SQLState(graph[f]) = SQLState(cause[f])
    BY DEF CleanupKeepsDiagnosis
  <2>1. CauseOK(f)
    BY DEF ObservedInv, AdviceInv, AdviceOK
  <2>2. cause[f] \in Seq(Leaves) /\ cause[f] # <<>>
    BY <2>1 DEF CauseOK, Has
  <2>3. graph[f] = cause[f] \/ \E l \in Leaves : graph[f] = Append(cause[f], l)
    BY <2>1, <2>2 DEF CauseOK
  <2> QED
    BY <2>2, <2>3, JoinKeepsDiagnosis
<1> QED
  BY <1>1, ObservedInvariance, PTL

-----------------------------------------------------------------------------
(***************************************************************************)
(* What is delivered.                                                      *)
(***************************************************************************)
ObservationFields == {"Operation", "Outcome", "ErrorKind", "SQLState", "HasPoolStats"}

LEMMA BoundedFields ==
  ASSUME NEW o, DOMAIN o = ObservationFields,
         NEW b, b = boundedObservation(o)
  PROVE  /\ DOMAIN b = ObservationFields
         /\ b.Operation = project(o.Operation, OperationCategories)
         /\ b.Outcome = project(o.Outcome, OutcomeCategories)
         /\ b.ErrorKind = project(o.ErrorKind, ErrorKindCategories)
         /\ b.SQLState = project(o.SQLState, SQLStateCategories)
BY DEF boundedObservation, ObservationFields

\* Projecting a label twice changes nothing more.
LEMMA ProjectTwice ==
  ASSUME NEW v, NEW C
  PROVE  /\ project(project(v, C), C) = project(v, C)
         /\ v \in C => project(v, C) = v
BY DEF project

\* How a frame whose observation is due has ended.
LEMMA DoneFrame ==
  ASSUME ObservedInv, NEW f \in Frames, ~Silent(f)
  PROVE  /\ graph[f] \in Seq(Leaves)
         /\ graph[f] = <<>> <=> err[f] = {}
         /\ exit[f] \in {"return", "panic", "goexit"}
         /\ exit[f] # "return" => graph[f] = <<>>
         /\ Outcome(f) = "success" <=> commitEnd[f] = "nil"
<1>1. /\ pc[f] = "done" /\ ~Isolated(f) /\ err[f] # {"NilCallback"}
      /\ FrameOK(f) /\ GraphOK(f) /\ ObservedTruthfully
      /\ bodyEnd[f] \in Ends /\ commitEnd[f] \in Ends
  BY ControlObserved
     DEF Silent, ObservedInv, ControlInv, FrameInv, AdviceInv, AdviceOK, TypeOK
<1>2. NeverBegan(f) \/ CleanedUp(f)
  BY <1>1 DEF FrameOK
<1>3. observed[f] = Outcome(f)
  BY <1>1 DEF FrameOK
<1>4. Outcome(f) = "success" <=> commitEnd[f] = "nil"
  BY <1>1, <1>3 DEF ObservedTruthfully
<1>5. exit[f] \in {"return", "panic", "goexit"}
  BY <1>1, <1>2 DEF NeverBegan, CleanedUp, CauseExit
<1>6. exit[f] # "return" => err[f] = {}
  BY <1>1, <1>2 DEF NeverBegan, CleanedUp, Ended, CauseExit, CauseErr, Ends
<1>7. graph[f] \in Seq(Leaves) /\ (graph[f] = <<>> <=> err[f] = {})
  BY <1>1 DEF GraphOK
<1> QED
  BY <1>4, <1>5, <1>6, <1>7

\* The labels of the one observation of a frame.
LEMMA DeliveredLabels ==
  ASSUME ObservedInv, NEW f \in Frames, ~Silent(f)
  PROVE  \E o : /\ delivered[f] = <<o>>
                /\ DOMAIN o = ObservationFields
                /\ o.Outcome = Outcome(f)
                /\ o.ErrorKind = Classify(graph[f]).Kind
                /\ o.SQLState = project(SQLState(graph[f]), SQLStateCategories)
<1>1. delivered[f] = <<boundedObservation(Observation(f))>>
  BY DEF ObservedInv, AdviceInv, AdviceOK, DeliveredOK
<1>2. /\ graph[f] \in Seq(Leaves) /\ (graph[f] = <<>> <=> err[f] = {})
      /\ exit[f] \in {"return", "panic", "goexit"}
      /\ exit[f] # "return" => graph[f] = <<>>
  BY DoneFrame
<1>3. /\ Classify(graph[f]).Kind \in ErrorKindCategories
      /\ Classify(graph[f]).SQLState = SQLState(graph[f])
  BY <1>2, ClassifyLabels
<1>4. Outcome(f) \in OutcomeCategories
  BY <1>2 DEF Outcome, OutcomeCategories
<1>5. PICK o : o = Observation(f)
  BY Zenon
<1>6. /\ DOMAIN o = ObservationFields
      /\ o.Outcome = Outcome(f)
      /\ o.ErrorKind = Classify(graph[f]).Kind
      /\ o.SQLState = Classify(graph[f]).SQLState
  <2>1. PICK op : op = IF f = 1 THEN "transaction" ELSE "savepoint"
    BY Zenon
  <2>2. CASE exit[f] = "return"
    <3>1. o = observationFor(op, graph[f])
      BY <1>5, <2>1, <2>2 DEF Observation
    <3>2. Outcome(f) = IF graph[f] = <<>> THEN "success" ELSE "error"
      BY <1>2, <2>2 DEF Outcome
    <3> QED
      BY <3>1, <3>2 DEF observationFor, ObservationFields
  <2>3. CASE exit[f] # "return"
    <3>1. graph[f] = <<>>
      BY <1>2, <2>3
    <3>2. PICK r : r = observationFor(op, graph[f])
      BY Zenon
    <3>3. /\ DOMAIN r = ObservationFields
          /\ r.ErrorKind = Classify(graph[f]).Kind
          /\ r.SQLState = Classify(graph[f]).SQLState
      BY <3>2 DEF observationFor, ObservationFields
    <3>4. o = [r EXCEPT !.Outcome = Outcome(f)]
      BY <1>5, <2>1, <2>3, <3>1, <3>2 DEF Observation
    <3> QED
      BY <3>3, <3>4 DEF ObservationFields
  <2> QED
    BY <2>2, <2>3
<1>7. PICK b : b = boundedObservation(o)
  BY Zenon
<1>8. /\ DOMAIN b = ObservationFields
      /\ b.Outcome = project(Outcome(f), OutcomeCategories)
      /\ b.ErrorKind = project(Classify(graph[f]).Kind, ErrorKindCategories)
      /\ b.SQLState = project(SQLState(graph[f]), SQLStateCategories)
  BY <1>3, <1>6, <1>7, BoundedFields
<1>9. /\ project(Outcome(f), OutcomeCategories) = Outcome(f)
      /\ project(Classify(graph[f]).Kind, ErrorKindCategories) = Classify(graph[f]).Kind
  BY <1>3, <1>4, ProjectTwice
<1>10. delivered[f] = <<b>>
  BY <1>1, <1>5, <1>7
<1> QED
  BY <1>8, <1>9, <1>10

(***************************************************************************)
(* One observation for every run, with labels that agree with each other   *)
(* and with the error (observe.go:93-100, categories.go:16-33).            *)
(***************************************************************************)
THEOREM LabelsAlwaysAgree == ObservedSpec => []LabelsAgree
<1>1. ObservedInv => LabelsAgree
  <2> SUFFICES ASSUME ObservedInv, NEW f \in Frames, ~Silent(f)
               PROVE
                 /\ Len(delivered[f]) = 1
                 /\ LET o == delivered[f][1]
                    IN  /\ o.Outcome = "error" <=> o.ErrorKind # ""
                        /\ exit[f] = "return" => (o.Outcome = "error" <=> err[f] # {})
                        /\ IsKind(graph[f], o.ErrorKind)
                        /\ o.SQLState \notin {"", "unknown"} =>
                             o.ErrorKind = kindForSQLState(o.SQLState)
                        /\ o.SQLState = "unknown" =>
                             /\ o.ErrorKind \in {"unknown", "connectivity"}
                             /\ SQLState(graph[f]) \in Codes \ SQLStateCategories
    BY DEF LabelsAgree, Silent
  <2>1. PICK o : /\ delivered[f] = <<o>>
                 /\ o.Outcome = Outcome(f)
                 /\ o.ErrorKind = Classify(graph[f]).Kind
                 /\ o.SQLState = project(SQLState(graph[f]), SQLStateCategories)
    BY DeliveredLabels
  <2>2. Len(delivered[f]) = 1 /\ delivered[f][1] = o
    BY <2>1
  <2>3. /\ graph[f] \in Seq(Leaves) /\ (graph[f] = <<>> <=> err[f] = {})
        /\ exit[f] \in {"return", "panic", "goexit"}
        /\ exit[f] # "return" => graph[f] = <<>>
    BY DoneFrame
  <2>4. Outcome(f) = "error" <=> graph[f] # <<>>
    BY <2>3 DEF Outcome
  <2>5. o.Outcome = "error" <=> o.ErrorKind # ""
    BY <2>1, <2>3, <2>4, ClassifyLabels
  <2>6. o.Outcome = "error" <=> err[f] # {}
    BY <2>1, <2>3, <2>4
  <2>7. IsKind(graph[f], o.ErrorKind)
    BY <2>1 DEF IsKind
  <2>8. CASE Has(graph[f], Codes)
    <3>1. /\ SQLState(graph[f]) \in Codes
          /\ o.ErrorKind = kindForSQLState(SQLState(graph[f]))
      BY <2>1, <2>3, <2>8, ClassifyLabels
    <3>2. CASE SQLState(graph[f]) \in SQLStateCategories
      <4>1. o.SQLState = SQLState(graph[f])
        BY <2>1, <3>2, ProjectTwice
      <4>2. o.SQLState # "unknown"
        BY <3>2, <4>1 DEF SQLStateCategories
      <4> QED
        BY <2>2, <2>5, <2>6, <2>7, <3>1, <4>1, <4>2
    <3>3. CASE SQLState(graph[f]) \notin SQLStateCategories
      <4>1. o.SQLState = "unknown"
        BY <2>1, <3>3 DEF project
      <4>2. o.ErrorKind \in {"unknown", "connectivity"}
        BY <3>1, <3>3, KindKnown
      <4> QED
        BY <2>2, <2>5, <2>6, <2>7, <3>1, <3>3, <4>1, <4>2
    <3> QED
      BY <3>2, <3>3
  <2>9. CASE ~Has(graph[f], Codes)
    <3>1. SQLState(graph[f]) = ""
      BY <2>3, <2>9, ClassifyLabels
    <3>2. o.SQLState = ""
      BY <2>1, <3>1 DEF project, SQLStateCategories
    <3> QED
      BY <2>2, <2>5, <2>6, <2>7, <3>2
  <2> QED
    BY <2>8, <2>9
<1> QED
  BY <1>1, ObservedInvariance, PTL

(***************************************************************************)
(* The log and the metrics carry the same labels, and the log is at error  *)
(* level exactly when the commit did not succeed (slog.go:24-46,           *)
(* observer.go:59-76).                                                     *)
(***************************************************************************)
THEOREM SinksAlwaysAgree == ObservedSpec => []SinksAgree
<1>1. ObservedInv => SinksAgree
  <2> SUFFICES ASSUME ObservedInv, NEW f \in Frames, NEW i \in DOMAIN delivered[f]
               PROVE  LET log == slogRecord(delivered[f][i])
                          metric == otelRecord(delivered[f][i])
                      IN  /\ log.level = "debug" <=> commitEnd[f] = "nil"
                          /\ log.labels = metric.labels
    BY DEF SinksAgree
  <2>1. ~Silent(f)
    <3>1. Silent(f) => delivered[f] = <<>>
      BY DEF ObservedInv, AdviceInv, AdviceOK, DeliveredOK
    <3> QED
      BY <3>1
  <2>2. PICK o : /\ delivered[f] = <<o>>
                 /\ DOMAIN o = ObservationFields
                 /\ o.Outcome = Outcome(f)
    BY <2>1, DeliveredLabels
  <2>3. delivered[f][i] = o
    BY <2>2
  <2>4. PICK b : b = boundedObservation(o)
    BY Zenon
  <2>5. /\ b.Operation = project(o.Operation, OperationCategories)
        /\ b.Outcome = project(o.Outcome, OutcomeCategories)
        /\ b.ErrorKind = project(o.ErrorKind, ErrorKindCategories)
        /\ b.SQLState = project(o.SQLState, SQLStateCategories)
    BY <2>2, <2>4, BoundedFields
  <2>6. /\ slogRecord(o).level = "debug" <=> b.Outcome = "success"
        /\ slogRecord(o).labels = <<b.Operation, b.Outcome, b.ErrorKind, b.SQLState>>
    BY <2>4 DEF slogRecord
  <2>7. otelRecord(o).labels = <<b.Operation, b.Outcome, b.ErrorKind, b.SQLState>>
    <3>1. project("", SQLStateCategories) = ""
      BY DEF project, SQLStateCategories
    <3>2. b.SQLState = IF o.SQLState # "" THEN project(o.SQLState, SQLStateCategories) ELSE ""
      BY <2>5, <3>1
    <3> QED
      BY <2>5, <3>2 DEF otelRecord
  <2>8. b.Outcome = "success" <=> commitEnd[f] = "nil"
    <3>1. Outcome(f) = "success" <=> commitEnd[f] = "nil"
      BY <2>1, DoneFrame
    <3>2. ASSUME NEW v PROVE project(v, OutcomeCategories) = "success" <=> v = "success"
      BY DEF project, OutcomeCategories
    <3> QED
      BY <2>2, <2>5, <3>1, <3>2
  <2> QED
    BY <2>2, <2>3, <2>5, <2>6, <2>7, <2>8
<1> QED
  BY <1>1, ObservedInvariance, PTL
=============================================================================
