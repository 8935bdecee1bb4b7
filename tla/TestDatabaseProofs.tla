-------------------------- MODULE TestDatabaseProofs --------------------------
(***************************************************************************)
(* Proofs about TestDatabase for any set of goroutines that shut the       *)
(* opened database down.                                                   *)
(***************************************************************************)
EXTENDS TestDatabase, TLAPS

-----------------------------------------------------------------------------
(***************************************************************************)
(* The inductive invariant, in parts.                                      *)
(***************************************************************************)

\* Where Open is says how it ended so far; only a handed database is closed.
OpenInv ==
  /\ pc[Opener] # "idle"
  /\ exit # "none" <=> pc[Opener] = "done"
  /\ handed => pc[Opener] = "done" /\ exit = "return"
  /\ pc[Opener] \in {"entry", "start", "dsn", "setup"} => setupEnd = "none"
  /\ pc[Opener] = "ok" => setupEnd \in {"none", "nil"}
  /\ pc[Opener] \in {"once", "wait"} => setupEnd \in {"error", "panic", "goexit"}
  /\ handed => setupEnd \in {"none", "nil"}
  /\ \A c \in Closers : pc[c] # "idle" => handed

\* The Once, the goroutine it starts, and the signal.
TerminatorInv ==
  /\ once <=> terminator # "none"
  /\ shutdownDone <=> terminator = "exited"
  /\ \A c \in Callers : pc[c] = "wait" => once
  /\ once => handed \/ setupEnd \in {"error", "panic", "goexit"}
  /\ pc[Opener] = "once" => ~once

\* The container is up until a termination ran, which fixes what became of it.
ContainerInv ==
  /\ shutdownErr \in {{}, {"Terminate"}, {"TerminatePanicked"}}
  /\ pc[Opener] \in {"entry", "start"} => container = "none" /\ attempts = 0
  /\ pc[Opener] \in {"dsn", "setup", "ok", "once"} =>
       container = "running" /\ attempts = 0
  /\ handed /\ ~once => container = "running" /\ attempts = 0
  /\ terminator = "spawned" => container = "running" /\ attempts = 0
  /\ terminator \in {"ran", "exited"} =>
       /\ attempts = 1
       /\ container = IF shutdownErr = {} THEN "gone" ELSE "unknown"
  /\ pc[Opener] = "done" /\ ~handed /\ ~once =>
       \/ attempts = 0 /\ (container = "none" \/ result[Opener] = {"Start"})
       \/ attempts = 1 /\ container # "none"

IInv ==
  /\ TypeOK
  /\ OpenInv
  /\ TerminatorInv
  /\ ContainerInv
  /\ FailedOpenCleansUp
  /\ ResultsShared

-----------------------------------------------------------------------------
LEMMA InitInvariance == Init => IInv
<1> SUFFICES ASSUME Init
             PROVE  IInv
  OBVIOUS
<1>1. Opener \in Callers /\ \A c \in Closers : c \in Callers /\ c # Opener
  BY TestDatabaseAssumption DEF Callers
<1>2. TypeOK
  BY DEF Init, TypeOK
<1>3. OpenInv /\ TerminatorInv /\ ContainerInv
  BY <1>1 DEF Init, OpenInv, TerminatorInv, ContainerInv
<1>4. FailedOpenCleansUp /\ ResultsShared
  BY <1>1 DEF Init, FailedOpenCleansUp, ResultsShared
<1> QED
  BY <1>2, <1>3, <1>4 DEF IInv

(***************************************************************************)
(* Every variable keeps its type.                                          *)
(***************************************************************************)
EndsOK ==
  /\ pc' \in [Callers -> {"idle", "entry", "start", "dsn", "setup", "ok", "once",
                          "wait", "done"}]
  /\ result' \in [Callers -> SUBSET Sentinels]
  /\ exit' \in {"none", "return", "panic", "goexit"}
  /\ handed' \in BOOLEAN

\* Ending Open with an error that has a type keeps the types.
LEMMA OpenEndsType ==
  ASSUME TypeOK, NEW how \in {"return", "panic", "goexit"},
         NEW e \in SUBSET Sentinels, NEW db \in BOOLEAN, OpenEnds(how, e, db)
  PROVE  EndsOK
<1>1. Opener \in Callers
  BY DEF Callers
<1> QED
  BY <1>1 DEF EndsOK, OpenEnds, Goto, TypeOK

\* Both cases of the select keep the types.
LEMMA ShutdownReturnsType ==
  ASSUME TypeOK, NEW c \in Callers, NEW e \in SUBSET Sentinels,
         setupEnd \in {"error", "panic", "goexit"} \/ c # Opener,
         ShutdownReturns(c, e)
  PROVE  TypeOK'
<1>1. CASE c = Opener /\ setupEnd = "error"
  <2>1. {"Setup"} \cup e \in SUBSET Sentinels
    BY DEF Sentinels
  <2>2. OpenEnds("return", {"Setup"} \cup e, FALSE)
    BY <1>1 DEF ShutdownReturns, AfterSetup
  <2>3. EndsOK
    BY <2>1, <2>2, OpenEndsType
  <2> QED
    BY <2>3 DEF ShutdownReturns, EndsOK, TypeOK, fixture
<1>2. CASE c = Opener /\ setupEnd # "error"
  <2>1. OpenEnds(setupEnd, {}, FALSE)
    BY <1>2 DEF ShutdownReturns, AfterSetup
  <2>2. EndsOK
    BY <1>2, <2>1, OpenEndsType
  <2> QED
    BY <2>2 DEF ShutdownReturns, EndsOK, TypeOK, fixture
<1>3. CASE c # Opener
  BY <1>3 DEF ShutdownReturns, Goto, TypeOK, fixture
<1> QED
  BY <1>1, <1>2, <1>3

LEMMA TypeInvariance == TypeOK /\ OpenInv /\ [Next]_vars => TypeOK'
<1> SUFFICES ASSUME TypeOK, OpenInv, [Next]_vars
             PROVE  TypeOK'
  OBVIOUS
<1>a. Opener \in Callers
  BY DEF Callers
<1>b. /\ \A c \in Callers : CtxCause(c) \in SUBSET Sentinels
      /\ \A e \in {{}, {"ContextRequired"}, {"Start"}, {"DSN"}, {"DSN"} \cup {},
                   {"DSN"} \cup {"Terminate"}, {"Terminate"}, {"TerminatePanicked"}} :
           e \in SUBSET Sentinels
  BY DEF CtxCause, Sentinels
<1>1. CASE OpenEntry
  <2>1. CASE OpenEnds("return", CtxCause(Opener), FALSE)
    <3>1. EndsOK
      BY <1>a, <1>b, <2>1, OpenEndsType
    <3> QED
      BY <1>1, <3>1 DEF OpenEntry, EndsOK, TypeOK, fixture
  <2>2. CASE OpenEnds("return", {"ContextRequired"}, FALSE)
    <3>1. EndsOK
      BY <1>b, <2>2, OpenEndsType
    <3> QED
      BY <1>1, <3>1 DEF OpenEntry, EndsOK, TypeOK, fixture
  <2>3. CASE Goto(Opener, "start") /\ UNCHANGED <<exit, result, handed>>
    BY <1>1, <1>a, <2>3 DEF OpenEntry, Goto, TypeOK, fixture
  <2> QED
    BY <1>1, <2>1, <2>2, <2>3 DEF OpenEntry
<1>2. CASE OpenStart
  <2>1. CASE container' \in {"none", "running"} /\ OpenEnds("return", {"Start"}, FALSE)
    <3>1. EndsOK
      BY <1>b, <2>1, OpenEndsType
    <3> QED
      BY <1>2, <2>1, <3>1 DEF OpenStart, EndsOK, TypeOK, fixture
  <2>2. CASE /\ container' = "running" /\ Goto(Opener, "dsn")
             /\ UNCHANGED <<exit, result, handed>>
    BY <1>2, <1>a, <2>2 DEF OpenStart, Goto, TypeOK, fixture
  <2> QED
    BY <1>2, <2>1, <2>2 DEF OpenStart
<1>3. CASE OpenDSN
  <2>1. CASE /\ \E p \in {"setup", "ok"} : Goto(Opener, p)
             /\ UNCHANGED <<exit, result, handed, container, attempts>>
    BY <1>3, <1>a, <2>1 DEF OpenDSN, Goto, TypeOK, fixture
  <2>2. ASSUME NEW cleanup \in {{}, {"Terminate"}}, NEW ok \in BOOLEAN,
               Terminate(ok), OpenEnds("return", {"DSN"} \cup cleanup, FALSE)
        PROVE  TypeOK'
    <3>1. EndsOK
      BY <1>b, <2>2, OpenEndsType
    <3> QED
      BY <1>3, <2>2, <3>1 DEF OpenDSN, Terminate, EndsOK, TypeOK, fixture
  <2> QED
    BY <1>3, <2>1, <2>2 DEF OpenDSN
<1>4. CASE OpenSetup
  BY <1>4, <1>a DEF OpenSetup, SetupEnds, Goto, TypeOK, fixture
<1>5. CASE OpenReturns
  <2>1. EndsOK
    BY <1>5, <1>b, OpenEndsType DEF OpenReturns
  <2> QED
    BY <1>5, <2>1 DEF OpenReturns, EndsOK, TypeOK, fixture
<1>6. ASSUME NEW c \in Callers, ShutdownNil(c) \/ Shutdown(c) \/ ShutdownOnce(c)
      PROVE  TypeOK'
  <2>1. CASE ShutdownNil(c)
    BY <2>1, <1>b DEF ShutdownNil, Goto, TypeOK, fixture
  <2>2. CASE Shutdown(c)
    BY <2>2, <1>b DEF Shutdown, Goto, TypeOK, fixture
  <2>3. CASE ShutdownOnce(c)
    BY <2>3 DEF ShutdownOnce, Goto, TypeOK
  <2> QED
    BY <1>6, <2>1, <2>2, <2>3
<1>7. ASSUME NEW c \in Callers, ShutdownDone(c)
      PROVE  TypeOK'
  BY <1>7, ShutdownReturnsType DEF ShutdownDone, ShutdownReturns, At, TypeOK, OpenInv
<1>8. ASSUME NEW c \in Callers, ShutdownCtx(c)
      PROVE  TypeOK'
  BY <1>8, <1>b, ShutdownReturnsType DEF ShutdownCtx, ShutdownReturns, At, OpenInv
<1>9. ASSUME NEW c \in Callers, EndCtx(c)
      PROVE  TypeOK'
  BY <1>9 DEF EndCtx, TypeOK, fixture
<1>10. CASE TerminatorStep
  <2>1. CASE TerminatorRuns
    <3>1. PICK e \in {{}, {"Terminate"}, {"TerminatePanicked"}} :
            Terminate(e = {}) /\ shutdownErr' = e
      BY <2>1 DEF TerminatorRuns
    <3>2. shutdownErr' \in SUBSET Sentinels
      BY <3>1, <1>b
    <3> QED
      BY <2>1, <3>1, <3>2 DEF TerminatorRuns, Terminate, TypeOK
  <2>2. CASE TerminatorSignals
    BY <2>2 DEF TerminatorSignals, TypeOK
  <2> QED
    BY <1>10, <2>1, <2>2 DEF TerminatorStep
<1>11. CASE UNCHANGED vars
  BY <1>11 DEF vars, fixture, TypeOK
<1> QED
  BY <1>1, <1>2, <1>3, <1>4, <1>5, <1>6, <1>7, <1>8, <1>9, <1>10, <1>11
  DEF Next, OpenStep, ShutdownStep, Finished

(***************************************************************************)
(* Where Open is keeps saying how it ended.                                *)
(***************************************************************************)
LEMMA OpenInvariance ==
  ASSUME TypeOK, OpenInv, [Next]_vars
  PROVE  OpenInv'
<1>a. Opener \in Callers /\ \A c \in Closers : c \in Callers /\ c # Opener
  BY TestDatabaseAssumption DEF Callers
<1> USE <1>a DEF TypeOK, OpenInv, At, Goto, fixture
<1>1. CASE OpenEntry
  BY <1>1 DEF OpenEntry, OpenEnds
<1>2. CASE OpenStart
  BY <1>2 DEF OpenStart, OpenEnds
<1>3. CASE OpenDSN
  BY <1>3 DEF OpenDSN, OpenEnds, Terminate
<1>4. CASE OpenSetup
  BY <1>4 DEF OpenSetup, SetupEnds
<1>5. CASE OpenReturns
  BY <1>5 DEF OpenReturns, OpenEnds
<1>6. ASSUME NEW c \in Callers, ShutdownNil(c)
      PROVE  OpenInv'
  BY <1>6 DEF ShutdownNil
<1>7. ASSUME NEW c \in Callers, Shutdown(c)
      PROVE  OpenInv'
  BY <1>7 DEF Shutdown
<1>8. ASSUME NEW c \in Callers, ShutdownOnce(c)
      PROVE  OpenInv'
  BY <1>8 DEF ShutdownOnce
<1>9. ASSUME NEW c \in Callers, ShutdownDone(c)
      PROVE  OpenInv'
  BY <1>9 DEF ShutdownDone, ShutdownReturns, AfterSetup, OpenEnds
<1>10. ASSUME NEW c \in Callers, ShutdownCtx(c)
       PROVE  OpenInv'
  BY <1>10 DEF ShutdownCtx, ShutdownReturns, AfterSetup, OpenEnds
<1>11. ASSUME NEW c \in Callers, EndCtx(c)
       PROVE  OpenInv'
  BY <1>11 DEF EndCtx
<1>12. CASE TerminatorRuns
  BY <1>12 DEF TerminatorRuns, Terminate
<1>13. CASE TerminatorSignals
  BY <1>13 DEF TerminatorSignals
<1>14. CASE UNCHANGED vars
  BY <1>14 DEF vars
<1> QED
  BY <1>1, <1>2, <1>3, <1>4, <1>5, <1>6, <1>7, <1>8,
     <1>9, <1>10, <1>11, <1>12, <1>13, <1>14
  DEF Next, OpenStep, ShutdownStep, TerminatorStep, Finished

(***************************************************************************)
(* The goroutine of the Once is started once and signals after it ran.     *)
(***************************************************************************)
LEMMA TerminatorInvariance ==
  ASSUME TypeOK, OpenInv, TerminatorInv, [Next]_vars
  PROVE  TerminatorInv'
<1>a. Opener \in Callers /\ \A c \in Closers : c \in Callers /\ c # Opener
  BY TestDatabaseAssumption DEF Callers
<1> USE <1>a DEF TypeOK, OpenInv, TerminatorInv, At, Goto, fixture
<1>1. CASE OpenEntry
  BY <1>1 DEF OpenEntry, OpenEnds
<1>2. CASE OpenStart
  BY <1>2 DEF OpenStart, OpenEnds
<1>3. CASE OpenDSN
  BY <1>3 DEF OpenDSN, OpenEnds, Terminate
<1>4. CASE OpenSetup
  BY <1>4 DEF OpenSetup, SetupEnds
<1>5. CASE OpenReturns
  BY <1>5 DEF OpenReturns, OpenEnds
<1>6. ASSUME NEW c \in Callers, ShutdownNil(c)
      PROVE  TerminatorInv'
  BY <1>6 DEF ShutdownNil
<1>7. ASSUME NEW c \in Callers, Shutdown(c)
      PROVE  TerminatorInv'
  BY <1>7 DEF Shutdown
<1>8. ASSUME NEW c \in Callers, ShutdownOnce(c)
      PROVE  TerminatorInv'
  <2>1. c = Opener \/ c \in Closers
    BY DEF Callers
  <2> QED
    BY <1>8, <2>1 DEF ShutdownOnce
<1>9. ASSUME NEW c \in Callers, ShutdownDone(c)
      PROVE  TerminatorInv'
  BY <1>9 DEF ShutdownDone, ShutdownReturns, AfterSetup, OpenEnds
<1>10. ASSUME NEW c \in Callers, ShutdownCtx(c)
       PROVE  TerminatorInv'
  BY <1>10 DEF ShutdownCtx, ShutdownReturns, AfterSetup, OpenEnds
<1>11. ASSUME NEW c \in Callers, EndCtx(c)
       PROVE  TerminatorInv'
  BY <1>11 DEF EndCtx
<1>12. CASE TerminatorRuns
  BY <1>12 DEF TerminatorRuns, Terminate
<1>13. CASE TerminatorSignals
  BY <1>13 DEF TerminatorSignals
<1>14. CASE UNCHANGED vars
  BY <1>14 DEF vars
<1> QED
  BY <1>1, <1>2, <1>3, <1>4, <1>5, <1>6, <1>7, <1>8,
     <1>9, <1>10, <1>11, <1>12, <1>13, <1>14
  DEF Next, OpenStep, ShutdownStep, TerminatorStep, Finished

(***************************************************************************)
(* What became of the container stays fixed by the one termination.        *)
(***************************************************************************)
LEMMA ContainerInvariance ==
  ASSUME TypeOK, OpenInv, TerminatorInv, ContainerInv, [Next]_vars
  PROVE  ContainerInv'
<1>a. Opener \in Callers /\ \A c \in Closers : c \in Callers /\ c # Opener
  BY TestDatabaseAssumption DEF Callers
<1> USE <1>a DEF TypeOK, OpenInv, TerminatorInv, ContainerInv, At, Goto, fixture
<1>1. CASE OpenEntry
  BY <1>1 DEF OpenEntry, OpenEnds
<1>2. CASE OpenStart
  BY <1>2 DEF OpenStart, OpenEnds
<1>3. CASE OpenDSN
  BY <1>3 DEF OpenDSN, OpenEnds, Terminate
<1>4. CASE OpenSetup
  BY <1>4 DEF OpenSetup, SetupEnds
<1>5. CASE OpenReturns
  BY <1>5 DEF OpenReturns, OpenEnds
<1>6. ASSUME NEW c \in Callers, ShutdownNil(c)
      PROVE  ContainerInv'
  BY <1>6 DEF ShutdownNil
<1>7. ASSUME NEW c \in Callers, Shutdown(c)
      PROVE  ContainerInv'
  BY <1>7 DEF Shutdown
<1>8. ASSUME NEW c \in Callers, ShutdownOnce(c)
      PROVE  ContainerInv'
  <2>1. c = Opener \/ c \in Closers
    BY DEF Callers
  <2> QED
    BY <1>8, <2>1 DEF ShutdownOnce
<1>9. ASSUME NEW c \in Callers, ShutdownDone(c)
      PROVE  ContainerInv'
  BY <1>9 DEF ShutdownDone, ShutdownReturns, AfterSetup, OpenEnds
<1>10. ASSUME NEW c \in Callers, ShutdownCtx(c)
       PROVE  ContainerInv'
  BY <1>10 DEF ShutdownCtx, ShutdownReturns, AfterSetup, OpenEnds
<1>11. ASSUME NEW c \in Callers, EndCtx(c)
       PROVE  ContainerInv'
  BY <1>11 DEF EndCtx
<1>12. CASE TerminatorRuns
  BY <1>12 DEF TerminatorRuns, Terminate
<1>13. CASE TerminatorSignals
  BY <1>13 DEF TerminatorSignals
<1>14. CASE UNCHANGED vars
  BY <1>14 DEF vars
<1> QED
  BY <1>1, <1>2, <1>3, <1>4, <1>5, <1>6, <1>7, <1>8,
     <1>9, <1>10, <1>11, <1>12, <1>13, <1>14
  DEF Next, OpenStep, ShutdownStep, TerminatorStep, Finished

(***************************************************************************)
(* Open comes back from the Shutdown of its failed setup: the error of the *)
(* hook stays, and is alone only when the container is gone.               *)
(***************************************************************************)
LEMMA SetupReturns ==
  ASSUME TypeOK, OpenInv, TerminatorInv, FailedOpenCleansUp,
         NEW c \in Callers, NEW e, "Setup" \notin e,
         e = {} => container = "gone", ShutdownReturns(c, e)
  PROVE  FailedOpenCleansUp'
<1>a. Opener \in Callers
  BY DEF Callers
<1> USE <1>a DEF TypeOK, OpenInv, TerminatorInv, FailedOpenCleansUp, At, Goto, fixture
<1>1. CASE c # Opener
  BY <1>1 DEF ShutdownReturns
<1>2. CASE c = Opener
  <2>1. once' /\ setupEnd' = setupEnd /\ container' = container
    BY <1>2 DEF ShutdownReturns
  <2>2. setupEnd = "error" => exit' = "return" /\ result'[Opener] = {"Setup"} \cup e
    BY <1>2 DEF ShutdownReturns, AfterSetup, OpenEnds
  <2>3. setupEnd # "error" => exit' = setupEnd /\ result'[Opener] = {}
    BY <1>2 DEF ShutdownReturns, AfterSetup, OpenEnds
  <2>4. {"Setup"} \cup e = {"Setup"} => e = {}
    OBVIOUS
  <2> QED
    BY <2>1, <2>2, <2>3, <2>4
<1> QED
  BY <1>1, <1>2

(***************************************************************************)
(* A failed Open has its termination and its cause, and keeps both.        *)
(***************************************************************************)
LEMMA FailedOpenInvariance ==
  ASSUME TypeOK, OpenInv, TerminatorInv, ContainerInv, FailedOpenCleansUp, [Next]_vars
  PROVE  FailedOpenCleansUp'
<1>a. Opener \in Callers /\ \A c \in Closers : c \in Callers /\ c # Opener
  BY TestDatabaseAssumption DEF Callers
<1> USE <1>a DEF TypeOK, OpenInv, TerminatorInv, ContainerInv, FailedOpenCleansUp, At, Goto, fixture
<1>1. CASE OpenEntry
  BY <1>1 DEF OpenEntry, OpenEnds
<1>2. CASE OpenStart
  BY <1>2 DEF OpenStart, OpenEnds
<1>3. CASE OpenDSN
  BY <1>3 DEF OpenDSN, OpenEnds, Terminate
<1>4. CASE OpenSetup
  BY <1>4 DEF OpenSetup, SetupEnds
<1>5. CASE OpenReturns
  BY <1>5 DEF OpenReturns, OpenEnds
<1>6. ASSUME NEW c \in Callers, ShutdownNil(c)
      PROVE  FailedOpenCleansUp'
  BY <1>6 DEF ShutdownNil
<1>7. ASSUME NEW c \in Callers, Shutdown(c)
      PROVE  FailedOpenCleansUp'
  BY <1>7 DEF Shutdown
<1>8. ASSUME NEW c \in Callers, ShutdownOnce(c)
      PROVE  FailedOpenCleansUp'
  BY <1>8 DEF ShutdownOnce
<1>9. ASSUME NEW c \in Callers, ShutdownDone(c)
      PROVE  FailedOpenCleansUp'
  <2>1. "Setup" \notin shutdownErr /\ (shutdownErr = {} => container = "gone")
    BY <1>9 DEF ShutdownDone
  <2> QED
    BY <1>9, <2>1, SetupReturns DEF ShutdownDone
<1>10. ASSUME NEW c \in Callers, ShutdownCtx(c)
       PROVE  FailedOpenCleansUp'
  <2>1. "Setup" \notin CtxCause(c) /\ CtxCause(c) # {}
    BY DEF CtxCause
  <2> QED
    BY <1>10, <2>1, SetupReturns DEF ShutdownCtx
<1>11. ASSUME NEW c \in Callers, EndCtx(c)
       PROVE  FailedOpenCleansUp'
  BY <1>11 DEF EndCtx
<1>12. CASE TerminatorRuns
  BY <1>12 DEF TerminatorRuns, Terminate
<1>13. CASE TerminatorSignals
  BY <1>13 DEF TerminatorSignals
<1>14. CASE UNCHANGED vars
  BY <1>14 DEF vars
<1> QED
  BY <1>1, <1>2, <1>3, <1>4, <1>5, <1>6, <1>7, <1>8,
     <1>9, <1>10, <1>11, <1>12, <1>13, <1>14
  DEF Next, OpenStep, ShutdownStep, TerminatorStep, Finished

(***************************************************************************)
(* A result that was shared stays the result of the termination.           *)
(***************************************************************************)
LEMMA ResultsInvariance ==
  ASSUME TypeOK, OpenInv, TerminatorInv, ContainerInv, ResultsShared, [Next]_vars
  PROVE  ResultsShared'
<1>a. Opener \in Callers /\ \A c \in Closers : c \in Callers /\ c # Opener
  BY TestDatabaseAssumption DEF Callers
<1> USE <1>a DEF TypeOK, OpenInv, TerminatorInv, ContainerInv, ResultsShared, CtxCause, At, Goto, fixture
<1>1. CASE OpenEntry
  BY <1>1 DEF OpenEntry, OpenEnds
<1>2. CASE OpenStart
  BY <1>2 DEF OpenStart, OpenEnds
<1>3. CASE OpenDSN
  BY <1>3 DEF OpenDSN, OpenEnds, Terminate
<1>4. CASE OpenSetup
  BY <1>4 DEF OpenSetup, SetupEnds
<1>5. CASE OpenReturns
  BY <1>5 DEF OpenReturns, OpenEnds
<1>6. ASSUME NEW c \in Callers, ShutdownNil(c)
      PROVE  ResultsShared'
  BY <1>6 DEF ShutdownNil
<1>7. ASSUME NEW c \in Callers, Shutdown(c)
      PROVE  ResultsShared'
  BY <1>7 DEF Shutdown
<1>8. ASSUME NEW c \in Callers, ShutdownOnce(c)
      PROVE  ResultsShared'
  BY <1>8 DEF ShutdownOnce
<1>9. ASSUME NEW c \in Callers, ShutdownDone(c)
      PROVE  ResultsShared'
  BY <1>9 DEF ShutdownDone, ShutdownReturns, AfterSetup, OpenEnds
<1>10. ASSUME NEW c \in Callers, ShutdownCtx(c)
       PROVE  ResultsShared'
  BY <1>10 DEF ShutdownCtx, ShutdownReturns, AfterSetup, OpenEnds
<1>11. ASSUME NEW c \in Callers, EndCtx(c)
       PROVE  ResultsShared'
  BY <1>11 DEF EndCtx
<1>12. CASE TerminatorRuns
  BY <1>12 DEF TerminatorRuns, Terminate
<1>13. CASE TerminatorSignals
  BY <1>13 DEF TerminatorSignals
<1>14. CASE UNCHANGED vars
  BY <1>14 DEF vars
<1> QED
  BY <1>1, <1>2, <1>3, <1>4, <1>5, <1>6, <1>7, <1>8,
     <1>9, <1>10, <1>11, <1>12, <1>13, <1>14
  DEF Next, OpenStep, ShutdownStep, TerminatorStep, Finished

-----------------------------------------------------------------------------
LEMMA Invariance == Spec => []IInv
<1>1. IInv /\ [Next]_vars => IInv'
  BY TypeInvariance, OpenInvariance, TerminatorInvariance, ContainerInvariance,
     FailedOpenInvariance, ResultsInvariance
  DEF IInv
<1> QED
  BY InitInvariance, <1>1, PTL DEF Spec

(***************************************************************************)
(* The variables of the fixture keep their types.                          *)
(***************************************************************************)
THEOREM TypeCorrect == Spec => []TypeOK
<1>1. IInv => TypeOK
  BY DEF IInv
<1> QED
  BY Invariance, <1>1, PTL

(***************************************************************************)
(* However many goroutines call Shutdown, and whichever way Open failed,   *)
(* the container is terminated at most once and signalled only after that  *)
(* (database.go:242-251).                                                  *)
(***************************************************************************)
THEOREM TerminatesOnce == Spec => []TerminatedOnce
<1>1. Opener \in Callers
  BY DEF Callers
<1>2. IInv => TerminatedOnce
  BY <1>1 DEF IInv, TypeOK, OpenInv, TerminatorInv, ContainerInv, TerminatedOnce
<1> QED
  BY Invariance, <1>2, PTL

(***************************************************************************)
(* An Open that failed has begun the termination of a container that is up *)
(* and reports the original cause, and a setup error alone proves the      *)
(* container gone; only a failed start may leave one behind                *)
(* (database.go:131-144, 177-203).                                         *)
(***************************************************************************)
THEOREM CleansUpFailedOpen == Spec => []FailedOpenCleansUp
<1>1. IInv => FailedOpenCleansUp
  BY DEF IInv
<1> QED
  BY Invariance, <1>1, PTL

(***************************************************************************)
(* Any number of Shutdown callers that do not report their own context     *)
(* report one result, and nil means that the container is gone             *)
(* (database.go:230-235, 253-258).                                         *)
(***************************************************************************)
THEOREM SharesResults == Spec => []ResultsShared
<1>1. IInv => ResultsShared
  BY DEF IInv
<1> QED
  BY Invariance, <1>1, PTL
=============================================================================
