----------------------------- MODULE PoolProofs -----------------------------
(***************************************************************************)
(* Proofs about Pool for any set of calls and any finite set of slots.     *)
(***************************************************************************)
EXTENDS Pool, FiniteSetTheorems, TLAPS

-----------------------------------------------------------------------------
(***************************************************************************)
(* The inductive invariant, in parts.                                      *)
(***************************************************************************)

\* The order of the steps of the cleanup goroutine fixes the lifecycle flags.
LifecycleInv ==
  /\ once <=> cleanup # "none"
  /\ once => closed
  /\ native = "open" <=> cleanup \in {"none", "spawned"}
  /\ native = "closing" <=> cleanup = "closing"
  /\ closeDone <=> cleanup = "exited"
  /\ closes = IF native = "open" THEN 0 ELSE 1

Busy == {"native", "probe", "sample", "classify"}

\* What a call's location says about its operation and its error.
CallInv ==
  \A c \in Calls :
    /\ pc[c] \in Busy => op[c] \in {"Acquire", "Ping"}
    /\ pc[c] \in {"native", "probe"} => err[c] = {}
    /\ pc[c] = "probe" => op[c] = "Ping"
    /\ pc[c] = "sample" => op[c] = "Acquire"
    /\ pc[c] \in Busy => err[c] \cap {"AcquireTimeout", "PoolExhausted"} = {}
    /\ pc[c] \in {"once", "wait"} => op[c] = "Shutdown" /\ closed
    /\ pc[c] = "exited" => ObserverMayExit

\* A Shutdown without an error saw the signal.
ConfirmInv ==
  \A c \in Calls :
    op[c] = "Shutdown" /\ pc[c] \in {"observe", "done"} /\ err[c] = {}
      => closeDone

\* Who may own a slot in which state, and at most one slot each.
SlotInv ==
  /\ \A s \in Slots :
       /\ slot[s] \in {"none", "idle"} => owner[s] = "nobody"
       /\ slot[s] = "idle" => native = "open"
       /\ slot[s] = "constructing" => owner[s] # "raw"
       /\ slot[s] = "constructing" /\ owner[s] \in Calls
            => pc[owner[s]] = "native"
       /\ slot[s] = "acquired" =>
            \/ owner[s] = "raw"
            \/ /\ owner[s] \in Calls
               /\ pc[owner[s]] \in {"probe", "sample", "classify", "observe",
                                    "done", "exited"}
               /\ op[owner[s]] \in {"Acquire", "Ping"}
               /\ err[owner[s]] = {}
       /\ native = "closed" => slot[s] = "none"
  /\ \A s, t \in Slots : owner[s] = owner[t] /\ owner[s] \in Calls => s = t

\* A sample never counts more connections than there are slots.
StatsInv ==
  \A c \in Calls :
    stats[c].AcquiredConns + stats[c].ConstructingConns + stats[c].IdleConns
      <= stats[c].MaxConns

IInv ==
  /\ TypeOK
  /\ LifecycleInv
  /\ CallInv
  /\ ConfirmInv
  /\ LateCallsRefused
  /\ SlotInv
  /\ StatsInv
  /\ ExhaustionAttribution

-----------------------------------------------------------------------------
(***************************************************************************)
(* A snapshot has natural numbers in its fields and counts each slot once. *)
(***************************************************************************)
LEMMA StatsBounds ==
  ASSUME TypeOK
  PROVE  /\ Stats \in [AcquiredConns : Nat, ConstructingConns : Nat,
                       IdleConns : Nat, MaxConns : Nat]
         /\ Stats.AcquiredConns + Stats.ConstructingConns + Stats.IdleConns
              <= Stats.MaxConns
<1> DEFINE In(st) == {s \in Slots : slot[s] = st}
           A == In("acquired")
           B == In("constructing")
           D == In("idle")
<1>1. IsFiniteSet(A) /\ IsFiniteSet(B) /\ IsFiniteSet(D)
  BY FS_Subset, PoolAssumption
<1>2. /\ Cardinality(A) \in Nat
      /\ Cardinality(B) \in Nat
      /\ Cardinality(D) \in Nat
      /\ Cardinality(Slots) \in Nat
  BY <1>1, FS_CardinalityType, PoolAssumption
<1>3. A \cap B = {} /\ (A \cup B) \cap D = {}
  OBVIOUS
<1>4. IsFiniteSet(A \cup B) /\ Cardinality(A \cup B) = Cardinality(A) + Cardinality(B)
  <2>1. /\ IsFiniteSet(A \cup B)
        /\ Cardinality(A \cup B) = Cardinality(A) + Cardinality(B) - Cardinality(A \cap B)
    BY <1>1, FS_Union
  <2> QED
    BY <2>1, <1>2, <1>3, FS_EmptySet
<1>5. Cardinality((A \cup B) \cup D) = Cardinality(A) + Cardinality(B) + Cardinality(D)
  <2>1. Cardinality((A \cup B) \cup D)
          = Cardinality(A \cup B) + Cardinality(D) - Cardinality((A \cup B) \cap D)
    BY <1>1, <1>4, FS_Union
  <2> QED
    BY <2>1, <1>2, <1>3, <1>4, FS_EmptySet
<1>6. Cardinality((A \cup B) \cup D) <= Cardinality(Slots)
  <2>1. (A \cup B) \cup D \in SUBSET Slots
    OBVIOUS
  <2> HIDE DEF A, B, D
  <2> QED
    BY <2>1, FS_Subset, PoolAssumption
<1>7. Stats = [AcquiredConns |-> Cardinality(A), ConstructingConns |-> Cardinality(B),
               IdleConns |-> Cardinality(D), MaxConns |-> Cardinality(Slots)]
  BY DEF Stats, Having
<1> HIDE DEF A, B, D
<1> QED
  BY <1>2, <1>5, <1>6, <1>7

(***************************************************************************)
(* poolIsSaturated in a snapshot that counts each slot once means that no  *)
(* slot is idle or unused.                                                 *)
(***************************************************************************)
LEMMA SaturationIsFull ==
  ASSUME NEW st \in [AcquiredConns : Nat, ConstructingConns : Nat,
                     IdleConns : Nat, MaxConns : Nat],
         st.AcquiredConns + st.ConstructingConns + st.IdleConns <= st.MaxConns,
         poolIsSaturated(st)
  PROVE  /\ st.IdleConns = 0
         /\ st.AcquiredConns + st.ConstructingConns = st.MaxConns
<1>1. /\ st.AcquiredConns \in Nat /\ st.ConstructingConns \in Nat
      /\ st.IdleConns \in Nat /\ st.MaxConns \in Nat
  OBVIOUS
<1> QED
  BY <1>1 DEF poolIsSaturated

\* Beginning a call keeps the types.
LEMMA EnterType ==
  ASSUME TypeOK, NEW c \in Calls, NEW o \in Operations,
         NEW x \in CallerContexts, NEW p \in Locations,
         NEW e \in SUBSET Sentinels, Enter(c, o, x, p, e),
         UNCHANGED <<lifecycle, native, slots>>
  PROVE  TypeOK'
BY DEF Enter, lifecycle, slots, TypeOK, Contexts, CallerContexts

\* Every step keeps the types.
LEMMA TypeStep ==
  ASSUME TypeOK, [Next]_vars
  PROVE  TypeOK'
<1> USE PoolAssumption DEF lifecycle, slots, calls, TypeOK, Operations,
          Locations, SlotStates, Sentinels, Holders, Contexts, CallerContexts
<1>1. ASSUME NEW c \in Calls, CallStep(c)
      PROVE  TypeOK'
  <2>1. CASE Acquire(c)
    <3> PICK x \in CallerContexts :
               \/ Enter(c, "Acquire", x, "observe", {"PoolClosed"})
               \/ Enter(c, "Acquire", x, "native", {})
      BY <2>1 DEF Acquire, Admit
    <3> UNCHANGED <<lifecycle, native, slots>>
      BY <2>1 DEF Acquire, Admit
    <3> QED
      BY EnterType DEF Locations, Operations, Sentinels
  <2>2. CASE Ping(c)
    <3> PICK x \in CallerContexts :
               \/ Enter(c, "Ping", x, "observe", {"PoolClosed"})
               \/ Enter(c, "Ping", x, "native", {})
      BY <2>2 DEF Ping, Admit
    <3> UNCHANGED <<lifecycle, native, slots>>
      BY <2>2 DEF Ping, Admit
    <3> QED
      BY EnterType DEF Locations, Operations, Sentinels
  <2>3. CASE ShutdownNil(c)
    BY <2>3 DEF ShutdownNil, Enter
  <2>4. CASE Shutdown(c)
    BY <2>4 DEF Shutdown, Enter
  <2>5. CASE AcquireSample(c)
    BY <2>5, StatsBounds DEF AcquireSample
  <2>6. CASE AcquireResult(c)
    BY <2>6 DEF AcquireResult, Classified, AcquireError, CauseIsAcquireTimeout
  <2>7. CASE PingResult(c)
    BY <2>7 DEF PingResult, Classified, PingError
  <2>8. CASE ShutdownOnce(c)
    BY <2>8 DEF ShutdownOnce
  <2>9. CASE ShutdownDone(c)
    BY <2>9 DEF ShutdownDone, ShutdownReturns
  <2>10. CASE ShutdownCtx(c)
    BY <2>10 DEF ShutdownCtx, ShutdownReturns, CtxErr, CtxDone
  <2>11. CASE Observe(c)
    BY <2>11 DEF Observe, Returns, ZeroStats
  <2>12. CASE ObserverExit(c)
    BY <2>12 DEF ObserverExit, Returns, ZeroStats
  <2>13. CASE Release(c)
    BY <2>13 DEF Release, GiveBack, SetSlot, Held
  <2> QED
    BY <1>1, <2>1, <2>2, <2>3, <2>4, <2>5, <2>6, <2>7, <2>8, <2>9, <2>10, <2>11, <2>12, <2>13 DEF CallStep
<1>2. ASSUME NEW c \in Calls, ContextStep(c)
      PROVE  TypeOK'
  <2>1. CASE Cancel(c)
    BY <2>1 DEF Cancel, EndCtx
  <2>2. CASE Expire(c)
    BY <2>2 DEF Expire, EndCtx
  <2> QED
    BY <1>2, <2>1, <2>2 DEF ContextStep
<1>3. ASSUME NEW c \in Calls, NativeCallStep(c)
      PROVE  TypeOK'
  <2>1. CASE TakeIdle(c)
    BY <2>1 DEF TakeIdle, Granted, SetSlot, Waiting, Held
  <2>2. CASE Dial(c)
    BY <2>2 DEF Dial, SetSlot, Waiting, Held
  <2>3. CASE GiveUp(c)
    BY <2>3 DEF GiveUp, NativeReturns, CtxErr, CtxDone
  <2>4. CASE Refuse(c)
    BY <2>4 DEF Refuse, NativeReturns, Waiting, Held
  <2>5. CASE Probe(c)
    <3>1. PICK e \in SUBSET Sentinels : NativeReturns(c, e)
      BY <2>5 DEF Probe, CtxErr
    <3>2. slot' \in [Slots -> SlotStates] /\ owner' \in [Slots -> Holders]
      BY <2>5 DEF Probe, GiveBack, SetSlot, Held
    <3>3. UNCHANGED <<lifecycle, native>>
      BY <2>5 DEF Probe
    <3> QED
      BY <3>1, <3>2, <3>3 DEF NativeReturns
  <2> QED
    BY <1>3, <2>1, <2>2, <2>3, <2>4, <2>5 DEF NativeCallStep
<1>4. ASSUME NEW s \in Slots, NativeSlotStep(s)
      PROVE  TypeOK'
  <2>1. CASE DialOK(s)
    <3>1. CASE owner[s] \in Calls
      <4>1. SetSlot(s, "acquired", owner[s]) /\ Granted(owner[s])
        BY <2>1, <3>1 DEF DialOK
      <4>2. UNCHANGED <<lifecycle, native>>
        BY <2>1 DEF DialOK
      <4> QED
        BY <3>1, <4>1, <4>2 DEF SetSlot, Granted
    <3>2. CASE owner[s] \notin Calls
      <4>1. slot' \in [Slots -> SlotStates] /\ owner' \in [Slots -> Holders]
        <5>1. GiveBack(s)
          BY <2>1, <3>2 DEF DialOK
        <5>2. PICK st \in {"idle", "none"} : SetSlot(s, st, "nobody")
          BY <5>1, Zenon DEF GiveBack
        <5> QED
          BY <5>2 DEF SetSlot
      <4>2. UNCHANGED <<lifecycle, native, calls>>
        BY <2>1, <3>2 DEF DialOK
      <4> QED
        BY <4>1, <4>2
    <3> QED
      BY <3>1, <3>2
  <2>2. CASE DialFail(s)
    <3>1. CASE owner[s] \in Calls
      <4> PICK e \in DialErrors : NativeReturns(owner[s], e)
        BY <2>2, <3>1 DEF DialFail
      <4>1. e \in SUBSET Sentinels
        BY DEF DialErrors
      <4> QED
        BY <2>2, <3>1, <4>1 DEF DialFail, SetSlot, NativeReturns
    <3>2. CASE owner[s] \notin Calls
      BY <2>2, <3>2 DEF DialFail, SetSlot
    <3> QED
      BY <3>1, <3>2
  <2>3. CASE BackgroundDial(s)
    BY <2>3 DEF BackgroundDial, SetSlot
  <2>4. CASE Evict(s)
    BY <2>4 DEF Evict, SetSlot
  <2>5. CASE RawBorrow(s)
    BY <2>5 DEF RawBorrow, SetSlot
  <2>6. CASE RawRelease(s)
    <3>1. slot' \in [Slots -> SlotStates] /\ owner' \in [Slots -> Holders]
      BY <2>6 DEF RawRelease, GiveBack, SetSlot
    <3>2. UNCHANGED <<lifecycle, native, calls>>
      BY <2>6 DEF RawRelease
    <3> QED
      BY <3>1, <3>2
  <2> QED
    BY <1>4, <2>1, <2>2, <2>3, <2>4, <2>5, <2>6 DEF NativeSlotStep
<1>5. ASSUME CleanupStep PROVE TypeOK'
  <2>1. CASE CleanupClose
    BY <2>1 DEF CleanupClose
  <2>2. CASE NativeCloseReturns
    BY <2>2 DEF NativeCloseReturns
  <2>3. CASE CleanupSignal
    BY <2>3 DEF CleanupSignal
  <2> QED
    BY <1>5, <2>1, <2>2, <2>3 DEF CleanupStep
<1>6. CASE UNCHANGED vars
  BY <1>6 DEF vars
<1> QED
  BY <1>1, <1>2, <1>3, <1>4, <1>5, <1>6 DEF Next

\* Only Shutdown and the cleanup goroutine move the lifecycle, in order.
LEMMA LifecycleStep ==
  ASSUME TypeOK, LifecycleInv, CallInv, [Next]_vars
  PROVE  LifecycleInv'
<1> USE PoolAssumption DEF lifecycle, slots, calls, TypeOK, LifecycleInv,
          CallInv
<1>1. ASSUME NEW c \in Calls, CallStep(c)
      PROVE  LifecycleInv'
  <2>1. CASE Acquire(c)
    BY <2>1 DEF Acquire, Admit, Enter
  <2>2. CASE Ping(c)
    BY <2>2 DEF Ping, Admit, Enter
  <2>3. CASE ShutdownNil(c)
    BY <2>3 DEF ShutdownNil, Enter
  <2>4. CASE Shutdown(c)
    BY <2>4 DEF Shutdown, Enter
  <2>5. CASE AcquireSample(c)
    BY <2>5 DEF AcquireSample
  <2>6. CASE AcquireResult(c)
    BY <2>6 DEF AcquireResult, Classified, AcquireError, CauseIsAcquireTimeout
  <2>7. CASE PingResult(c)
    BY <2>7 DEF PingResult, Classified, PingError
  <2>8. CASE ShutdownOnce(c)
    BY <2>8 DEF ShutdownOnce
  <2>9. CASE ShutdownDone(c)
    BY <2>9 DEF ShutdownDone, ShutdownReturns
  <2>10. CASE ShutdownCtx(c)
    BY <2>10 DEF ShutdownCtx, ShutdownReturns, CtxErr, CtxDone
  <2>11. CASE Observe(c)
    BY <2>11 DEF Observe, Returns
  <2>12. CASE ObserverExit(c)
    BY <2>12 DEF ObserverExit, Returns
  <2>13. CASE Release(c)
    BY <2>13 DEF Release, GiveBack, SetSlot, Held
  <2> QED
    BY <1>1, <2>1, <2>2, <2>3, <2>4, <2>5, <2>6, <2>7, <2>8, <2>9, <2>10, <2>11, <2>12, <2>13 DEF CallStep
<1>2. ASSUME NEW c \in Calls, ContextStep(c)
      PROVE  LifecycleInv'
  <2>1. CASE Cancel(c)
    BY <2>1 DEF Cancel, EndCtx
  <2>2. CASE Expire(c)
    BY <2>2 DEF Expire, EndCtx
  <2> QED
    BY <1>2, <2>1, <2>2 DEF ContextStep
<1>3. ASSUME NEW c \in Calls, NativeCallStep(c)
      PROVE  LifecycleInv'
  <2>1. CASE TakeIdle(c)
    BY <2>1 DEF TakeIdle, Granted, SetSlot, Waiting, Held
  <2>2. CASE Dial(c)
    BY <2>2 DEF Dial, SetSlot, Waiting, Held
  <2>3. CASE GiveUp(c)
    BY <2>3 DEF GiveUp, NativeReturns, CtxErr, CtxDone
  <2>4. CASE Refuse(c)
    BY <2>4 DEF Refuse, NativeReturns, Waiting, Held
  <2>5. CASE Probe(c)
    BY <2>5 DEF Probe, GiveBack, SetSlot, Held, NativeReturns, CtxErr
  <2> QED
    BY <1>3, <2>1, <2>2, <2>3, <2>4, <2>5 DEF NativeCallStep
<1>4. ASSUME NEW s \in Slots, NativeSlotStep(s)
      PROVE  LifecycleInv'
  <2>1. CASE DialOK(s)
    BY <2>1 DEF DialOK, SetSlot, Granted, GiveBack
  <2>2. CASE DialFail(s)
    BY <2>2 DEF DialFail, SetSlot, NativeReturns, DialErrors
  <2>3. CASE BackgroundDial(s)
    BY <2>3 DEF BackgroundDial, SetSlot
  <2>4. CASE Evict(s)
    BY <2>4 DEF Evict, SetSlot
  <2>5. CASE RawBorrow(s)
    BY <2>5 DEF RawBorrow, SetSlot
  <2>6. CASE RawRelease(s)
    BY <2>6 DEF RawRelease, GiveBack, SetSlot
  <2> QED
    BY <1>4, <2>1, <2>2, <2>3, <2>4, <2>5, <2>6 DEF NativeSlotStep
<1>5. ASSUME CleanupStep PROVE LifecycleInv'
  <2>1. CASE CleanupClose
    BY <2>1 DEF CleanupClose
  <2>2. CASE NativeCloseReturns
    BY <2>2 DEF NativeCloseReturns
  <2>3. CASE CleanupSignal
    BY <2>3 DEF CleanupSignal
  <2> QED
    BY <1>5, <2>1, <2>2, <2>3 DEF CleanupStep
<1>6. CASE UNCHANGED vars
  BY <1>6 DEF vars
<1> QED
  BY <1>1, <1>2, <1>3, <1>4, <1>5, <1>6 DEF Next

\* Operation and error agree with the location in every state.
LEMMA CallInvStep ==
  ASSUME TypeOK, LifecycleInv, CallInv, SlotInv, [Next]_vars
  PROVE  CallInv'
<1> USE PoolAssumption DEF lifecycle, slots, calls, TypeOK, LifecycleInv,
          CallInv, SlotInv, Busy
<1>1. ASSUME NEW c \in Calls, CallStep(c)
      PROVE  CallInv'
  <2>1. CASE Acquire(c)
    BY <2>1 DEF Acquire, Admit, Enter
  <2>2. CASE Ping(c)
    BY <2>2 DEF Ping, Admit, Enter
  <2>3. CASE ShutdownNil(c)
    BY <2>3 DEF ShutdownNil, Enter
  <2>4. CASE Shutdown(c)
    BY <2>4 DEF Shutdown, Enter
  <2>5. CASE AcquireSample(c)
    BY <2>5 DEF AcquireSample
  <2>6. CASE AcquireResult(c)
    BY <2>6 DEF AcquireResult, Classified, AcquireError, CauseIsAcquireTimeout
  <2>7. CASE PingResult(c)
    BY <2>7 DEF PingResult, Classified, PingError
  <2>8. CASE ShutdownOnce(c)
    BY <2>8 DEF ShutdownOnce
  <2>9. CASE ShutdownDone(c)
    BY <2>9 DEF ShutdownDone, ShutdownReturns
  <2>10. CASE ShutdownCtx(c)
    BY <2>10 DEF ShutdownCtx, ShutdownReturns, CtxErr, CtxDone
  <2>11. CASE Observe(c)
    BY <2>11 DEF Observe, Returns
  <2>12. CASE ObserverExit(c)
    BY <2>12 DEF ObserverExit, Returns
  <2>13. CASE Release(c)
    BY <2>13 DEF Release, GiveBack, SetSlot, Held
  <2> QED
    BY <1>1, <2>1, <2>2, <2>3, <2>4, <2>5, <2>6, <2>7, <2>8, <2>9, <2>10, <2>11, <2>12, <2>13 DEF CallStep
<1>2. ASSUME NEW c \in Calls, ContextStep(c)
      PROVE  CallInv'
  <2>1. CASE Cancel(c)
    BY <2>1 DEF Cancel, EndCtx
  <2>2. CASE Expire(c)
    BY <2>2 DEF Expire, EndCtx
  <2> QED
    BY <1>2, <2>1, <2>2 DEF ContextStep
<1>3. ASSUME NEW c \in Calls, NativeCallStep(c)
      PROVE  CallInv'
  <2>1. CASE TakeIdle(c)
    BY <2>1 DEF TakeIdle, Granted, SetSlot, Waiting, Held
  <2>2. CASE Dial(c)
    BY <2>2 DEF Dial, SetSlot, Waiting, Held
  <2>3. CASE GiveUp(c)
    BY <2>3 DEF GiveUp, NativeReturns, CtxErr, CtxDone
  <2>4. CASE Refuse(c)
    BY <2>4 DEF Refuse, NativeReturns, Waiting, Held
  <2>5. CASE Probe(c)
    BY <2>5 DEF Probe, GiveBack, SetSlot, Held, NativeReturns, CtxErr
  <2> QED
    BY <1>3, <2>1, <2>2, <2>3, <2>4, <2>5 DEF NativeCallStep
<1>4. ASSUME NEW s \in Slots, NativeSlotStep(s)
      PROVE  CallInv'
  <2>1. CASE DialOK(s)
    <3>1. CASE owner[s] \in Calls
      BY <2>1, <3>1 DEF DialOK, SetSlot, Granted
    <3>2. CASE owner[s] \notin Calls
      BY <2>1, <3>2 DEF DialOK, SetSlot, GiveBack
    <3> QED
      BY <3>1, <3>2
  <2>2. CASE DialFail(s)
    <3>1. CASE owner[s] \in Calls
      <4> PICK e \in DialErrors : NativeReturns(owner[s], e)
        BY <2>2, <3>1 DEF DialFail
      <4>1. e \in {{"Connect"}, {"DeadlineExceeded"}, {"Canceled"}}
        BY DEF DialErrors
      <4> QED
        BY <2>2, <3>1, <4>1 DEF DialFail, SetSlot, NativeReturns
    <3>2. CASE owner[s] \notin Calls
      BY <2>2, <3>2 DEF DialFail, SetSlot
    <3> QED
      BY <3>1, <3>2
  <2>3. CASE BackgroundDial(s)
    BY <2>3 DEF BackgroundDial, SetSlot
  <2>4. CASE Evict(s)
    BY <2>4 DEF Evict, SetSlot
  <2>5. CASE RawBorrow(s)
    BY <2>5 DEF RawBorrow, SetSlot
  <2>6. CASE RawRelease(s)
    BY <2>6 DEF RawRelease, GiveBack, SetSlot
  <2> QED
    BY <1>4, <2>1, <2>2, <2>3, <2>4, <2>5, <2>6 DEF NativeSlotStep
<1>5. ASSUME CleanupStep PROVE CallInv'
  <2>1. CASE CleanupClose
    BY <2>1 DEF CleanupClose
  <2>2. CASE NativeCloseReturns
    BY <2>2 DEF NativeCloseReturns
  <2>3. CASE CleanupSignal
    BY <2>3 DEF CleanupSignal
  <2> QED
    BY <1>5, <2>1, <2>2, <2>3 DEF CleanupStep
<1>6. CASE UNCHANGED vars
  BY <1>6 DEF vars
<1> QED
  BY <1>1, <1>2, <1>3, <1>4, <1>5, <1>6 DEF Next

\* Shutdown reports nil only in the branch of the select that saw closeDone.
LEMMA ConfirmStep ==
  ASSUME TypeOK, LifecycleInv, CallInv, ConfirmInv, [Next]_vars
  PROVE  ConfirmInv'
<1> USE PoolAssumption DEF lifecycle, slots, calls, TypeOK, LifecycleInv,
          CallInv, ConfirmInv, Busy
<1>1. ASSUME NEW c \in Calls, CallStep(c)
      PROVE  ConfirmInv'
  <2>1. CASE Acquire(c)
    BY <2>1 DEF Acquire, Admit, Enter
  <2>2. CASE Ping(c)
    BY <2>2 DEF Ping, Admit, Enter
  <2>3. CASE ShutdownNil(c)
    BY <2>3 DEF ShutdownNil, Enter
  <2>4. CASE Shutdown(c)
    BY <2>4 DEF Shutdown, Enter
  <2>5. CASE AcquireSample(c)
    BY <2>5 DEF AcquireSample
  <2>6. CASE AcquireResult(c)
    BY <2>6 DEF AcquireResult, Classified, AcquireError, CauseIsAcquireTimeout
  <2>7. CASE PingResult(c)
    BY <2>7 DEF PingResult, Classified, PingError
  <2>8. CASE ShutdownOnce(c)
    BY <2>8 DEF ShutdownOnce
  <2>9. CASE ShutdownDone(c)
    BY <2>9 DEF ShutdownDone, ShutdownReturns
  <2>10. CASE ShutdownCtx(c)
    BY <2>10 DEF ShutdownCtx, ShutdownReturns, CtxErr, CtxDone
  <2>11. CASE Observe(c)
    BY <2>11 DEF Observe, Returns
  <2>12. CASE ObserverExit(c)
    BY <2>12 DEF ObserverExit, Returns
  <2>13. CASE Release(c)
    BY <2>13 DEF Release, GiveBack, SetSlot, Held
  <2> QED
    BY <1>1, <2>1, <2>2, <2>3, <2>4, <2>5, <2>6, <2>7, <2>8, <2>9, <2>10, <2>11, <2>12, <2>13 DEF CallStep
<1>2. ASSUME NEW c \in Calls, ContextStep(c)
      PROVE  ConfirmInv'
  <2>1. CASE Cancel(c)
    BY <2>1 DEF Cancel, EndCtx
  <2>2. CASE Expire(c)
    BY <2>2 DEF Expire, EndCtx
  <2> QED
    BY <1>2, <2>1, <2>2 DEF ContextStep
<1>3. ASSUME NEW c \in Calls, NativeCallStep(c)
      PROVE  ConfirmInv'
  <2>1. CASE TakeIdle(c)
    BY <2>1 DEF TakeIdle, Granted, SetSlot, Waiting, Held
  <2>2. CASE Dial(c)
    BY <2>2 DEF Dial, SetSlot, Waiting, Held
  <2>3. CASE GiveUp(c)
    BY <2>3 DEF GiveUp, NativeReturns, CtxErr, CtxDone
  <2>4. CASE Refuse(c)
    BY <2>4 DEF Refuse, NativeReturns, Waiting, Held
  <2>5. CASE Probe(c)
    BY <2>5 DEF Probe, GiveBack, SetSlot, Held, NativeReturns, CtxErr
  <2> QED
    BY <1>3, <2>1, <2>2, <2>3, <2>4, <2>5 DEF NativeCallStep
<1>4. ASSUME NEW s \in Slots, NativeSlotStep(s)
      PROVE  ConfirmInv'
  <2>1. CASE DialOK(s)
    BY <2>1 DEF DialOK, SetSlot, Granted, GiveBack
  <2>2. CASE DialFail(s)
    BY <2>2 DEF DialFail, SetSlot, NativeReturns, DialErrors
  <2>3. CASE BackgroundDial(s)
    BY <2>3 DEF BackgroundDial, SetSlot
  <2>4. CASE Evict(s)
    BY <2>4 DEF Evict, SetSlot
  <2>5. CASE RawBorrow(s)
    BY <2>5 DEF RawBorrow, SetSlot
  <2>6. CASE RawRelease(s)
    BY <2>6 DEF RawRelease, GiveBack, SetSlot
  <2> QED
    BY <1>4, <2>1, <2>2, <2>3, <2>4, <2>5, <2>6 DEF NativeSlotStep
<1>5. ASSUME CleanupStep PROVE ConfirmInv'
  <2>1. CASE CleanupClose
    BY <2>1 DEF CleanupClose
  <2>2. CASE NativeCloseReturns
    BY <2>2 DEF NativeCloseReturns
  <2>3. CASE CleanupSignal
    BY <2>3 DEF CleanupSignal
  <2> QED
    BY <1>5, <2>1, <2>2, <2>3 DEF CleanupStep
<1>6. CASE UNCHANGED vars
  BY <1>6 DEF vars
<1> QED
  BY <1>1, <1>2, <1>3, <1>4, <1>5, <1>6 DEF Next

\* A late call gets no further than its observation.
LEMMA LateStep ==
  ASSUME TypeOK, LifecycleInv, CallInv, SlotInv, LateCallsRefused, [Next]_vars
  PROVE  LateCallsRefused'
<1> USE PoolAssumption DEF lifecycle, slots, calls, TypeOK, LifecycleInv,
          CallInv, SlotInv, LateCallsRefused, Busy
<1>1. ASSUME NEW c \in Calls, CallStep(c)
      PROVE  LateCallsRefused'
  <2>1. CASE Acquire(c)
    BY <2>1 DEF Acquire, Admit, Enter
  <2>2. CASE Ping(c)
    BY <2>2 DEF Ping, Admit, Enter
  <2>3. CASE ShutdownNil(c)
    BY <2>3 DEF ShutdownNil, Enter
  <2>4. CASE Shutdown(c)
    BY <2>4 DEF Shutdown, Enter
  <2>5. CASE AcquireSample(c)
    BY <2>5 DEF AcquireSample
  <2>6. CASE AcquireResult(c)
    BY <2>6 DEF AcquireResult, Classified, AcquireError, CauseIsAcquireTimeout
  <2>7. CASE PingResult(c)
    BY <2>7 DEF PingResult, Classified, PingError
  <2>8. CASE ShutdownOnce(c)
    BY <2>8 DEF ShutdownOnce
  <2>9. CASE ShutdownDone(c)
    BY <2>9 DEF ShutdownDone, ShutdownReturns
  <2>10. CASE ShutdownCtx(c)
    BY <2>10 DEF ShutdownCtx, ShutdownReturns, CtxErr, CtxDone
  <2>11. CASE Observe(c)
    BY <2>11 DEF Observe, Returns
  <2>12. CASE ObserverExit(c)
    BY <2>12 DEF ObserverExit, Returns
  <2>13. CASE Release(c)
    BY <2>13 DEF Release, GiveBack, SetSlot, Held
  <2> QED
    BY <1>1, <2>1, <2>2, <2>3, <2>4, <2>5, <2>6, <2>7, <2>8, <2>9, <2>10, <2>11, <2>12, <2>13 DEF CallStep
<1>2. ASSUME NEW c \in Calls, ContextStep(c)
      PROVE  LateCallsRefused'
  <2>1. CASE Cancel(c)
    BY <2>1 DEF Cancel, EndCtx
  <2>2. CASE Expire(c)
    BY <2>2 DEF Expire, EndCtx
  <2> QED
    BY <1>2, <2>1, <2>2 DEF ContextStep
<1>3. ASSUME NEW c \in Calls, NativeCallStep(c)
      PROVE  LateCallsRefused'
  <2>1. CASE TakeIdle(c)
    BY <2>1 DEF TakeIdle, Granted, SetSlot, Waiting, Held
  <2>2. CASE Dial(c)
    BY <2>2 DEF Dial, SetSlot, Waiting, Held
  <2>3. CASE GiveUp(c)
    BY <2>3 DEF GiveUp, NativeReturns, CtxErr, CtxDone
  <2>4. CASE Refuse(c)
    BY <2>4 DEF Refuse, NativeReturns, Waiting, Held
  <2>5. CASE Probe(c)
    BY <2>5 DEF Probe, GiveBack, SetSlot, Held, NativeReturns, CtxErr
  <2> QED
    BY <1>3, <2>1, <2>2, <2>3, <2>4, <2>5 DEF NativeCallStep
<1>4. ASSUME NEW s \in Slots, NativeSlotStep(s)
      PROVE  LateCallsRefused'
  <2>1. CASE DialOK(s)
    <3>1. CASE owner[s] \in Calls
      BY <2>1, <3>1 DEF DialOK, SetSlot, Granted
    <3>2. CASE owner[s] \notin Calls
      BY <2>1, <3>2 DEF DialOK, SetSlot, GiveBack
    <3> QED
      BY <3>1, <3>2
  <2>2. CASE DialFail(s)
    <3>1. CASE owner[s] \in Calls
      <4> PICK e \in DialErrors : NativeReturns(owner[s], e)
        BY <2>2, <3>1 DEF DialFail
      <4>1. e \in {{"Connect"}, {"DeadlineExceeded"}, {"Canceled"}}
        BY DEF DialErrors
      <4> QED
        BY <2>2, <3>1, <4>1 DEF DialFail, SetSlot, NativeReturns
    <3>2. CASE owner[s] \notin Calls
      BY <2>2, <3>2 DEF DialFail, SetSlot
    <3> QED
      BY <3>1, <3>2
  <2>3. CASE BackgroundDial(s)
    BY <2>3 DEF BackgroundDial, SetSlot
  <2>4. CASE Evict(s)
    BY <2>4 DEF Evict, SetSlot
  <2>5. CASE RawBorrow(s)
    BY <2>5 DEF RawBorrow, SetSlot
  <2>6. CASE RawRelease(s)
    BY <2>6 DEF RawRelease, GiveBack, SetSlot
  <2> QED
    BY <1>4, <2>1, <2>2, <2>3, <2>4, <2>5, <2>6 DEF NativeSlotStep
<1>5. ASSUME CleanupStep PROVE LateCallsRefused'
  <2>1. CASE CleanupClose
    BY <2>1 DEF CleanupClose
  <2>2. CASE NativeCloseReturns
    BY <2>2 DEF NativeCloseReturns
  <2>3. CASE CleanupSignal
    BY <2>3 DEF CleanupSignal
  <2> QED
    BY <1>5, <2>1, <2>2, <2>3 DEF CleanupStep
<1>6. CASE UNCHANGED vars
  BY <1>6 DEF vars
<1> QED
  BY <1>1, <1>2, <1>3, <1>4, <1>5, <1>6 DEF Next

\* Slots change owner only as the native pool and the callers hand them over.
LEMMA SlotStep ==
  ASSUME TypeOK, LifecycleInv, CallInv, SlotInv, [Next]_vars
  PROVE  SlotInv'
<1> USE PoolAssumption DEF lifecycle, slots, calls, TypeOK, LifecycleInv,
          CallInv, SlotInv, Busy, Holders
<1>1. ASSUME NEW c \in Calls, CallStep(c)
      PROVE  SlotInv'
  <2>1. CASE Acquire(c)
    BY <2>1 DEF Acquire, Admit, Enter, CanCall, Held
  <2>2. CASE Ping(c)
    BY <2>2 DEF Ping, Admit, Enter, CanCall, Held
  <2>3. CASE ShutdownNil(c)
    BY <2>3 DEF ShutdownNil, Enter, CanCall, Held
  <2>4. CASE Shutdown(c)
    BY <2>4 DEF Shutdown, Enter, CanCall, Held
  <2>5. CASE AcquireSample(c)
    BY <2>5 DEF AcquireSample
  <2>6. CASE AcquireResult(c)
    BY <2>6 DEF AcquireResult, Classified, AcquireError, CauseIsAcquireTimeout
  <2>7. CASE PingResult(c)
    BY <2>7 DEF PingResult, Classified, PingError
  <2>8. CASE ShutdownOnce(c)
    BY <2>8 DEF ShutdownOnce
  <2>9. CASE ShutdownDone(c)
    BY <2>9 DEF ShutdownDone, ShutdownReturns
  <2>10. CASE ShutdownCtx(c)
    BY <2>10 DEF ShutdownCtx, ShutdownReturns, CtxErr, CtxDone
  <2>11. CASE Observe(c)
    BY <2>11 DEF Observe, Returns
  <2>12. CASE ObserverExit(c)
    BY <2>12 DEF ObserverExit, Returns
  <2>13. CASE Release(c)
    BY <2>13 DEF Release, GiveBack, SetSlot, Held
  <2> QED
    BY <1>1, <2>1, <2>2, <2>3, <2>4, <2>5, <2>6, <2>7, <2>8, <2>9, <2>10, <2>11, <2>12, <2>13 DEF CallStep
<1>2. ASSUME NEW c \in Calls, ContextStep(c)
      PROVE  SlotInv'
  <2>1. CASE Cancel(c)
    BY <2>1 DEF Cancel, EndCtx
  <2>2. CASE Expire(c)
    BY <2>2 DEF Expire, EndCtx
  <2> QED
    BY <1>2, <2>1, <2>2 DEF ContextStep
<1>3. ASSUME NEW c \in Calls, NativeCallStep(c)
      PROVE  SlotInv'
  <2>1. CASE TakeIdle(c)
    BY <2>1 DEF TakeIdle, Granted, SetSlot, Waiting, Held
  <2>2. CASE Dial(c)
    BY <2>2 DEF Dial, SetSlot, Waiting, Held
  <2>3. CASE GiveUp(c)
    BY <2>3 DEF GiveUp, NativeReturns, CtxErr, CtxDone
  <2>4. CASE Refuse(c)
    BY <2>4 DEF Refuse, NativeReturns, Waiting, Held
  <2>5. CASE Probe(c)
    BY <2>5 DEF Probe, GiveBack, SetSlot, Held, NativeReturns, CtxErr
  <2> QED
    BY <1>3, <2>1, <2>2, <2>3, <2>4, <2>5 DEF NativeCallStep
<1>4. ASSUME NEW s \in Slots, NativeSlotStep(s)
      PROVE  SlotInv'
  <2>1. CASE DialOK(s)
    <3>1. CASE owner[s] \in Calls
      BY <2>1, <3>1 DEF DialOK, SetSlot, Granted
    <3>2. CASE owner[s] \notin Calls
      BY <2>1, <3>2 DEF DialOK, SetSlot, GiveBack
    <3> QED
      BY <3>1, <3>2
  <2>2. CASE DialFail(s)
    <3>1. CASE owner[s] \in Calls
      <4> PICK e \in DialErrors : NativeReturns(owner[s], e)
        BY <2>2, <3>1 DEF DialFail
      <4>1. e \in {{"Connect"}, {"DeadlineExceeded"}, {"Canceled"}}
        BY DEF DialErrors
      <4> QED
        BY <2>2, <3>1, <4>1 DEF DialFail, SetSlot, NativeReturns
    <3>2. CASE owner[s] \notin Calls
      BY <2>2, <3>2 DEF DialFail, SetSlot
    <3> QED
      BY <3>1, <3>2
  <2>3. CASE BackgroundDial(s)
    BY <2>3 DEF BackgroundDial, SetSlot
  <2>4. CASE Evict(s)
    BY <2>4 DEF Evict, SetSlot
  <2>5. CASE RawBorrow(s)
    BY <2>5 DEF RawBorrow, SetSlot
  <2>6. CASE RawRelease(s)
    BY <2>6 DEF RawRelease, GiveBack, SetSlot
  <2> QED
    BY <1>4, <2>1, <2>2, <2>3, <2>4, <2>5, <2>6 DEF NativeSlotStep
<1>5. ASSUME CleanupStep PROVE SlotInv'
  <2>1. CASE CleanupClose
    BY <2>1 DEF CleanupClose
  <2>2. CASE NativeCloseReturns
    BY <2>2 DEF NativeCloseReturns
  <2>3. CASE CleanupSignal
    BY <2>3 DEF CleanupSignal
  <2> QED
    BY <1>5, <2>1, <2>2, <2>3 DEF CleanupStep
<1>6. CASE UNCHANGED vars
  BY <1>6 DEF vars
<1> QED
  BY <1>1, <1>2, <1>3, <1>4, <1>5, <1>6 DEF Next

\* Samples stay within the slots.
LEMMA StatsStep ==
  ASSUME TypeOK, StatsInv, [Next]_vars
  PROVE  StatsInv'
<1> USE PoolAssumption DEF lifecycle, slots, calls, TypeOK, StatsInv
<1>1. ASSUME NEW c \in Calls, CallStep(c)
      PROVE  StatsInv'
  <2>1. CASE Acquire(c)
    BY <2>1 DEF Acquire, Admit, Enter
  <2>2. CASE Ping(c)
    BY <2>2 DEF Ping, Admit, Enter
  <2>3. CASE ShutdownNil(c)
    BY <2>3 DEF ShutdownNil, Enter
  <2>4. CASE Shutdown(c)
    BY <2>4 DEF Shutdown, Enter
  <2>5. CASE AcquireSample(c)
    BY <2>5, StatsBounds DEF AcquireSample
  <2>6. CASE AcquireResult(c)
    BY <2>6 DEF AcquireResult, Classified, AcquireError, CauseIsAcquireTimeout
  <2>7. CASE PingResult(c)
    BY <2>7 DEF PingResult, Classified, PingError
  <2>8. CASE ShutdownOnce(c)
    BY <2>8 DEF ShutdownOnce
  <2>9. CASE ShutdownDone(c)
    BY <2>9 DEF ShutdownDone, ShutdownReturns
  <2>10. CASE ShutdownCtx(c)
    BY <2>10 DEF ShutdownCtx, ShutdownReturns, CtxErr, CtxDone
  <2>11. CASE Observe(c)
    BY <2>11 DEF Observe, Returns, ZeroStats
  <2>12. CASE ObserverExit(c)
    BY <2>12 DEF ObserverExit, Returns, ZeroStats
  <2>13. CASE Release(c)
    BY <2>13 DEF Release, GiveBack, SetSlot, Held
  <2> QED
    BY <1>1, <2>1, <2>2, <2>3, <2>4, <2>5, <2>6, <2>7, <2>8, <2>9, <2>10, <2>11, <2>12, <2>13 DEF CallStep
<1>2. ASSUME NEW c \in Calls, ContextStep(c)
      PROVE  StatsInv'
  <2>1. CASE Cancel(c)
    BY <2>1 DEF Cancel, EndCtx
  <2>2. CASE Expire(c)
    BY <2>2 DEF Expire, EndCtx
  <2> QED
    BY <1>2, <2>1, <2>2 DEF ContextStep
<1>3. ASSUME NEW c \in Calls, NativeCallStep(c)
      PROVE  StatsInv'
  <2>1. CASE TakeIdle(c)
    BY <2>1 DEF TakeIdle, Granted, SetSlot, Waiting, Held
  <2>2. CASE Dial(c)
    BY <2>2 DEF Dial, SetSlot, Waiting, Held
  <2>3. CASE GiveUp(c)
    BY <2>3 DEF GiveUp, NativeReturns, CtxErr, CtxDone
  <2>4. CASE Refuse(c)
    BY <2>4 DEF Refuse, NativeReturns, Waiting, Held
  <2>5. CASE Probe(c)
    BY <2>5 DEF Probe, GiveBack, SetSlot, Held, NativeReturns, CtxErr
  <2> QED
    BY <1>3, <2>1, <2>2, <2>3, <2>4, <2>5 DEF NativeCallStep
<1>4. ASSUME NEW s \in Slots, NativeSlotStep(s)
      PROVE  StatsInv'
  <2>1. CASE DialOK(s)
    BY <2>1 DEF DialOK, SetSlot, Granted, GiveBack
  <2>2. CASE DialFail(s)
    BY <2>2 DEF DialFail, SetSlot, NativeReturns, DialErrors
  <2>3. CASE BackgroundDial(s)
    BY <2>3 DEF BackgroundDial, SetSlot
  <2>4. CASE Evict(s)
    BY <2>4 DEF Evict, SetSlot
  <2>5. CASE RawBorrow(s)
    BY <2>5 DEF RawBorrow, SetSlot
  <2>6. CASE RawRelease(s)
    BY <2>6 DEF RawRelease, GiveBack, SetSlot
  <2> QED
    BY <1>4, <2>1, <2>2, <2>3, <2>4, <2>5, <2>6 DEF NativeSlotStep
<1>5. ASSUME CleanupStep PROVE StatsInv'
  <2>1. CASE CleanupClose
    BY <2>1 DEF CleanupClose
  <2>2. CASE NativeCloseReturns
    BY <2>2 DEF NativeCloseReturns
  <2>3. CASE CleanupSignal
    BY <2>3 DEF CleanupSignal
  <2> QED
    BY <1>5, <2>1, <2>2, <2>3 DEF CleanupStep
<1>6. CASE UNCHANGED vars
  BY <1>6 DEF vars
<1> QED
  BY <1>1, <1>2, <1>3, <1>4, <1>5, <1>6 DEF Next

\* The labels of a timeout are decided once, from the cause and the sample.
LEMMA ExhaustionStep ==
  ASSUME TypeOK, CallInv, SlotInv, StatsInv, ExhaustionAttribution, [Next]_vars
  PROVE  ExhaustionAttribution'
<1> USE PoolAssumption DEF lifecycle, slots, calls, TypeOK, CallInv,
          SlotInv, ExhaustionAttribution, Busy
<1>1. ASSUME NEW c \in Calls, CallStep(c)
      PROVE  ExhaustionAttribution'
  <2>1. CASE Acquire(c)
    BY <2>1 DEF Acquire, Admit, Enter
  <2>2. CASE Ping(c)
    BY <2>2 DEF Ping, Admit, Enter
  <2>3. CASE ShutdownNil(c)
    BY <2>3 DEF ShutdownNil, Enter
  <2>4. CASE Shutdown(c)
    BY <2>4 DEF Shutdown, Enter
  <2>5. CASE AcquireSample(c)
    BY <2>5 DEF AcquireSample
  <2>6. CASE AcquireResult(c)
    <3>1. /\ pc[c] = "classify"
          /\ err' = [err EXCEPT ![c] = AcquireError(c)]
          /\ UNCHANGED <<ctx, stats>>
          /\ \A d \in Calls \ {c} : pc'[d] = pc[d]
      BY <2>6 DEF AcquireResult, Classified
    <3>2. err[c] \cap {"AcquireTimeout", "PoolExhausted"} = {}
      BY <3>1
    <3>3. "AcquireTimeout" \in err'[c] => ctx[c] = "timeout"
      BY <3>1, <3>2 DEF AcquireError, CauseIsAcquireTimeout
    <3>4. "PoolExhausted" \in err'[c] =>
            /\ "AcquireTimeout" \in err'[c]
            /\ poolIsSaturated(stats[c])
      BY <3>1, <3>2 DEF AcquireError
    <3>5. poolIsSaturated(stats[c]) =>
            /\ stats[c].IdleConns = 0
            /\ stats[c].AcquiredConns + stats[c].ConstructingConns
                 = stats[c].MaxConns
      BY SaturationIsFull DEF StatsInv
    <3> QED
      BY <3>1, <3>3, <3>4, <3>5
  <2>7. CASE PingResult(c)
    BY <2>7 DEF PingResult, Classified, PingError
  <2>8. CASE ShutdownOnce(c)
    BY <2>8 DEF ShutdownOnce
  <2>9. CASE ShutdownDone(c)
    BY <2>9 DEF ShutdownDone, ShutdownReturns
  <2>10. CASE ShutdownCtx(c)
    BY <2>10 DEF ShutdownCtx, ShutdownReturns, CtxErr, CtxDone
  <2>11. CASE Observe(c)
    BY <2>11 DEF Observe, Returns
  <2>12. CASE ObserverExit(c)
    BY <2>12 DEF ObserverExit, Returns
  <2>13. CASE Release(c)
    BY <2>13 DEF Release, GiveBack, SetSlot, Held
  <2> QED
    BY <1>1, <2>1, <2>2, <2>3, <2>4, <2>5, <2>6, <2>7, <2>8, <2>9, <2>10, <2>11, <2>12, <2>13 DEF CallStep
<1>2. ASSUME NEW c \in Calls, ContextStep(c)
      PROVE  ExhaustionAttribution'
  <2>1. CASE Cancel(c)
    BY <2>1 DEF Cancel, EndCtx
  <2>2. CASE Expire(c)
    BY <2>2 DEF Expire, EndCtx
  <2> QED
    BY <1>2, <2>1, <2>2 DEF ContextStep
<1>3. ASSUME NEW c \in Calls, NativeCallStep(c)
      PROVE  ExhaustionAttribution'
  <2>1. CASE TakeIdle(c)
    BY <2>1 DEF TakeIdle, Granted, SetSlot, Waiting, Held
  <2>2. CASE Dial(c)
    BY <2>2 DEF Dial, SetSlot, Waiting, Held
  <2>3. CASE GiveUp(c)
    BY <2>3 DEF GiveUp, NativeReturns, CtxErr, CtxDone
  <2>4. CASE Refuse(c)
    BY <2>4 DEF Refuse, NativeReturns, Waiting, Held
  <2>5. CASE Probe(c)
    BY <2>5 DEF Probe, GiveBack, SetSlot, Held, NativeReturns, CtxErr
  <2> QED
    BY <1>3, <2>1, <2>2, <2>3, <2>4, <2>5 DEF NativeCallStep
<1>4. ASSUME NEW s \in Slots, NativeSlotStep(s)
      PROVE  ExhaustionAttribution'
  <2>1. CASE DialOK(s)
    <3>1. CASE owner[s] \in Calls
      BY <2>1, <3>1 DEF DialOK, SetSlot, Granted
    <3>2. CASE owner[s] \notin Calls
      BY <2>1, <3>2 DEF DialOK, SetSlot, GiveBack
    <3> QED
      BY <3>1, <3>2
  <2>2. CASE DialFail(s)
    <3>1. CASE owner[s] \in Calls
      <4> PICK e \in DialErrors : NativeReturns(owner[s], e)
        BY <2>2, <3>1 DEF DialFail
      <4>1. e \in {{"Connect"}, {"DeadlineExceeded"}, {"Canceled"}}
        BY DEF DialErrors
      <4> QED
        BY <2>2, <3>1, <4>1 DEF DialFail, SetSlot, NativeReturns
    <3>2. CASE owner[s] \notin Calls
      BY <2>2, <3>2 DEF DialFail, SetSlot
    <3> QED
      BY <3>1, <3>2
  <2>3. CASE BackgroundDial(s)
    BY <2>3 DEF BackgroundDial, SetSlot
  <2>4. CASE Evict(s)
    BY <2>4 DEF Evict, SetSlot
  <2>5. CASE RawBorrow(s)
    BY <2>5 DEF RawBorrow, SetSlot
  <2>6. CASE RawRelease(s)
    BY <2>6 DEF RawRelease, GiveBack, SetSlot
  <2> QED
    BY <1>4, <2>1, <2>2, <2>3, <2>4, <2>5, <2>6 DEF NativeSlotStep
<1>5. ASSUME CleanupStep PROVE ExhaustionAttribution'
  <2>1. CASE CleanupClose
    BY <2>1 DEF CleanupClose
  <2>2. CASE NativeCloseReturns
    BY <2>2 DEF NativeCloseReturns
  <2>3. CASE CleanupSignal
    BY <2>3 DEF CleanupSignal
  <2> QED
    BY <1>5, <2>1, <2>2, <2>3 DEF CleanupStep
<1>6. CASE UNCHANGED vars
  BY <1>6 DEF vars
<1> QED
  BY <1>1, <1>2, <1>3, <1>4, <1>5, <1>6 DEF Next

-----------------------------------------------------------------------------
LEMMA InitInv == Init => IInv
<1> SUFFICES ASSUME Init PROVE IInv
  OBVIOUS
<1> USE PoolAssumption DEF Init
<1>1. TypeOK
  BY DEF TypeOK, SlotStates, Holders, Locations, Operations, Contexts,
         CallerContexts, Sentinels, ZeroStats
<1>2. LifecycleInv /\ CallInv /\ ConfirmInv /\ LateCallsRefused /\ SlotInv
  BY DEF LifecycleInv, CallInv, Busy, ConfirmInv, LateCallsRefused, SlotInv
<1>3. StatsInv /\ ExhaustionAttribution
  BY DEF StatsInv, ExhaustionAttribution, ZeroStats
<1> QED
  BY <1>1, <1>2, <1>3 DEF IInv

\* Every step of the pool keeps IInv.
LEMMA InvStep == IInv /\ [Next]_vars => IInv'
BY TypeStep, LifecycleStep, CallInvStep, ConfirmStep, LateStep, SlotStep,
   StatsStep, ExhaustionStep DEF IInv

\* IInv is an invariant of the specification.
THEOREM Invariance == Spec => []IInv
BY InitInv, InvStep, PTL DEF Spec

\* Every variable keeps its type, for any callers and any number of slots.
THEOREM TypeCorrect == Spec => []TypeOK
<1>1. IInv => TypeOK
  BY DEF IInv
<1> QED
  BY Invariance, <1>1, PTL

(***************************************************************************)
(* The native pool is closed at most once, only behind closed admission,   *)
(* and the signal follows the close, however many goroutines shut down.    *)
(***************************************************************************)
THEOREM ClosesOnce == Spec => []CloseOnce
<1>1. IInv => CloseOnce
  BY DEF IInv, TypeOK, LifecycleInv, CloseOnce
<1> QED
  BY Invariance, <1>1, PTL

\* No Acquire or Ping that begins after a Shutdown reaches the native pool.
THEOREM RefusesLateCalls == Spec => []LateCallsRefused
<1>1. IInv => LateCallsRefused
  BY DEF IInv
<1> QED
  BY Invariance, <1>1, PTL

(***************************************************************************)
(* A nil result of Shutdown proves that every connection is gone.          *)
(***************************************************************************)
THEOREM ConfirmsDrained == Spec => []ConfirmedMeansDrained
<1>1. IInv => ConfirmedMeansDrained
  BY DEF IInv, TypeOK, LifecycleInv, ConfirmInv, SlotInv, ConfirmedMeansDrained
<1> QED
  BY Invariance, <1>1, PTL

(***************************************************************************)
(* ErrAcquireTimeout and ErrPoolExhausted are never misattributed, for any *)
(* MaxConns.                                                               *)
(***************************************************************************)
THEOREM AttributesExhaustion == Spec => []ExhaustionAttribution
<1>1. IInv => ExhaustionAttribution
  BY DEF IInv
<1> QED
  BY Invariance, <1>1, PTL

(***************************************************************************)
(* No connection is lost as long as no observer ends its goroutine.        *)
(***************************************************************************)
THEOREM LosesNoConnection ==
  ASSUME ~ObserverMayExit
  PROVE  Spec => []NoLostConnection
<1>1. IInv => NoLostConnection
  BY DEF IInv, CallInv, SlotInv, NoLostConnection
<1> QED
  BY Invariance, <1>1, PTL
=============================================================================
