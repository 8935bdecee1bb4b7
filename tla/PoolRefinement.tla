--------------------------- MODULE PoolRefinement ---------------------------
(***************************************************************************)
(* Pool implements PoolContract for any set of calls and any finite set of *)
(* slots: each step of the pool is a step of the contract or changes       *)
(* nothing the contract speaks of.                                         *)
(***************************************************************************)
EXTENDS PoolProofs

-----------------------------------------------------------------------------
\* A step the contract allows.
ContractStep == [Contract!Next]_Contract!cvars

(***************************************************************************)
(* The contract's own actions, for a pool step that is known by its effect *)
(* on the five mapped values.                                              *)
(***************************************************************************)
LEMMA Stutters ==
  ASSUME closed' = closed, InFlight' = InFlight, Lent' = Lent,
         native' = native, Confirmed' = Confirmed
  PROVE  ContractStep
BY DEF ContractStep, Contract!cvars

LEMMA Begins ==
  ASSUME NEW c \in Calls, ~closed, closed' = closed,
         InFlight' = InFlight \cup {c}, Lent' = Lent, native' = native,
         Confirmed' = Confirmed
  PROVE  ContractStep
<1>1. Contract!Begin(c)
  BY DEF Contract!Begin
<1> QED
  BY <1>1 DEF ContractStep, Contract!Next

LEMMA Ends ==
  ASSUME NEW c \in Calls, closed' = closed, InFlight' = InFlight \ {c},
         Lent' = Lent, native' = native, Confirmed' = Confirmed
  PROVE  ContractStep
<1>1. Contract!End(c)
  BY DEF Contract!End
<1> QED
  BY <1>1 DEF ContractStep, Contract!Next

LEMMA Forgets ==
  ASSUME NEW c \in Calls, closed' = closed, InFlight' = InFlight,
         Lent' = Lent, native' = native, Confirmed' = Confirmed \ {c}
  PROVE  ContractStep
<1>1. Contract!Forget(c)
  BY DEF Contract!Forget
<1> QED
  BY <1>1 DEF ContractStep, Contract!Next

LEMMA Confirms ==
  ASSUME NEW c \in Calls, native = "closed", closed' = closed,
         InFlight' = InFlight, Lent' = Lent, native' = native,
         Confirmed' = Confirmed \cup {c}
  PROVE  ContractStep
<1>1. Contract!Confirm(c)
  BY DEF Contract!Confirm
<1> QED
  BY <1>1 DEF ContractStep, Contract!Next

LEMMA Lends ==
  ASSUME NEW s \in Slots, NEW who \in (InFlight \cup {"raw"}),
         native # "closed", Lent[s] = "nobody",
         Lent' = [Lent EXCEPT ![s] = who],
         closed' = closed, InFlight' = InFlight, native' = native,
         Confirmed' = Confirmed
  PROVE  ContractStep
<1>1. Contract!Lend(s, who)
  BY DEF Contract!Lend
<1>2. who \in Calls \cup {"raw"}
  BY DEF InFlight
<1> QED
  BY <1>1, <1>2 DEF ContractStep, Contract!Next

LEMMA TakesBack ==
  ASSUME NEW s \in Slots, Lent' = [Lent EXCEPT ![s] = "nobody"],
         closed' = closed, InFlight' = InFlight, native' = native,
         Confirmed' = Confirmed
  PROVE  ContractStep
<1>1. Contract!GiveBack(s)
  BY DEF Contract!GiveBack
<1> QED
  BY <1>1 DEF ContractStep, Contract!Next

-----------------------------------------------------------------------------
\* No call is told that the pool is drained before admission closes.
LEMMA NoneConfirmedWhileOpen ==
  ASSUME IInv, ~closed
  PROVE  Confirmed = {}
BY DEF IInv, TypeOK, LifecycleInv, ConfirmInv, Confirmed

\* A connection that goes back is lent to nobody.
LEMMA GivenBack ==
  ASSUME IInv, NEW s \in Slots, GiveBack(s)
  PROVE  Lent' = [Lent EXCEPT ![s] = "nobody"]
<1>1. PICK st \in {"idle", "none"} : SetSlot(s, st, "nobody")
  BY Zenon DEF GiveBack
<1> QED
  BY <1>1 DEF SetSlot, Lent, IInv, TypeOK

\* Beginning a call: admitted, refused, or not about the native pool.
LEMMA EnterMaps ==
  ASSUME IInv, NEW c \in Calls, NEW o \in Operations, NEW x, NEW p \in Locations,
         NEW e \in SUBSET Sentinels, Enter(c, o, x, p, e), slot' = slot,
         owner' = owner, o # "Shutdown" \/ p \notin {"observe", "done"} \/ e # {}
  PROVE  /\ Lent' = Lent
         /\ Confirmed' = Confirmed \ {c}
         /\ InFlight' = IF p \in Busy THEN InFlight \cup {c} ELSE InFlight
<1> USE DEF Enter, CanCall, IInv, TypeOK
<1>1. Lent' = Lent
  BY DEF Lent
<1>2. Confirmed' = Confirmed \ {c}
  BY DEF Confirmed
<1>3. InFlight' = IF p \in Busy THEN InFlight \cup {c} ELSE InFlight
  BY DEF InFlight, Busy
<1> QED
  BY <1>1, <1>2, <1>3

\* Acquire and Ping map to Begin when admitted and to Forget when refused.
LEMMA AdmitMaps ==
  ASSUME IInv, NEW c \in Calls, NEW o \in {"Acquire", "Ping"}, Admit(c, o)
  PROVE  ContractStep
<1>1. closed' = closed /\ native' = native /\ slot' = slot /\ owner' = owner
  BY DEF Admit, lifecycle, slots
<1>2. PICK x \in CallerContexts :
         \/ closed /\ Enter(c, o, x, "observe", {"PoolClosed"})
         \/ ~closed /\ Enter(c, o, x, "native", {})
  BY DEF Admit
<1>3. o \in Operations /\ o # "Shutdown"
  BY DEF Operations
<1>4. CASE closed /\ Enter(c, o, x, "observe", {"PoolClosed"})
  <2>1. {"PoolClosed"} \in SUBSET Sentinels /\ "observe" \in Locations /\ "observe" \notin Busy
    BY DEF Sentinels, Locations, Busy
  <2>2. Lent' = Lent /\ Confirmed' = Confirmed \ {c} /\ InFlight' = InFlight
    BY <1>1, <1>3, <1>4, <2>1, EnterMaps
  <2> QED
    BY <1>1, <2>2, Forgets
<1>5. CASE ~closed /\ Enter(c, o, x, "native", {})
  <2>1. {} \in SUBSET Sentinels /\ "native" \in Locations /\ "native" \in Busy
    BY DEF Sentinels, Locations, Busy
  <2>2. /\ Lent' = Lent /\ Confirmed' = Confirmed \ {c}
        /\ InFlight' = InFlight \cup {c}
    BY <1>1, <1>3, <1>5, <2>1, EnterMaps
  <2>3. Confirmed' = Confirmed
    BY <1>5, <2>2, NoneConfirmedWhileOpen
  <2> QED
    BY <1>1, <1>5, <2>2, <2>3, Begins
<1> QED
  BY <1>2, <1>4, <1>5

\* The step of a call inside one of the pool's operations.
LEMMA CallStepMaps ==
  ASSUME IInv, NEW c \in Calls, CallStep(c)
  PROVE  ContractStep
<1> USE DEF lifecycle, slots, calls
<1>1. CASE Acquire(c)
  BY <1>1, AdmitMaps DEF Acquire
<1>2. CASE Ping(c)
  BY <1>2, AdmitMaps DEF Ping
<1>3. CASE ShutdownNil(c)
  <2>1. /\ {"ContextRequired"} \in SUBSET Sentinels /\ "done" \in Locations
        /\ "done" \notin Busy /\ "Shutdown" \in Operations
    BY DEF Sentinels, Locations, Busy, Operations
  <2>2. closed' = closed /\ native' = native /\ slot' = slot /\ owner' = owner
    BY <1>3 DEF ShutdownNil
  <2>3. Lent' = Lent /\ Confirmed' = Confirmed \ {c} /\ InFlight' = InFlight
    BY <1>3, <2>1, <2>2, EnterMaps DEF ShutdownNil
  <2> QED
    BY <2>2, <2>3, Forgets
<1>4. CASE Shutdown(c)
  <2>1. /\ {} \in SUBSET Sentinels /\ "once" \in Locations /\ "once" \notin Busy
        /\ "Shutdown" \in Operations
    BY DEF Sentinels, Locations, Busy, Operations
  <2>2. closed' = TRUE /\ native' = native /\ slot' = slot /\ owner' = owner
    BY <1>4 DEF Shutdown
  <2>3. Lent' = Lent /\ Confirmed' = Confirmed \ {c} /\ InFlight' = InFlight
    BY <1>4, <2>1, <2>2, EnterMaps DEF Shutdown
  <2>4. CASE closed
    <3>1. closed' = closed
      BY <2>2, <2>4 DEF IInv, TypeOK
    <3> QED
      BY <2>2, <2>3, <3>1, Forgets
  <2>5. CASE ~closed
    <3>1. Confirmed' = Confirmed
      BY <2>3, <2>5, NoneConfirmedWhileOpen
    <3>2. Contract!Shut
      BY <2>2, <2>3, <3>1 DEF Contract!Shut
    <3> QED
      BY <3>2 DEF ContractStep, Contract!Next
  <2> QED
    BY <2>4, <2>5
<1>5. CASE AcquireSample(c)
  <2>1. InFlight' = InFlight /\ Lent' = Lent /\ Confirmed' = Confirmed
    BY <1>5 DEF AcquireSample, InFlight, Lent, Confirmed, IInv, TypeOK, CallInv, Busy
  <2> QED
    BY <1>5, <2>1, Stutters DEF AcquireSample
<1>6. ASSUME NEW e, op[c] # "Shutdown", Classified(c, e)
      PROVE  ContractStep
  <2>1. InFlight' = InFlight \ {c} /\ Lent' = Lent /\ Confirmed' = Confirmed
    BY <1>6 DEF Classified, InFlight, Lent, Confirmed, IInv, TypeOK
  <2> QED
    BY <1>6, <2>1, Ends DEF Classified
<1>7. CASE AcquireResult(c) \/ PingResult(c)
  BY <1>6, <1>7 DEF AcquireResult, PingResult
<1>8. CASE ShutdownOnce(c)
  <2>1. InFlight' = InFlight /\ Lent' = Lent /\ Confirmed' = Confirmed
    BY <1>8 DEF ShutdownOnce, InFlight, Lent, Confirmed, IInv, TypeOK
  <2> QED
    BY <1>8, <2>1, Stutters DEF ShutdownOnce
<1>9. CASE ShutdownDone(c)
  <2>1. /\ InFlight' = InFlight /\ Lent' = Lent
        /\ Confirmed' = Confirmed \cup {c}
    BY <1>9 DEF ShutdownDone, ShutdownReturns, InFlight, Lent, Confirmed, IInv,
                TypeOK, CallInv
  <2>2. native = "closed"
    BY <1>9 DEF ShutdownDone, IInv, TypeOK, LifecycleInv
  <2> QED
    BY <1>9, <2>1, <2>2, Confirms DEF ShutdownDone, ShutdownReturns
<1>10. CASE ShutdownCtx(c)
  <2>1. InFlight' = InFlight /\ Lent' = Lent /\ Confirmed' = Confirmed
    BY <1>10 DEF ShutdownCtx, ShutdownReturns, InFlight, Lent, Confirmed, IInv, TypeOK
  <2> QED
    BY <1>10, <2>1, Stutters DEF ShutdownCtx, ShutdownReturns
<1>11. CASE Observe(c)
  <2>1. InFlight' = InFlight /\ Lent' = Lent /\ Confirmed' = Confirmed
    BY <1>11 DEF Observe, Returns, InFlight, Lent, Confirmed, IInv, TypeOK
  <2> QED
    BY <1>11, <2>1, Stutters DEF Observe, Returns
<1>12. CASE ObserverExit(c)
  <2>1. InFlight' = InFlight /\ Lent' = Lent /\ Confirmed' = Confirmed \ {c}
    BY <1>12 DEF ObserverExit, Returns, InFlight, Lent, Confirmed, IInv, TypeOK
  <2> QED
    BY <1>12, <2>1, Forgets DEF ObserverExit, Returns
<1>13. CASE Release(c)
  <2>1. PICK s \in Slots : GiveBack(s)
    BY <1>13 DEF Release, Held
  <2>2. InFlight' = InFlight /\ Confirmed' = Confirmed
    BY <1>13 DEF Release, InFlight, Confirmed
  <2> QED
    BY <1>13, <2>1, <2>2, GivenBack, TakesBack DEF Release
<1> QED
  BY <1>1, <1>2, <1>3, <1>4, <1>5, <1>7, <1>8, <1>9, <1>10, <1>11, <1>12, <1>13
     DEF CallStep

\* The native pool at work for a call: only a grant or a release shows.
LEMMA NativeCallStepMaps ==
  ASSUME IInv, NEW c \in Calls, NativeCallStep(c)
  PROVE  ContractStep
<1> USE DEF lifecycle, slots, calls
<1>1. CASE TakeIdle(c)
  <2>1. PICK s \in Slots : slot[s] = "idle" /\ SetSlot(s, "acquired", c)
    BY <1>1 DEF TakeIdle
  <2>2. Lent[s] = "nobody" /\ Lent' = [Lent EXCEPT ![s] = c]
    BY <2>1 DEF SetSlot, Lent, IInv, TypeOK
  <2>3. c \in InFlight /\ InFlight' = InFlight /\ Confirmed' = Confirmed
    BY <1>1 DEF TakeIdle, Waiting, Granted, InFlight, Confirmed, IInv, TypeOK
  <2> QED
    BY <1>1, <2>2, <2>3, Lends DEF TakeIdle
<1>2. CASE Dial(c)
  <2>1. Lent' = Lent
    BY <1>2 DEF Dial, SetSlot, Lent, IInv, TypeOK
  <2>2. InFlight' = InFlight /\ Confirmed' = Confirmed
    BY <1>2 DEF Dial, InFlight, Confirmed
  <2> QED
    BY <1>2, <2>1, <2>2, Stutters DEF Dial
<1>3. CASE GiveUp(c)
  <2>1. Lent' = Lent
    BY <1>3, PoolAssumption DEF GiveUp, Lent, IInv, TypeOK, SlotInv
  <2>2. InFlight' = InFlight /\ Confirmed' = Confirmed
    BY <1>3 DEF GiveUp, NativeReturns, InFlight, Confirmed, IInv, TypeOK, CallInv, Busy
  <2> QED
    BY <1>3, <2>1, <2>2, Stutters DEF GiveUp
<1>4. CASE Refuse(c)
  <2>1. Lent' = Lent
    BY <1>4 DEF Refuse, Lent
  <2>2. InFlight' = InFlight /\ Confirmed' = Confirmed
    BY <1>4 DEF Refuse, Waiting, NativeReturns, InFlight, Confirmed, IInv, TypeOK, CallInv, Busy
  <2> QED
    BY <1>4, <2>1, <2>2, Stutters DEF Refuse
<1>5. CASE Probe(c)
  <2>1. PICK s \in Slots : GiveBack(s)
    BY <1>5 DEF Probe, Held
  <2>2. PICK e : NativeReturns(c, e)
    BY <1>5 DEF Probe
  <2>3. InFlight' = InFlight /\ Confirmed' = Confirmed
    BY <1>5, <2>2 DEF Probe, NativeReturns, InFlight, Confirmed, IInv, TypeOK, CallInv, Busy
  <2> QED
    BY <1>5, <2>1, <2>3, GivenBack, TakesBack DEF Probe
<1> QED
  BY <1>1, <1>2, <1>3, <1>4, <1>5 DEF NativeCallStep

\* The native pool at work on a slot: a dial may end in a grant.
LEMMA NativeSlotStepMaps ==
  ASSUME IInv, NEW s \in Slots, NativeSlotStep(s)
  PROVE  ContractStep
<1> USE DEF lifecycle, slots, calls
<1>1. ASSUME UNCHANGED calls PROVE InFlight' = InFlight /\ Confirmed' = Confirmed
  BY <1>1 DEF InFlight, Confirmed
<1>2. CASE DialOK(s)
  <2>1. CASE owner[s] \in Calls
    <3>1. SetSlot(s, "acquired", owner[s]) /\ Granted(owner[s])
      BY <1>2, <2>1 DEF DialOK
    <3>2. Lent[s] = "nobody" /\ Lent' = [Lent EXCEPT ![s] = owner[s]]
      BY <1>2, <3>1 DEF DialOK, SetSlot, Lent, IInv, TypeOK
    <3>3. owner[s] \in InFlight /\ InFlight' = InFlight /\ Confirmed' = Confirmed
      BY <1>2, <2>1, <3>1 DEF DialOK, Granted, InFlight, Confirmed, IInv, TypeOK, SlotInv
    <3>4. native # "closed"
      BY <1>2 DEF DialOK, IInv, SlotInv
    <3> QED
      BY <1>2, <3>2, <3>3, <3>4, Lends DEF DialOK
  <2>2. CASE owner[s] \notin Calls
    BY <1>1, <1>2, <2>2, GivenBack, TakesBack DEF DialOK
  <2> QED
    BY <2>1, <2>2
<1>3. CASE DialFail(s)
  <2>1. Lent' = Lent
    BY <1>3 DEF DialFail, SetSlot, Lent, IInv, TypeOK
  <2>2. InFlight' = InFlight /\ Confirmed' = Confirmed
    <3>1. CASE owner[s] \in Calls
      <4>1. PICK e : NativeReturns(owner[s], e)
        BY <1>3, <3>1 DEF DialFail
      <4>2. pc[owner[s]] = "native" /\ op[owner[s]] \in {"Acquire", "Ping"}
        BY <1>3, <3>1 DEF DialFail, IInv, SlotInv, CallInv, Busy
      <4> QED
        BY <3>1, <4>1, <4>2 DEF NativeReturns, InFlight, Confirmed, IInv, TypeOK
    <3>2. CASE owner[s] \notin Calls
      BY <1>1, <1>3, <3>2 DEF DialFail
    <3> QED
      BY <3>1, <3>2
  <2> QED
    BY <1>3, <2>1, <2>2, Stutters DEF DialFail
<1>4. CASE BackgroundDial(s)
  <2>1. Lent' = Lent
    BY <1>4 DEF BackgroundDial, SetSlot, Lent, IInv, TypeOK
  <2> QED
    BY <1>1, <1>4, <2>1, Stutters DEF BackgroundDial
<1>5. CASE Evict(s)
  <2>1. Lent' = Lent
    BY <1>5 DEF Evict, SetSlot, Lent, IInv, TypeOK
  <2> QED
    BY <1>1, <1>5, <2>1, Stutters DEF Evict
<1>6. CASE RawBorrow(s)
  <2>1. Lent[s] = "nobody" /\ Lent' = [Lent EXCEPT ![s] = "raw"]
    BY <1>6 DEF RawBorrow, SetSlot, Lent, IInv, TypeOK
  <2> QED
    BY <1>1, <1>6, <2>1, Lends DEF RawBorrow
<1>7. CASE RawRelease(s)
  BY <1>1, <1>7, GivenBack, TakesBack DEF RawRelease
<1> QED
  BY <1>2, <1>3, <1>4, <1>5, <1>6, <1>7 DEF NativeSlotStep

\* The cleanup goroutine: the return of the native close is the drain.
LEMMA CleanupStepMaps ==
  ASSUME IInv, CleanupStep
  PROVE  ContractStep
<1> USE DEF lifecycle, slots, calls
<1>1. InFlight' = InFlight /\ Confirmed' = Confirmed /\ closed' = closed
  BY DEF CleanupStep, CleanupClose, NativeCloseReturns, CleanupSignal, InFlight,
         Confirmed
<1>2. CASE CleanupClose
  <2>1. Lent' = Lent
    BY <1>2 DEF CleanupClose, Lent, IInv, TypeOK
  <2>2. native' # "closed" /\ native # "closed"
    BY <1>2 DEF CleanupClose, IInv, TypeOK, LifecycleInv
  <2> QED
    BY <1>1, <2>1, <2>2 DEF ContractStep, Contract!cvars
<1>3. CASE NativeCloseReturns
  <2>1. Lent' = Lent /\ \A s \in Slots : Lent[s] = "nobody"
    BY <1>3 DEF NativeCloseReturns, Lent
  <2>2. closed
    BY <1>3 DEF NativeCloseReturns, IInv, LifecycleInv
  <2>3. Contract!Drain
    BY <1>1, <1>3, <2>1, <2>2 DEF NativeCloseReturns, Contract!Drain
  <2> QED
    BY <2>3 DEF ContractStep, Contract!Next
<1>4. CASE CleanupSignal
  <2>1. Lent' = Lent /\ native' = native
    BY <1>4 DEF CleanupSignal, Lent
  <2> QED
    BY <1>1, <2>1, Stutters
<1> QED
  BY <1>2, <1>3, <1>4 DEF CleanupStep

-----------------------------------------------------------------------------
(***************************************************************************)
(* The pool keeps the contract: connections are lent only to admitted      *)
(* calls or to Raw, the pool drains only when shut with nothing lent, and  *)
(* Shutdown confirms only a drained pool.                                  *)
(***************************************************************************)
THEOREM Refinement == Spec => ImplementsContract
<1>1. Init => Contract!Init
  BY DEF Init, Contract!Init, InFlight, Lent, Confirmed
<1>2. IInv /\ [Next]_vars => ContractStep
  <2> SUFFICES ASSUME IInv, [Next]_vars PROVE ContractStep
    OBVIOUS
  <2>1. ASSUME NEW c \in Calls, ContextStep(c) PROVE ContractStep
    <3>1. UNCHANGED <<closed, native, slot, owner, pc, op, err>>
      BY <2>1 DEF ContextStep, Cancel, Expire, EndCtx, lifecycle, slots
    <3>2. InFlight' = InFlight /\ Lent' = Lent /\ Confirmed' = Confirmed
      BY <3>1 DEF InFlight, Lent, Confirmed
    <3> QED
      BY <3>1, <3>2, Stutters
  <2>2. CASE UNCHANGED vars
    <3>1. UNCHANGED <<closed, native, slot, owner, pc, op, err>>
      BY <2>2 DEF vars, lifecycle, slots, calls
    <3>2. InFlight' = InFlight /\ Lent' = Lent /\ Confirmed' = Confirmed
      BY <3>1 DEF InFlight, Lent, Confirmed
    <3> QED
      BY <3>1, <3>2, Stutters
  <2> QED
    BY <2>1, <2>2, CallStepMaps, NativeCallStepMaps, NativeSlotStepMaps,
       CleanupStepMaps DEF Next
<1> QED
  BY <1>1, <1>2, Invariance, PTL
     DEF Spec, ContractStep, ImplementsContract, Contract!Spec
=============================================================================
