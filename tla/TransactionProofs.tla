-------------------------- MODULE TransactionProofs --------------------------
(***************************************************************************)
(* Proofs about Transaction for any number of savepoints, nested and one   *)
(* after the other.                                                        *)
(***************************************************************************)
EXTENDS Transaction, TLAPS

-----------------------------------------------------------------------------
(***************************************************************************)
(* The inductive invariant, in parts.                                      *)
(***************************************************************************)

\* A frame whose function has been entered and not left.
Active(f) == pc[f] \notin {"unused", "done"}

(***************************************************************************)
(* Frames form a stack.  They are numbered in call order, all active ones  *)
(* but the last wait for a child, and a frame is the next active one above *)
(* its parent.                                                             *)
(***************************************************************************)
Ordered ==
  /\ parent[1] = 0
  /\ \A f, g \in Frames :
       /\ f < g /\ pc[g] # "unused" => pc[f] # "unused"
       /\ parent[g] = f => f < g /\ pc[g] # "unused"
  /\ \A g \in Frames \ {1} : pc[g] # "unused" => parent[g] \in Frames

Stacked ==
  /\ \A f \in Frames : Active(f) => Active(1)
  /\ \A f, g \in Frames : f < g /\ Active(f) /\ Active(g) => pc[f] = "child"

Nested ==
  \A g \in Frames \ {1} : Active(g) =>
    /\ pc[parent[g]] = "child"
    /\ \A f \in Frames : parent[g] < f /\ f < g => ~Active(f)

OneChild ==
  \A f, g \in Frames :
    /\ pc[f] = "child" /\ f < g /\ Active(g) =>
         \E h \in Frames : parent[h] = f /\ Active(h)
    /\ f < g /\ parent[f] = parent[g] /\ parent[f] \in Frames => pc[f] = "done"

StackInv == Ordered /\ Stacked /\ Nested /\ OneChild

\* How a callback and a commit that ended this way leave the frame,
CauseExit(f) ==
  CASE commitEnd[f] \in {"panic", "goexit"} -> commitEnd[f]
    [] commitEnd[f] \notin {"panic", "goexit"} /\ bodyEnd[f] \in {"panic", "goexit"}
         -> bodyEnd[f]
    [] OTHER -> "return"

\* and with which error.
CauseErr(f) ==
  CASE commitEnd[f] = "error" -> {"Commit"}
    [] bodyEnd[f] = "error"   -> {"Callback"}
    [] OTHER                  -> {}

\* Nothing has happened in the frame's callback yet.
Fresh(f) ==
  /\ exit[f] = "none" /\ err[f] = {} /\ observed[f] = "none"
  /\ bodyEnd[f] = "none" /\ commitEnd[f] = "none" /\ rollbackEnd[f] = "none"

\* The callback is over: a commit was tried unless it failed or is isolated.
Ended(f) ==
  /\ bodyEnd[f] # "none"
  /\ commitEnd[f] # "none" => bodyEnd[f] = "nil" /\ ~Isolated(f)
  /\ bodyEnd[f] = "nil" /\ ~Isolated(f) => commitEnd[f] # "none"
  /\ needsRollback[f] <=> commitEnd[f] \notin {"nil", "error"}

\* begin did not return a transaction.
NeverBegan(f) ==
  /\ bodyEnd[f] = "none" /\ commitEnd[f] = "none" /\ rollbackEnd[f] = "none"
  /\ ~needsRollback[f]
  /\ \/ exit[f] = "return" /\ err[f] = {"Begin"}
     \/ exit[f] \in {"panic", "goexit"} /\ err[f] = {}

\* The deferred cleanup is over: it added to the cause and replaced nothing.
CleanedUp(f) ==
  /\ Ended(f)
  /\ rollbackEnd[f] \in {"none", "nil", "error", "panic"}
  /\ rollbackEnd[f] = "none" <=> ~needsRollback[f]
  /\ exit[f] = IF /\ rollbackEnd[f] = "panic" /\ Isolated(f)
                  /\ CauseExit(f) = "return" /\ CauseErr(f) = {}
                 THEN "panic" ELSE CauseExit(f)
  /\ err[f] = IF CauseExit(f) = "return" /\ rollbackEnd[f] = "error"
                THEN CauseErr(f) \cup {"Rollback"} ELSE CauseErr(f)

\* What each location of a frame says about its locals and its history.
FrameOK(f) ==
  /\ pc[f] \in {"unused", "begin"} => Fresh(f) /\ ~needsRollback[f]
  /\ pc[f] \in {"body", "child"} => Fresh(f) /\ needsRollback[f]
  /\ pc[f] = "commit" =>
       /\ exit[f] = "none" /\ err[f] = {} /\ observed[f] = "none"
       /\ bodyEnd[f] = "nil" /\ commitEnd[f] = "none"
       /\ rollbackEnd[f] = "none" /\ needsRollback[f] /\ ~Isolated(f)
  /\ pc[f] = "deferred" =>
       /\ Ended(f) /\ rollbackEnd[f] = "none" /\ observed[f] = "none"
       /\ exit[f] = CauseExit(f) /\ err[f] = CauseErr(f)
  /\ pc[f] = "outer" =>
       /\ NeverBegan(f) \/ CleanedUp(f)
       /\ observed[f] = "none"
  /\ pc[f] = "done" =>
       \/ /\ NeverBegan(f) \/ CleanedUp(f)
          /\ observed[f] = IF Isolated(f) THEN "none" ELSE Outcome(f)
       \/ /\ f = 1 /\ ~isolated /\ err[f] = {"NilCallback"}
          /\ exit[f] = "none" /\ observed[f] = "none"
          /\ bodyEnd[f] = "none" /\ commitEnd[f] = "none"
          /\ rollbackEnd[f] = "none"

FrameInv ==
  /\ pc[1] = "unused" => ~isolated
  /\ \A f \in Frames : FrameOK(f)

\* The connection is out only while frame 1 has a transaction to finalize.
BorrowInv ==
  /\ pc[1] \in {"unused", "begin"} => ~borrowed
  /\ pc[1] = "deferred" /\ ~needsRollback[1] => ~borrowed
  /\ pc[1] \in {"outer", "done"} /\ borrowed => rollbackEnd[1] = "panic"

(***************************************************************************)
(* The session and the frames: a savepoint exists from begin to finalize,  *)
(* writes are pending only in one that exists, and nothing is durable      *)
(* before frame 1 commits.                                                 *)
(***************************************************************************)
SessionInv ==
  /\ \A f \in Frames :
       /\ live[f] => pc[f] \in {"body", "child", "commit", "deferred"} \/ f = 1
       /\ live[f] => pc[f] \notin {"unused", "begin"} /\ ~broken
       /\ pc[f] \in {"body", "child", "commit"} /\ ~broken => live[f]
       /\ pc[f] = "deferred" /\ ~needsRollback[f] => ~live[f]
       /\ ~live[f] => pending[f] = {}
       /\ pending[f] \subseteq wrote
       /\ f \in wrote => pc[f] \notin {"unused", "begin"}
  /\ pc[1] \in {"outer", "done"} /\ rollbackEnd[1] \in {"none", "nil"} => ~live[1]
  /\ durable # {} => /\ ~isolated
                     /\ pc[1] \in {"deferred", "outer", "done"}
                     /\ bodyEnd[1] = "nil"
  /\ durable \subseteq wrote

(***************************************************************************)
(* Ancestry.                                                               *)
(***************************************************************************)
ChainInv ==
  \A f \in Frames : pc[f] # "unused" =>
    /\ 1 \in Enclosing(f)
    /\ \A a \in Enclosing(f) : pc[a] # "unused"
    /\ Active(f) => \A a \in Enclosing(f) : a = f \/ pc[a] = "child"

\* The frame failed, and its rollback has not failed with it.
Tainted(a) ==
  /\ \/ bodyEnd[a] \in {"error", "panic", "goexit"}
     \/ a # 1 /\ commitEnd[a] \in {"panic", "goexit"}
  /\ ~(faulty /\ rollbackEnd[a] \in {"error", "panic"})

\* What frame a of a write pending with g, no longer a frame of g, has come to.
PassedOn(g, a) ==
  /\ pc[a] \in {"deferred", "outer", "done"}
  /\ ~live[a]
  /\ Tainted(a) =>
       /\ \A k \in Frames : k > g => ~live[k]
       /\ aborted \/ (pc[a] = "deferred" /\ needsRollback[a])

(***************************************************************************)
(* A write pending with frame g comes from g or from a frame below it that *)
(* is over.  If one of those failed and still handed its writes up (its    *)
(* commit took effect and then panicked) the server refuses everything     *)
(* until g is rolled back, or will after the rollback that is due.         *)
(***************************************************************************)
PendingInv ==
  \A g \in Frames : \A f \in pending[g] :
    /\ g \in Enclosing(f)
    /\ \A a \in Enclosing(f) \ Enclosing(g) : PassedOn(g, a)

DurableInv == \A f \in durable : \A a \in Enclosing(f) : ~Tainted(a)

(***************************************************************************)
(* A write whose frames up to g were all committed is pending with g until *)
(* g itself ends, unless the connection is lost.                           *)
(***************************************************************************)
Kept(f) ==
  /\ \A a \in Enclosing(f) : pc[a] \notin {"unused", "begin"}
  /\ \A g \in Enclosing(f) :
       /\ pc[g] \in {"body", "child", "commit"}
       /\ ~broken
       /\ \A a \in Enclosing(f) \ Enclosing(g) : commitEnd[a] = "nil"
       => f \in pending[g]
  /\ (\A a \in Enclosing(f) : commitEnd[a] = "nil") => f \in durable

KeptInv == \A f \in wrote : Kept(f)

\* The frames and the session, and what becomes of the writes.
ControlInv == TypeOK /\ StackInv /\ FrameInv /\ BorrowInv /\ SessionInv

WritesInv == ChainInv /\ PendingInv /\ DurableInv /\ KeptInv

-----------------------------------------------------------------------------
(***************************************************************************)
(* What a step does to the session: one of these, for the frame it is of.  *)
(***************************************************************************)
Effect(f) ==
  \/ NoEffect
  \/ Keep(f)
  \/ Undo(f)
  \/ LeaveBehind(f)
  \/ NoSuchSavepoint(f)
  \/ Lost(f)
  \/ Fails /\ UNCHANGED durable

\* The session keeps its types.
LEMMA EffectType ==
  ASSUME TypeOK, NEW f \in Frames, Effect(f)
  PROVE  /\ broken' \in BOOLEAN /\ aborted' \in BOOLEAN
         /\ live' \in [Frames -> BOOLEAN]
         /\ pending' \in [Frames -> SUBSET Frames]
         /\ durable' \in SUBSET Frames
<1> USE DEF TypeOK
<1>1. ASSUME Merge(f) PROVE pending' \in [Frames -> SUBSET Frames]
  BY <1>1 DEF Merge
<1>2. CASE NoEffect
  BY <1>2 DEF NoEffect
<1>3. CASE Keep(f)
  BY <1>1, <1>3 DEF Keep
<1>4. CASE Undo(f)
  BY <1>4 DEF Undo
<1>5. CASE LeaveBehind(f)
  BY <1>1, <1>5 DEF LeaveBehind
<1>6. CASE NoSuchSavepoint(f)
  BY <1>6 DEF NoSuchSavepoint
<1>7. CASE Lost(f)
  BY <1>7 DEF Lost, Lose
<1>8. CASE Fails /\ UNCHANGED durable
  BY <1>8 DEF Fails, Lose
<1> QED
  BY <1>2, <1>3, <1>4, <1>5, <1>6, <1>7, <1>8 DEF Effect

\* Leaving a frame's function keeps the types.
LEMMA LeaveType ==
  ASSUME TypeOK, NEW f \in Frames, NEW p \in Locations, NEW x \in Exits,
         NEW e \in SUBSET Sentinels, Leave(f, p, x, e)
  PROVE  /\ pc' \in [Frames -> Locations]
         /\ exit' \in [Frames -> Exits]
         /\ err' \in [Frames -> SUBSET Sentinels]
BY DEF TypeOK, Leave

\* Every commit and rollback has one of the effects.
LEMMA CommitEffect ==
  ASSUME NEW f \in Frames, CommitReturns(f) \/ CommitTerminates(f)
  PROVE  Effect(f)
<1>1. ASSUME Lose, UNCHANGED durable PROVE Effect(f)
  BY <1>1 DEF Effect, Fails
<1> QED
  BY <1>1 DEF CommitReturns, CommitTerminates, CommitRefused, Effect

LEMMA RollbackEffect ==
  ASSUME NEW f \in Frames, Rollback(f)
  PROVE  Effect(f)
<1>1. ASSUME Lose, UNCHANGED durable PROVE Effect(f)
  BY <1>1 DEF Effect, Fails
<1> QED
  BY <1>1 DEF Rollback, RollbackSucceeds, RollbackFails, RollbackPanics, Effect

\* Every step keeps the types.
LEMMA TypeStep ==
  ASSUME TypeOK, FrameInv, [Next]_vars
  PROVE  TypeOK'
<1> USE TransactionAssumption DEF frameVars, endVars, sessionVars, runVars
<1>0. 1 \in Frames
  BY DEF Frames
<1>1. ASSUME NEW f \in Frames, NEW p \in {0} \cup Frames, Start(f, p)
      PROVE  parent' \in [Frames -> {0} \cup Frames] /\ ctxDone' \in [Frames -> BOOLEAN]
  <2>1. p = 0 \/ ctxDone[p] \in BOOLEAN
    BY DEF TypeOK
  <2> QED
    BY <1>1, <2>1 DEF Start, TypeOK
<1>2. CASE RunTransaction \/ RunIsolated
  <2>1. Start(1, 0) /\ Began(1) /\ isolated' \in BOOLEAN
    BY <1>2 DEF RunTransaction, RunIsolated, TypeOK
  <2>2. parent' \in [Frames -> {0} \cup Frames] /\ ctxDone' \in [Frames -> BOOLEAN]
    BY <1>0, <1>1, <2>1
  <2> QED
    BY <1>0, <2>1, <2>2 DEF Start, Began, TypeOK, Locations
<1>3. CASE NilCallback
  <2>2. parent' \in [Frames -> {0} \cup Frames] /\ ctxDone' \in [Frames -> BOOLEAN]
    BY <1>0, <1>1, <1>3 DEF NilCallback
  <2> QED
    BY <1>0, <1>3, <2>2 DEF NilCallback, Start, TypeOK, Locations, Sentinels
<1>4. ASSUME NEW f \in Frames, NEW g \in Frames, RunSavepoint(f, g)
      PROVE  TypeOK'
  <2>2. parent' \in [Frames -> {0} \cup Frames] /\ ctxDone' \in [Frames -> BOOLEAN]
    BY <1>1, <1>4 DEF RunSavepoint
  <2> QED
    BY <1>4, <2>2 DEF RunSavepoint, Start, TypeOK, Locations
<1>5. ASSUME NEW f \in Frames, BeginReturns(f) PROVE TypeOK'
  BY <1>5 DEF BeginReturns, TypeOK, Locations
<1>6. ASSUME NEW f \in Frames, BeginFails(f) PROVE TypeOK'
  <2>1. Effect(f)
    BY <1>6 DEF BeginFails, Effect
  <2>2. PICK x \in Exits, e \in SUBSET Sentinels : Leave(f, "outer", x, e)
    BY <1>6 DEF BeginFails, Exits, Sentinels
  <2>3. "outer" \in Locations
    BY DEF Locations
  <2> QED
    BY <1>6, <2>1, <2>2, <2>3, EffectType, LeaveType DEF BeginFails, TypeOK
<1>7. ASSUME NEW f \in Frames, Write(f) PROVE TypeOK'
  BY <1>7 DEF Write, TypeOK
<1>8. ASSUME NEW f \in Frames, StatementFails(f) PROVE TypeOK'
  <2>1. Effect(f)
    BY <1>8 DEF StatementFails, Effect
  <2> QED
    BY <1>8, <2>1, EffectType DEF StatementFails, TypeOK
<1>9. ASSUME NEW f \in Frames, CallbackReturns(f) PROVE TypeOK'
  <2>1. CASE pc' = [pc EXCEPT ![f] = "commit"] /\ UNCHANGED <<exit, err>>
    BY <1>9, <2>1 DEF CallbackReturns, EndBody, TypeOK, Locations, Ends
  <2>2. CASE \E e \in {{}, {"Callback"}} : Leave(f, "deferred", "return", e)
    <3>1. PICK e \in SUBSET Sentinels : Leave(f, "deferred", "return", e)
      BY <2>2 DEF Sentinels
    <3>2. "deferred" \in Locations /\ "return" \in Exits
      BY DEF Locations, Exits
    <3> QED
      BY <1>9, <3>1, <3>2, LeaveType DEF CallbackReturns, EndBody, TypeOK, Ends
  <2> QED
    BY <1>9, <2>1, <2>2 DEF CallbackReturns
<1>10. ASSUME NEW f \in Frames, CallbackTerminates(f) PROVE TypeOK'
  BY <1>10 DEF CallbackTerminates, EndBody, Leave, TypeOK, Locations, Exits, Ends
<1>11. ASSUME NEW f \in Frames, NEW g \in Frames, ChildEnds(f, g) PROVE TypeOK'
  BY <1>11 DEF ChildEnds, EndBody, Leave, TypeOK, Locations, Exits, Ends
<1>12. ASSUME NEW f \in Frames, CommitReturns(f) PROVE TypeOK'
  <2>1. PICK e \in SUBSET Sentinels : Leave(f, "deferred", "return", e)
    BY <1>12 DEF CommitReturns, Sentinels
  <2>2. "deferred" \in Locations /\ "return" \in Exits
    BY DEF Locations, Exits
  <2>3. commitEnd' \in [Frames -> Ends] /\ borrowed' \in BOOLEAN
    BY <1>12 DEF CommitReturns, ReturnConnection, TypeOK, Ends
  <2>4. needsRollback' \in [Frames -> BOOLEAN]
    BY <1>12 DEF CommitReturns, TypeOK
  <2>5. UNCHANGED <<parent, observed, bodyEnd, rollbackEnd, ctxDone, wrote, runVars>>
    BY <1>12 DEF CommitReturns
  <2> QED
    BY <1>12, <2>1, <2>2, <2>3, <2>4, <2>5, LeaveType, EffectType, CommitEffect
       DEF TypeOK
<1>13. ASSUME NEW f \in Frames, CommitTerminates(f) PROVE TypeOK'
  <2>1. PICK x \in {"panic", "goexit"} :
            Leave(f, "deferred", x, {}) /\ commitEnd' = [commitEnd EXCEPT ![f] = x]
    BY <1>13 DEF CommitTerminates
  <2>2. "deferred" \in Locations /\ x \in Exits /\ x \in Ends /\ {} \in SUBSET Sentinels
    BY DEF Locations, Exits, Ends
  <2>3. commitEnd' \in [Frames -> Ends]
    BY <2>1, <2>2 DEF TypeOK
  <2>4. UNCHANGED <<parent, needsRollback, observed, bodyEnd, rollbackEnd,
                    borrowed, ctxDone, wrote, runVars>>
    BY <1>13 DEF CommitTerminates
  <2> QED
    BY <1>13, <2>1, <2>2, <2>3, <2>4, LeaveType, EffectType, CommitEffect DEF TypeOK
<1>14. ASSUME NEW f \in Frames, Rollback(f) PROVE TypeOK'
  <2>1. PICK how \in {"nil", "error", "panic"} : RolledBack(f, how)
    BY <1>14 DEF Rollback
  <2>2. borrowed' \in BOOLEAN
    BY <1>14 DEF Rollback, ReturnConnection, TypeOK
  <2>3. PICK x \in Exits, e \in SUBSET Sentinels : Leave(f, "outer", x, e)
    <3>1. exit[f] \in Exits /\ "panic" \in Exits
      BY DEF TypeOK, Exits
    <3>2. err[f] \in SUBSET Sentinels /\ err[f] \cup {"Rollback"} \in SUBSET Sentinels
      BY DEF TypeOK, Sentinels
    <3> QED
      BY <2>1, <3>1, <3>2 DEF RolledBack
  <2>4. rollbackEnd' \in [Frames -> Ends] /\ "outer" \in Locations
    BY <2>1 DEF RolledBack, TypeOK, Ends, Locations
  <2>5. UNCHANGED <<parent, needsRollback, observed, bodyEnd, commitEnd, ctxDone,
                    wrote, runVars>>
    BY <2>1 DEF RolledBack
  <2> QED
    BY <1>14, <2>2, <2>3, <2>4, <2>5, LeaveType, EffectType, RollbackEffect DEF TypeOK
<1>15. ASSUME NEW f \in Frames, NoRollback(f) PROVE TypeOK'
  BY <1>15 DEF NoRollback, TypeOK, Locations
<1>16. ASSUME NEW f \in Frames, Observe(f) PROVE TypeOK'
  <2>1. exit[f] \in {"return", "panic", "goexit"}
    BY <1>16 DEF Observe, FrameInv, FrameOK, NeverBegan, CleanedUp, CauseExit
  <2>2. Outcome(f) \in Outcomes
    BY <2>1 DEF Outcome, Outcomes
  <2> QED
    BY <1>16, <2>2 DEF Observe, TypeOK, Locations, Outcomes
<1>17. ASSUME NEW f \in Frames, Cancel(f) PROVE TypeOK'
  BY <1>17 DEF Cancel, TypeOK
<1>18. CASE UNCHANGED vars
  BY <1>18 DEF vars, TypeOK
<1> QED
  BY <1>2, <1>3, <1>4, <1>5, <1>6, <1>7, <1>8, <1>9, <1>10, <1>11, <1>12, <1>13,
     <1>14, <1>15, <1>16, <1>17, <1>18 DEF Next, Step, Terminated

-----------------------------------------------------------------------------
LEMMA FrameNumbers ==
  /\ 1 \in Frames
  /\ Frames \subseteq Nat
  /\ \A f \in Frames : f >= 1
BY TransactionAssumption DEF Frames

\* A frame that does not wait for a child is the last active one.
LEMMA Topmost ==
  ASSUME TypeOK, StackInv, NEW f \in Frames, Active(f), pc[f] # "child",
         NEW g \in Frames, Active(g), g # f
  PROVE  g < f /\ pc[g] = "child"
<1>1. f \in Nat /\ g \in Nat
  BY FrameNumbers
<1>2. g < f \/ f < g
  BY <1>1
<1> QED
  BY <1>2 DEF StackInv, Stacked

\* A frame whose last child is over is the last active one.
LEMMA TopmostParent ==
  ASSUME TypeOK, StackInv, NEW f \in Frames, NEW c \in Frames, ChildEnds(f, c),
         NEW g \in Frames, Active(g), g # f
  PROVE  g < f /\ pc[g] = "child"
<1>1. f \in Nat /\ g \in Nat /\ c \in Nat
  BY FrameNumbers
<1>2. ASSUME NEW h \in Frames, parent[h] = f PROVE ~Active(h)
  <2>1. h <= c /\ h \in Nat
    BY <1>2, FrameNumbers DEF ChildEnds
  <2>2. h = c \/ h < c
    BY <1>1, <2>1
  <2> QED
    BY <1>2, <2>2 DEF ChildEnds, StackInv, OneChild, Active
<1>3. ~(f < g)
  BY <1>2 DEF ChildEnds, StackInv, OneChild
<1>4. g < f
  BY <1>1, <1>3
<1> QED
  BY <1>4 DEF StackInv, Stacked, Active, ChildEnds

\* The last active frame moves on, or is over.
LEMMA TopMoves ==
  ASSUME TypeOK, StackInv, NEW f \in Frames, Active(f),
         \A g \in Frames : Active(g) /\ g # f => g < f /\ pc[g] = "child",
         NEW p \in Locations \ {"unused", "begin", "child"},
         pc' = [pc EXCEPT ![f] = p], parent' = parent
  PROVE  StackInv'
<1> USE FrameNumbers
<1>1. pc'[f] = p /\ \A g \in Frames : g # f => pc'[g] = pc[g]
  BY DEF TypeOK
<1>2. \A g \in Frames : (Active(g))' => Active(g)
  BY <1>1 DEF Active
<1>3. \A g \in Frames : g # f => (Active(g) <=> (Active(g))')
  BY <1>1 DEF Active
<1>4. \A g \in Frames : (pc[g] = "unused" <=> pc'[g] = "unused")
  BY <1>1 DEF Active
<1>5. Ordered'
  BY <1>4 DEF StackInv, Ordered
<1>6. Stacked'
  <2>1. ASSUME NEW g \in Frames, (Active(g))' PROVE (Active(1))'
    <3>1. CASE f = 1
      <4>1. g = 1
        BY <1>2, <2>1, <3>1
      <4> QED
        BY <2>1, <4>1
    <3>2. CASE f # 1
      BY <1>1, <3>2 DEF Active, StackInv, Stacked
    <3> QED
      BY <3>1, <3>2
  <2>2. ASSUME NEW g \in Frames, NEW h \in Frames, g < h, (Active(g))', (Active(h))'
        PROVE  pc'[g] = "child"
    <3>1. g # f
      BY <1>2, <2>2
    <3> QED
      BY <1>1, <1>2, <2>2, <3>1 DEF StackInv, Stacked
  <2> QED
    BY <2>1, <2>2 DEF Stacked
<1>7. Nested'
  <2> SUFFICES ASSUME NEW g \in Frames \ {1}, (Active(g))'
               PROVE  /\ pc'[parent[g]] = "child"
                      /\ \A h \in Frames : parent[g] < h /\ h < g => ~(Active(h))'
    BY DEF Nested
  <2>1. /\ Active(g) /\ pc[parent[g]] = "child"
        /\ \A h \in Frames : parent[g] < h /\ h < g => ~Active(h)
    BY <1>2 DEF StackInv, Nested
  <2>2. parent[g] \in Frames /\ parent[g] < g
    BY <2>1 DEF StackInv, Ordered, Active
  <2>3. g <= f
    BY <2>1
  <2>4. parent[g] # f
    BY <2>2, <2>3
  <2> QED
    BY <1>1, <1>2, <2>1, <2>2, <2>4
<1>8. OneChild'
  <2>1. ASSUME NEW g \in Frames, NEW h \in Frames, pc'[g] = "child", g < h, (Active(h))'
        PROVE  \E k \in Frames : parent[k] = g /\ (Active(k))'
    <3>1. g # f /\ pc[g] = "child" /\ Active(h)
      BY <1>1, <1>2, <2>1
    <3>2. PICK k \in Frames : parent[k] = g /\ Active(k)
      BY <2>1, <3>1 DEF StackInv, OneChild
    <3>3. CASE k # f
      BY <1>3, <3>2, <3>3
    <3>4. CASE k = f
      <4>1. CASE h = f
        BY <2>1, <3>2, <3>4, <4>1
      <4>2. CASE h # f
        <5>1. h < f
          BY <3>1, <4>2
        <5>2. f # 1
          BY <3>2, <3>4 DEF StackInv, Ordered
        <5> QED
          BY <2>1, <3>1, <3>2, <3>4, <5>1, <5>2 DEF StackInv, Nested
      <4> QED
        BY <4>1, <4>2
    <3> QED
      BY <3>3, <3>4
  <2>2. ASSUME NEW g \in Frames, NEW h \in Frames, g < h, parent[g] = parent[h],
               parent[g] \in Frames
        PROVE  pc'[g] = "done"
    <3>1. pc[g] = "done"
      BY <2>2 DEF StackInv, OneChild
    <3> QED
      BY <1>1, <3>1 DEF Active
  <2> QED
    BY <2>1, <2>2 DEF OneChild
<1> QED
  BY <1>5, <1>6, <1>7, <1>8 DEF StackInv

\* A callback starts a savepoint: a new frame on top.
LEMMA Pushes ==
  ASSUME TypeOK, StackInv, NEW f \in Frames, NEW n \in Frames, RunSavepoint(f, n)
  PROVE  StackInv'
<1> USE FrameNumbers
<1>1. /\ pc[f] = "body" /\ pc[n] = "unused" /\ n # 1 /\ n # f
      /\ \A h \in Frames : h < n => pc[h] # "unused"
  <2>1. \A h \in Frames : h < n => h \in 1 .. n - 1
    OBVIOUS
  <2> QED
    BY <2>1 DEF RunSavepoint
<1>2. /\ pc'[f] = "child" /\ pc'[n] = "begin"
      /\ \A g \in Frames \ {f, n} : pc'[g] = pc[g]
  BY <1>1 DEF RunSavepoint, TypeOK
<1>3. parent'[n] = f /\ \A g \in Frames \ {n} : parent'[g] = parent[g]
  BY DEF RunSavepoint, Start, TypeOK
<1>4. \A h \in Frames : n < h => pc[h] = "unused"
  BY <1>1 DEF StackInv, Ordered
<1>5. f < n
  BY <1>1, <1>4
<1>6. \A g \in Frames : Active(g) /\ g # f => g < f /\ pc[g] = "child"
  BY <1>1, Topmost DEF Active
<1>7. \A g \in Frames : (Active(g))' <=> Active(g) \/ g = n
  BY <1>1, <1>2 DEF Active
<1>8. \A g \in Frames : parent[g] # n
  BY <1>1, <1>4 DEF StackInv, Ordered
<1>9. Ordered'
  <2>1. parent'[1] = 0
    BY <1>1, <1>3 DEF StackInv, Ordered
  <2>2. ASSUME NEW g \in Frames, NEW h \in Frames
        PROVE  /\ g < h /\ pc'[h] # "unused" => pc'[g] # "unused"
               /\ parent'[h] = g => g < h /\ pc'[h] # "unused"
    <3>1. g < h /\ pc'[h] # "unused" => pc'[g] # "unused"
      BY <1>1, <1>2 DEF StackInv, Ordered
    <3>2. parent'[h] = g => g < h /\ pc'[h] # "unused"
      BY <1>1, <1>2, <1>3, <1>5 DEF StackInv, Ordered
    <3> QED
      BY <3>1, <3>2
  <2>3. \A g \in Frames \ {1} : pc'[g] # "unused" => parent'[g] \in Frames
    BY <1>1, <1>2, <1>3 DEF StackInv, Ordered
  <2> QED
    BY <2>1, <2>2, <2>3 DEF Ordered
<1>10. Stacked'
  <2>1. Active(1)
    BY <1>1 DEF StackInv, Stacked, Active
  <2>2. ASSUME NEW g \in Frames, NEW h \in Frames, g < h, (Active(g))', (Active(h))'
        PROVE  pc'[g] = "child"
    <3>1. Active(g) /\ g # n
      BY <1>4, <1>7, <2>2 DEF Active
    <3> QED
      BY <1>2, <1>6, <3>1
  <2> QED
    BY <1>7, <2>1, <2>2 DEF Stacked
<1>11. Nested'
  <2> SUFFICES ASSUME NEW g \in Frames \ {1}, (Active(g))'
               PROVE  /\ pc'[parent'[g]] = "child"
                      /\ \A h \in Frames : parent'[g] < h /\ h < g => ~(Active(h))'
    BY DEF Nested
  <2>1. CASE g = n
    BY <1>2, <1>3, <1>6, <1>7, <2>1
  <2>2. CASE g # n
    <3>1. Active(g) /\ parent'[g] = parent[g]
      BY <1>3, <1>7, <2>2
    <3>2. /\ pc[parent[g]] = "child" /\ parent[g] \in Frames
          /\ \A h \in Frames : parent[g] < h /\ h < g => ~Active(h)
      BY <3>1 DEF StackInv, Nested, Ordered, Active
    <3>3. g <= f
      BY <1>6, <3>1
    <3>4. pc'[parent[g]] = "child"
      BY <1>1, <1>2, <3>2
    <3>5. ASSUME NEW h \in Frames, parent[g] < h, h < g PROVE ~(Active(h))'
      <4>1. h # n
        BY <1>5, <3>3, <3>5
      <4> QED
        BY <1>7, <3>2, <3>5, <4>1
    <3> QED
      BY <3>1, <3>4, <3>5
  <2> QED
    BY <2>1, <2>2
<1>12. OneChild'
  <2>1. ASSUME NEW g \in Frames, NEW h \in Frames, pc'[g] = "child", g < h, (Active(h))'
        PROVE  \E k \in Frames : parent'[k] = g /\ (Active(k))'
    <3>1. CASE g = f
      BY <1>3, <1>7, <3>1
    <3>2. CASE g # f
      <4>1. pc[g] = "child" /\ g < f
        BY <1>2, <1>6, <2>1, <3>2 DEF Active
      <4>2. PICK k \in Frames : parent[k] = g /\ Active(k)
        BY <1>1, <4>1 DEF StackInv, OneChild, Active
      <4>3. k # n
        BY <1>1, <4>2 DEF Active
      <4> QED
        BY <1>3, <1>7, <4>2, <4>3
    <3> QED
      BY <3>1, <3>2
  <2>2. ASSUME NEW g \in Frames, NEW h \in Frames, g < h, parent'[g] = parent'[h],
               parent'[g] \in Frames
        PROVE  pc'[g] = "done"
    <3>1. g # n
      <4>1. CASE g = n
        <5>1. pc[h] = "unused" /\ parent[h] = f
          BY <1>3, <1>4, <2>2, <4>1
        <5> QED
          BY <5>1 DEF StackInv, Ordered
      <4> QED
        BY <4>1
    <3>2. CASE h = n
      <4>1. parent[g] = f
        BY <1>3, <2>2, <3>1, <3>2
      <4>2. f < g /\ pc[g] # "unused"
        BY <4>1 DEF StackInv, Ordered
      <4>3. pc[g] = "done"
        BY <1>6, <4>2 DEF Active
      <4> QED
        BY <1>1, <1>2, <3>1, <4>2, <4>3
    <3>3. CASE h # n
      <4>1. pc[g] = "done"
        BY <1>3, <2>2, <3>1, <3>3 DEF StackInv, OneChild
      <4> QED
        BY <1>1, <1>2, <4>1
    <3> QED
      BY <3>2, <3>3
  <2> QED
    BY <2>1, <2>2 DEF OneChild
<1> QED
  BY <1>9, <1>10, <1>11, <1>12 DEF StackInv

\* The first frame starts, or is refused.
LEMMA FirstFrame ==
  ASSUME TypeOK, StackInv, pc[1] = "unused", NEW p \in {"begin", "done"},
         pc' = [pc EXCEPT ![1] = p], parent' = [parent EXCEPT ![1] = 0]
  PROVE  StackInv'
<1> USE FrameNumbers
<1>1. \A g \in Frames : pc[g] = "unused"
  BY DEF StackInv, Ordered
<1>2. parent' = parent /\ parent[1] = 0
  BY DEF StackInv, Ordered, TypeOK
<1>3. pc'[1] = p /\ \A g \in Frames \ {1} : pc'[g] = "unused"
  BY <1>1 DEF TypeOK
<1>4. \A g \in Frames : parent[g] \notin Frames
  BY <1>1 DEF StackInv, Ordered
<1> QED
  BY <1>2, <1>3, <1>4 DEF StackInv, Ordered, Stacked, Nested, OneChild, Active

\* The frame that takes a step is the last active one.
LEMMA TopActs ==
  ASSUME TypeOK, StackInv, NEW f \in Frames, Step(f)
  PROVE  /\ parent' = parent
         /\ Active(f)
         /\ \A g \in Frames : Active(g) /\ g # f => g < f /\ pc[g] = "child"
         /\ \E p \in Locations \ {"unused", "begin", "child"} :
              pc' = [pc EXCEPT ![f] = p]
<1> USE DEF frameVars
<1>1. ASSUME NEW p \in Locations \ {"unused", "begin", "child"},
             Active(f), pc[f] # "child", pc' = [pc EXCEPT ![f] = p]
      PROVE  /\ \A g \in Frames : Active(g) /\ g # f => g < f /\ pc[g] = "child"
             /\ \E q \in Locations \ {"unused", "begin", "child"} :
                  pc' = [pc EXCEPT ![f] = q]
  BY <1>1, Topmost
<1>2. {"body", "commit", "deferred", "outer", "done"}
        \subseteq Locations \ {"unused", "begin", "child"}
  BY DEF Locations
<1>3. CASE \E c \in Frames : ChildEnds(f, c)
  <2>1. PICK c \in Frames : ChildEnds(f, c)
    BY <1>3
  <2>2. Active(f) /\ parent' = parent
    BY <2>1 DEF ChildEnds, Active
  <2>3. \A g \in Frames : Active(g) /\ g # f => g < f /\ pc[g] = "child"
    BY <2>1, TopmostParent
  <2>4. \E p \in {"body", "deferred"} : pc' = [pc EXCEPT ![f] = p]
    BY <2>1 DEF ChildEnds, Leave
  <2> QED
    BY <1>2, <2>2, <2>3, <2>4
<1>4. CASE BeginReturns(f) \/ BeginFails(f)
  <2>1. pc[f] = "begin" /\ parent' = parent
    BY <1>4 DEF BeginReturns, BeginFails
  <2>2. \E p \in {"body", "outer"} : pc' = [pc EXCEPT ![f] = p]
    BY <1>4 DEF BeginReturns, BeginFails, Leave
  <2> QED
    BY <1>1, <1>2, <2>1, <2>2 DEF Active
<1>5. CASE CallbackReturns(f) \/ CallbackTerminates(f)
  <2>1. pc[f] = "body" /\ parent' = parent
    BY <1>5 DEF CallbackReturns, CallbackTerminates
  <2>2. \E p \in {"commit", "deferred"} : pc' = [pc EXCEPT ![f] = p]
    BY <1>5 DEF CallbackReturns, CallbackTerminates, Leave
  <2> QED
    BY <1>1, <1>2, <2>1, <2>2 DEF Active
<1>6. CASE CommitReturns(f) \/ CommitTerminates(f)
  <2>1. pc[f] = "commit" /\ parent' = parent
    BY <1>6 DEF CommitReturns, CommitTerminates
  <2>2. pc' = [pc EXCEPT ![f] = "deferred"]
    BY <1>6 DEF CommitReturns, CommitTerminates, Leave
  <2> QED
    BY <1>1, <1>2, <2>1, <2>2 DEF Active
<1>7. CASE Rollback(f) \/ NoRollback(f)
  <2>1. pc[f] = "deferred" /\ parent' = parent
    BY <1>7 DEF Rollback, RolledBack, NoRollback
  <2>2. pc' = [pc EXCEPT ![f] = "outer"]
    BY <1>7 DEF Rollback, RolledBack, NoRollback, Leave
  <2> QED
    BY <1>1, <1>2, <2>1, <2>2 DEF Active
<1>8. CASE Observe(f)
  <2>1. pc[f] = "outer" /\ parent' = parent
    BY <1>8 DEF Observe
  <2>2. pc' = [pc EXCEPT ![f] = "done"]
    BY <1>8 DEF Observe
  <2> QED
    BY <1>1, <1>2, <2>1, <2>2 DEF Active
<1> QED
  BY <1>3, <1>4, <1>5, <1>6, <1>7, <1>8 DEF Step

\* How a step moves the frames: not, first, next, or on top.
LEMMA ControlStep ==
  ASSUME TypeOK, StackInv, [Next]_vars
  PROVE  \/ UNCHANGED <<pc, parent>>
         \/ /\ pc[1] = "unused"
            /\ \E p \in {"begin", "done"} : pc' = [pc EXCEPT ![1] = p]
            /\ parent' = [parent EXCEPT ![1] = 0]
         \/ \E f, n \in Frames : RunSavepoint(f, n)
         \/ /\ parent' = parent
            /\ \E f \in Frames :
                 /\ Active(f)
                 /\ \A g \in Frames : Active(g) /\ g # f => g < f /\ pc[g] = "child"
                 /\ \E p \in Locations \ {"unused", "begin", "child"} :
                      pc' = [pc EXCEPT ![f] = p]
<1> USE DEF frameVars
<1>1. CASE RunTransaction \/ RunIsolated \/ NilCallback
  BY <1>1 DEF RunTransaction, RunIsolated, NilCallback, Start, Began
<1>2. ASSUME NEW f \in Frames, Write(f) \/ StatementFails(f) \/ Cancel(f)
      PROVE  UNCHANGED <<pc, parent>>
  BY <1>2 DEF Write, StatementFails, Cancel
<1>3. CASE UNCHANGED vars
  BY <1>3 DEF vars
<1> QED
  BY <1>1, <1>2, <1>3, TopActs DEF Next, Terminated

LEMMA StackStep ==
  ASSUME TypeOK, StackInv, [Next]_vars
  PROVE  StackInv'
<1>1. CASE UNCHANGED <<pc, parent>>
  BY <1>1 DEF StackInv, Ordered, Stacked, Nested, OneChild, Active
<1> QED
  BY <1>1, ControlStep, FirstFrame, Pushes, TopMoves

-----------------------------------------------------------------------------
\* A frame whose locals do not change stays as it is.
LEMMA FrameRests ==
  ASSUME NEW f \in Frames, FrameOK(f), pc'[f] = pc[f], exit'[f] = exit[f],
         err'[f] = err[f], needsRollback'[f] = needsRollback[f],
         observed'[f] = observed[f], bodyEnd'[f] = bodyEnd[f],
         commitEnd'[f] = commitEnd[f], rollbackEnd'[f] = rollbackEnd[f],
         f = 1 => isolated' = isolated
  PROVE  FrameOK(f)'
<1>1. (Isolated(f))' <=> Isolated(f)
  BY DEF Isolated
<1>2. /\ (Fresh(f))' <=> Fresh(f)
      /\ (Ended(f))' <=> Ended(f)
      /\ (NeverBegan(f))' <=> NeverBegan(f)
      /\ (CauseExit(f))' = CauseExit(f)
      /\ (CauseErr(f))' = CauseErr(f)
      /\ (Outcome(f))' = Outcome(f)
  BY <1>1 DEF Fresh, Ended, NeverBegan, CauseExit, CauseErr, Outcome
<1>3. (CleanedUp(f))' <=> CleanedUp(f)
  BY <1>1, <1>2 DEF CleanedUp
<1> QED
  BY <1>1, <1>2, <1>3 DEF FrameOK

\* Every step of a frame leaves it in a consistent state.
LEMMA FrameStep ==
  ASSUME TypeOK, StackInv, FrameInv, [Next]_vars
  PROVE  FrameInv'
<1> USE FrameNumbers DEF frameVars, endVars, sessionVars, runVars
<1>1. \A f \in Frames : FrameOK(f)
  BY DEF FrameInv
<1>2. pc'[1] = "unused" => pc[1] = "unused"
  BY ControlStep DEF TypeOK, RunSavepoint
<1>3. CASE RunTransaction \/ RunIsolated \/ NilCallback
  <2>1. /\ Start(1, 0) /\ isolated' \in BOOLEAN
        /\ \/ Began(1)
           \/ /\ pc' = [pc EXCEPT ![1] = "done"]
              /\ err' = [err EXCEPT ![1] = {"NilCallback"}]
              /\ ~isolated'
    <3>1. pc[1] = "unused" => isolated = FALSE
      BY DEF FrameInv, TypeOK
    <3>2. Start(1, 0) => pc[1] = "unused"
      BY DEF Start
    <3>3. isolated \in BOOLEAN
      BY DEF TypeOK
    <3>4. Start(1, 0)
      BY <1>3 DEF RunTransaction, RunIsolated, NilCallback
    <3>5. isolated' \in BOOLEAN
      BY <1>3, <3>3 DEF RunTransaction, RunIsolated, NilCallback
    <3>6. NilCallback => ~isolated'
      BY <3>1, <3>2, <3>4 DEF NilCallback
    <3> QED
      BY <1>3, <3>4, <3>5, <3>6 DEF RunTransaction, RunIsolated, NilCallback
  <2>2. ASSUME NEW f \in Frames, f # 1 PROVE (FrameOK(f))'
    BY <1>1, <2>1, <2>2, FrameRests DEF Start, Began, TypeOK
  <2>3. Fresh(1) /\ ~needsRollback[1]
    BY <1>1, <2>1 DEF Start, FrameOK
  <2>4. (FrameOK(1))' /\ pc'[1] # "unused"
    BY <2>1, <2>3 DEF Start, Began, FrameOK, Fresh, TypeOK
  <2> QED
    BY <2>2, <2>4 DEF FrameInv
<1>4. ASSUME NEW f \in Frames, NEW n \in Frames, RunSavepoint(f, n)
      PROVE  FrameInv'
  <2>1. ASSUME NEW g \in Frames, g # f, g # n PROVE (FrameOK(g))'
    BY <1>1, <1>4, <2>1, FrameRests DEF RunSavepoint, Start, TypeOK
  <2>2. (FrameOK(f))' /\ (FrameOK(n))'
    BY <1>1, <1>4 DEF RunSavepoint, Start, TypeOK, FrameOK, Fresh
  <2> QED
    BY <1>2, <1>4, <2>1, <2>2 DEF FrameInv, RunSavepoint, Start
<1>5. ASSUME NEW f \in Frames, Step(f), isolated' = isolated, (FrameOK(f))',
             \A g \in Frames \ {f} :
               /\ pc'[g] = pc[g] /\ exit'[g] = exit[g] /\ err'[g] = err[g]
               /\ needsRollback'[g] = needsRollback[g]
               /\ observed'[g] = observed[g] /\ bodyEnd'[g] = bodyEnd[g]
               /\ commitEnd'[g] = commitEnd[g] /\ rollbackEnd'[g] = rollbackEnd[g]
      PROVE  FrameInv'
  <2>1. ASSUME NEW g \in Frames, g # f PROVE (FrameOK(g))'
    BY <1>1, <1>5, <2>1, FrameRests
  <2> QED
    BY <1>2, <1>5, <2>1 DEF FrameInv
<1>6. ASSUME NEW f \in Frames, Step(f) PROVE FrameInv'
  <2>1. /\ isolated' = isolated
        /\ \A g \in Frames \ {f} :
               /\ pc'[g] = pc[g] /\ exit'[g] = exit[g] /\ err'[g] = err[g]
               /\ needsRollback'[g] = needsRollback[g]
               /\ observed'[g] = observed[g] /\ bodyEnd'[g] = bodyEnd[g]
               /\ commitEnd'[g] = commitEnd[g] /\ rollbackEnd'[g] = rollbackEnd[g]
    <3>1. CASE BeginReturns(f) \/ BeginFails(f)
      BY <3>1 DEF BeginReturns, BeginFails, Leave, TypeOK
    <3>2. CASE CallbackReturns(f) \/ CallbackTerminates(f)
      BY <3>2 DEF CallbackReturns, CallbackTerminates, EndBody, Leave, TypeOK
    <3>3. CASE \E c \in Frames : ChildEnds(f, c)
      <4>1. PICK c \in Frames : ChildEnds(f, c)
        BY <3>3
      <4>2. /\ UNCHANGED <<needsRollback, observed, commitEnd, rollbackEnd, isolated>>
            /\ \E p \in Locations : pc' = [pc EXCEPT ![f] = p]
            /\ \/ UNCHANGED <<exit, err, bodyEnd>>
               \/ \E x : /\ exit' = [exit EXCEPT ![f] = x]
                        /\ err' = [err EXCEPT ![f] = {}]
                        /\ bodyEnd' = [bodyEnd EXCEPT ![f] = x]
        BY <4>1 DEF ChildEnds, EndBody, Leave, Locations
      <4> QED
        BY <4>2 DEF TypeOK
    <3>4. CASE CommitReturns(f) \/ CommitTerminates(f)
      BY <3>4 DEF CommitReturns, CommitTerminates, Leave, TypeOK
    <3>5. CASE Rollback(f) \/ NoRollback(f) \/ Observe(f)
      BY <3>5 DEF Rollback, RolledBack, NoRollback, Observe, Leave, TypeOK
    <3> QED
      BY <1>6, <3>1, <3>2, <3>3, <3>4, <3>5 DEF Step
  <2>2. FrameOK(f)
    BY <1>1
  <2>3. (Isolated(f))' <=> Isolated(f)
    BY <2>1 DEF Isolated
  <2> USE <2>2, <2>3 DEF FrameOK, TypeOK, Leave
  <2>4. CASE BeginReturns(f)
    <3>1. (FrameOK(f))'
      BY <2>4 DEF BeginReturns, Fresh
    <3> QED
      BY <1>5, <1>6, <2>1, <3>1
  <2>5. CASE BeginFails(f)
    <3>1. (FrameOK(f))'
      BY <2>5 DEF BeginFails, Fresh, NeverBegan
    <3> QED
      BY <1>5, <1>6, <2>1, <3>1
  <2>6. CASE CallbackReturns(f)
    <3> SUFFICES (FrameOK(f))'
      BY <1>5, <1>6, <2>1
    <3>1. /\ Fresh(f) /\ needsRollback[f]
          /\ commitEnd'[f] = commitEnd[f] /\ rollbackEnd'[f] = rollbackEnd[f]
          /\ needsRollback'[f] = needsRollback[f] /\ observed'[f] = observed[f]
      BY <2>6 DEF CallbackReturns
    <3>2. CASE Isolated(f) \/ bodyEnd'[f] = "error"
      <4>1. /\ pc'[f] = "deferred" /\ exit'[f] = "return"
            /\ \/ bodyEnd'[f] = "nil" /\ err'[f] = {} /\ Isolated(f)
               \/ bodyEnd'[f] = "error" /\ err'[f] = {"Callback"}
        BY <2>6, <3>2 DEF CallbackReturns, EndBody
      <4> QED
        BY <3>1, <4>1 DEF Fresh, Ended, CauseExit, CauseErr
    <3>3. CASE ~Isolated(f) /\ bodyEnd'[f] # "error"
      BY <2>6, <3>1, <3>3 DEF CallbackReturns, EndBody, Fresh
    <3> QED
      BY <3>2, <3>3
  <2>7. CASE CallbackTerminates(f)
    <3>1. (FrameOK(f))'
      BY <2>7 DEF CallbackTerminates, EndBody, Fresh, Ended, CauseExit, CauseErr
    <3> QED
      BY <1>5, <1>6, <2>1, <3>1
  <2>8. CASE \E c \in Frames : ChildEnds(f, c)
    <3> SUFFICES (FrameOK(f))'
      BY <1>5, <1>6, <2>1
    <3>1. PICK c \in Frames : ChildEnds(f, c)
      BY <2>8
    <3>2. /\ Fresh(f) /\ needsRollback[f]
          /\ commitEnd'[f] = commitEnd[f] /\ rollbackEnd'[f] = rollbackEnd[f]
          /\ needsRollback'[f] = needsRollback[f] /\ observed'[f] = observed[f]
      BY <3>1 DEF ChildEnds
    <3>3. CASE pc' = [pc EXCEPT ![f] = "body"] /\ UNCHANGED <<exit, err, bodyEnd>>
      BY <3>2, <3>3 DEF Fresh
    <3>4. CASE \E x \in {"panic", "goexit"} : EndBody(f, x) /\ Leave(f, "deferred", x, {})
      BY <3>2, <3>4 DEF Fresh, EndBody, Ended, CauseExit, CauseErr
    <3> QED
      BY <3>1, <3>3, <3>4 DEF ChildEnds
  <2>9. CASE CommitReturns(f)
    <3>1. /\ pc[f] = "commit" /\ pc'[f] = "deferred" /\ exit'[f] = "return"
          /\ \/ commitEnd'[f] = "nil" /\ err'[f] = {}
             \/ commitEnd'[f] = "error" /\ err'[f] = {"Commit"}
          /\ bodyEnd'[f] = bodyEnd[f] /\ rollbackEnd'[f] = rollbackEnd[f]
          /\ ~needsRollback'[f] /\ observed'[f] = observed[f]
      BY <2>9 DEF CommitReturns
    <3>2. (FrameOK(f))'
      BY <3>1 DEF Ended, CauseExit, CauseErr
    <3> QED
      BY <1>5, <1>6, <2>1, <3>2
  <2>10. CASE CommitTerminates(f)
    <3>1. (FrameOK(f))'
      BY <2>10 DEF CommitTerminates, Ended, CauseExit, CauseErr
    <3> QED
      BY <1>5, <1>6, <2>1, <3>1
  <2>11. CASE Rollback(f)
    <3>1. PICK how \in {"nil", "error", "panic"} : RolledBack(f, how)
      BY <2>11 DEF Rollback
    <3>2. /\ pc[f] = "deferred" /\ needsRollback[f] /\ pc'[f] = "outer"
          /\ rollbackEnd'[f] = how
          /\ bodyEnd'[f] = bodyEnd[f] /\ commitEnd'[f] = commitEnd[f]
          /\ needsRollback'[f] = needsRollback[f] /\ observed'[f] = observed[f]
          /\ exit'[f] = IF how = "panic" /\ Isolated(f) /\ exit[f] = "return" /\ err[f] = {}
                          THEN "panic" ELSE exit[f]
          /\ err'[f] = IF exit[f] = "return" /\ how = "error"
                         THEN err[f] \cup {"Rollback"} ELSE err[f]
      BY <3>1 DEF RolledBack
    <3>3. /\ (CauseExit(f))' = CauseExit(f) /\ (CauseErr(f))' = CauseErr(f)
          /\ (Ended(f))' <=> Ended(f)
      BY <3>2 DEF CauseExit, CauseErr, Ended
    <3>4. (CleanedUp(f))'
      BY <3>2, <3>3 DEF CleanedUp
    <3>5. (FrameOK(f))'
      BY <3>2, <3>4
    <3> QED
      BY <1>5, <1>6, <2>1, <3>5
  <2>12. CASE NoRollback(f)
    <3>1. /\ (CauseExit(f))' = CauseExit(f) /\ (CauseErr(f))' = CauseErr(f)
          /\ (Ended(f))' <=> Ended(f)
      BY <2>12 DEF NoRollback, CauseExit, CauseErr, Ended
    <3>2. (CleanedUp(f))'
      BY <2>12, <3>1 DEF NoRollback, CleanedUp
    <3>3. (FrameOK(f))'
      BY <2>12, <3>2 DEF NoRollback
    <3> QED
      BY <1>5, <1>6, <2>1, <3>3
  <2>13. CASE Observe(f)
    <3>1. /\ (CauseExit(f))' = CauseExit(f) /\ (CauseErr(f))' = CauseErr(f)
          /\ (Ended(f))' <=> Ended(f)
          /\ (NeverBegan(f))' <=> NeverBegan(f)
          /\ (Outcome(f))' = Outcome(f)
      BY <2>13 DEF Observe, CauseExit, CauseErr, Ended, NeverBegan, Outcome
    <3>2. (CleanedUp(f))' <=> CleanedUp(f)
      BY <2>13, <3>1 DEF Observe, CleanedUp
    <3>3. (FrameOK(f))'
      BY <2>13, <3>1, <3>2 DEF Observe
    <3> QED
      BY <1>5, <1>6, <2>1, <3>3
  <2> QED
    BY <1>6, <2>4, <2>5, <2>6, <2>7, <2>8, <2>9, <2>10, <2>11, <2>12, <2>13 DEF Step
<1>7. CASE UNCHANGED <<pc, exit, err, needsRollback, observed, bodyEnd, commitEnd,
                       rollbackEnd, isolated>>
  BY <1>1, <1>7, FrameRests DEF FrameInv
<1>8. ASSUME NEW f \in Frames, Write(f) \/ StatementFails(f) \/ Cancel(f)
      PROVE  FrameInv'
  BY <1>7, <1>8 DEF Write, StatementFails, Cancel
<1>9. CASE UNCHANGED vars
  BY <1>7, <1>9 DEF vars
<1> QED
  BY <1>3, <1>4, <1>6, <1>8, <1>9 DEF Next, Terminated

\* Only frame 1 borrows and gives back the connection.
LEMMA BorrowStep ==
  ASSUME TypeOK, StackInv, FrameInv, BorrowInv, [Next]_vars
  PROVE  BorrowInv'
<1> USE FrameNumbers DEF frameVars, endVars, sessionVars, runVars
<1>1. CASE UNCHANGED <<pc, needsRollback, rollbackEnd, borrowed>>
  BY <1>1 DEF BorrowInv
<1>2. CASE RunTransaction \/ RunIsolated \/ NilCallback
  BY <1>2 DEF RunTransaction, RunIsolated, NilCallback, Start, Began, BorrowInv,
              TypeOK
<1>3. ASSUME NEW f \in Frames, NEW n \in Frames, RunSavepoint(f, n)
      PROVE  BorrowInv'
  BY <1>3 DEF RunSavepoint, Start, BorrowInv, TypeOK
<1>4. ASSUME NEW f \in Frames, f # 1, Step(f)
      PROVE  BorrowInv'
  <2>1. pc[1] = "child"
    <3>1. CASE \E c \in Frames : ChildEnds(f, c)
      BY <1>4, <3>1, TopmostParent DEF StackInv, Stacked, ChildEnds, Active
    <3>2. CASE pc[f] # "child" /\ Active(f)
      BY <1>4, <3>2, Topmost DEF StackInv, Stacked
    <3> QED
      BY <1>4, <3>1, <3>2 DEF Step, BeginReturns, BeginFails, CallbackReturns,
           CallbackTerminates, CommitReturns, CommitTerminates, Rollback,
           RolledBack, NoRollback, Observe, Active
  <2>2. pc'[1] = pc[1]
    BY <1>4 DEF Step, BeginReturns, BeginFails, CallbackReturns,
         CallbackTerminates, ChildEnds, CommitReturns, CommitTerminates,
         Rollback, RolledBack, NoRollback, Observe, Leave, TypeOK
  <2> QED
    BY <2>1, <2>2 DEF BorrowInv
<1>5. CASE Step(1)
  <2> USE DEF BorrowInv, TypeOK, Leave
  <2>1. CASE BeginReturns(1) \/ BeginFails(1)
    BY <2>1 DEF BeginReturns, BeginFails
  <2>2. CASE CallbackReturns(1) \/ CallbackTerminates(1)
    <3>1. needsRollback'[1]
      BY <2>2 DEF CallbackReturns, CallbackTerminates, FrameInv, FrameOK
    <3>2. pc'[1] \in {"commit", "deferred"}
      BY <2>2 DEF CallbackReturns, CallbackTerminates
    <3> QED
      BY <3>1, <3>2
  <2>3. CASE \E c \in Frames : ChildEnds(1, c)
    <3>1. needsRollback'[1]
      BY <2>3 DEF ChildEnds, FrameInv, FrameOK
    <3>2. pc'[1] \in {"body", "deferred"}
      BY <2>3 DEF ChildEnds
    <3> QED
      BY <3>1, <3>2
  <2>4. CASE CommitReturns(1)
    BY <2>4 DEF CommitReturns, ReturnConnection
  <2>5. CASE CommitTerminates(1)
    <3>1. needsRollback'[1] /\ pc'[1] = "deferred"
      BY <2>5 DEF CommitTerminates, FrameInv, FrameOK
    <3> QED
      BY <3>1
  <2>6. CASE Rollback(1)
    <3>1. pc'[1] = "outer"
      BY <2>6 DEF Rollback, RolledBack
    <3>2. ~borrowed' \/ rollbackEnd'[1] = "panic"
      BY <2>6 DEF Rollback, RolledBack, ReturnConnection
    <3> QED
      BY <3>1, <3>2
  <2>7. CASE NoRollback(1) \/ Observe(1)
    BY <2>7 DEF NoRollback, Observe
  <2> QED
    BY <1>5, <2>1, <2>2, <2>3, <2>4, <2>5, <2>6, <2>7 DEF Step
<1>6. ASSUME NEW f \in Frames, Write(f) \/ StatementFails(f) \/ Cancel(f)
      PROVE  BorrowInv'
  BY <1>1, <1>6 DEF Write, StatementFails, Cancel
<1>7. CASE UNCHANGED vars
  BY <1>1, <1>7 DEF vars
<1> QED
  BY <1>2, <1>3, <1>4, <1>5, <1>6, <1>7 DEF Next, Terminated

-----------------------------------------------------------------------------
\* A savepoint that exists has a parent that exists.
LEMMA ParentLives ==
  ASSUME TypeOK, StackInv, SessionInv, NEW f \in Frames, f # 1, Active(f), ~broken
  PROVE  parent[f] \in Frames /\ parent[f] < f /\ live[parent[f]]
<1>1. parent[f] \in Frames /\ pc[parent[f]] = "child"
  BY DEF StackInv, Nested, Ordered, Active
<1> QED
  BY <1>1 DEF StackInv, Ordered, SessionInv

\* What every effect on the session leaves alone.
LEMMA EffectFrame ==
  ASSUME TypeOK, StackInv, SessionInv, NEW f \in Frames, Active(f), Effect(f)
  PROVE  /\ \A g \in Frames : live'[g] => live[g] /\ ~broken'
         /\ broken => broken'
         /\ ~broken' => \A g \in Frames \ {f} : live'[g] = live[g]
         /\ \A g \in Frames : ~live'[g] => pending'[g] = {}
         /\ \A g \in Frames : pending'[g] \subseteq wrote
         /\ durable' = durable \/ (f = 1 /\ durable' = pending[1])
<1> USE FrameNumbers
<1>1. CASE NoEffect \/ NoSuchSavepoint(f)
  BY <1>1 DEF NoEffect, NoSuchSavepoint, SessionInv
<1>2. CASE Lost(f) \/ (Fails /\ UNCHANGED durable)
  BY <1>2 DEF Lost, Fails, Lose, SessionInv, TypeOK
<1>3. CASE Undo(f)
  BY <1>3 DEF Undo, SessionInv, TypeOK
<1>4. CASE f # 1 /\ (Keep(f) \/ LeaveBehind(f))
  <2>1. /\ Merge(f) /\ ~broken /\ broken' = broken /\ durable' = durable
        /\ live' = [live EXCEPT ![f] = FALSE]
    BY <1>4 DEF Keep, LeaveBehind, Usable
  <2>2. parent[f] \in Frames /\ parent[f] # f /\ live[parent[f]]
    BY <1>4, <2>1, ParentLives
  <2>3. /\ pending'[f] = {}
        /\ pending'[parent[f]] = pending[parent[f]] \cup pending[f]
        /\ \A g \in Frames \ {f, parent[f]} : pending'[g] = pending[g]
    BY <2>1, <2>2 DEF Merge, TypeOK
  <2>4. \A g \in Frames : pending[g] \subseteq wrote /\ (~live[g] => pending[g] = {})
    BY DEF SessionInv
  <2>5. ~live'[f] /\ \A g \in Frames \ {f} : live'[g] = live[g]
    BY <2>1 DEF TypeOK
  <2> QED
    BY <2>1, <2>2, <2>3, <2>4, <2>5
<1>5. CASE f = 1 /\ Keep(f)
  BY <1>5 DEF Keep, Usable, SessionInv, TypeOK
<1> QED
  BY <1>1, <1>2, <1>3, <1>4, <1>5 DEF Effect, LeaveBehind

\* A commit that returned, and every rollback of a savepoint, ends it.
LEMMA CommitEnds ==
  ASSUME TypeOK, SessionInv, NEW f \in Frames, CommitReturns(f)
  PROVE  ~live'[f]
BY DEF CommitReturns, CommitRefused, Keep, LeaveBehind, Lost, Lose, NoEffect,
       SessionInv, TypeOK

LEMMA RollbackEnds ==
  ASSUME TypeOK, SessionInv, NEW f \in Frames, Rollback(f)
  PROVE  /\ f # 1 => ~live'[f]
         /\ rollbackEnd'[f] = "nil" => ~live'[f]
<1>1. CASE RolledBack(f, "nil") /\ RollbackSucceeds(f)
  BY <1>1 DEF RollbackSucceeds, Undo, TypeOK
<1>2. CASE RolledBack(f, "error") /\ RollbackFails(f)
  <2>1. ~live'[f]
    BY <1>2 DEF RollbackFails, NoEffect, NoSuchSavepoint, LeaveBehind, Lose,
                SessionInv, TypeOK
  <2> QED
    BY <2>1
<1>3. CASE RolledBack(f, "panic") /\ RollbackPanics(f)
  <2>1. f # 1 => ~live'[f]
    BY <1>3 DEF RollbackPanics, Undo, LeaveBehind, TypeOK
  <2>2. rollbackEnd'[f] = "panic"
    BY <1>3 DEF RolledBack, TypeOK
  <2> QED
    BY <2>1, <2>2
<1> QED
  BY <1>1, <1>2, <1>3 DEF Rollback

\* The frames' part of the session invariant after a step of the last frame.
LEMMA SessionMoves ==
  ASSUME TypeOK, StackInv, SessionInv, NEW f \in Frames, Active(f), Effect(f),
         NEW p \in {"body", "child", "commit", "deferred", "outer", "done"},
         pc' = [pc EXCEPT ![f] = p],
         \A g \in Frames \ {f} : needsRollback'[g] = needsRollback[g],
         wrote' = wrote,
         p \in {"outer", "done"} /\ f # 1 => ~live'[f],
         p \in {"body", "child", "commit"} /\ ~broken' => live'[f],
         p = "deferred" /\ ~needsRollback'[f] => ~live'[f]
  PROVE  \A g \in Frames :
           /\ live'[g] => pc'[g] \in {"body", "child", "commit", "deferred"} \/ g = 1
           /\ live'[g] => pc'[g] \notin {"unused", "begin"} /\ ~broken'
           /\ pc'[g] \in {"body", "child", "commit"} /\ ~broken' => live'[g]
           /\ pc'[g] = "deferred" /\ ~needsRollback'[g] => ~live'[g]
           /\ ~live'[g] => pending'[g] = {}
           /\ pending'[g] \subseteq wrote'
           /\ g \in wrote' => pc'[g] \notin {"unused", "begin"}
<1>1. /\ \A g \in Frames : live'[g] => live[g] /\ ~broken'
      /\ broken => broken'
      /\ ~broken' => \A g \in Frames \ {f} : live'[g] = live[g]
      /\ \A g \in Frames : ~live'[g] => pending'[g] = {}
      /\ \A g \in Frames : pending'[g] \subseteq wrote
  BY EffectFrame
<1>2. pc'[f] = p /\ \A g \in Frames \ {f} : pc'[g] = pc[g]
  BY DEF TypeOK
<1>3. ASSUME NEW g \in Frames, g # f
      PROVE  /\ live'[g] => pc'[g] \in {"body", "child", "commit", "deferred"} \/ g = 1
             /\ live'[g] => pc'[g] \notin {"unused", "begin"} /\ ~broken'
             /\ pc'[g] \in {"body", "child", "commit"} /\ ~broken' => live'[g]
             /\ pc'[g] = "deferred" /\ ~needsRollback'[g] => ~live'[g]
             /\ g \in wrote' => pc'[g] \notin {"unused", "begin"}
  <2>1. pc'[g] = pc[g] /\ needsRollback'[g] = needsRollback[g]
    BY <1>2, <1>3
  <2>2. ~broken' => live'[g] = live[g] /\ ~broken
    BY <1>1, <1>3
  <2>3. live'[g] => live[g] /\ ~broken'
    BY <1>1
  <2> QED
    BY <2>1, <2>2, <2>3 DEF SessionInv
<1>4. /\ live'[f] => p \in {"body", "child", "commit", "deferred"} \/ f = 1
      /\ live'[f] => ~broken'
  BY <1>1
<1> QED
  BY <1>1, <1>2, <1>3, <1>4

\* The part of the session invariant about the transaction itself.
LEMMA SessionStays ==
  ASSUME TypeOK, StackInv, SessionInv, NEW f \in Frames, f # 1, Active(f), Effect(f),
         pc'[1] = pc[1], bodyEnd'[1] = bodyEnd[1], rollbackEnd'[1] = rollbackEnd[1],
         isolated' = isolated, wrote' = wrote
  PROVE  /\ pc'[1] \in {"outer", "done"} /\ rollbackEnd'[1] \in {"none", "nil"}
              => ~live'[1]
         /\ durable' # {} => /\ ~isolated'
                             /\ pc'[1] \in {"deferred", "outer", "done"}
                             /\ bodyEnd'[1] = "nil"
         /\ durable' \subseteq wrote'
<1> USE FrameNumbers
<1>1. pc[1] = "child"
  <2>1. 1 < f /\ Active(1)
    BY DEF StackInv, Stacked
  <2> QED
    BY <2>1 DEF StackInv, Stacked
<1>2. durable' = durable
  BY EffectFrame
<1> QED
  BY <1>1, <1>2 DEF SessionInv

\* What is left to show when one frame moves.
LEMMA SessionFrom ==
  ASSUME TypeOK, StackInv, SessionInv, NEW f \in Frames, Active(f), Effect(f),
         NEW p \in {"body", "child", "commit", "deferred", "outer", "done"},
         pc' = [pc EXCEPT ![f] = p],
         \A g \in Frames \ {f} : /\ needsRollback'[g] = needsRollback[g]
                                 /\ bodyEnd'[g] = bodyEnd[g]
                                 /\ rollbackEnd'[g] = rollbackEnd[g],
         wrote' = wrote, isolated' = isolated,
         p \in {"outer", "done"} /\ f # 1 => ~live'[f],
         p \in {"body", "child", "commit"} /\ ~broken' => live'[f],
         p = "deferred" /\ ~needsRollback'[f] => ~live'[f],
         f = 1 /\ p \in {"outer", "done"} /\ rollbackEnd'[1] \in {"none", "nil"}
           => ~live'[1],
         f = 1 /\ durable' # {} => /\ ~isolated
                                   /\ p \in {"deferred", "outer", "done"}
                                   /\ bodyEnd'[1] = "nil"
  PROVE  SessionInv'
<1> USE FrameNumbers
<1>1. pc'[f] = p /\ \A g \in Frames \ {f} : pc'[g] = pc[g]
  BY DEF TypeOK
<1>2. /\ pc'[1] \in {"outer", "done"} /\ rollbackEnd'[1] \in {"none", "nil"}
           => ~live'[1]
      /\ durable' # {} => /\ ~isolated'
                          /\ pc'[1] \in {"deferred", "outer", "done"}
                          /\ bodyEnd'[1] = "nil"
      /\ durable' \subseteq wrote'
  <2>1. CASE f = 1
    <3>1. durable' = durable \/ durable' = pending[1]
      BY <2>1, EffectFrame
    <3>2. durable' \subseteq wrote
      BY <3>1 DEF SessionInv
    <3> QED
      BY <1>1, <2>1, <3>2
  <2>2. CASE f # 1
    BY <1>1, <2>2, SessionStays
  <2> QED
    BY <2>1, <2>2
<1> QED
  BY <1>2, SessionMoves DEF SessionInv

LEMMA SessionStep ==
  ASSUME TypeOK, StackInv, FrameInv, SessionInv, [Next]_vars
  PROVE  SessionInv'
<1> USE FrameNumbers DEF frameVars, endVars, sessionVars, runVars
<1>1. CASE RunTransaction \/ RunIsolated \/ NilCallback
  <2>1. pc[1] = "unused" /\ \A g \in Frames : pc[g] = "unused"
    BY <1>1 DEF RunTransaction, RunIsolated, NilCallback, Start, StackInv, Ordered
  <2>2. /\ \A g \in Frames : ~live[g] /\ pending[g] = {} /\ g \notin wrote
        /\ durable = {}
    BY <2>1 DEF SessionInv
  <2>3. /\ pc'[1] \in {"begin", "done"}
        /\ \A g \in Frames \ {1} : pc'[g] = pc[g]
        /\ UNCHANGED <<broken, live, pending, durable, wrote, needsRollback>>
    BY <1>1 DEF RunTransaction, RunIsolated, NilCallback, Start, Began, TypeOK
  <2> QED
    BY <2>1, <2>2, <2>3 DEF SessionInv
<1>2. ASSUME NEW f \in Frames, NEW n \in Frames, RunSavepoint(f, n)
      PROVE  SessionInv'
  <2>1. /\ pc[f] = "body" /\ pc[n] = "unused" /\ n # 1
        /\ pc'[f] = "child" /\ pc'[n] = "begin"
        /\ \A g \in Frames \ {f, n} : pc'[g] = pc[g]
        /\ UNCHANGED <<broken, live, pending, durable, wrote, needsRollback, isolated,
                       bodyEnd, rollbackEnd>>
    BY <1>2 DEF RunSavepoint, Start, TypeOK
  <2>2. ~live[n] /\ n \notin wrote /\ pending[n] = {}
    BY <2>1 DEF SessionInv
  <2> QED
    BY <2>1, <2>2 DEF SessionInv
<1>3. ASSUME NEW f \in Frames, BeginReturns(f) PROVE SessionInv'
  <2>1. /\ pc[f] = "begin" /\ pc'[f] = "body" /\ ~broken /\ live'[f]
        /\ \A g \in Frames \ {f} : /\ pc'[g] = pc[g] /\ live'[g] = live[g]
                                   /\ needsRollback'[g] = needsRollback[g]
        /\ UNCHANGED <<broken, pending, durable, wrote, isolated, bodyEnd, rollbackEnd>>
    BY <1>3 DEF BeginReturns, TypeOK
  <2>2. f \notin wrote /\ pending[f] = {}
    BY <2>1 DEF SessionInv
  <2>3. \A g \in Frames : ~live'[g] => ~live[g]
    BY <2>1
  <2> QED
    BY <2>1, <2>2, <2>3 DEF SessionInv
<1>4. ASSUME NEW f \in Frames, BeginFails(f) PROVE SessionInv'
  <2>1. /\ pc[f] = "begin" /\ Active(f) /\ pc' = [pc EXCEPT ![f] = "outer"]
        /\ UNCHANGED <<needsRollback, bodyEnd, rollbackEnd, wrote, isolated>>
    BY <1>4 DEF BeginFails, Leave, Active
  <2>2. Effect(f)
    BY <1>4 DEF BeginFails, Effect
  <2>3. ~live'[f]
    BY <2>1, <2>2, EffectFrame DEF SessionInv
  <2>4. f = 1 => durable' = {}
    BY <1>4, <2>1 DEF BeginFails, NoEffect, SessionInv
  <2> QED
    BY <2>1, <2>2, <2>3, <2>4, SessionFrom
<1>5. ASSUME NEW f \in Frames, Write(f) PROVE SessionInv'
  <2>1. /\ pc[f] = "body" /\ live[f] /\ wrote' = wrote \cup {f}
        /\ pending'[f] = pending[f] \cup {f}
        /\ \A g \in Frames \ {f} : pending'[g] = pending[g]
        /\ UNCHANGED <<pc, needsRollback, bodyEnd, rollbackEnd, isolated, broken, live,
                       durable>>
    BY <1>5 DEF Write, Usable, TypeOK
  <2>2. \A g \in Frames : ~live'[g] => pending'[g] = {}
    BY <2>1 DEF SessionInv
  <2>3. \A g \in Frames : pending'[g] \subseteq wrote'
    BY <2>1 DEF SessionInv
  <2>4. \A g \in Frames : g \in wrote' => pc'[g] \notin {"unused", "begin"}
    BY <2>1 DEF SessionInv
  <2>5. durable' \subseteq wrote'
    BY <2>1 DEF SessionInv
  <2> QED
    BY <2>1, <2>2, <2>3, <2>4, <2>5 DEF SessionInv
<1>6. ASSUME NEW f \in Frames, StatementFails(f) PROVE SessionInv'
  <2>1. /\ pc[f] = "body" /\ Active(f) /\ ~broken
        /\ UNCHANGED <<pc, needsRollback, bodyEnd, rollbackEnd, wrote, isolated, durable>>
    BY <1>6 DEF StatementFails, Active, Usable
  <2>2. Effect(f)
    BY <1>6 DEF StatementFails, Effect
  <2>3. pc' = [pc EXCEPT ![f] = "body"]
    BY <2>1 DEF TypeOK
  <2>4. ~broken' => live'[f]
    BY <1>6 DEF StatementFails, Usable, Fails, Lose
  <2>5. f = 1 => durable' = {}
    BY <2>1 DEF SessionInv
  <2> QED
    BY <2>1, <2>2, <2>3, <2>4, <2>5, SessionFrom
<1>7. ASSUME NEW f \in Frames,
             CallbackReturns(f) \/ CallbackTerminates(f) \/ \E c \in Frames : ChildEnds(f, c)
      PROVE  SessionInv'
  <2>1. /\ pc[f] \in {"body", "child"} /\ Active(f) /\ NoEffect
        /\ UNCHANGED <<needsRollback, rollbackEnd, wrote, isolated>>
        /\ \A g \in Frames \ {f} : bodyEnd'[g] = bodyEnd[g]
    BY <1>7 DEF CallbackReturns, CallbackTerminates, ChildEnds, EndBody, Active,
                NoEffect, TypeOK
  <2>2. PICK p \in {"body", "commit", "deferred"} : pc' = [pc EXCEPT ![f] = p]
    BY <1>7 DEF CallbackReturns, CallbackTerminates, ChildEnds, Leave
  <2>3. Effect(f) /\ UNCHANGED <<broken, live, durable>>
    BY <2>1 DEF Effect, NoEffect
  <2>4. ~broken => live[f]
    BY <2>1 DEF SessionInv
  <2>5. needsRollback[f]
    BY <2>1 DEF FrameInv, FrameOK
  <2>6. f = 1 => durable = {}
    BY <2>1 DEF SessionInv
  <2> QED
    BY <2>1, <2>2, <2>3, <2>4, <2>5, <2>6, SessionFrom
<1>8. ASSUME NEW f \in Frames, CommitReturns(f) \/ CommitTerminates(f)
      PROVE  SessionInv'
  <2>1. /\ pc[f] = "commit" /\ Active(f) /\ pc' = [pc EXCEPT ![f] = "deferred"]
        /\ UNCHANGED <<bodyEnd, rollbackEnd, wrote, isolated>>
        /\ \A g \in Frames \ {f} : needsRollback'[g] = needsRollback[g]
    BY <1>8 DEF CommitReturns, CommitTerminates, Leave, Active, TypeOK
  <2>2. Effect(f)
    BY <1>8, CommitEffect
  <2>3. bodyEnd[f] = "nil" /\ needsRollback[f] /\ ~Isolated(f)
    BY <2>1 DEF FrameInv, FrameOK
  <2>4. ~needsRollback'[f] => ~live'[f]
    BY <1>8, <2>3, CommitEnds DEF CommitTerminates
  <2>5. f = 1 => ~isolated /\ bodyEnd'[1] = "nil"
    BY <2>1, <2>3 DEF Isolated
  <2> QED
    BY <2>1, <2>2, <2>4, <2>5, SessionFrom
<1>9. ASSUME NEW f \in Frames, Rollback(f) PROVE SessionInv'
  <2>1. /\ pc[f] = "deferred" /\ Active(f) /\ pc' = [pc EXCEPT ![f] = "outer"]
        /\ UNCHANGED <<needsRollback, bodyEnd, wrote, isolated>>
        /\ \A g \in Frames \ {f} : rollbackEnd'[g] = rollbackEnd[g]
        /\ rollbackEnd'[f] \in {"nil", "error", "panic"}
    BY <1>9 DEF Rollback, RolledBack, Leave, Active, TypeOK
  <2>2. Effect(f)
    BY <1>9, RollbackEffect
  <2>3. /\ f # 1 => ~live'[f]
        /\ rollbackEnd'[f] = "nil" => ~live'[f]
    BY <1>9, RollbackEnds
  <2>4. durable' = durable
    BY <1>9 DEF Rollback, RollbackSucceeds, RollbackFails, RollbackPanics, NoEffect,
                NoSuchSavepoint, LeaveBehind, Undo
  <2>5. f = 1 /\ durable # {} => ~isolated /\ bodyEnd'[1] = "nil"
    BY <2>1 DEF SessionInv
  <2> QED
    BY <2>1, <2>2, <2>3, <2>4, <2>5, SessionFrom
<1>10. ASSUME NEW f \in Frames, NoRollback(f) \/ Observe(f) PROVE SessionInv'
  <2>1. /\ pc[f] \in {"deferred", "outer"} /\ Active(f) /\ NoEffect
        /\ pc[f] = "deferred" => ~needsRollback[f]
        /\ UNCHANGED <<needsRollback, bodyEnd, rollbackEnd, wrote, isolated>>
    BY <1>10 DEF NoRollback, Observe, Active, NoEffect
  <2>2. PICK p \in {"outer", "done"} : pc' = [pc EXCEPT ![f] = p]
    BY <1>10 DEF NoRollback, Observe
  <2>3. Effect(f) /\ UNCHANGED <<live, durable>>
    BY <2>1 DEF Effect, NoEffect
  <2>4. f # 1 \/ pc[f] = "deferred" => ~live[f]
    BY <2>1 DEF SessionInv
  <2>5. f = 1 /\ pc[f] = "outer" /\ rollbackEnd[1] \in {"none", "nil"} => ~live[1]
    BY DEF SessionInv
  <2>6. f = 1 /\ durable # {} => ~isolated /\ bodyEnd[1] = "nil"
    BY DEF SessionInv
  <2> QED
    BY <2>1, <2>2, <2>3, <2>4, <2>5, <2>6, SessionFrom
<1>11. CASE UNCHANGED <<pc, needsRollback, bodyEnd, rollbackEnd, isolated, broken, live,
                        pending, durable, wrote>>
  BY <1>11 DEF SessionInv
<1>12. ASSUME NEW f \in Frames, Cancel(f) PROVE SessionInv'
  BY <1>11, <1>12 DEF Cancel
<1>13. CASE UNCHANGED vars
  BY <1>11, <1>13 DEF vars
<1> QED
  BY <1>1, <1>2, <1>3, <1>4, <1>5, <1>6, <1>7, <1>8, <1>9, <1>10, <1>12, <1>13
     DEF Next, Step, Terminated

-----------------------------------------------------------------------------
LEMMA ControlInit == Init => ControlInv
<1> SUFFICES ASSUME Init PROVE ControlInv
  OBVIOUS
<1> USE FrameNumbers DEF Init
<1>1. TypeOK
  BY DEF TypeOK, Locations, Exits, Outcomes, Ends
<1>2. StackInv
  BY DEF StackInv, Ordered, Stacked, Nested, OneChild, Active
<1>3. FrameInv
  BY DEF FrameInv, FrameOK, Fresh
<1>4. BorrowInv /\ SessionInv
  BY DEF BorrowInv, SessionInv
<1> QED
  BY <1>1, <1>2, <1>3, <1>4 DEF ControlInv

LEMMA ControlNext == ControlInv /\ [Next]_vars => ControlInv'
BY TypeStep, StackStep, FrameStep, BorrowStep, SessionStep DEF ControlInv

LEMMA ControlInvariance == Spec => []ControlInv
BY ControlInit, ControlNext, PTL DEF Spec

\* The variables of the runners keep their types.
THEOREM TypeCorrect == Spec => []TypeOK
<1>1. ControlInv => TypeOK
  BY DEF ControlInv
<1> QED
  BY <1>1, ControlInvariance, PTL

(***************************************************************************)
(* Every transaction or savepoint whose callback ran is committed or       *)
(* rolled back, once (transaction.go:170-197).                             *)
(***************************************************************************)
THEOREM FinalizesOnce == Spec => []FinalizedOnce
<1>1. ControlInv => FinalizedOnce
  <2> SUFFICES ASSUME ControlInv, NEW f \in Frames
               PROVE  /\ pc[f] \in {"outer", "done"} /\ bodyEnd[f] # "none" =>
                           (rollbackEnd[f] = "none" <=> commitEnd[f] \in {"nil", "error"})
                      /\ commitEnd[f] # "none" => bodyEnd[f] = "nil"
    BY DEF FinalizedOnce
  <2>1. FrameOK(f) /\ pc[f] \in Locations
    BY DEF ControlInv, FrameInv, TypeOK
  <2> QED
    BY <2>1 DEF FrameOK, Fresh, NeverBegan, CleanedUp, Ended, Locations
<1> QED
  BY <1>1, ControlInvariance, PTL

(***************************************************************************)
(* The caller sees the cause that ended the callback or the commit, and    *)
(* the cleanup's error at most beside it (transaction.go:58-61).           *)
(***************************************************************************)
THEOREM PreservesCause == Spec => []CausePreserved
<1>1. ControlInv => CausePreserved
  <2> SUFFICES ASSUME ControlInv, NEW f \in Frames, pc[f] = "done"
               PROVE
                 /\ bodyEnd[f] = "error" =>
                      /\ exit[f] = "return"
                      /\ err[f] = {"Callback"} \cup
                                  (IF rollbackEnd[f] = "error" THEN {"Rollback"} ELSE {})
                 /\ bodyEnd[f] \in {"panic", "goexit"} => exit[f] = bodyEnd[f]
                 /\ commitEnd[f] \in {"panic", "goexit"} => exit[f] = commitEnd[f]
                 /\ commitEnd[f] = "error" => exit[f] = "return" /\ err[f] = {"Commit"}
    BY DEF CausePreserved
  <2>1. FrameOK(f)
    BY DEF ControlInv, FrameInv
  <2>2. CASE bodyEnd[f] = "none"
    BY <2>1, <2>2 DEF FrameOK, NeverBegan, CleanedUp, Ended
  <2>3. CASE bodyEnd[f] # "none"
    <3>1. CleanedUp(f)
      BY <2>1, <2>3 DEF FrameOK, NeverBegan
    <3> QED
      BY <3>1 DEF CleanedUp, Ended, CauseExit, CauseErr
  <2> QED
    BY <2>2, <2>3
<1> QED
  BY <1>1, ControlInvariance, PTL

\* What the observer of a frame that is over has heard.
LEMMA ControlObserved == ControlInv => ObservedTruthfully
<1> SUFFICES ASSUME ControlInv, NEW f \in Frames, pc[f] = "done", ~Isolated(f)
             PROVE
               /\ observed[f] = "success" <=> commitEnd[f] = "nil"
               /\ observed[f] = "aborted" <=>
                    "goexit" \in {bodyEnd[f], commitEnd[f], exit[f]}
               /\ observed[f] = "none" <=> err[f] = {"NilCallback"}
  BY DEF ObservedTruthfully
<1>1. FrameOK(f)
  BY DEF ControlInv, FrameInv
<1>2. CASE err[f] = {"NilCallback"} /\ exit[f] = "none" /\ observed[f] = "none"
           /\ bodyEnd[f] = "none" /\ commitEnd[f] = "none"
  BY <1>2
<1>3. CASE NeverBegan(f) /\ observed[f] = Outcome(f)
  BY <1>3 DEF NeverBegan, Outcome
<1>4. CASE CleanedUp(f) /\ observed[f] = Outcome(f)
  <2>1. bodyEnd[f] \in Ends /\ commitEnd[f] \in Ends
    BY DEF ControlInv, TypeOK
  <2>2. exit[f] = CauseExit(f)
    BY <1>4 DEF CleanedUp
  <2>3. "NilCallback" \notin err[f]
    BY <1>4 DEF CleanedUp, CauseErr
  <2>4. exit[f] = "goexit" <=> "goexit" \in {bodyEnd[f], commitEnd[f]}
    BY <1>4, <2>1, <2>2 DEF CleanedUp, Ended, CauseExit, Ends
  <2>5. exit[f] \in {"return", "panic", "goexit"}
    BY <2>2 DEF CauseExit
  <2>6. exit[f] = "return" /\ err[f] = {} <=> commitEnd[f] = "nil"
    <3>1. commitEnd[f] = "nil" => exit[f] = "return" /\ err[f] = {}
      BY <1>4, <2>2 DEF CleanedUp, Ended, CauseExit, CauseErr
    <3>2. exit[f] = "return" /\ err[f] = {} => commitEnd[f] = "nil"
      BY <1>4, <2>1, <2>2 DEF CleanedUp, Ended, CauseExit, CauseErr, Ends
    <3> QED
      BY <3>1, <3>2
  <2> QED
    BY <1>4, <2>3, <2>4, <2>5, <2>6 DEF Outcome
<1> QED
  BY <1>1, <1>2, <1>3, <1>4 DEF FrameOK

(***************************************************************************)
(* The observer hears of success exactly when the commit succeeded, and of *)
(* Goexit as aborted (transaction.go:79-96, 129-144).                      *)
(***************************************************************************)
THEOREM ObservesTruthfully == Spec => []ObservedTruthfully
BY ControlObserved, ControlInvariance, PTL

(***************************************************************************)
(* A transaction that is over has given its connection back, unless its    *)
(* rollback panicked (transaction.go:171-186,                              *)
(* postgrestest/transaction.go:58-76).                                     *)
(***************************************************************************)
THEOREM ReturnsConnection == Spec => []ConnectionReturned
<1>1. ControlInv => ConnectionReturned
  BY DEF ControlInv, BorrowInv, ConnectionReturned
<1> QED
  BY <1>1, ControlInvariance, PTL

(***************************************************************************)
(* RunIsolated makes nothing durable and returns nil only when the         *)
(* rollback has taken effect (postgrestest/transaction.go:31-40, 58-76).   *)
(***************************************************************************)
THEOREM IsolatesCompletely == Spec => []IsolationComplete
<1>1. ControlInv => IsolationComplete
  <2> SUFFICES ASSUME ControlInv, isolated
               PROVE
                 /\ durable = {}
                 /\ pc[1] = "done" /\ exit[1] = "return" /\ err[1] = {} =>
                      /\ bodyEnd[1] = "nil" /\ rollbackEnd[1] = "nil"
                      /\ ~borrowed /\ pending[1] = {}
    BY DEF IsolationComplete
  <2>1. durable = {}
    BY DEF ControlInv, SessionInv
  <2>2. ASSUME pc[1] = "done", exit[1] = "return", err[1] = {}
        PROVE  /\ bodyEnd[1] = "nil" /\ rollbackEnd[1] = "nil"
               /\ ~borrowed /\ pending[1] = {}
    <3>1. 1 \in Frames /\ Isolated(1) /\ bodyEnd[1] \in Ends
      BY FrameNumbers DEF Isolated, ControlInv, TypeOK
    <3>2. CleanedUp(1)
      BY <2>2, <3>1 DEF ControlInv, FrameInv, FrameOK, NeverBegan
    <3>3. commitEnd[1] = "none" /\ needsRollback[1] /\ rollbackEnd[1] # "none"
      BY <3>1, <3>2 DEF CleanedUp, Ended
    <3>4. CauseExit(1) = "return" /\ CauseErr(1) = {}
      BY <2>2, <3>2, <3>3 DEF CleanedUp, CauseExit, CauseErr
    <3>5. bodyEnd[1] = "nil" /\ rollbackEnd[1] = "nil"
      BY <2>2, <3>1, <3>2, <3>3, <3>4 DEF CleanedUp, Ended, CauseExit, CauseErr, Ends
    <3>6. ~borrowed /\ ~live[1]
      BY <2>2, <3>5 DEF ControlInv, BorrowInv, SessionInv
    <3> QED
      BY <3>1, <3>5, <3>6 DEF ControlInv, SessionInv
  <2> QED
    BY <2>1, <2>2
<1> QED
  BY <1>1, ControlInvariance, PTL

-----------------------------------------------------------------------------
(***************************************************************************)
(* Ancestry, for any parent function.                                      *)
(***************************************************************************)
LEMMA ChainSelf ==
  ASSUME NEW up, NEW f \in Frames
  PROVE  f \in Chain(up, f)
BY DEF Chain

\* Chain is the least set that holds the frame and is closed under parents.
LEMMA ChainLeast ==
  ASSUME NEW up, NEW f \in Frames, NEW S \in SUBSET Frames,
         f \in S, \A h \in S : up[h] \in S \cup {0}
  PROVE  Chain(up, f) \subseteq S
BY DEF Chain

LEMMA ChainUp ==
  ASSUME NEW up, NEW f \in Frames, NEW a \in Chain(up, f), up[a] \in Frames
  PROVE  up[a] \in Chain(up, f)
<1>1. up[a] # 0
  BY FrameNumbers
<1> QED
  BY <1>1 DEF Chain

LEMMA ChainClosed ==
  ASSUME NEW up \in [Frames -> {0} \cup Frames], NEW f \in Frames
  PROVE  /\ Chain(up, f) \in SUBSET Frames
         /\ \A h \in Chain(up, f) : up[h] \in Chain(up, f) \cup {0}
<1>1. Chain(up, f) \in SUBSET Frames
  BY DEF Chain
<1> QED
  BY <1>1, ChainUp

\* An enclosing frame's enclosing frames enclose the frame.
LEMMA ChainTrans ==
  ASSUME NEW up \in [Frames -> {0} \cup Frames], NEW f \in Frames, NEW a \in Chain(up, f)
  PROVE  a \in Frames /\ Chain(up, a) \subseteq Chain(up, f)
<1>1. a \in Frames
  BY ChainClosed
<1> QED
  BY <1>1, ChainClosed, ChainLeast

LEMMA ChainParent ==
  ASSUME NEW up \in [Frames -> {0} \cup Frames], NEW f \in Frames, up[f] \in Frames
  PROVE  Chain(up, f) = {f} \cup Chain(up, up[f])
<1> DEFINE C == Chain(up, up[f])
           S == {f} \cup C
<1>1. C \in SUBSET Frames /\ \A h \in C : up[h] \in C \cup {0}
  BY ChainClosed
<1>2. up[f] \in C
  BY ChainSelf
<1>3. S \in SUBSET Frames /\ f \in S /\ \A h \in S : up[h] \in S \cup {0}
  BY <1>1, <1>2
<1>4. Chain(up, f) \subseteq S
  <2> HIDE DEF S
  <2> QED
    BY <1>3, ChainLeast
<1>5. f \in Chain(up, f) /\ up[f] \in Chain(up, f)
  BY ChainSelf, ChainUp
<1>6. C \subseteq Chain(up, f)
  BY <1>5, ChainTrans
<1> QED
  BY <1>4, <1>5, <1>6

LEMMA ChainRoot ==
  ASSUME NEW up, NEW f \in Frames, up[f] = 0
  PROVE  Chain(up, f) = {f}
<1>1. {f} \in SUBSET Frames /\ \A h \in {f} : up[h] \in {f} \cup {0}
  OBVIOUS
<1>2. Chain(up, f) \subseteq {f}
  BY <1>1, ChainLeast
<1> QED
  BY <1>2, ChainSelf

\* Enclosing frames were called earlier.
LEMMA ChainEarlier ==
  ASSUME NEW up \in [Frames -> {0} \cup Frames], NEW f \in Frames,
         \A h \in Frames : up[h] \in Frames => up[h] < h
  PROVE  \A a \in Chain(up, f) : a <= f
<1> DEFINE S == {h \in Frames : h <= f}
<1>1. S \in SUBSET Frames /\ f \in S
  BY FrameNumbers
<1>2. ASSUME NEW h \in S PROVE up[h] \in S \cup {0}
  <2>1. CASE up[h] \in Frames
    <3>1. up[h] \in Nat /\ h \in Nat /\ f \in Nat /\ up[h] < h /\ h <= f
      BY <2>1, FrameNumbers
    <3> QED
      BY <2>1, <3>1
  <2> QED
    BY <2>1
<1>3. Chain(up, f) \subseteq S
  <2> HIDE DEF S
  <2> QED
    BY <1>1, <1>2, ChainLeast
<1> QED
  BY <1>3

\* Of two enclosing frames one encloses the other.
LEMMA ChainLinear ==
  ASSUME NEW up \in [Frames -> {0} \cup Frames], NEW f \in Frames,
         NEW g \in Chain(up, f), NEW a \in Chain(up, f), a \notin Chain(up, g)
  PROVE  g \in Chain(up, a)
<1> DEFINE S == Chain(up, g) \cup {h \in Frames : g \in Chain(up, h)}
<1>1. g \in Frames
  BY ChainClosed
<1>2. S \in SUBSET Frames /\ f \in S
  BY <1>1, ChainClosed
<1>3. ASSUME NEW h \in S PROVE up[h] \in S \cup {0}
  <2>1. CASE h \in Chain(up, g)
    BY <1>1, <2>1, ChainClosed
  <2>2. CASE h \in Frames /\ g \in Chain(up, h)
    <3>1. CASE h = g
      BY <1>1, <2>1, <3>1, ChainSelf
    <3>2. CASE h # g /\ up[h] \in Frames
      <4>1. g \in Chain(up, up[h])
        BY <2>2, <3>2, ChainParent
      <4> QED
        BY <3>2, <4>1
    <3>3. CASE up[h] = 0
      BY <3>3
    <3> QED
      BY <2>2, <3>1, <3>2, <3>3
  <2> QED
    BY <2>1, <2>2
<1>4. Chain(up, f) \subseteq S
  <2> HIDE DEF S
  <2> QED
    BY <1>2, <1>3, ChainLeast
<1> QED
  BY <1>4

\* A new frame encloses nothing that is there.
LEMMA ChainGrows ==
  ASSUME NEW up \in [Frames -> {0} \cup Frames], NEW to \in [Frames -> {0} \cup Frames],
         NEW n \in Frames, NEW f \in Frames, f # n,
         \A h \in Frames : up[h] # n,
         \A h \in Frames \ {n} : to[h] = up[h]
  PROVE  n \notin Chain(up, f) /\ Chain(to, f) \subseteq Chain(up, f)
<1> DEFINE S == Chain(up, f) \ {n}
<1>1. Chain(up, f) \in SUBSET Frames /\ \A h \in Chain(up, f) : up[h] \in Chain(up, f) \cup {0}
  BY ChainClosed
<1>2. f \in Chain(up, f)
  BY ChainSelf
<1>3. S \in SUBSET Frames /\ f \in S
  BY <1>1, <1>2
<1>4. \A h \in S : up[h] \in S \cup {0} /\ to[h] \in S \cup {0}
  BY <1>1
<1>5. Chain(up, f) \subseteq S /\ Chain(to, f) \subseteq S
  <2> HIDE DEF S
  <2> QED
    BY <1>3, <1>4, ChainLeast
<1> QED
  BY <1>5

\* The same for the frames of the specification.
LEMMA EnclosingFrames ==
  ASSUME TypeOK, StackInv, NEW f \in Frames
  PROVE  /\ f \in Enclosing(f)
         /\ Enclosing(f) \subseteq Frames
         /\ \A a \in Enclosing(f) : a <= f /\ Enclosing(a) \subseteq Enclosing(f)
         /\ \A g, a \in Enclosing(f) : a \notin Enclosing(g) => g \in Enclosing(a)
         /\ parent[f] \in Frames => Enclosing(f) = {f} \cup Enclosing(parent[f])
         /\ Enclosing(1) = {1}
<1>1. parent \in [Frames -> {0} \cup Frames] /\ parent[1] = 0
  BY DEF TypeOK, StackInv, Ordered
<1>2. \A h \in Frames : parent[h] \in Frames => parent[h] < h
  BY DEF StackInv, Ordered
<1>3. \A a \in Enclosing(f) : a <= f
  BY <1>1, <1>2, ChainEarlier DEF Enclosing
<1>4. \A a \in Enclosing(f) : Enclosing(a) \subseteq Enclosing(f)
  BY <1>1, ChainTrans DEF Enclosing
<1>5. \A g, a \in Enclosing(f) : a \notin Enclosing(g) => g \in Enclosing(a)
  BY <1>1, ChainLinear DEF Enclosing
<1>6. f \in Enclosing(f) /\ Enclosing(f) \subseteq Frames
  BY <1>1, ChainSelf, ChainClosed DEF Enclosing
<1>7. parent[f] \in Frames => Enclosing(f) = {f} \cup Enclosing(parent[f])
  BY <1>1, ChainParent DEF Enclosing
<1>8. Enclosing(1) = {1}
  BY <1>1, FrameNumbers, ChainRoot DEF Enclosing
<1> QED
  BY <1>3, <1>4, <1>5, <1>6, <1>7, <1>8

\* A new savepoint changes no frame's ancestry and takes its caller's.
LEMMA EnclosingGrows ==
  ASSUME TypeOK, StackInv, TypeOK', NEW f \in Frames, NEW n \in Frames, RunSavepoint(f, n)
  PROVE  /\ \A g \in Frames \ {n} : (Enclosing(g))' = Enclosing(g) /\ n \notin Enclosing(g)
         /\ (Enclosing(n))' = {n} \cup Enclosing(f)
<1>1. /\ parent \in [Frames -> {0} \cup Frames] /\ parent' \in [Frames -> {0} \cup Frames]
      /\ parent'[n] = f /\ \A g \in Frames \ {n} : parent'[g] = parent[g]
      /\ pc[n] = "unused" /\ pc[f] = "body"
  BY DEF TypeOK, RunSavepoint, Start
<1>2. \A g \in Frames : parent[g] # n
  <2>1. ASSUME NEW g \in Frames, parent[g] = n PROVE FALSE
    BY <1>1, <2>1 DEF StackInv, Ordered
  <2> QED
    BY <2>1
<1>3. f # n /\ \A g \in Frames : parent'[g] # n
  BY <1>1, <1>2
<1>4. ASSUME NEW g \in Frames \ {n}
      PROVE  (Enclosing(g))' = Enclosing(g) /\ n \notin Enclosing(g)
  <2>1. n \notin Chain(parent, g) /\ Chain(parent', g) \subseteq Chain(parent, g)
    BY <1>1, <1>2, ChainGrows
  <2>2. Chain(parent, g) \subseteq Chain(parent', g)
    BY <1>1, <1>3, ChainGrows
  <2> QED
    BY <2>1, <2>2 DEF Enclosing
<1>5. (Enclosing(n))' = {n} \cup (Enclosing(f))'
  BY <1>1, ChainParent DEF Enclosing
<1> QED
  BY <1>3, <1>4, <1>5

\* Who may be among a frame's enclosing frames.
LEMMA ChainStep ==
  ASSUME TypeOK, StackInv, TypeOK', ChainInv, [Next]_vars
  PROVE  ChainInv'
<1> USE FrameNumbers
<1>1. CASE UNCHANGED <<pc, parent>>
  BY <1>1 DEF ChainInv, Enclosing, Active
<1>2. CASE /\ pc[1] = "unused"
           /\ \E p \in {"begin", "done"} : pc' = [pc EXCEPT ![1] = p]
           /\ parent' = [parent EXCEPT ![1] = 0]
  <2>1. parent' = parent
    BY <1>2 DEF TypeOK, StackInv, Ordered
  <2>2. (Enclosing(1))' = {1}
    BY <2>1, EnclosingFrames DEF Enclosing
  <2>3. \A g \in Frames : pc[g] = "unused"
    BY <1>2 DEF StackInv, Ordered
  <2>4. pc'[1] # "unused" /\ \A g \in Frames \ {1} : pc'[g] = "unused"
    BY <1>2, <2>3 DEF TypeOK
  <2> QED
    BY <2>2, <2>4 DEF ChainInv
<1>3. ASSUME NEW f \in Frames, NEW n \in Frames, RunSavepoint(f, n)
      PROVE  ChainInv'
  <2>1. /\ pc[f] = "body" /\ pc[n] = "unused"
        /\ pc'[f] = "child" /\ pc'[n] = "begin"
        /\ \A g \in Frames \ {f, n} : pc'[g] = pc[g]
    BY <1>3 DEF RunSavepoint, TypeOK
  <2>2. /\ \A g \in Frames \ {n} : (Enclosing(g))' = Enclosing(g) /\ n \notin Enclosing(g)
        /\ (Enclosing(n))' = {n} \cup Enclosing(f)
    BY <1>3, EnclosingGrows
  <2>3. \A g \in Frames : Enclosing(g) \subseteq Frames
    BY EnclosingFrames
  <2> SUFFICES ASSUME NEW g \in Frames, pc'[g] # "unused"
               PROVE  /\ 1 \in (Enclosing(g))'
                      /\ \A a \in (Enclosing(g))' : pc'[a] # "unused"
                      /\ (Active(g))' =>
                           \A a \in (Enclosing(g))' : a = g \/ pc'[a] = "child"
    BY DEF ChainInv
  <2>4. CASE g = n
    <3>1. /\ 1 \in Enclosing(f)
          /\ \A a \in Enclosing(f) : a = f \/ pc[a] = "child"
      BY <2>1 DEF ChainInv, Active
    <3>2. \A a \in Enclosing(f) : pc'[a] = "child"
      BY <2>1, <2>3, <3>1
    <3> QED
      BY <2>1, <2>2, <2>4, <3>1, <3>2
  <2>5. CASE g # n
    <3>1. pc[g] # "unused" /\ ((Active(g))' => Active(g))
      BY <2>1, <2>5 DEF Active
    <3>2. /\ 1 \in Enclosing(g)
          /\ \A a \in Enclosing(g) : pc[a] # "unused"
          /\ Active(g) => \A a \in Enclosing(g) : a = g \/ pc[a] = "child"
      BY <3>1 DEF ChainInv
    <3>3. \A a \in Enclosing(g) : pc'[a] # "unused" /\ (pc[a] = "child" => pc'[a] = "child")
      BY <2>1, <2>3, <3>2
    <3> QED
      BY <2>2, <2>5, <3>1, <3>2, <3>3
  <2> QED
    BY <2>4, <2>5
<1>4. ASSUME NEW f \in Frames, Active(f), parent' = parent,
             \A g \in Frames : Active(g) /\ g # f => g < f /\ pc[g] = "child",
             NEW p \in Locations \ {"unused", "begin", "child"},
             pc' = [pc EXCEPT ![f] = p]
      PROVE  ChainInv'
  <2>1. pc'[f] = p /\ \A g \in Frames : g # f => pc'[g] = pc[g]
    BY <1>4 DEF TypeOK
  <2>2. \A g \in Frames : (Enclosing(g))' = Enclosing(g)
    BY <1>4 DEF Enclosing
  <2> SUFFICES ASSUME NEW g \in Frames, pc'[g] # "unused"
               PROVE  /\ 1 \in Enclosing(g)
                      /\ \A a \in Enclosing(g) : pc'[a] # "unused"
                      /\ (Active(g))' => \A a \in Enclosing(g) : a = g \/ pc'[a] = "child"
    BY <2>2 DEF ChainInv
  <2>3. pc[g] # "unused" /\ ((Active(g))' => Active(g))
    BY <1>4, <2>1 DEF Active
  <2>4. /\ Enclosing(g) \subseteq Frames /\ \A a \in Enclosing(g) : a <= g
        /\ 1 \in Enclosing(g)
        /\ \A a \in Enclosing(g) : pc[a] # "unused"
        /\ Active(g) => \A a \in Enclosing(g) : a = g \/ pc[a] = "child"
    BY <2>3, EnclosingFrames DEF ChainInv
  <2>5. ASSUME Active(g), NEW a \in Enclosing(g), a # g PROVE a # f
    <3>1. g = f \/ g < f
      BY <1>4, <2>5
    <3>2. a <= g /\ a \in Nat /\ g \in Nat /\ f \in Nat
      BY <2>4
    <3> QED
      BY <2>5, <3>1, <3>2
  <2> QED
    BY <1>4, <2>1, <2>3, <2>4, <2>5
<1> QED
  BY <1>1, <1>2, <1>3, <1>4, ControlStep

-----------------------------------------------------------------------------
\* A step of one frame leaves the others where they are.
LEMMA OthersRest ==
  ASSUME TypeOK, NEW k \in Frames, Step(k)
  PROVE  /\ wrote' = wrote /\ faulty' = faulty
         /\ \A a \in Frames \ {k} :
              /\ pc'[a] = pc[a] /\ needsRollback'[a] = needsRollback[a]
              /\ bodyEnd'[a] = bodyEnd[a] /\ commitEnd'[a] = commitEnd[a]
              /\ rollbackEnd'[a] = rollbackEnd[a]
              /\ (Tainted(a))' <=> Tainted(a)
<1> USE DEF frameVars, endVars, sessionVars, runVars, Leave, EndBody, TypeOK
<1>1. /\ wrote' = wrote /\ faulty' = faulty
      /\ \A a \in Frames \ {k} :
           /\ pc'[a] = pc[a] /\ needsRollback'[a] = needsRollback[a]
           /\ bodyEnd'[a] = bodyEnd[a] /\ commitEnd'[a] = commitEnd[a]
           /\ rollbackEnd'[a] = rollbackEnd[a]
  <2>1. CASE BeginReturns(k) \/ BeginFails(k)
    BY <2>1 DEF BeginReturns, BeginFails
  <2>2. CASE CallbackReturns(k) \/ CallbackTerminates(k)
    BY <2>2 DEF CallbackReturns, CallbackTerminates
  <2>3. CASE \E c \in Frames : ChildEnds(k, c)
    BY <2>3 DEF ChildEnds
  <2>4. CASE CommitReturns(k) \/ CommitTerminates(k)
    BY <2>4 DEF CommitReturns, CommitTerminates
  <2>5. CASE Rollback(k)
    BY <2>5 DEF Rollback, RolledBack
  <2>6. CASE NoRollback(k) \/ Observe(k)
    BY <2>6 DEF NoRollback, Observe
  <2> QED
    BY <2>1, <2>2, <2>3, <2>4, <2>5, <2>6 DEF Step
<1> QED
  BY <1>1 DEF Tainted

\* Nothing above the last active frame exists in the session.
LEMMA NothingAbove ==
  ASSUME TypeOK, SessionInv, NEW k \in Frames,
         \A g \in Frames : Active(g) /\ g # k => g < k /\ pc[g] = "child"
  PROVE  \A j \in Frames : j > k => ~live[j]
<1> SUFFICES ASSUME NEW j \in Frames, j > k, live[j] PROVE FALSE
  OBVIOUS
<1>1. j \in Nat /\ k \in Nat /\ j # 1 /\ j # k /\ ~(j < k)
  BY FrameNumbers
<1>2. Active(j)
  BY <1>1 DEF SessionInv, Active
<1> QED
  BY <1>1, <1>2

\* Pending writes after a step that hands none up and forgives none.
LEMMA PendingStays ==
  ASSUME TypeOK, SessionInv, PendingInv,
         \A f \in Frames : pc[f] # "unused" => (Enclosing(f))' = Enclosing(f),
         \A g \in Frames : pending'[g] \subseteq pending[g] \cup {g},
         \A g \in Frames : live'[g] => live[g],
         \A f \in Frames : Enclosing(f) \subseteq Frames,
         \A a \in Frames : pc[a] \in {"deferred", "outer", "done"} =>
           /\ pc'[a] \in {"deferred", "outer", "done"}
           /\ (Tainted(a))' =>
                /\ Tainted(a)
                /\ aborted \/ (pc[a] = "deferred" /\ needsRollback[a]) =>
                     aborted' \/ (pc'[a] = "deferred" /\ needsRollback'[a])
  PROVE  PendingInv'
<1> SUFFICES ASSUME NEW g \in Frames, NEW f \in pending'[g]
             PROVE  /\ g \in (Enclosing(f))'
                    /\ \A a \in (Enclosing(f))' \ (Enclosing(g))' : (PassedOn(g, a))'
  BY DEF PendingInv
<1>1. CASE f = g
  <2>1. g \in (Enclosing(g))'
    BY ChainSelf DEF Enclosing
  <2> QED
    BY <1>1, <2>1
<1>2. CASE f \in pending[g]
  <2>1. f \in Frames /\ pc[f] # "unused" /\ pc[g] # "unused"
    BY <1>2 DEF TypeOK, SessionInv
  <2>2. (Enclosing(f))' = Enclosing(f) /\ (Enclosing(g))' = Enclosing(g)
    BY <2>1
  <2>3. ASSUME NEW a \in Enclosing(f) \ Enclosing(g) PROVE (PassedOn(g, a))'
    <3>1. PassedOn(g, a) /\ a \in Frames
      BY <1>2, <2>1 DEF PendingInv
    <3> QED
      BY <3>1 DEF PassedOn
  <2> QED
    BY <1>2, <2>2, <2>3 DEF PendingInv
<1> QED
  BY <1>1, <1>2

\* The last active frame hands its writes to its parent.
LEMMA PendingMerges ==
  ASSUME TypeOK, StackInv, SessionInv, ChainInv, PendingInv,
         NEW k \in Frames \ {1}, Step(k), pc[k] \in {"commit", "deferred"}, ~broken,
         Merge(k), live' = [live EXCEPT ![k] = FALSE], aborted' = aborted,
         pc'[k] \in {"deferred", "outer"},
         (Tainted(k))' => /\ pc[k] = "commit"
                          /\ aborted' \/ (pc'[k] = "deferred" /\ needsRollback'[k])
  PROVE  PendingInv'
<1> USE FrameNumbers
<1>1. /\ parent' = parent /\ Active(k)
      /\ \A g \in Frames : Active(g) /\ g # k => g < k /\ pc[g] = "child"
  BY TopActs
<1>2. PICK p \in Frames :
        p = parent[k] /\ p < k /\ \A j \in Frames : p < j /\ j < k => ~Active(j)
  BY <1>1, ParentLives DEF StackInv, Nested
<1>3. \A g \in Frames : (Enclosing(g))' = Enclosing(g) /\ Enclosing(g) \subseteq Frames
  BY <1>1, EnclosingFrames DEF Enclosing
<1>4. Enclosing(k) = {k} \cup Enclosing(p)
  BY <1>2, EnclosingFrames
<1>5. /\ pending'[k] = {} /\ pending'[p] = pending[p] \cup pending[k]
      /\ \A g \in Frames \ {k, p} : pending'[g] = pending[g]
  BY <1>2 DEF Merge, TypeOK
<1>6. \A j \in Frames : live'[j] = (live[j] /\ j # k)
  BY DEF TypeOK
<1>7. \A j \in Frames : j > p => ~live'[j]
  <2> SUFFICES ASSUME NEW j \in Frames, j > p, live[j], j # k PROVE FALSE
    BY <1>6
  <2>1. ~(j > k)
    BY <1>1, NothingAbove
  <2>2. j < k /\ j # 1 /\ p < j
    BY <1>2, <2>1
  <2>3. Active(j)
    BY <2>2 DEF SessionInv, Active
  <2> QED
    BY <1>2, <2>2, <2>3
<1>8. \A a \in Frames \ {k} :
        /\ pc'[a] = pc[a] /\ needsRollback'[a] = needsRollback[a]
        /\ (Tainted(a))' <=> Tainted(a)
  BY OthersRest
<1>9. ASSUME NEW g \in Frames, NEW a \in Frames, PassedOn(g, a)
      PROVE  (PassedOn(g, a))'
  <2>1. CASE a = k
    <3>1. pc[k] = "deferred"
      BY <1>9, <2>1 DEF PassedOn
    <3>2. ~(Tainted(k))'
      BY <3>1
    <3> QED
      BY <1>6, <1>9, <2>1, <3>2 DEF PassedOn
  <2>2. CASE a # k
    BY <1>6, <1>8, <1>9, <2>2 DEF PassedOn
  <2> QED
    BY <2>1, <2>2
<1>10. ASSUME NEW a \in Frames, PassedOn(k, a), a # k
       PROVE  (PassedOn(p, a))'
  <2>1. ~(pc[a] = "deferred")
    <3>1. pc[a] = "deferred" => Active(a) /\ pc[a] # "child"
      BY DEF Active
    <3> QED
      BY <1>1, <1>10, <3>1
  <2> QED
    BY <1>6, <1>7, <1>8, <1>10, <2>1 DEF PassedOn
<1>11. (PassedOn(p, k))'
  BY <1>6, <1>7 DEF PassedOn
<1> SUFFICES ASSUME NEW g \in Frames, NEW f \in pending'[g]
             PROVE  /\ g \in Enclosing(f)
                    /\ \A a \in Enclosing(f) \ Enclosing(g) : (PassedOn(g, a))'
  <2>1. \A g \in Frames : \A f \in pending'[g] : f \in Frames
    BY <1>2, <1>5 DEF TypeOK
  <2> QED
    BY <1>3, <2>1 DEF PendingInv
<1>12. CASE f \in pending[g]
  <2>1. f \in Frames
    BY <1>12 DEF TypeOK
  <2>2. g \in Enclosing(f) /\ \A a \in Enclosing(f) \ Enclosing(g) : PassedOn(g, a)
    BY <1>12 DEF PendingInv
  <2> QED
    BY <1>3, <1>9, <2>1, <2>2
<1>13. CASE g = p /\ f \in pending[k]
  <2>1. f \in Frames
    BY <1>13 DEF TypeOK
  <2>2. k \in Enclosing(f) /\ \A a \in Enclosing(f) \ Enclosing(k) : PassedOn(k, a)
    BY <1>13 DEF PendingInv
  <2>3. p \in Enclosing(p) /\ Enclosing(k) \subseteq Enclosing(f)
    BY <1>2, <2>1, <2>2, EnclosingFrames
  <2>4. p \in Enclosing(f)
    BY <1>4, <2>3
  <2>5. ASSUME NEW a \in Enclosing(f) \ Enclosing(p) PROVE (PassedOn(p, a))'
    <3>1. a = k \/ (a # k /\ a \in Enclosing(f) \ Enclosing(k))
      BY <1>4, <2>5
    <3>2. a \in Frames
      BY <1>3, <2>1, <2>5
    <3> QED
      BY <1>10, <1>11, <2>2, <3>1, <3>2
  <2> QED
    BY <1>13, <2>4, <2>5
<1> QED
  BY <1>5, <1>12, <1>13

\* The last active frame is rolled back.
LEMMA PendingUndone ==
  ASSUME TypeOK, StackInv, SessionInv, PendingInv,
         NEW k \in Frames, Step(k), Undo(k), pc[k] = "deferred"
  PROVE  PendingInv'
<1> USE FrameNumbers
<1>1. /\ parent' = parent /\ Active(k)
      /\ \A g \in Frames : Active(g) /\ g # k => g < k /\ pc[g] = "child"
  BY TopActs
<1>2. \A g \in Frames : (Enclosing(g))' = Enclosing(g) /\ Enclosing(g) \subseteq Frames
  BY <1>1, EnclosingFrames DEF Enclosing
<1>3. /\ pending'[k] = {} /\ \A g \in Frames \ {k} : pending'[g] = pending[g]
      /\ \A j \in Frames : live'[j] => live[j]
      /\ live[k] \/ k = 1
  BY DEF Undo, TypeOK
<1> SUFFICES ASSUME NEW g \in Frames, NEW f \in pending[g], g # k
             PROVE  /\ g \in Enclosing(f)
                    /\ \A a \in Enclosing(f) \ Enclosing(g) : (PassedOn(g, a))'
  <2>1. \A g \in Frames : \A f \in pending[g] : f \in Frames
    BY DEF TypeOK
  <2> QED
    BY <1>2, <1>3, <2>1 DEF PendingInv
<1>4. f \in Frames /\ live[g]
  BY DEF TypeOK, SessionInv
<1>5. g = 1 \/ Active(g)
  BY <1>4 DEF SessionInv, Active
<1>6. g < k /\ k # 1 /\ live[k]
  BY <1>1, <1>3, <1>5
<1>7. ASSUME NEW a \in Enclosing(f) \ Enclosing(g) PROVE (PassedOn(g, a))'
  <2>1. a \in Frames /\ PassedOn(g, a)
    BY <1>2, <1>4 DEF PendingInv
  <2>2. ~Tainted(a) /\ a # k
    BY <1>6, <2>1 DEF PassedOn
  <2>3. pc'[a] = pc[a] /\ ~(Tainted(a))'
    BY <2>1, <2>2, OthersRest
  <2> QED
    BY <1>3, <2>1, <2>3 DEF PassedOn
<1> QED
  BY <1>7 DEF PendingInv

LEMMA PendingStep ==
  ASSUME TypeOK, StackInv, FrameInv, SessionInv, TypeOK', ChainInv, PendingInv, [Next]_vars
  PROVE  PendingInv'
<1> USE FrameNumbers DEF frameVars, endVars, sessionVars, runVars
<1>1. CASE \A g \in Frames : pending'[g] = {}
  BY <1>1 DEF PendingInv
<1>2. \A f \in Frames : Enclosing(f) \subseteq Frames
  BY EnclosingFrames
<1>3. ASSUME parent' = parent, \A g \in Frames : pending'[g] \subseteq pending[g] \cup {g},
             \A g \in Frames : live'[g] => live[g],
             UNCHANGED <<pc, needsRollback, bodyEnd, commitEnd, rollbackEnd, faulty>>,
             aborted => aborted'
      PROVE  PendingInv'
  <2>1. \A f \in Frames : (Enclosing(f))' = Enclosing(f) /\ ((Tainted(f))' <=> Tainted(f))
    BY <1>3 DEF Enclosing, Tainted
  <2> QED
    BY <1>2, <1>3, <2>1, PendingStays
<1>4. CASE RunTransaction \/ RunIsolated \/ NilCallback
  <2>1. \A g \in Frames : pc[g] = "unused"
    BY <1>4 DEF RunTransaction, RunIsolated, NilCallback, Start, StackInv, Ordered
  <2>2. \A g \in Frames : pending[g] = {}
    BY <2>1 DEF SessionInv
  <2>3. pending' = pending
    BY <1>4 DEF RunTransaction, RunIsolated, NilCallback, Start
  <2> QED
    BY <1>1, <2>2, <2>3
<1>5. ASSUME NEW f \in Frames, NEW n \in Frames, RunSavepoint(f, n)
      PROVE  PendingInv'
  <2>1. \A g \in Frames \ {n} : (Enclosing(g))' = Enclosing(g)
    BY <1>5, EnclosingGrows
  <2>2. /\ pc[n] = "unused" /\ pc[f] = "body"
        /\ \A g \in Frames \ {f, n} : pc'[g] = pc[g]
        /\ UNCHANGED <<live, pending, aborted, needsRollback, bodyEnd, commitEnd,
                       rollbackEnd, faulty>>
    BY <1>5 DEF RunSavepoint, Start, TypeOK
  <2>3. \A a \in Frames : (Tainted(a))' <=> Tainted(a)
    BY <2>2 DEF Tainted
  <2>4. \A g \in Frames : pc[g] # "unused" => (Enclosing(g))' = Enclosing(g)
    BY <2>1, <2>2
  <2>5. \A a \in Frames : pc[a] \in {"deferred", "outer", "done"} => pc'[a] = pc[a]
    BY <2>2
  <2> QED
    BY <1>2, <2>2, <2>3, <2>4, <2>5, PendingStays
<1>6. ASSUME NEW f \in Frames, Write(f) PROVE PendingInv'
  <2>1. /\ \A g \in Frames : pending'[g] \subseteq pending[g] \cup {g}
        /\ UNCHANGED <<pc, parent, live, aborted, needsRollback, bodyEnd, commitEnd,
                       rollbackEnd, faulty>>
    BY <1>6 DEF Write, TypeOK
  <2> QED
    BY <1>3, <2>1
<1>7. ASSUME NEW f \in Frames, StatementFails(f) PROVE PendingInv'
  <2>1. UNCHANGED <<pc, parent, needsRollback, bodyEnd, commitEnd, rollbackEnd, faulty>>
    BY <1>7 DEF StatementFails
  <2>2. CASE aborted' = TRUE /\ UNCHANGED <<broken, live, pending>>
    BY <1>3, <2>1, <2>2
  <2>3. CASE Lose
    BY <1>1, <2>3 DEF Lose
  <2> QED
    BY <1>7, <2>2, <2>3 DEF StatementFails, Fails
<1>8. ASSUME NEW f \in Frames, Cancel(f) PROVE PendingInv'
  BY <1>3, <1>8 DEF Cancel
<1>9. CASE UNCHANGED vars
  BY <1>3, <1>9 DEF vars
<1>10. ASSUME NEW k \in Frames, Step(k) PROVE PendingInv'
  <2>1. /\ parent' = parent /\ Active(k)
        /\ \A g \in Frames : Active(g) /\ g # k => g < k /\ pc[g] = "child"
    BY <1>10, TopActs
  <2>2. \A a \in Frames \ {k} :
          /\ pc'[a] = pc[a] /\ needsRollback'[a] = needsRollback[a]
          /\ (Tainted(a))' <=> Tainted(a)
    BY <1>10, OthersRest
  <2>3. \A f \in Frames : (Enclosing(f))' = Enclosing(f)
    BY <2>1 DEF Enclosing
  \* Everything but a merge, an undo or a new savepoint:
  <2>4. ASSUME \A g \in Frames : pending'[g] \subseteq pending[g],
               \A g \in Frames : live'[g] => live[g],
               aborted => aborted',
               pc[k] \in {"deferred", "outer"} =>
                 /\ pc'[k] \in {"outer", "done"}
                 /\ (Tainted(k))' =>
                      Tainted(k) /\ (aborted' \/ pc[k] = "outer" \/ ~needsRollback[k])
        PROVE  PendingInv'
    <3>1. pc[k] # "done"
      BY <2>1 DEF Active
    <3>2. ASSUME NEW a \in Frames, pc[a] \in {"deferred", "outer", "done"}
          PROVE  /\ pc'[a] \in {"deferred", "outer", "done"}
                 /\ (Tainted(a))' =>
                      /\ Tainted(a)
                      /\ aborted \/ (pc[a] = "deferred" /\ needsRollback[a]) =>
                           aborted' \/ (pc'[a] = "deferred" /\ needsRollback'[a])
      BY <2>2, <2>4, <3>1, <3>2
    <3> QED
      BY <1>2, <2>3, <2>4, <3>2, PendingStays
  \* Somebody who failed is refused only after the rollback that is due.
  <2>5. ASSUME NEW a \in Frames, a # k PROVE ~(pc[a] = "deferred")
    BY <2>1, <2>5 DEF Active
  <2>6. CASE BeginReturns(k)
    <3>1. /\ pc[k] = "begin" /\ ~aborted /\ ~aborted' /\ pending' = pending
          /\ \A g \in Frames \ {k} : live'[g] = live[g]
      BY <2>6 DEF BeginReturns, TypeOK
    <3>2. \A g \in Frames : \A f \in pending[g] : f \in Frames
      BY DEF TypeOK
    <3>3. ASSUME NEW g \in Frames, NEW f \in pending[g],
                 NEW a \in Enclosing(f) \ Enclosing(g)
          PROVE  (PassedOn(g, a))'
      <4>1. a \in Frames /\ PassedOn(g, a)
        BY <1>2, <3>2 DEF PendingInv
      <4>2. a # k
        BY <3>1, <4>1 DEF PassedOn
      <4>3. ~Tainted(a)
        BY <2>5, <3>1, <4>1, <4>2 DEF PassedOn
      <4> QED
        BY <2>2, <3>1, <4>1, <4>2, <4>3 DEF PassedOn
    <3>4. \A g \in Frames : \A f \in pending'[g] :
            /\ g \in (Enclosing(f))'
            /\ \A a \in (Enclosing(f))' \ (Enclosing(g))' : (PassedOn(g, a))'
      <4> SUFFICES ASSUME NEW g \in Frames, NEW f \in pending'[g]
                   PROVE  /\ g \in (Enclosing(f))'
                          /\ \A a \in (Enclosing(f))' \ (Enclosing(g))' : (PassedOn(g, a))'
        OBVIOUS
      <4>1. f \in pending[g] /\ f \in Frames
        BY <3>1, <3>2
      <4>2. (Enclosing(f))' = Enclosing(f) /\ (Enclosing(g))' = Enclosing(g)
        BY <2>3, <4>1
      <4>3. g \in Enclosing(f)
        BY <4>1 DEF PendingInv
      <4> QED
        BY <3>3, <4>1, <4>2, <4>3
    <3> QED
      BY <3>4 DEF PendingInv
  <2>7. CASE BeginFails(k)
    <3>1. pc[k] = "begin"
      BY <2>7 DEF BeginFails
    <3>2. NoEffect \/ Fails
      BY <2>7 DEF BeginFails
    <3>3. CASE NoEffect \/ (aborted' = TRUE /\ UNCHANGED <<broken, live, pending>>)
      BY <2>4, <3>1, <3>3 DEF NoEffect
    <3>4. CASE Lose
      BY <1>1, <3>4 DEF Lose
    <3> QED
      BY <3>2, <3>3, <3>4 DEF Fails
  <2>8. CASE CallbackReturns(k) \/ CallbackTerminates(k) \/ \E c \in Frames : ChildEnds(k, c)
    <3>1. pc[k] \in {"body", "child"} /\ UNCHANGED <<live, pending, aborted>>
      BY <2>8 DEF CallbackReturns, CallbackTerminates, ChildEnds
    <3> QED
      BY <2>4, <3>1
  <2>9. CASE NoRollback(k) \/ Observe(k)
    <3>1. /\ UNCHANGED <<live, pending, aborted, bodyEnd, commitEnd, rollbackEnd, faulty>>
          /\ pc'[k] \in {"outer", "done"}
          /\ pc[k] = "outer" \/ ~needsRollback[k]
      BY <2>9 DEF NoRollback, Observe, TypeOK
    <3>2. (Tainted(k))' <=> Tainted(k)
      BY <3>1 DEF Tainted
    <3> QED
      BY <2>4, <3>1, <3>2
  <2>10. CASE CommitReturns(k) \/ CommitTerminates(k)
    <3>1. pc[k] = "commit" /\ pc'[k] = "deferred"
      BY <2>10 DEF CommitReturns, CommitTerminates, Leave, TypeOK
    <3>2. bodyEnd[k] = "nil" /\ bodyEnd' = bodyEnd /\ needsRollback[k]
      BY <2>10, <3>1 DEF CommitReturns, CommitTerminates, FrameInv, FrameOK
    <3>3. (Tainted(k))' => needsRollback'[k]
      BY <2>10, <3>2 DEF CommitReturns, CommitTerminates, Tainted, TypeOK
    <3>4. CASE NoEffect
      BY <2>4, <3>1, <3>4 DEF NoEffect
    <3>5. CASE Lose
      BY <1>1, <3>5 DEF Lose
    <3>6. CASE k # 1 /\ (Keep(k) \/ LeaveBehind(k))
      <4>1. /\ Merge(k) /\ ~broken /\ live' = [live EXCEPT ![k] = FALSE]
            /\ aborted' = aborted
        BY <3>6 DEF Keep, LeaveBehind, Usable
      <4> QED
        BY <1>10, <3>1, <3>3, <3>6, <4>1, PendingMerges
    <3>7. CASE k = 1 /\ Keep(k)
      <4>1. /\ \A g \in Frames : pending'[g] \subseteq pending[g]
            /\ \A g \in Frames : live'[g] => live[g]
            /\ aborted' = aborted
        BY <3>7 DEF Keep, TypeOK
      <4> QED
        BY <2>4, <3>1, <4>1
    <3> QED
      BY <2>10, <3>4, <3>5, <3>6, <3>7 DEF CommitReturns, CommitTerminates, CommitRefused,
         Lost, LeaveBehind
  <2>11. CASE Rollback(k)
    <3>1. /\ pc[k] = "deferred" /\ needsRollback[k] /\ pc'[k] = "outer"
          /\ UNCHANGED <<bodyEnd, commitEnd, faulty>>
      BY <2>11 DEF Rollback, RolledBack, Leave, TypeOK
    <3>2. (Tainted(k))' => Tainted(k)
      BY <3>1 DEF Tainted, FrameInv, FrameOK
    <3>3. CASE RollbackSucceeds(k) \/ Undo(k)
      BY <1>10, <3>1, <3>3, PendingUndone DEF RollbackSucceeds
    <3>4. CASE broken /\ NoEffect
      <4>1. \A g \in Frames : pending[g] = {}
        BY <3>4 DEF SessionInv
      <4> QED
        BY <1>1, <3>4, <4>1 DEF NoEffect
    <3>5. CASE NoSuchSavepoint(k)
      BY <2>4, <3>1, <3>2, <3>5 DEF NoSuchSavepoint
    <3>6. CASE Lose
      BY <1>1, <3>6 DEF Lose
    <3>7. ASSUME faulty, rollbackEnd'[k] \in {"error", "panic"} PROVE ~(Tainted(k))'
      BY <3>1, <3>7 DEF Tainted
    <3>8. CASE faulty /\ LeaveBehind(k) /\ rollbackEnd'[k] \in {"error", "panic"}
      <4>1. /\ Merge(k) /\ ~broken /\ live' = [live EXCEPT ![k] = FALSE] /\ k # 1
            /\ aborted' = aborted
        BY <3>8 DEF LeaveBehind
      <4> QED
        BY <1>10, <3>1, <3>7, <3>8, <4>1, PendingMerges
    <3>9. CASE faulty /\ NoEffect /\ rollbackEnd'[k] \in {"error", "panic"}
      BY <2>4, <3>1, <3>7, <3>9 DEF NoEffect
    <3>10. CASE RolledBack(k, "error") /\ RollbackFails(k)
      <4>1. rollbackEnd'[k] = "error"
        BY <3>10 DEF RolledBack, TypeOK
      <4> QED
        BY <3>4, <3>5, <3>6, <3>8, <3>10, <4>1 DEF RollbackFails
    <3>11. CASE RolledBack(k, "panic") /\ RollbackPanics(k)
      <4>1. rollbackEnd'[k] = "panic"
        BY <3>11 DEF RolledBack, TypeOK
      <4> QED
        BY <3>3, <3>8, <3>9, <3>11, <4>1 DEF RollbackPanics
    <3> QED
      BY <2>11, <3>3, <3>10, <3>11 DEF Rollback
  <2> QED
    BY <1>10, <2>6, <2>7, <2>8, <2>9, <2>10, <2>11 DEF Step
<1> QED
  BY <1>4, <1>5, <1>6, <1>7, <1>8, <1>9, <1>10 DEF Next, Terminated

-----------------------------------------------------------------------------
\* Writes become durable by the transaction's own commit only.
LEMMA OnlyCommitStores ==
  ASSUME NEW k \in Frames, Step(k)
  PROVE  \/ durable' = durable
         \/ k = 1 /\ pc[k] = "commit" /\ ~aborted /\ durable' = pending[1]
<1> USE DEF sessionVars
<1>1. CASE BeginReturns(k) \/ BeginFails(k)
  BY <1>1 DEF BeginReturns, BeginFails, NoEffect
<1>2. CASE CallbackReturns(k) \/ CallbackTerminates(k) \/ \E c \in Frames : ChildEnds(k, c)
  BY <1>2 DEF CallbackReturns, CallbackTerminates, ChildEnds
<1>3. CASE CommitReturns(k) \/ CommitTerminates(k)
  BY <1>3 DEF CommitReturns, CommitTerminates, CommitRefused, Keep, Usable, LeaveBehind,
              Lost, NoEffect
<1>4. CASE Rollback(k)
  BY <1>4 DEF Rollback, RollbackSucceeds, RollbackFails, RollbackPanics, Undo,
              NoSuchSavepoint, LeaveBehind, NoEffect
<1>5. CASE NoRollback(k) \/ Observe(k)
  BY <1>5 DEF NoRollback, Observe
<1> QED
  BY <1>1, <1>2, <1>3, <1>4, <1>5 DEF Step

LEMMA DurableStep ==
  ASSUME TypeOK, StackInv, SessionInv, SessionInv', PendingInv, DurableInv, [Next]_vars
  PROVE  DurableInv'
<1> USE FrameNumbers
<1>1. CASE durable' = {}
  BY <1>1 DEF DurableInv
<1>2. ASSUME durable' # {} PROVE ~(Tainted(1))'
  BY <1>2 DEF SessionInv, Tainted
<1>3. CASE UNCHANGED <<parent, bodyEnd, commitEnd, rollbackEnd, faulty, durable>>
  <2>1. \A f \in Frames : (Enclosing(f))' = Enclosing(f) /\ ((Tainted(f))' <=> Tainted(f))
    BY <1>3 DEF Enclosing, Tainted
  <2>2. \A f \in Frames : Enclosing(f) \subseteq Frames
    BY EnclosingFrames
  <2>3. durable \subseteq Frames /\ durable' = durable
    BY <1>3 DEF TypeOK
  <2> SUFFICES ASSUME NEW f \in durable, NEW a \in (Enclosing(f))' PROVE ~(Tainted(a))'
    BY <2>3 DEF DurableInv
  <2>4. f \in Frames /\ a \in Enclosing(f) /\ a \in Frames
    BY <2>1, <2>2, <2>3
  <2> QED
    BY <2>1, <2>4 DEF DurableInv
\* Once something is durable only the transaction's own frame is active.
<1>4. ASSUME NEW f \in Frames, Active(f), durable # {} PROVE f = 1
  <2>1. pc[1] # "child"
    BY <1>4 DEF SessionInv
  <2> QED
    BY <1>4, <2>1 DEF StackInv, Stacked
<1>5. CASE RunTransaction \/ RunIsolated \/ NilCallback
  <2>1. pc[1] = "unused" /\ durable' = durable
    BY <1>5 DEF RunTransaction, RunIsolated, NilCallback, Start, sessionVars
  <2> QED
    BY <1>1, <2>1 DEF SessionInv
<1>6. ASSUME NEW f \in Frames, NEW n \in Frames, RunSavepoint(f, n) PROVE DurableInv'
  <2>1. pc[f] = "body" /\ durable' = durable
    BY <1>6 DEF RunSavepoint, Start, sessionVars
  <2>2. durable = {}
    BY <1>4, <2>1 DEF Active, SessionInv
  <2> QED
    BY <1>1, <2>1, <2>2
<1>7. ASSUME NEW f \in Frames, Write(f) \/ StatementFails(f) \/ Cancel(f) PROVE DurableInv'
  BY <1>3, <1>7 DEF Write, StatementFails, Cancel, frameVars, endVars, sessionVars, runVars
<1>8. CASE UNCHANGED vars
  BY <1>3, <1>8 DEF vars, frameVars, endVars, sessionVars, runVars
<1>9. ASSUME NEW k \in Frames, Step(k) PROVE DurableInv'
  <2>1. /\ parent' = parent /\ Active(k)
        /\ \A g \in Frames : Active(g) /\ g # k => g < k /\ pc[g] = "child"
    BY <1>9, TopActs
  <2>2. \A a \in Frames \ {k} : (Tainted(a))' <=> Tainted(a)
    BY <1>9, OthersRest
  <2>3. \A f \in Frames : (Enclosing(f))' = Enclosing(f) /\ Enclosing(f) \subseteq Frames
    BY <2>1, EnclosingFrames DEF Enclosing
  <2>4. durable \subseteq Frames /\ pending[1] \subseteq Frames
    BY DEF TypeOK
  <2>5. CASE durable' = durable
    <3> SUFFICES ASSUME NEW f \in durable, NEW a \in Enclosing(f) PROVE ~(Tainted(a))'
      BY <2>3, <2>4, <2>5 DEF DurableInv
    <3>1. k = 1 /\ a \in Frames
      BY <1>4, <2>1, <2>3, <2>4
    <3>2. ~Tainted(a)
      BY DEF DurableInv
    <3> QED
      BY <1>2, <2>2, <2>5, <3>1, <3>2
  <2>6. CASE k = 1 /\ pc[k] = "commit" /\ ~aborted /\ durable' = pending[1]
    <3> SUFFICES ASSUME NEW f \in pending[1], NEW a \in Enclosing(f) PROVE ~(Tainted(a))'
      BY <2>3, <2>4, <2>6 DEF DurableInv
    <3>1. CASE a = 1
      BY <1>2, <2>6, <3>1
    <3>2. CASE a # 1
      <4>0. Enclosing(1) = {1}
        BY EnclosingFrames
      <4>1. a \in Enclosing(f) \ Enclosing(1) /\ a \in Frames
        BY <2>3, <2>4, <3>2, <4>0
      <4>2. PassedOn(1, a)
        BY <4>1 DEF PendingInv
      <4>3. pc[a] # "deferred"
        BY <2>1, <2>6, <3>2, <4>1 DEF Active
      <4>4. ~Tainted(a)
        BY <2>6, <4>2, <4>3 DEF PassedOn
      <4> QED
        BY <2>2, <2>6, <3>2, <4>1, <4>4
    <3> QED
      BY <3>1, <3>2
  <2> QED
    BY <1>9, <2>5, <2>6, OnlyCommitStores
<1> QED
  BY <1>5, <1>6, <1>7, <1>8, <1>9 DEF Next, Terminated

\* A write is kept by a step in which no commit succeeds.
LEMMA KeptStays ==
  ASSUME TypeOK, NEW f \in Frames, Kept(f),
         Enclosing(f) \subseteq Frames,
         \A g \in Enclosing(f) : (Enclosing(g))' = Enclosing(g),
         (Enclosing(f))' = Enclosing(f),
         \A a \in Frames : commitEnd'[a] = "nil" => commitEnd[a] = "nil",
         \A a \in Frames : pc[a] \notin {"unused", "begin"} => pc'[a] \notin {"unused", "begin"},
         \A g \in Frames :
           pc'[g] \in {"body", "child", "commit"} /\ ~broken' =>
             /\ pc[g] \in {"begin", "body", "child", "commit"}
             /\ ~broken /\ pending[g] \subseteq pending'[g],
         durable \subseteq durable'
  PROVE  (Kept(f))'
<1>1. \A a \in Enclosing(f) : pc'[a] \notin {"unused", "begin"}
  BY DEF Kept
<1>2. ASSUME NEW g \in Enclosing(f), pc'[g] \in {"body", "child", "commit"}, ~broken',
             \A a \in Enclosing(f) \ Enclosing(g) : commitEnd'[a] = "nil"
      PROVE  f \in pending'[g]
  <2>1. /\ pc[g] \in {"body", "child", "commit"} /\ ~broken /\ pending[g] \subseteq pending'[g]
        /\ \A a \in Enclosing(f) \ Enclosing(g) : commitEnd[a] = "nil"
    BY <1>2 DEF Kept
  <2> QED
    BY <2>1 DEF Kept
<1>3. (\A a \in Enclosing(f) : commitEnd'[a] = "nil") => f \in durable'
  BY DEF Kept
<1> QED
  BY <1>1, <1>2, <1>3 DEF Kept

\* The last active frame is committed.
LEMMA KeptMerges ==
  ASSUME TypeOK, StackInv, FrameInv, SessionInv, ChainInv,
         NEW f \in Frames, pc[f] # "unused", Kept(f),
         NEW k \in Frames, CommitReturns(k), Keep(k)
  PROVE  (Kept(f))'
<1> USE FrameNumbers
<1>1. Step(k)
  BY DEF Step
<1>2. /\ parent' = parent /\ Active(k)
      /\ \A g \in Frames : Active(g) /\ g # k => g < k /\ pc[g] = "child"
  BY <1>1, TopActs
<1>3. \A g \in Frames : (Enclosing(g))' = Enclosing(g) /\ Enclosing(g) \subseteq Frames
  BY <1>2, EnclosingFrames DEF Enclosing
<1>4. /\ pc[k] = "commit" /\ pc'[k] = "deferred" /\ ~broken
      /\ \A a \in Frames \ {k} : pc'[a] = pc[a] /\ commitEnd'[a] = commitEnd[a]
  <2>1. pc[k] = "commit" /\ pc'[k] = "deferred" /\ ~broken
    BY DEF CommitReturns, Leave, Keep, Usable, TypeOK
  <2> QED
    BY <1>1, <2>1, OthersRest
<1>5. commitEnd[1] # "nil" \/ k # 1
  BY <1>4 DEF FrameInv, FrameOK
<1>6. ASSUME NEW a \in Frames, pc[a] = "child" PROVE commitEnd[a] = "none" /\ a # k
  BY <1>4, <1>6 DEF FrameInv, FrameOK, Fresh
<1>7. \A a \in Enclosing(f) : pc'[a] \notin {"unused", "begin"}
  BY <1>3, <1>4 DEF Kept
<1>8. ASSUME NEW g \in Enclosing(f), pc'[g] \in {"body", "child", "commit"},
             \A a \in Enclosing(f) \ Enclosing(g) : commitEnd'[a] = "nil"
      PROVE  f \in pending'[g]
  <2>1. g \in Frames /\ g # k /\ pc[g] = pc'[g] /\ pc[g] = "child" /\ g < k
    <3>1. g \in Frames /\ g # k
      BY <1>3, <1>4, <1>8
    <3>2. pc[g] = pc'[g]
      BY <1>4, <3>1
    <3> QED
      BY <1>2, <1>8, <3>1, <3>2 DEF Active
  <2>2. k # 1
    BY <2>1
  <2>3. PICK p \in Frames : p = parent[k] /\ p < k /\ live[p] /\ pc[p] = "child"
    BY <1>2, <1>4, <2>2, ParentLives DEF StackInv, Nested
  <2>4. /\ pending'[p] = pending[p] \cup pending[k]
        /\ \A h \in Frames \ {k, p} : pending'[h] = pending[h]
    BY <2>2, <2>3 DEF Keep, Merge, TypeOK
  <2>5. CASE k \notin Enclosing(f) \ Enclosing(g)
    <3>1. \A a \in Enclosing(f) \ Enclosing(g) : commitEnd[a] = "nil"
      BY <1>3, <1>4, <1>8, <2>5
    <3>2. f \in pending[g]
      BY <1>4, <2>1, <3>1 DEF Kept
    <3> QED
      BY <2>1, <2>4, <3>2
  <2>6. CASE k \in Enclosing(f) \ Enclosing(g)
    <3>1. /\ g \in Enclosing(k) /\ Enclosing(g) \subseteq Enclosing(k)
          /\ Enclosing(k) \subseteq Enclosing(f) /\ k \in Enclosing(k)
      <4>1. g \in Enclosing(k) /\ Enclosing(k) \subseteq Enclosing(f)
        BY <1>8, <2>6, EnclosingFrames
      <4> QED
        BY <4>1, EnclosingFrames
    <3>2. \A a \in Enclosing(f) \ Enclosing(k) : commitEnd[a] = "nil"
      BY <1>3, <1>4, <1>8, <3>1
    <3>3. f \in pending[k]
      BY <1>4, <2>6, <3>2 DEF Kept
    <3>4. Enclosing(k) = {k} \cup Enclosing(p) /\ p \in Enclosing(p)
      BY <2>3, EnclosingFrames
    <3>5. p \in Enclosing(f) /\ g \in Enclosing(p)
      BY <2>1, <3>1, <3>4
    <3>6. p \in Enclosing(g)
      <4>1. commitEnd'[p] # "nil"
        BY <1>4, <1>6, <2>3
      <4> QED
        BY <1>8, <3>5, <4>1
    <3>7. g <= p /\ p <= g
      <4>1. g <= p
        BY <2>3, <3>5, EnclosingFrames
      <4>2. p <= g
        BY <2>1, <3>6, EnclosingFrames
      <4> QED
        BY <4>1, <4>2
    <3>8. g = p
      BY <2>1, <2>3, <3>7
    <3> QED
      BY <2>4, <3>3, <3>8
  <2> QED
    BY <2>5, <2>6
<1>9. ASSUME \A a \in Enclosing(f) : commitEnd'[a] = "nil" PROVE f \in durable'
  <2>1. 1 \in Enclosing(f)
    BY DEF ChainInv
  <2>2. k = 1
    <3>1. CASE k # 1
      <4>1. pc[1] = "child"
        BY <1>2, <3>1 DEF StackInv, Stacked
      <4> QED
        BY <1>4, <1>6, <1>9, <2>1, <4>1
    <3> QED
      BY <3>1
  <2>3. Enclosing(1) = {1}
    BY EnclosingFrames
  <2>4. \A a \in Enclosing(f) \ Enclosing(1) : commitEnd[a] = "nil"
    BY <1>3, <1>4, <1>9, <2>2, <2>3
  <2>5. f \in pending[1]
    BY <1>4, <2>1, <2>2, <2>4 DEF Kept
  <2> QED
    BY <2>2, <2>5 DEF Keep
<1> QED
  BY <1>3, <1>7, <1>8, <1>9 DEF Kept

\* No effect takes writes from a frame other than its own, save a lost connection.
LEMMA EffectKeeps ==
  ASSUME TypeOK, SessionInv, NEW k \in Frames, Effect(k), ~broken'
  PROVE  ~broken /\ \A g \in Frames \ {k} : pending[g] \subseteq pending'[g]
BY DEF Effect, NoEffect, Keep, Undo, LeaveBehind, NoSuchSavepoint, Lost, Fails, Lose, Merge,
       Usable, TypeOK

LEMMA KeptStep ==
  ASSUME TypeOK, TypeOK', StackInv, FrameInv, SessionInv, ChainInv, KeptInv, [Next]_vars
  PROVE  KeptInv'
<1> USE FrameNumbers DEF frameVars, endVars, sessionVars, runVars
<1>1. ASSUME NEW f \in wrote PROVE f \in Frames /\ pc[f] # "unused" /\ Kept(f)
  BY DEF SessionInv, KeptInv, TypeOK
<1>2. \A g \in Frames : g \in Enclosing(g) /\ Enclosing(g) \subseteq Frames
  BY EnclosingFrames
<1>3. ASSUME UNCHANGED <<pc, parent, commitEnd, durable>>,
             ~broken' => ~broken /\ \A g \in Frames : pending[g] \subseteq pending'[g],
             NEW f \in wrote
      PROVE  (Kept(f))'
  <2>1. \A g \in Frames : (Enclosing(g))' = Enclosing(g)
    BY <1>3 DEF Enclosing
  <2>2. f \in Frames /\ Kept(f) /\ Enclosing(f) \subseteq Frames
    BY <1>1, <1>2, <1>3
  <2> QED
    BY <1>3, <2>1, <2>2, KeptStays
<1>4. CASE RunTransaction \/ RunIsolated \/ NilCallback
  <2>1. pc[1] = "unused" /\ wrote' = wrote
    BY <1>4 DEF RunTransaction, RunIsolated, NilCallback, Start
  <2>2. wrote = {}
    <3>1. ASSUME NEW f \in Frames PROVE pc[f] = "unused"
      <4>1. f = 1 \/ 1 < f
        OBVIOUS
      <4> QED
        BY <2>1, <4>1 DEF StackInv, Ordered
    <3> QED
      BY <1>1, <3>1
  <2> QED
    BY <2>1, <2>2 DEF KeptInv
<1>5. ASSUME NEW k \in Frames, NEW n \in Frames, RunSavepoint(k, n) PROVE KeptInv'
  <2>1. /\ \A g \in Frames \ {n} : (Enclosing(g))' = Enclosing(g) /\ n \notin Enclosing(g)
    BY <1>5, EnclosingGrows
  <2>2. /\ pc[n] = "unused" /\ pc[k] = "body" /\ pc'[k] = "child" /\ pc'[n] = "begin"
        /\ \A g \in Frames \ {k, n} : pc'[g] = pc[g]
        /\ UNCHANGED <<broken, pending, durable, commitEnd, wrote>>
    BY <1>5 DEF RunSavepoint, Start, TypeOK
  <2> SUFFICES ASSUME NEW f \in wrote PROVE (Kept(f))'
    BY <2>2 DEF KeptInv
  <2>3. f \in Frames /\ f # n /\ Kept(f) /\ Enclosing(f) \subseteq Frames
    BY <1>1, <1>2, <2>2
  <2>4. (Enclosing(f))' = Enclosing(f) /\ \A g \in Enclosing(f) : (Enclosing(g))' = Enclosing(g)
    BY <2>1, <2>3
  <2>5. \A a \in Frames : pc[a] \notin {"unused", "begin"} => pc'[a] \notin {"unused", "begin"}
    BY <2>2
  <2>6. \A g \in Frames : pc'[g] \in {"body", "child", "commit"} =>
                            pc[g] \in {"begin", "body", "child", "commit"}
    BY <2>2
  <2> QED
    BY <2>2, <2>3, <2>4, <2>5, <2>6, KeptStays
<1>6. ASSUME NEW k \in Frames, Write(k) PROVE KeptInv'
  <2>1. /\ pc[k] = "body" /\ wrote' = wrote \cup {k} /\ pending'[k] = pending[k] \cup {k}
        /\ \A g \in Frames \ {k} : pending'[g] = pending[g]
        /\ UNCHANGED <<pc, parent, commitEnd, durable, broken>>
    BY <1>6 DEF Write, TypeOK
  <2>2. ASSUME NEW f \in wrote PROVE (Kept(f))'
    BY <1>3, <2>1
  <2>3. (Kept(k))'
    <3>1. \A g \in Frames : (Enclosing(g))' = Enclosing(g)
      BY <2>1 DEF Enclosing
    <3>2. commitEnd[k] = "none"
      BY <2>1 DEF FrameInv, FrameOK, Fresh
    <3>3. \A a \in Enclosing(k) : a = k \/ pc[a] = "child"
      BY <2>1 DEF ChainInv, Active
    <3>4. ASSUME NEW g \in Enclosing(k), g # k PROVE k \notin Enclosing(g)
      <4>1. g \in Frames /\ g <= k
        BY EnclosingFrames
      <4>2. k \in Enclosing(g) => k <= g
        BY <4>1, EnclosingFrames
      <4> QED
        BY <3>4, <4>1, <4>2
    <3>5. k \in Enclosing(k) /\ k \in pending'[k]
      BY <1>2, <2>1
    <3>6. \A a \in Enclosing(k) : pc[a] \notin {"unused", "begin"}
      BY <2>1, <3>3
    <3>7. ASSUME NEW g \in Enclosing(k),
                 \A a \in Enclosing(k) \ Enclosing(g) : commitEnd[a] = "nil"
          PROVE  k \in pending'[g]
      BY <3>2, <3>4, <3>5, <3>7
    <3>8. (Enclosing(k))' = Enclosing(k)
          /\ \A g \in Enclosing(k) : (Enclosing(g))' = Enclosing(g)
      BY <1>2, <3>1
    <3>9. pc' = pc /\ commitEnd' = commitEnd
      BY <2>1
    <3> QED
      BY <3>2, <3>5, <3>6, <3>7, <3>8, <3>9 DEF Kept
  <2> QED
    BY <2>1, <2>2, <2>3 DEF KeptInv
<1>7. ASSUME NEW k \in Frames, StatementFails(k) PROVE KeptInv'
  <2>1. UNCHANGED <<pc, parent, commitEnd, durable, wrote>> /\ Usable(k) /\ Fails
    BY <1>7 DEF StatementFails
  <2>2. ~broken' => ~broken /\ \A g \in Frames : pending[g] \subseteq pending'[g]
    BY <2>1 DEF Usable, Fails, Lose
  <2> QED
    BY <1>3, <2>1, <2>2 DEF KeptInv
<1>8. CASE UNCHANGED <<pc, parent, commitEnd, durable, wrote, broken, pending>>
  BY <1>3, <1>8 DEF KeptInv
<1>9. ASSUME NEW k \in Frames, Cancel(k) PROVE KeptInv'
  BY <1>8, <1>9 DEF Cancel
<1>10. CASE UNCHANGED vars
  BY <1>8, <1>10 DEF vars
<1>11. ASSUME NEW k \in Frames, Step(k) PROVE KeptInv'
  <2>1. parent' = parent /\ Active(k)
    BY <1>11, TopActs
  <2>2. /\ wrote' = wrote
        /\ \A a \in Frames \ {k} : pc'[a] = pc[a] /\ commitEnd'[a] = commitEnd[a]
    BY <1>11, OthersRest
  <2>3. \A g \in Frames : (Enclosing(g))' = Enclosing(g)
    BY <2>1 DEF Enclosing
  <2>4. durable \subseteq durable'
    <3>1. pc[1] = "commit" => durable = {}
      BY DEF SessionInv
    <3> QED
      BY <1>11, <3>1, OnlyCommitStores
  <2> SUFFICES ASSUME NEW f \in wrote PROVE (Kept(f))'
    BY <2>2 DEF KeptInv
  <2>5. f \in Frames /\ pc[f] # "unused" /\ Kept(f) /\ Enclosing(f) \subseteq Frames
    BY <1>1, <1>2
  <2>6. ASSUME commitEnd'[k] = "nil" => commitEnd[k] = "nil",
               pc'[k] \notin {"unused", "begin"},
               ~broken' => ~broken /\ \A g \in Frames \ {k} : pending[g] \subseteq pending'[g],
               pc'[k] \in {"body", "child", "commit"} =>
                 /\ pc[k] \in {"begin", "body", "child", "commit"}
                 /\ pending[k] \subseteq pending'[k]
        PROVE  (Kept(f))'
    <3>1. \A a \in Frames : commitEnd'[a] = "nil" => commitEnd[a] = "nil"
      BY <2>2, <2>6
    <3>2. \A a \in Frames : pc[a] \notin {"unused", "begin"} => pc'[a] \notin {"unused", "begin"}
      BY <2>2, <2>6
    <3>3. ASSUME NEW g \in Frames, pc'[g] \in {"body", "child", "commit"}, ~broken'
          PROVE  /\ pc[g] \in {"begin", "body", "child", "commit"}
                 /\ ~broken /\ pending[g] \subseteq pending'[g]
      BY <2>2, <2>6, <3>3
    <3> QED
      BY <2>3, <2>4, <2>5, <3>1, <3>2, <3>3, KeptStays
  <2>7. CASE BeginReturns(k)
    <3>1. /\ pc[k] = "begin" /\ pc'[k] = "body"
          /\ UNCHANGED <<commitEnd, broken, pending>>
      BY <2>7 DEF BeginReturns, TypeOK
    <3> QED
      BY <2>6, <3>1
  <2>8. CASE BeginFails(k)
    <3>1. pc'[k] = "outer" /\ commitEnd' = commitEnd
      BY <2>8 DEF BeginFails, Leave, TypeOK
    <3>2. Effect(k)
      BY <2>8 DEF BeginFails, Effect
    <3> QED
      BY <2>6, <3>1, <3>2, EffectKeeps
  <2>9. CASE CallbackReturns(k) \/ CallbackTerminates(k) \/ \E c \in Frames : ChildEnds(k, c)
    <3>1. /\ pc[k] \in {"body", "child"} /\ UNCHANGED <<commitEnd, broken, pending>>
      BY <2>9 DEF CallbackReturns, CallbackTerminates, ChildEnds
    <3>2. pc'[k] \in {"body", "commit", "deferred"}
      BY <2>9 DEF CallbackReturns, CallbackTerminates, ChildEnds, Leave, TypeOK
    <3> QED
      BY <2>6, <3>1, <3>2
  <2>10. CASE NoRollback(k) \/ Observe(k)
    <3>1. pc'[k] \in {"outer", "done"} /\ UNCHANGED <<commitEnd, broken, pending>>
      BY <2>10 DEF NoRollback, Observe, TypeOK
    <3> QED
      BY <2>6, <3>1
  <2>11. CASE Rollback(k)
    <3>1. pc'[k] = "outer" /\ commitEnd' = commitEnd
      BY <2>11 DEF Rollback, RolledBack, Leave, TypeOK
    <3> QED
      BY <2>6, <2>11, <3>1, EffectKeeps, RollbackEffect
  <2>12. CASE CommitTerminates(k)
    <3>1. pc'[k] = "deferred" /\ commitEnd'[k] # "nil"
      BY <2>12 DEF CommitTerminates, Leave, TypeOK
    <3> QED
      BY <2>6, <2>12, <3>1, EffectKeeps, CommitEffect
  <2>13. CASE CommitReturns(k)
    <3>1. CASE Keep(k)
      BY <2>5, <2>13, <3>1, KeptMerges
    <3>2. CASE ~Keep(k)
      <4>1. pc'[k] = "deferred" /\ commitEnd'[k] = "error"
        BY <2>13, <3>2 DEF CommitReturns, Leave, TypeOK
      <4> QED
        BY <2>6, <2>13, <4>1, EffectKeeps, CommitEffect
    <3> QED
      BY <3>1, <3>2
  <2> QED
    BY <1>11, <2>7, <2>8, <2>9, <2>10, <2>11, <2>12, <2>13 DEF Step
<1> QED
  BY <1>4, <1>5, <1>6, <1>7, <1>9, <1>10, <1>11 DEF Next, Terminated

-----------------------------------------------------------------------------
LEMMA WritesInit == Init => WritesInv
BY DEF Init, WritesInv, ChainInv, PendingInv, DurableInv, KeptInv

LEMMA WritesNext ==
  ControlInv /\ ControlInv' /\ WritesInv /\ [Next]_vars => WritesInv'
BY ChainStep, PendingStep, DurableStep, KeptStep DEF ControlInv, WritesInv

LEMMA WritesInvariance == Spec => [](ControlInv /\ WritesInv)
<1>1. Init => ControlInv /\ WritesInv
  BY ControlInit, WritesInit
<1>2. ControlInv /\ WritesInv /\ [Next]_vars => (ControlInv /\ WritesInv)'
  BY ControlNext, WritesNext
<1> QED
  BY <1>1, <1>2, PTL DEF Spec

(***************************************************************************)
(* What a failed callback, or one inside it, wrote is not committed by an  *)
(* enclosing transaction, unless its rollback failed                       *)
(* (transaction.go:170-197, 221-223).                                      *)
(***************************************************************************)
THEOREM UndoesFailedWrites == Spec => []FailedWritesUndone
<1>1. ControlInv /\ WritesInv => FailedWritesUndone
  <2> SUFFICES ASSUME WritesInv, NEW f \in durable, NEW a \in Enclosing(f),
                      \/ bodyEnd[a] = "error"
                      \/ bodyEnd[a] \in {"panic", "goexit"}
                      \/ a # 1 /\ commitEnd[a] \in {"panic", "goexit"}
               PROVE  faulty /\ rollbackEnd[a] \in {"error", "panic"}
    BY DEF FailedWritesUndone
  <2>1. ~Tainted(a)
    BY DEF WritesInv, DurableInv
  <2> QED
    BY <2>1 DEF Tainted
<1> QED
  BY <1>1, WritesInvariance, PTL

(***************************************************************************)
(* A nil result means that everything written under callbacks that were    *)
(* all kept is committed (transaction.go:193-201).                         *)
(***************************************************************************)
THEOREM SucceedsDurably == Spec => []SuccessIsDurable
<1>1. ControlInv /\ WritesInv => SuccessIsDurable
  BY DEF WritesInv, KeptInv, Kept, SuccessIsDurable
<1> QED
  BY <1>1, WritesInvariance, PTL
=============================================================================
