---------------------------- MODULE ServerProofs ----------------------------
(***************************************************************************)
(* Proofs about Server, for any number of handlers and of requests.        *)
(***************************************************************************)
EXTENDS Server, TLAPS

(* The labels a handler of each kind passes, as far as the guard depends on*)
(* them.                                                                   *)
Route ==
    \A p \in Handlers :
      /\ pc[p] = "warm" => op[p] \in {"remaining", "watch"}
      /\ pc[p] = "publish" =>
           op[p] \in {"reward", "heartbeat", "approve", "remaining", "watch"}
      /\ pc[p] = "status" => op[p] \in {"reward", "heartbeat", "approve"}

LockInv == TypeOK /\ Route /\ LockDiscipline

-----------------------------------------------------------------------------
(* The model values are told apart from handlers and numbers.              *)
LEMMA NoneIsNoHandler == None \notin Handlers /\ None \notin Int /\ Off \notin Int
                           /\ Off # None
  BY ServerAssumption DEF ServerAssumption

(* A handler that starts has locals of their type.                         *)
LEMMA BlankType == Blank \in MemType
  BY DEF Blank, MemType

(* The names of the bounds.                                                *)
LEMMA Bounds ==
  DOMAIN Unused = {"requests", "faults", "abandons", "midnights", "restarts",
                   "approvals", "childRaces", "parentRaces", "tornSnapshots"}
  BY DEF Unused

(* The three ways a step moves a handler, and the use of a bound.          *)
LEMMA SpendType ==
  ASSUME NEW bound \in DOMAIN Unused, NEW max, TypeOK, Spend(bound, max)
  PROVE  used' \in [DOMAIN Unused -> Nat]
<1>1. used[bound] + 1 \in Nat
  BY DEF TypeOK
<1> QED BY <1>1 DEF TypeOK, Spend

(* A disturbance is counted, and a snapshot that it tears is noted.        *)
LEMMA DisturbUses ==
  ASSUME NEW bound \in DOMAIN Unused, NEW max, NEW torn, TypeOK,
         Disturb(bound, max, torn), bound # "tornSnapshots"
  PROVE  /\ used' \in [DOMAIN Unused -> Nat]
         /\ used'[bound] = used[bound] + 1
         /\ used'.tornSnapshots = 0 => ~torn
         /\ \A b \in DOMAIN Unused : used'[b] = 0 => used[b] = 0
<1> DEFINE t == Raced(torn, used.tornSnapshots)
<1>1. used' = [used EXCEPT ![bound] = used[bound] + 1, !["tornSnapshots"] = t]
  BY DEF Disturb
<1>2. used \in [DOMAIN Unused -> Nat] /\ "tornSnapshots" \in DOMAIN Unused
  BY Bounds DEF TypeOK
<1>3. \A b \in DOMAIN Unused : used[b] \in Nat
  BY <1>2
<1>4. /\ t \in Nat /\ t \in {used.tornSnapshots, 1}
      /\ t = 0 => ~torn
  BY <1>2, <1>3 DEF Raced
<1> HIDE DEF t
<1> DEFINE counted == [used EXCEPT ![bound] = used[bound] + 1]
<1>5. counted \in [DOMAIN Unused -> Nat]
  BY <1>2, <1>3
<1>6. used' = [counted EXCEPT !["tornSnapshots"] = t]
  BY <1>1
<1>7. \A b \in DOMAIN Unused : counted[b] = IF b = bound THEN used[b] + 1 ELSE used[b]
  BY <1>2
<1> HIDE DEF counted
<1>8. /\ used' \in [DOMAIN Unused -> Nat]
      /\ \A b \in DOMAIN Unused :
           used'[b] = IF b = "tornSnapshots" THEN t ELSE counted[b]
  BY <1>2, <1>4, <1>5, <1>6
<1>9. used'[bound] = used[bound] + 1 /\ used'.tornSnapshots = t
  BY <1>2, <1>7, <1>8
<1>10. ASSUME NEW b \in DOMAIN Unused, used'[b] = 0 PROVE used[b] = 0
  BY <1>3, <1>4, <1>7, <1>8, <1>10
<1> QED BY <1>4, <1>8, <1>9, <1>10

(* A request that begins uses one up, and may be noticed to race.          *)
LEMMA BeginUses ==
  ASSUME TypeOK, NEW p \in Handlers, NEW k \in Kinds, Begin(p, k)
  PROVE  /\ used' \in [DOMAIN Unused -> Nat]
         /\ \A b \in DOMAIN Unused : used'[b] = 0 => used[b] = 0
<1> DEFINE child == Raced(\E q \in Handlers : RaceForChild(k, op[q]), used.childRaces)
           parent == Raced(\E q \in Handlers : RaceForParent(k, op[q]), used.parentRaces)
<1>1. used' = [used EXCEPT !.requests = used.requests + 1, !.childRaces = child,
                           !.parentRaces = parent]
  BY DEF Begin
<1>2. used \in [DOMAIN Unused -> Nat]
  BY DEF TypeOK
<1>3. \A b \in DOMAIN Unused : used[b] \in Nat
  BY <1>2
<1>4. /\ used.requests \in Nat /\ used.childRaces \in Nat /\ used.parentRaces \in Nat
  BY <1>3, Bounds
<1>5. /\ child \in Nat /\ child \in {used.childRaces, 1}
      /\ parent \in Nat /\ parent \in {used.parentRaces, 1}
  BY <1>4, Zenon DEF Raced
<1> HIDE DEF child, parent
<1>6. used' \in [DOMAIN Unused -> Nat]
  <2>1. [used EXCEPT !.requests = used.requests + 1] \in [DOMAIN Unused -> Nat]
    BY <1>2, <1>4
  <2>2. [[used EXCEPT !.requests = used.requests + 1] EXCEPT !.childRaces = child]
          \in [DOMAIN Unused -> Nat]
    BY <1>5, <2>1
  <2> QED BY <1>1, <1>5, <2>2
<1>7. ASSUME NEW b \in DOMAIN Unused, used'[b] = 0 PROVE used[b] = 0
  <2>1. \/ used'[b] = used[b]
        \/ used'[b] \in {used.requests + 1, 1}
    BY <1>1, <1>2, <1>5, Bounds
  <2> QED BY <1>4, <1>7, <2>1
<1> QED BY <1>6, <1>7

(* A handler that returns keeps the shape of the handlers' state.          *)
LEMMA ReturnType ==
  ASSUME NEW p \in Handlers, TypeOK, Return(p)
  PROVE  /\ pc' \in [Handlers -> Labels]
         /\ op' \in [Handlers -> Kinds \cup {"idle"}]
         /\ mem' \in [Handlers -> MemType]
  BY BlankType DEF TypeOK, Return, Labels

(* A handler that moves on keeps the shape of the handlers' state.         *)
LEMMA GoToType ==
  ASSUME NEW p \in Handlers, NEW label \in Labels, TypeOK, GoTo(p, label)
  PROVE  /\ pc' \in [Handlers -> Labels]
         /\ op' \in [Handlers -> Kinds \cup {"idle"}]
  BY DEF TypeOK, GoTo

(* Every step keeps the shape of the variables.                            *)
LEMMA TypeStep == ASSUME TypeOK, [Next]_vars PROVE TypeOK'
<1> USE NoneIsNoHandler
<1>1. CASE UNCHANGED vars
  BY <1>1 DEF TypeOK, vars, store, views
<1>2. ASSUME NEW p \in Handlers, NEW k \in Kinds, Begin(p, k) PROVE TypeOK'
  <2>1. used' \in [DOMAIN Unused -> Nat]
    BY <1>2, BeginUses
  <2>2. pc' \in [Handlers -> Labels] /\ op' \in [Handlers -> Kinds \cup {"idle"}]
    BY <1>2 DEF TypeOK, Begin, Labels
  <2>3. UNCHANGED <<store, cache, owner, mem, views>>
    BY <1>2 DEF Begin
  <2> QED BY <2>1, <2>2, <2>3 DEF TypeOK, store, views
<1>3. ASSUME NEW p \in Handlers, Lock(p) PROVE TypeOK'
  <2>1. mem' \in [Handlers -> MemType]
    BY <1>3 DEF TypeOK, Lock, Keep, MemType
  <2> QED BY <1>3, <2>1 DEF TypeOK, Lock, GoTo, store, views, Labels
<1>4. ASSUME NEW p \in Handlers, Step(p) PROVE TypeOK'
  <2>1. CASE CommitReward(p)
    <3>1. remaining' \in Int
      BY <2>1, ServerAssumption DEF TypeOK, CommitReward, ServerAssumption
    <3>3. done' \in BOOLEAN
      BY <2>1, Zenon DEF TypeOK, CommitReward
    <3>2. mem' \in [Handlers -> MemType]
      BY <2>1, <3>1 DEF TypeOK, CommitReward, Keep, MemType
    <3> QED
      BY <2>1, <3>1, <3>2, <3>3 DEF TypeOK, CommitReward, GoTo, views, Labels
  <2>2. CASE CommitHeartbeat(p)
    <3>1. remaining' \in Int
      BY <2>2 DEF TypeOK, CommitHeartbeat
    <3>2. mem' \in [Handlers -> MemType]
      BY <2>2, <3>1 DEF TypeOK, CommitHeartbeat, Keep, MemType
    <3> QED
      BY <2>2, <3>1, <3>2 DEF TypeOK, CommitHeartbeat, GoTo, views, Labels
  <2>3. CASE CommitApprove(p)
    <3>1. remaining' \in Int /\ pending' \in Nat
      BY <2>3, ServerAssumption DEF TypeOK, CommitApprove, ServerAssumption
    <3>3. done' \in BOOLEAN
      BY <2>3, Zenon DEF TypeOK, CommitApprove
    <3>2. mem' \in [Handlers -> MemType]
      BY <2>3, <3>1 DEF TypeOK, CommitApprove, Keep, MemType
    <3>4. used' \in [DOMAIN Unused -> Nat]
      <4>1. used.approvals + 1 \in Nat
        BY Bounds DEF TypeOK
      <4> QED BY <2>3, <4>1 DEF TypeOK, CommitApprove
    <3> QED
      BY <2>3, <3>1, <3>2, <3>3, <3>4
      DEF TypeOK, CommitApprove, GoTo, views, Labels
  <2>4. CASE ApproveNothing(p)
    BY <2>4 DEF TypeOK, ApproveNothing, Return, store, views, Labels, Blank,
                MemType
  <2>5. CASE CommitSubmit(p)
    BY <2>5 DEF TypeOK, CommitSubmit, GoTo, views, Labels
  <2>6. CASE CommitDiscard(p)
    BY <2>6 DEF TypeOK, CommitDiscard, GoTo, views, Labels
  <2>7. CASE ReadWarm(p)
    BY <2>7 DEF TypeOK, ReadWarm, Keep, GoTo, store, views, Labels, MemType
  <2>8. CASE Publish(p)
    BY <2>8 DEF TypeOK, Publish, Unlock, GoTo, store, views, Labels, MemType
  <2>9. CASE ReadStatus(p)
    BY <2>9 DEF TypeOK, ReadStatus, Keep, GoTo, store, views, Labels, MemType
  <2>10. CASE ReadTasks(p)
    BY <2>10 DEF TypeOK, ReadTasks, Keep, GoTo, store, views, Labels, MemType
  <2>11. CASE Answer(p)
    BY <2>11 DEF TypeOK, Answer, Unlock, Return, store, views, Labels, Blank,
                 MemType
  <2>12. CASE Announce(p)
    <3>1. pc' \in [Handlers -> Labels] /\ op' \in [Handlers -> Kinds \cup {"idle"}]
      BY <2>12 DEF TypeOK, Announce, GoTo, Return, Labels
    <3> DEFINE shown == Shown(mem[p].rem, mem[p].done)
    <3>2. mem' \in [Handlers -> MemType]
      <4>1. mem' = mem \/ mem' = [mem EXCEPT ![p] = Blank]
        BY <2>12, Zenon DEF Announce, Return
      <4> QED BY <4>1, BlankType DEF TypeOK
    <3>3. childView' \in ViewType
      <4>1. childView' \in {childView, Off, shown}
        BY <2>12, Zenon DEF Announce, Send
      <4>2. shown \in ViewType
        BY DEF TypeOK, Shown, ViewType, MemType
      <4>3. childView \in ViewType /\ Off \in ViewType
        BY Zenon DEF TypeOK, ViewType
      <4> QED BY <4>1, <4>2, <4>3, Zenon
    <3> QED BY <2>12, <3>1, <3>2, <3>3 DEF TypeOK, Announce, Unlock, store
  <2>13. CASE ReadCount(p)
    BY <2>13 DEF TypeOK, ReadCount, Keep, GoTo, store, views, Labels, MemType
  <2>14. CASE AnnounceCount(p)
    BY <2>14 DEF TypeOK, AnnounceCount, Return, store, Labels, Blank, MemType
  <2>15. CASE SnapshotMinutes(p)
    BY <2>15 DEF TypeOK, SnapshotMinutes, Keep, GoTo, Shown, store, views,
                 Labels, MemType
  <2>16. CASE SnapshotBlocked(p)
    BY <2>16 DEF TypeOK, SnapshotBlocked, Keep, GoTo, Unlock, store, views,
                 Labels, MemType
  <2>17. CASE Subscribe(p)
    <3> DEFINE view == [rem |-> mem[p].rem, blocked |-> ~mem[p].done]
    <3>1. childView' \in ViewType
      <4>1. childView' \in {childView, None, view}
        BY <2>17, Zenon DEF Subscribe
      <4>2. view \in ViewType
        BY DEF TypeOK, ViewType, MemType
      <4>3. childView \in ViewType /\ None \in ViewType
        BY Zenon DEF TypeOK, ViewType
      <4> QED BY <4>1, <4>2, <4>3, Zenon
    <3>2. parentView' \in Nat \cup {None, Off}
      BY <2>17 DEF TypeOK, Subscribe, MemType
    <3> QED
      BY <2>17, <3>1, <3>2 DEF TypeOK, Subscribe, Return, store, Labels, Blank,
                         MemType
  <2>18. CASE CommitDetached(p)
    <3>1. remaining' \in Int
      <4>1. \/ \E g \in Grants : remaining' = remaining + g
            \/ remaining' = remaining
            \/ remaining' \in {remaining, remaining - 1}
        BY <2>18, Zenon DEF CommitDetached, store
      <4> QED BY <4>1, ServerAssumption DEF TypeOK, ServerAssumption
    <3>3. pending' \in Nat
      <4>1. \/ pending > 0 /\ pending' = pending - 1
            \/ pending' = pending \/ pending' = pending + 1
            \/ pending' \in {pending, pending - 1} \cap Nat
        BY <2>18, Zenon DEF CommitDetached, store
      <4> QED BY <4>1 DEF TypeOK
    <3>2. done' \in BOOLEAN
      BY <2>18, Zenon DEF TypeOK, CommitDetached, store
    <3> QED
      BY <2>18, <3>1, <3>2, <3>3 DEF TypeOK, CommitDetached, Return, views, Labels, Blank,
                         MemType
  <2> QED
    BY <1>4, <2>1, <2>2, <2>3, <2>4, <2>5, <2>6, <2>7, <2>8, <2>9, <2>10,
       <2>11, <2>12, <2>13, <2>14, <2>15, <2>16, <2>17, <2>18 DEF Step
<1>5. ASSUME NEW p \in Handlers, Fault(p) PROVE TypeOK'
  <2>1. used' \in [DOMAIN Unused -> Nat]
    BY <1>5, DisturbUses, Bounds DEF Fault
  <2>2. /\ pc' \in [Handlers -> Labels]
        /\ op' \in [Handlers -> Kinds \cup {"idle"}]
        /\ mem' \in [Handlers -> MemType]
    BY <1>5, ReturnType, GoToType DEF TypeOK, Fault, Labels
  <2> QED BY <1>5, <2>1, <2>2 DEF TypeOK, Fault, Unlock, store, views
<1>6. ASSUME NEW p \in Handlers, Abandon(p) PROVE TypeOK'
  <2>1. used' \in [DOMAIN Unused -> Nat]
    BY <1>6, SpendType, Bounds DEF Abandon
  <2>2. /\ pc' \in [Handlers -> Labels]
        /\ op' \in [Handlers -> Kinds \cup {"idle"}]
        /\ mem' \in [Handlers -> MemType]
    BY <1>6, ReturnType, GoToType DEF TypeOK, Abandon, Labels
  <2> QED BY <1>6, <2>1, <2>2 DEF TypeOK, Abandon, Unlock, store, views
<1>7. CASE Leave
  BY <1>7 DEF TypeOK, Leave, store, ViewType
<1>8. CASE Midnight
  <2>1. used' \in [DOMAIN Unused -> Nat]
    BY <1>8, DisturbUses, Bounds DEF Midnight
  <2>2. done' \in BOOLEAN
    BY <1>8 DEF Midnight
  <2> QED BY <1>8, <2>1, <2>2 DEF TypeOK, Midnight, views
<1>9. CASE Restart
  <2>1. used' \in [DOMAIN Unused -> Nat]
    BY <1>9, SpendType, Bounds DEF Restart
  <2> QED
    BY <1>9, <2>1, BlankType DEF TypeOK, Restart, store, Labels, ViewType
<1> QED BY <1>1, <1>2, <1>3, <1>4, <1>5, <1>6, <1>7, <1>8, <1>9 DEF Next

(* The variables start with their shape.                                   *)
LEMMA InitType == Init => TypeOK
  BY DEF Init, TypeOK, Labels, Blank, MemType, ViewType, Unused

(* Every variable keeps its shape.                                         *)
THEOREM TypeCorrect == Spec => []TypeOK
  BY InitType, TypeStep, PTL DEF Spec

-----------------------------------------------------------------------------
(* One handler moves and takes, keeps or drops the guard as its new place  *)
(* requires: the discipline of the mutex and the routes are kept.          *)
LEMMA OneMoves ==
  ASSUME NEW p \in Handlers, LockInv,
         \A q \in Handlers \ {p} : pc'[q] = pc[q] /\ op'[q] = op[q],
         \/ owner' = owner
         \/ owner = p /\ owner' = None
         \/ owner = None /\ owner' = p,
         owner' = p <=> Holds(p)',
         pc'[p] = "warm" => op'[p] \in {"remaining", "watch"},
         pc'[p] = "publish" => op'[p] \in {"reward", "heartbeat", "approve",
                                           "remaining", "watch"},
         pc'[p] = "status" => op'[p] \in {"reward", "heartbeat", "approve"}
  PROVE  Route' /\ LockDiscipline'
<1>1. Route'
  BY DEF LockInv, Route
<1>2. ASSUME NEW q \in Handlers PROVE (owner = q <=> Holds(q))'
  <2>1. CASE q = p
    BY <2>1
  <2>2. CASE q # p
    <3>1. Holds(q)' <=> Holds(q)
      BY <2>2 DEF Holds
    <3>2. owner' = q <=> owner = q
      BY <2>2, NoneIsNoHandler
    <3> QED BY <3>1, <3>2 DEF LockInv, LockDiscipline
  <2> QED BY <2>1, <2>2
<1> QED BY <1>1, <1>2 DEF LockDiscipline

(* Where a handler is after it moves or returns.                           *)
Others(p) == \A q \in Handlers \ {p} : pc'[q] = pc[q] /\ op'[q] = op[q]

(* Where a handler goes on, and that the others stay where they are.       *)
LEMMA Moves ==
  ASSUME NEW p \in Handlers, TypeOK
  PROVE  /\ \A l : GoTo(p, l) => pc'[p] = l /\ op'[p] = op[p] /\ Others(p)
         /\ Return(p) => pc'[p] = "idle" /\ op'[p] = "idle" /\ Others(p)
  BY DEF TypeOK, GoTo, Return, Others

(* A handler leaves for a place without the guard and drops it if it has   *)
(* it.                                                                     *)
LEMMA Released ==
  ASSUME NEW p \in Handlers, LockInv, Others(p), Unlock(p),
         pc'[p] \in {"idle", "count", "subscribe", "detached"}
  PROVE  Route' /\ LockDiscipline'
<1>1. ~Holds(p)'
  BY DEF Holds
<1>2. owner' # p /\ (owner' = owner \/ (owner = p /\ owner' = None))
  BY NoneIsNoHandler DEF Unlock
<1>3. pc'[p] \notin {"warm", "publish", "status"}
  OBVIOUS
<1> QED BY <1>1, <1>2, <1>3, OneMoves DEF Others

(* Every step keeps the mutex with the handler that is in its section.     *)
LEMMA LockStep == ASSUME LockInv, [Next]_vars PROVE Route' /\ LockDiscipline'
<1> USE DEF LockInv
<1>0. TypeOK /\ Route /\ LockDiscipline
  OBVIOUS
<1>1. CASE UNCHANGED vars
  BY <1>1 DEF vars, Route, LockDiscipline, Holds
<1>2. ASSUME NEW p \in Handlers, NEW k \in Kinds, Begin(p, k)
      PROVE  Route' /\ LockDiscipline'
  <2>1. /\ Others(p) /\ owner' = owner /\ op'[p] = k /\ pc[p] = "idle"
        /\ pc'[p] \in {"lock", "count", "commit"}
        /\ k \in Locking => pc'[p] = "lock"
    BY <1>2 DEF Begin, TypeOK, Others
  <2>2. owner' # p /\ ~Holds(p)'
    BY <2>1 DEF LockDiscipline, Holds, Locking
  <2>3. pc'[p] \notin {"warm", "publish", "status"}
    BY <2>1
  <2>4. \A q \in Handlers \ {p} : pc'[q] = pc[q] /\ op'[q] = op[q]
    BY <2>1 DEF Others
  <2> HIDE DEF LockInv
  <2> QED BY <2>1, <2>2, <2>3, <2>4, OneMoves
<1>3. ASSUME NEW p \in Handlers, Lock(p) PROVE Route' /\ LockDiscipline'
  BY <1>3, OneMoves DEF Lock, TypeOK, GoTo, Holds
<1>4. ASSUME NEW p \in Handlers, Step(p) PROVE Route' /\ LockDiscipline'
  <2>1. CASE CommitReward(p) \/ CommitHeartbeat(p) \/ CommitApprove(p)
    <3>1. /\ pc[p] = "commit" /\ UNCHANGED owner
          /\ \/ op[p] \in {"reward", "heartbeat"} /\ GoTo(p, "publish")
             \/ op[p] = "approve" /\ GoTo(p, "lock")
      BY <2>1 DEF CommitReward, CommitHeartbeat, CommitApprove, At
    <3>2. /\ Others(p) /\ op'[p] = op[p]
          /\ pc'[p] = IF op[p] = "approve" THEN "lock" ELSE "publish"
      BY <3>1, Moves
    <3>3. owner' = p <=> Holds(p)'
      BY <3>1, <3>2 DEF LockDiscipline, Holds
    <3> HIDE DEF LockInv
    <3> QED BY <3>1, <3>2, <3>3, OneMoves DEF Others
  <2>2. CASE ApproveNothing(p) \/ CommitSubmit(p) \/ CommitDiscard(p)
    BY <2>2, OneMoves DEF ApproveNothing, CommitSubmit, CommitDiscard,
       TypeOK, At, GoTo, Return, Unlock, Holds, LockDiscipline, Route
  <2>3. CASE ReadWarm(p) \/ ReadStatus(p) \/ ReadTasks(p) \/ ReadCount(p)
    BY <2>3, OneMoves DEF ReadWarm, ReadStatus, ReadTasks, ReadCount,
       TypeOK, At, GoTo, Return, Unlock, Holds, LockDiscipline, Route
  <2>4. CASE Publish(p)
    <3>1. pc[p] = "publish" /\ Others(p) /\ op'[p] = op[p]
      BY <2>4, Moves DEF Publish
    <3>2. CASE op[p] \in {"heartbeat", "approve"}
      <4>1. pc'[p] = "status" /\ Unlock(p)
        BY <2>4, <3>2, Moves DEF Publish
      <4>2. owner' = None
        BY <3>1, <3>2, <4>1 DEF Unlock, LockDiscipline, Holds
      <4>3. owner = p
        BY <3>1, <3>2 DEF LockDiscipline, Holds
      <4>4. ~Holds(p)'
        BY <3>1, <3>2, <4>1 DEF Holds
      <4> QED
        BY <3>1, <3>2, <4>1, <4>2, <4>3, <4>4, OneMoves, NoneIsNoHandler
        DEF Others
    <3>3. CASE op[p] \in {"remaining", "watch"}
      <4>1. pc'[p] = "tasks" /\ UNCHANGED owner
        BY <2>4, <3>3, Moves DEF Publish
      <4> QED
        BY <3>1, <3>3, <4>1, OneMoves DEF Others, LockDiscipline, Holds
    <3>4. CASE op[p] = "reward"
      <4>1. pc'[p] = "status" /\ UNCHANGED owner
        BY <2>4, <3>4, Moves DEF Publish
      <4> QED
        BY <3>1, <3>4, <4>1, OneMoves DEF Others, LockDiscipline, Holds
    <3> QED BY <3>1, <3>2, <3>3, <3>4 DEF Route
  <2>5. CASE Answer(p)
    BY <2>5, Moves, Released DEF Answer
  <2>6. CASE Announce(p)
    <3>1. pc'[p] \in {"idle", "count"} /\ Others(p) /\ Unlock(p)
      BY <2>6, Moves, Zenon DEF Announce
    <3> QED BY <3>1, Released
  <2>7. CASE SnapshotMinutes(p)
    BY <2>7, OneMoves DEF SnapshotMinutes,
       TypeOK, At, GoTo, Return, Unlock, Holds, LockDiscipline, Route
  <2>8. CASE SnapshotBlocked(p)
    BY <2>8, Moves, Released DEF SnapshotBlocked
  <2>9. CASE AnnounceCount(p) \/ CommitDetached(p) \/ Subscribe(p)
    <3>1. pc[p] \in {"announceCount", "detached", "subscribe"}
      BY <2>9 DEF AnnounceCount, CommitDetached, Subscribe
    <3>2. Return(p) /\ UNCHANGED owner
      BY <2>9, Zenon DEF AnnounceCount, CommitDetached, Subscribe
    <3>3. owner # p
      BY <3>1 DEF LockDiscipline, Holds
    <3>4. Unlock(p)
      BY <3>2, <3>3 DEF Unlock
    <3> QED BY <3>2, <3>4, Moves, Released
  <2> QED
    BY <1>4, <2>1, <2>2, <2>3, <2>4, <2>5, <2>6, <2>7, <2>8, <2>9 DEF Step
<1>5. ASSUME NEW p \in Handlers, Fault(p) PROVE Route' /\ LockDiscipline'
  <2>1. pc'[p] \in {"idle", "subscribe"} /\ Others(p) /\ Unlock(p)
    BY <1>5, Moves, Zenon DEF Fault
  <2> QED BY <2>1, Released
<1>6. ASSUME NEW p \in Handlers, Abandon(p) PROVE Route' /\ LockDiscipline'
  <2>1. pc'[p] \in {"idle", "detached"} /\ Others(p) /\ Unlock(p)
    BY <1>6, Moves, Zenon DEF Abandon
  <2> QED BY <2>1, Released
<1>7. CASE Leave \/ Midnight
  BY <1>7 DEF Leave, Midnight, Route, LockDiscipline, Holds
<1>8. CASE Restart
  BY <1>8, NoneIsNoHandler DEF Restart, Route, LockDiscipline, Holds
<1> QED BY <1>1, <1>2, <1>3, <1>4, <1>5, <1>6, <1>7, <1>8 DEF Next

(* LockInv holds in every reachable state.                                 *)
LEMMA LockInvariant == Spec => []LockInv
<1>1. Init => LockInv
  <2>1. Init => Route /\ LockDiscipline
    BY NoneIsNoHandler DEF Init, Route, LockDiscipline, Holds
  <2> QED BY <2>1, InitType DEF LockInv
<1>2. LockInv /\ [Next]_vars => LockInv'
  BY TypeStep, LockStep DEF LockInv
<1> QED BY <1>1, <1>2, PTL DEF Spec

(* The child's mutex is held exactly where the code holds it: no error, no *)
(* closed connection and no restart leaks it.                              *)
THEOREM NoLeakedLock == Spec => []LockDiscipline
<1>1. LockInv => LockDiscipline
  BY DEF LockInv
<1> QED BY <1>1, LockInvariant, PTL

-----------------------------------------------------------------------------
(* Until an approval commits, which it does outside the mutex, or a request*)
(* is dropped half way, only the holder changes the stored minutes, and the*)
(* cache lags behind only while the holder is about to write it.           *)
Careful == used.approvals = 0 /\ used.abandons = 0
NoOutsider ==
    \A p \in Handlers :
      (op[p] = "approve" => pc[p] \in {"commit", "idle"}) /\ pc[p] # "detached"
Publishing(p) == owner = p /\ pc[p] = "publish"
NewIsStored == \A p \in Handlers : Publishing(p) => mem[p].new = remaining
CacheStored ==
    (\A p \in Handlers : ~Publishing(p)) => cache \in {None, remaining}

CacheInv == LockInv /\ NoOutsider /\ NewIsStored /\ CacheStored
CarefulInv == LockInv /\ (Careful => CacheInv)

(* A step of p that neither reaches nor leaves the moment before the cache *)
(* is written, and changes neither the store's minutes nor the cache.      *)
LEMMA QuietStep ==
  ASSUME NEW p \in Handlers, CacheInv, Others(p),
         \A q \in Handlers \ {p} : mem'[q] = mem[q],
         UNCHANGED <<remaining, cache>>,
         \/ owner' = owner
         \/ owner = p /\ owner' = None
         \/ owner = None /\ owner' = p,
         pc[p] # "publish", pc'[p] # "publish"
  PROVE  NewIsStored' /\ CacheStored'
<1>1. \A q \in Handlers : Publishing(q)' <=> Publishing(q)
  BY NoneIsNoHandler DEF Publishing, Others
<1>2. \A q \in Handlers : Publishing(q) => mem'[q] = mem[q]
  BY DEF Publishing
<1> QED BY <1>1, <1>2 DEF CacheInv, NewIsStored, CacheStored

(* A step of the holder p that leaves it about to publish what is stored.  *)
LEMMA HolderReads ==
  ASSUME NEW p \in Handlers, CacheInv, owner = p, owner' = p, Others(p),
         pc'[p] = "publish", mem'[p].new = remaining'
  PROVE  NewIsStored' /\ CacheStored'
<1>1. Publishing(p)'
  BY DEF Publishing
<1>2. \A q \in Handlers : Publishing(q)' => q = p
  BY DEF Publishing
<1> QED BY <1>1, <1>2 DEF NewIsStored, CacheStored

(* The value a handler keeps.                                              *)
LEMMA KeepsValue ==
  ASSUME NEW p \in Handlers, TypeOK,
         NEW field \in {"prev", "new", "rem", "done", "count"}, NEW v,
         Keep(p, field, v)
  PROVE  mem'[p][field] = v
  BY DEF TypeOK, Keep, MemType

(* What a handler does to its locals, the others' locals stay.             *)
LEMMA KeepsOthers ==
  ASSUME NEW p \in Handlers, TypeOK,
         Return(p) \/ UNCHANGED mem \/ \E field, v : Keep(p, field, v)
  PROVE  \A q \in Handlers \ {p} : mem'[q] = mem[q]
  BY DEF TypeOK, Keep, Return

(* What was not used up after a step was not used up before it.            *)
LEMMA UsedGrows ==
  ASSUME TypeOK, [Next]_vars, NEW b \in DOMAIN Unused, used'[b] = 0
  PROVE  used[b] = 0
<1>1. \A c \in DOMAIN Unused : used[c] \in Nat
  BY DEF TypeOK
<1>2. ASSUME NEW p \in Handlers, NEW k \in Kinds, Begin(p, k) PROVE used[b] = 0
  BY <1>2, BeginUses
<1>3. ASSUME NEW c \in DOMAIN Unused, used' = [used EXCEPT ![c] = @ + 1]
      PROVE  used[b] = 0
  BY <1>1, <1>3 DEF TypeOK
<1>4. \/ used' = used
      \/ \E c \in DOMAIN Unused : used' = [used EXCEPT ![c] = @ + 1]
      \/ \E p \in Handlers, k \in Kinds : Begin(p, k)
      \/ \E max, torn : Disturb("faults", max, torn) \/ Disturb("midnights", max, torn)
  BY Bounds
  DEF Next, vars, Lock, Step, Fault, Abandon, Leave, Midnight, Restart,
      Spend, CommitReward, CommitHeartbeat, CommitApprove, ApproveNothing,
      CommitSubmit, CommitDiscard, ReadWarm, Publish, ReadStatus, ReadTasks,
      Answer, Announce, ReadCount, AnnounceCount, SnapshotMinutes,
      SnapshotBlocked, Subscribe, CommitDetached
<1>5. ASSUME NEW max, NEW torn,
             Disturb("faults", max, torn) \/ Disturb("midnights", max, torn)
      PROVE  used[b] = 0
  BY <1>5, DisturbUses, Bounds
<1> QED BY <1>2, <1>3, <1>4, <1>5

(* Care is only lost.                                                      *)
LEMMA CarefulBefore ==
  ASSUME TypeOK, [Next]_vars, Careful'
  PROVE  Careful
  BY UsedGrows, Bounds DEF Careful

(* Until then, every step keeps the cache right.                           *)
LEMMA CacheStep ==
  ASSUME CacheInv, [Next]_vars, Careful'
  PROVE  NoOutsider' /\ NewIsStored' /\ CacheStored'
<1>0. TypeOK /\ Route /\ LockDiscipline /\ NoOutsider /\ LockInv
  BY DEF CacheInv, LockInv
<1>1. CASE UNCHANGED vars
  BY <1>1 DEF vars, CacheInv, NoOutsider, NewIsStored, CacheStored, Publishing,
              store
<1>2. ASSUME NEW p \in Handlers, NEW k \in Kinds, Begin(p, k)
      PROVE  NoOutsider' /\ NewIsStored' /\ CacheStored'
  <2>1. /\ Others(p) /\ UNCHANGED <<remaining, cache, owner, mem>>
        /\ op'[p] = k /\ pc[p] = "idle" /\ pc'[p] \in {"lock", "count", "commit"}
        /\ k = "approve" => pc'[p] = "commit"
    BY <1>0, <1>2 DEF Begin, TypeOK, Others, store, Locking
  <2>2. NoOutsider'
    BY <1>0, <2>1 DEF NoOutsider, Others
  <2> QED BY <2>1, <2>2, QuietStep
<1>3. ASSUME NEW p \in Handlers, Lock(p)
      PROVE  NoOutsider' /\ NewIsStored' /\ CacheStored'
  <2>1. /\ pc[p] = "lock" /\ owner = None /\ owner' = p /\ op[p] # "approve"
        /\ UNCHANGED <<remaining, cache>>
    BY <1>0, <1>3 DEF Lock, NoOutsider, store
  <2>2. /\ Others(p) /\ op'[p] = op[p] /\ pc'[p] \in {"commit", "warm", "tasks"}
        /\ \A q \in Handlers \ {p} : mem'[q] = mem[q]
    BY <1>0, <1>3, <2>1, Moves, KeepsOthers DEF Lock
  <2>3. NoOutsider'
    BY <1>0, <2>1, <2>2 DEF NoOutsider, Others
  <2> QED BY <2>1, <2>2, <2>3, QuietStep
<1>4. ASSUME NEW p \in Handlers, Step(p)
      PROVE  NoOutsider' /\ NewIsStored' /\ CacheStored'
  <2>1. /\ op[p] = "approve" => pc[p] \in {"commit", "idle"}
        /\ pc[p] # "detached"
    BY <1>0 DEF NoOutsider
  <2>2. CASE CommitReward(p) \/ CommitHeartbeat(p) \/ ReadWarm(p)
    <3>1. /\ GoTo(p, "publish") /\ Keep(p, "new", remaining') /\ owner' = owner
          /\ \/ pc[p] = "commit" /\ op[p] \in {"reward", "heartbeat"}
             \/ pc[p] = "warm"
      BY <2>2 DEF CommitReward, CommitHeartbeat, ReadWarm, At, store
    <3>2. owner = p
      BY <1>0, <3>1 DEF LockDiscipline, Holds, Route
    <3>3. /\ pc'[p] = "publish" /\ op'[p] = op[p] /\ Others(p)
          /\ mem'[p].new = remaining'
      BY <1>0, <3>1, Moves, KeepsValue
    <3> QED BY <1>0, <3>1, <3>2, <3>3, HolderReads DEF NoOutsider, Others
  <2>3. CASE Publish(p)
    <3>1. /\ pc[p] = "publish" /\ cache' = mem[p].new /\ remaining' = remaining
      BY <2>3 DEF Publish, store
    <3>2. owner = p
      BY <1>0, <3>1 DEF LockDiscipline, Holds, Route
    <3>3. /\ pc'[p] \in {"tasks", "status"} /\ op'[p] = op[p] /\ Others(p)
          /\ owner' \in {p, None}
      BY <1>0, <2>3, <3>2, Moves DEF Publish, Unlock
    <3>4. cache' = remaining'
      BY <3>1, <3>2 DEF CacheInv, NewIsStored, Publishing
    <3>5. \A q \in Handlers : ~Publishing(q)'
      BY <3>3, NoneIsNoHandler DEF Publishing
    <3>6. op[p] # "approve"
      BY <2>1, <3>1
    <3> QED
      BY <1>0, <3>3, <3>4, <3>5, <3>6
      DEF NoOutsider, NewIsStored, CacheStored, Others
  <2>4. CASE \/ CommitSubmit(p) \/ CommitDiscard(p) \/ ReadStatus(p)
             \/ ReadTasks(p) \/ Answer(p) \/ Announce(p) \/ ReadCount(p)
             \/ AnnounceCount(p) \/ SnapshotMinutes(p) \/ SnapshotBlocked(p)
             \/ Subscribe(p) \/ ApproveNothing(p)
    <3>1. /\ UNCHANGED <<remaining, cache>> /\ pc[p] # "publish"
          /\ owner' = owner \/ Unlock(p)
      BY <2>4 DEF CommitSubmit, CommitDiscard, ReadStatus, ReadTasks, Answer,
                  Announce, ReadCount, AnnounceCount, SnapshotMinutes,
                  SnapshotBlocked, Subscribe, ApproveNothing, At, store
    <3>2. \/ Return(p)
          \/ /\ op[p] # "approve" \/ pc[p] \notin {"commit", "idle"}
             /\ \E l \in Labels \ {"publish", "detached"} : GoTo(p, l)
      BY <2>4 DEF CommitSubmit, CommitDiscard, ReadStatus, ReadTasks, Answer,
                  Announce, ReadCount, AnnounceCount, SnapshotMinutes,
                  SnapshotBlocked, Subscribe, ApproveNothing, Labels, At
    <3>3. \/ Return(p)
          \/ UNCHANGED mem
          \/ \E field, v : Keep(p, field, v)
      BY <2>4 DEF CommitSubmit, CommitDiscard, ReadStatus, ReadTasks, Answer,
                  Announce, ReadCount, AnnounceCount, SnapshotMinutes,
                  SnapshotBlocked, Subscribe, ApproveNothing
    <3>4. /\ Others(p) /\ op'[p] # "approve"
          /\ pc'[p] \notin {"publish", "detached"}
      BY <1>0, <2>1, <3>2, Moves
    <3>5. \A q \in Handlers \ {p} : mem'[q] = mem[q]
      BY <1>0, <3>3, KeepsOthers
    <3>6. owner' = owner \/ (owner = p /\ owner' = None)
      BY <3>1 DEF Unlock
    <3> QED
      BY <1>0, <3>1, <3>4, <3>5, <3>6, QuietStep DEF NoOutsider, Others
  <2>5. CASE CommitApprove(p)
    <3>1. used.approvals \in Nat /\ used.approvals' = used.approvals + 1
      BY <1>0, <2>5, Bounds DEF TypeOK, CommitApprove
    <3> QED BY <3>1 DEF Careful
  <2> QED
    BY <1>4, <2>1, <2>2, <2>3, <2>4, <2>5 DEF Step, CommitDetached
<1>5. ASSUME NEW p \in Handlers, Fault(p)
      PROVE  NoOutsider' /\ NewIsStored' /\ CacheStored'
  <2>1. /\ Others(p) /\ pc'[p] \in {"idle", "subscribe"} /\ op'[p] # "approve"
        /\ \A q \in Handlers \ {p} : mem'[q] = mem[q]
    BY <1>0, <1>5, Moves, KeepsOthers DEF Fault, NoOutsider
  <2>2. /\ UNCHANGED <<remaining, cache>> /\ pc[p] # "publish"
        /\ owner' = owner \/ (owner = p /\ owner' = None)
    BY <1>5 DEF Fault, Unlock, store
  <2> QED BY <1>0, <2>1, <2>2, QuietStep DEF NoOutsider, Others
<1>6. ASSUME NEW p \in Handlers, Abandon(p) PROVE FALSE
  <2>1. used.abandons \in Nat /\ used.abandons' = used.abandons + 1
    BY <1>0, <1>6, Bounds DEF TypeOK, Abandon, Spend
  <2> QED BY <2>1 DEF Careful
<1>7. CASE Leave \/ Midnight
  BY <1>7 DEF Leave, Midnight, CacheInv, NoOutsider, NewIsStored, CacheStored,
              Publishing, store
<1>8. CASE Restart
  BY <1>8, NoneIsNoHandler
  DEF Restart, NoOutsider, NewIsStored, CacheStored, Publishing
<1> QED BY <1>1, <1>2, <1>3, <1>4, <1>5, <1>6, <1>7, <1>8 DEF Next

(* Rewards, heartbeats and reads keep the cache equal to the store, however*)
(* many run at once and whatever fails: only approvals and dropped requests*)
(* can spoil it.                                                           *)
THEOREM CacheCorrect == Spec => []CacheCoherent
<1>1. Init => CarefulInv
  <2>1. Init => NoOutsider /\ NewIsStored /\ CacheStored
    BY NoneIsNoHandler
    DEF Init, NoOutsider, NewIsStored, CacheStored, Publishing
  <2>2. Init => Route /\ LockDiscipline
    BY NoneIsNoHandler DEF Init, Route, LockDiscipline, Holds
  <2> QED BY <2>1, <2>2, InitType DEF CacheInv, LockInv, CarefulInv
<1>2. CarefulInv /\ [Next]_vars => CarefulInv'
  BY CacheStep, CarefulBefore, TypeStep, LockStep
  DEF CacheInv, LockInv, CarefulInv
<1>3. CarefulInv => CacheCoherent
  BY NoneIsNoHandler
  DEF CarefulInv, Careful, CacheInv, CacheStored, Publishing, CacheCoherent
<1> QED BY <1>1, <1>2, <1>3, PTL DEF Spec

-----------------------------------------------------------------------------
(* The labels each kind of request passes.                                 *)
Place(p) ==
    /\ pc[p] = "idle" <=> op[p] = "idle"
    /\ op[p] \in {"reward", "heartbeat"} =>
         pc[p] \in {"lock", "commit", "publish", "status", "tasks", "announce",
                    "detached"}
    /\ op[p] = "approve" =>
         pc[p] \in {"commit", "lock", "publish", "status", "tasks", "announce",
                    "count", "announceCount", "detached"}
    /\ op[p] = "remaining" => pc[p] \in {"lock", "warm", "publish", "tasks"}
    /\ op[p] = "watch" =>
         pc[p] \in {"lock", "warm", "publish", "tasks", "snapshot", "subscribe"}
    /\ op[p] \in {"submit", "discard"} =>
         pc[p] \in {"commit", "count", "announceCount", "detached"}
    /\ op[p] = "watchParent" => pc[p] \in {"count", "subscribe"}
Places == \A p \in Handlers : Place(p)

(* Requests that race were noticed when the later of them began.           *)
Apart ==
    \A p, q \in Handlers : p # q =>
      /\ used.childRaces = 0 => ~RaceForChild(op[p], op[q])
      /\ used.parentRaces = 0 => ~RaceForParent(op[p], op[q])

PlacesInv == LockInv /\ Places /\ Apart

(* What a request is while it is served.                                   *)
LEMMA Serves ==
  ASSUME TypeOK, NEW p \in Handlers, pc[p] # "idle", Place(p)
  PROVE  op[p] \in AllKinds
  BY ServerAssumption DEF TypeOK, Place, ServerAssumption

(* Every step takes one handler to its next place.                         *)
LEMMA PlacesStep == ASSUME TypeOK, Places, [Next]_vars PROVE Places'
<1>a. ASSUME NEW p \in Handlers, Others(p), Place(p)' PROVE Places'
  BY <1>a DEF Places, Place, Others
<1>b. ASSUME NEW p \in Handlers, Return(p) PROVE Places'
  <2>1. Place(p)' /\ Others(p)
    BY <1>b, Moves DEF Place
  <2> QED BY <1>a, <2>1
<1>c. ASSUME NEW p \in Handlers, Others(p), op'[p] = op[p], op[p] \in AllKinds,
             pc'[p] # "idle",
             op[p] \in {"reward", "heartbeat"} =>
               pc'[p] \in {"commit", "publish", "status", "tasks", "announce",
                           "detached"},
             op[p] = "approve" =>
               pc'[p] \in {"lock", "publish", "status", "tasks", "announce",
                           "count", "announceCount", "detached"},
             op[p] = "remaining" => pc'[p] \in {"warm", "publish", "tasks"},
             op[p] = "watch" =>
               pc'[p] \in {"warm", "publish", "tasks", "snapshot", "subscribe"},
             op[p] \in {"submit", "discard"} =>
               pc'[p] \in {"count", "announceCount", "detached"},
             op[p] = "watchParent" => pc'[p] = "subscribe"
      PROVE  Places'
  <2>1. op'[p] # "idle"
    BY <1>c DEF AllKinds, Locking
  <2>2. Place(p)'
    BY <1>c, <2>1 DEF Place
  <2> QED BY <1>a, <1>c, <2>2
<1>d. \A p \in Handlers : Place(p) /\ (pc[p] # "idle" => op[p] \in AllKinds)
  BY Serves DEF Places
<1>1. CASE UNCHANGED vars
  BY <1>1 DEF vars, Places, Place
<1>2. ASSUME NEW p \in Handlers, NEW k \in Kinds, Begin(p, k) PROVE Places'
  <2>1. /\ Others(p) /\ op'[p] = k /\ k \in AllKinds
        /\ pc'[p] = IF k \in Locking THEN "lock"
                    ELSE IF k = "watchParent" THEN "count" ELSE "commit"
    BY <1>2, ServerAssumption DEF Begin, TypeOK, Others, ServerAssumption
  <2>2. Place(p)'
    BY <2>1 DEF Place, AllKinds, Locking
  <2> QED BY <1>a, <2>1, <2>2
<1>3. ASSUME NEW p \in Handlers, Lock(p) PROVE Places'
  <2>1. pc[p] = "lock"
    BY <1>3 DEF Lock
  <2>2. \/ op[p] \in {"reward", "heartbeat"} /\ GoTo(p, "commit")
        \/ op[p] = "approve" /\ GoTo(p, "publish")
        \/ op[p] \in {"remaining", "watch"} /\ (GoTo(p, "warm") \/ GoTo(p, "tasks"))
    BY <1>3, Zenon DEF Lock
  <2>3. /\ Others(p) /\ op'[p] = op[p]
        /\ \/ op[p] \in {"reward", "heartbeat"} /\ pc'[p] = "commit"
           \/ op[p] = "approve" /\ pc'[p] = "publish"
           \/ op[p] \in {"remaining", "watch"} /\ pc'[p] \in {"warm", "tasks"}
    BY <2>2, Moves
  <2> QED BY <1>c, <1>d, <2>1, <2>3
<1>4. ASSUME NEW p \in Handlers, Step(p) PROVE Places'
  <2>1. \/ Return(p)
        \/ /\ pc[p] = "commit" /\ op[p] \in {"reward", "heartbeat"}
           /\ GoTo(p, "publish")
        \/ pc[p] = "commit" /\ op[p] = "approve" /\ GoTo(p, "lock")
        \/ pc[p] = "commit" /\ op[p] \in {"submit", "discard"} /\ GoTo(p, "count")
        \/ pc[p] = "warm" /\ GoTo(p, "publish")
        \/ /\ pc[p] = "publish"
           /\ GoTo(p, IF op[p] \in {"remaining", "watch"} THEN "tasks" ELSE "status")
        \/ pc[p] = "status" /\ GoTo(p, "tasks")
        \/ /\ pc[p] = "tasks" /\ op[p] \in {"reward", "heartbeat", "approve"}
           /\ GoTo(p, "announce")
        \/ pc[p] = "announce" /\ op[p] = "approve" /\ GoTo(p, "count")
        \/ /\ pc[p] = "count"
           /\ GoTo(p, IF op[p] = "watchParent" THEN "subscribe" ELSE "announceCount")
        \/ pc[p] = "tasks" /\ op[p] = "watch" /\ GoTo(p, "snapshot")
        \/ pc[p] = "snapshot" /\ GoTo(p, "subscribe")
    <3>1. CASE \/ CommitReward(p) \/ CommitHeartbeat(p) \/ CommitApprove(p)
               \/ CommitSubmit(p) \/ CommitDiscard(p)
      BY <3>1 DEF CommitReward, CommitHeartbeat, CommitApprove, CommitSubmit,
                  CommitDiscard, At
    <3>2. CASE \/ ApproveNothing(p) \/ Answer(p) \/ AnnounceCount(p) \/ Subscribe(p)
               \/ CommitDetached(p)
      BY <3>2 DEF ApproveNothing, Answer, AnnounceCount, Subscribe, CommitDetached
    <3>3. CASE ReadWarm(p) \/ ReadStatus(p) \/ ReadTasks(p) \/ ReadCount(p)
      BY <3>3 DEF ReadWarm, ReadStatus, ReadTasks, ReadCount, At
    <3>4. CASE Publish(p)
      BY <3>4 DEF Publish
    <3>5. CASE Announce(p)
      BY <3>5, Zenon DEF Announce
    <3>6. CASE SnapshotMinutes(p) \/ SnapshotBlocked(p)
      BY <3>6 DEF SnapshotMinutes, SnapshotBlocked, At
    <3> QED BY <1>4, <3>1, <3>2, <3>3, <3>4, <3>5, <3>6 DEF Step
  <2>2. CASE Return(p)
    BY <1>b, <2>2
  <2>3. CASE pc[p] = "commit" /\ ~Return(p)
    <3>1. /\ Others(p) /\ op'[p] = op[p]
          /\ \/ op[p] \in {"reward", "heartbeat"} /\ pc'[p] = "publish"
             \/ op[p] = "approve" /\ pc'[p] = "lock"
             \/ op[p] \in {"submit", "discard"} /\ pc'[p] = "count"
      BY <2>1, <2>3, Moves
    <3> QED BY <1>c, <1>d, <2>3, <3>1
  <2>4. CASE pc[p] = "publish" /\ ~Return(p)
    <3>1. /\ Others(p) /\ op'[p] = op[p]
          /\ pc'[p] = IF op[p] \in {"remaining", "watch"} THEN "tasks" ELSE "status"
      BY <2>1, <2>4, Moves
    <3>2. op[p] \in {"reward", "heartbeat", "approve", "remaining", "watch"}
      BY <1>d, <2>4 DEF Place, AllKinds, Locking
    <3> QED BY <1>c, <1>d, <2>4, <3>1, <3>2
  <2>5. CASE pc[p] \in {"warm", "status", "tasks"} /\ ~Return(p)
    <3>1. /\ Others(p) /\ op'[p] = op[p]
          /\ \/ pc[p] = "warm" /\ pc'[p] = "publish"
             \/ pc[p] = "status" /\ pc'[p] = "tasks"
             \/ /\ pc[p] = "tasks" /\ op[p] \in {"reward", "heartbeat", "approve"}
                /\ pc'[p] = "announce"
             \/ pc[p] = "tasks" /\ op[p] = "watch" /\ pc'[p] = "snapshot"
      BY <2>1, <2>5, Moves
    <3>2. /\ pc[p] = "warm" => op[p] \in {"remaining", "watch"}
          /\ pc[p] = "status" => op[p] \in {"reward", "heartbeat", "approve"}
      BY <1>d DEF Place, AllKinds, Locking
    <3> QED BY <1>c, <1>d, <2>5, <3>1, <3>2
  <2>6. CASE pc[p] \in {"announce", "count", "snapshot"} /\ ~Return(p)
    <3>1. /\ Others(p) /\ op'[p] = op[p]
          /\ \/ pc[p] = "announce" /\ op[p] = "approve" /\ pc'[p] = "count"
             \/ /\ pc[p] = "count"
                /\ pc'[p] = IF op[p] = "watchParent" THEN "subscribe"
                                                     ELSE "announceCount"
             \/ pc[p] = "snapshot" /\ pc'[p] = "subscribe"
      BY <2>1, <2>6, Moves
    <3>2. /\ pc[p] = "count" =>
               op[p] \in {"approve", "submit", "discard", "watchParent"}
          /\ pc[p] = "snapshot" => op[p] = "watch"
      BY <1>d DEF Place, AllKinds, Locking
    <3> QED BY <1>c, <1>d, <2>6, <3>1, <3>2
  <2> QED BY <2>1, <2>2, <2>3, <2>4, <2>5, <2>6
<1>5. ASSUME NEW p \in Handlers, Fault(p) \/ Abandon(p) PROVE Places'
  <2>1. \/ Return(p)
        \/ /\ op[p] \in {"watch", "watchParent"} /\ GoTo(p, "subscribe")
           /\ pc[p] # "idle"
        \/ pc[p] = "commit" /\ GoTo(p, "detached")
    BY <1>5 DEF Fault, Abandon
  <2>2. CASE Return(p)
    BY <1>b, <2>2
  <2>3. CASE ~Return(p)
    <3>1. /\ Others(p) /\ op'[p] = op[p] /\ op[p] \in AllKinds
          /\ \/ op[p] \in {"watch", "watchParent"} /\ pc'[p] = "subscribe"
             \/ pc[p] = "commit" /\ pc'[p] = "detached"
      BY <1>d, <2>1, <2>3, Moves
    <3>2. pc[p] = "commit" => op[p] \notin {"remaining", "watch", "watchParent"}
      BY <1>d DEF Place
    <3> QED BY <1>c, <3>1, <3>2
  <2> QED BY <2>2, <2>3
<1>6. CASE Leave \/ Midnight
  BY <1>6 DEF Leave, Midnight, Places, Place
<1>7. CASE Restart
  BY <1>7 DEF Restart, Places, Place
<1> QED BY <1>1, <1>2, <1>3, <1>4, <1>5, <1>6, <1>7 DEF Next

(* A request keeps its kind until it is answered.                          *)
LEMMA OpsStay ==
  ASSUME TypeOK, [Next]_vars, \A p \in Handlers, k \in Kinds : ~Begin(p, k)
  PROVE  \A q \in Handlers : op'[q] \in {op[q], "idle"}
<1>1. ASSUME NEW p \in Handlers, Return(p) \/ UNCHANGED op
      PROVE  \A q \in Handlers : op'[q] \in {op[q], "idle"}
  BY <1>1 DEF Return, TypeOK
<1>2. \/ UNCHANGED op
      \/ \E p \in Handlers : Return(p)
      \/ Restart
  BY DEF Next, vars, Lock, Step, Fault, Abandon, Leave, Midnight, GoTo,
     CommitReward, CommitHeartbeat, CommitApprove, ApproveNothing,
     CommitSubmit, CommitDiscard, ReadWarm, Publish, ReadStatus, ReadTasks,
     Answer, Announce, ReadCount, AnnounceCount, SnapshotMinutes,
     SnapshotBlocked, Subscribe, CommitDetached
<1> QED BY <1>1, <1>2 DEF Restart

(* Requests stay apart until a race is noticed.                            *)
LEMMA ApartStep == ASSUME TypeOK, Apart, [Next]_vars PROVE Apart'
<1>0. "idle" \notin ChildKinds /\ "idle" \notin ParentKinds
  BY DEF ChildKinds, ParentKinds, Locking
<1>1. /\ used'.childRaces = 0 => used.childRaces = 0
      /\ used'.parentRaces = 0 => used.parentRaces = 0
  BY UsedGrows, Bounds
<1>2. CASE \A p \in Handlers, k \in Kinds : ~Begin(p, k)
  BY <1>0, <1>1, <1>2, OpsStay DEF Apart, RaceForChild, RaceForParent
<1>3. ASSUME NEW p \in Handlers, NEW k \in Kinds, Begin(p, k) PROVE Apart'
  <2>1. /\ \A q \in Handlers \ {p} : op'[q] = op[q]
        /\ op'[p] = k
    BY <1>3 DEF Begin, TypeOK
  <2>2. /\ used'.childRaces = Raced(\E q \in Handlers : RaceForChild(k, op[q]),
                                    used.childRaces)
        /\ used'.parentRaces = Raced(\E q \in Handlers : RaceForParent(k, op[q]),
                                     used.parentRaces)
    BY <1>3, Bounds DEF Begin, TypeOK
  <2>3. /\ used'.childRaces = 0 => \A q \in Handlers : ~RaceForChild(k, op[q])
        /\ used'.parentRaces = 0 => \A q \in Handlers : ~RaceForParent(k, op[q])
    BY <2>2 DEF Raced
  <2> QED BY <1>1, <2>1, <2>3 DEF Apart, RaceForChild, RaceForParent
<1> QED BY <1>2, <1>3

-----------------------------------------------------------------------------
(* A handler moves and the others keep their places and their locals.      *)
SameElse(p) == Others(p) /\ \A q \in Handlers \ {p} : mem'[q] = mem[q]

(* A step of a handler leaves the others alone.                            *)
LEMMA OneMover ==
  ASSUME TypeOK, NEW p \in Handlers,
         \/ \E k \in Kinds : Begin(p, k)
         \/ Lock(p) \/ Step(p) \/ Fault(p) \/ Abandon(p)
  PROVE  SameElse(p)
<1>1. ASSUME Return(p) \/ (\E l : GoTo(p, l)),
             Return(p) \/ UNCHANGED mem \/ \E field, v : Keep(p, field, v)
      PROVE  SameElse(p)
  <2>1. Others(p)
    BY <1>1, Moves
  <2>2. \A q \in Handlers \ {p} : mem'[q] = mem[q]
    BY <1>1, KeepsOthers
  <2> QED BY <2>1, <2>2 DEF SameElse
<1>2. CASE \E k \in Kinds : Begin(p, k)
  <2>1. PICK k \in Kinds : Begin(p, k)
    BY <1>2
  <2>2. /\ \E l : pc' = [pc EXCEPT ![p] = l]
        /\ op' = [op EXCEPT ![p] = k] /\ mem' = mem
    BY <2>1, Zenon DEF Begin
  <2> QED BY <2>2 DEF TypeOK, SameElse, Others
<1>3. CASE Lock(p)
  <2>1. (\E l : GoTo(p, l)) /\ (UNCHANGED mem \/ \E field, v : Keep(p, field, v))
    BY <1>3, Zenon DEF Lock
  <2> QED BY <1>1, <2>1
<1>4. CASE Fault(p) \/ Abandon(p)
  BY <1>1, <1>4 DEF Fault, Abandon
<1>5. CASE \/ CommitReward(p) \/ CommitHeartbeat(p) \/ CommitApprove(p)
           \/ CommitSubmit(p) \/ CommitDiscard(p) \/ ReadWarm(p) \/ Publish(p)
           \/ ReadStatus(p) \/ ReadTasks(p) \/ ReadCount(p)
           \/ SnapshotMinutes(p) \/ SnapshotBlocked(p)
  BY <1>1, <1>5 DEF CommitReward, CommitHeartbeat, CommitApprove, CommitSubmit,
     CommitDiscard, ReadWarm, Publish, ReadStatus, ReadTasks, ReadCount,
     SnapshotMinutes, SnapshotBlocked
<1>6. CASE \/ ApproveNothing(p) \/ Answer(p) \/ AnnounceCount(p) \/ Subscribe(p)
           \/ CommitDetached(p)
  BY <1>1, <1>6 DEF ApproveNothing, Answer, AnnounceCount, Subscribe, CommitDetached
<1>7. CASE Announce(p)
  BY <1>1, <1>7, Zenon DEF Announce
<1> QED BY <1>2, <1>3, <1>4, <1>5, <1>6, <1>7 DEF Step

(* A handler keeps its other locals when it keeps a value.                 *)
LEMMA KeepsRest ==
  ASSUME NEW p \in Handlers, TypeOK, NEW field, NEW v, Keep(p, field, v),
         NEW other \in {"prev", "new", "rem", "done", "count"}, other # field
  PROVE  mem'[p][other] = mem[p][other]
  BY DEF TypeOK, Keep, MemType

-----------------------------------------------------------------------------
(* A snapshot on its way, and the page, show no minutes when they show that*)
(* tasks block them; before its first read a snapshot has no minutes.      *)
Snapped(p) ==
    /\ pc[p] = "idle" => mem[p].rem = None
    /\ op[p] = "watch" =>
         CASE pc[p] = "snapshot" -> done \/ mem[p].rem = 0
           [] pc[p] = "subscribe" -> mem[p].done \/ mem[p].rem \in {0, None}
           [] OTHER -> mem[p].rem = None
PageZero == childView \notin {None, Off} /\ childView.blocked => childView.rem = 0
Blocking == PageZero /\ \A p \in Handlers : Snapped(p)
Untroubled == used.tornSnapshots = 0

(* Tasks of a day that are done stay done, whoever moves.                  *)
LEMMA BlockingKept ==
  ASSUME NEW p \in Handlers, Blocking, SameElse(p), done => done',
         PageZero', Snapped(p)'
  PROVE  Blocking'
<1>1. ASSUME NEW q \in Handlers PROVE Snapped(q)'
  <2>1. CASE q = p
    BY <2>1
  <2>2. CASE q # p
    BY <2>2 DEF Blocking, Snapped, SameElse, Others
  <2> QED BY <2>1, <2>2
<1> QED BY <1>1 DEF Blocking

(* A step that does not touch the page, of a handler that has no snapshot. *)
LEMMA BlockingQuiet ==
  ASSUME NEW p \in Handlers, Blocking, SameElse(p), done => done',
         childView' = childView,
         pc'[p] = "idle" \/ op'[p] = "watch" => mem'[p].rem = None,
         op'[p] = "watch" => pc'[p] \notin {"snapshot", "subscribe"}
  PROVE  Blocking'
<1>1. PageZero' /\ Snapped(p)'
  BY DEF Blocking, PageZero, Snapped
<1> QED BY <1>1, BlockingKept

(* A handler that returns has no minutes of a snapshot left.               *)
LEMMA ReturnsBlank ==
  ASSUME TypeOK, NEW p \in Handlers, Return(p)
  PROVE  mem'[p].rem = None
  BY DEF TypeOK, Return, Blank

(* Until a snapshot is torn, every step keeps the two in accord.           *)
LEMMA BlockingStep ==
  ASSUME TypeOK, Places, Blocking, [Next]_vars, Untroubled'
  PROVE  Blocking'
<1>1. CASE UNCHANGED vars
  BY <1>1 DEF vars, store, views, Blocking, PageZero, Snapped
<1>2. ASSUME NEW p \in Handlers, NEW k \in Kinds, Begin(p, k) PROVE Blocking'
  <2>1. SameElse(p) /\ pc'[p] \in {"lock", "count", "commit"}
    <3>1. SameElse(p)
      BY <1>2, OneMover
    <3> QED BY <1>2, <3>1 DEF Begin, TypeOK
  <2>2. done' = done /\ childView' = childView
    BY <1>2 DEF Begin, store, views
  <2>3. mem'[p].rem = None
    BY <1>2 DEF Begin, Blocking, Snapped
  <2> QED BY <2>1, <2>2, <2>3, BlockingQuiet
<1>3. ASSUME NEW p \in Handlers, Lock(p) PROVE Blocking'
  <2>1. SameElse(p) /\ done' = done /\ childView' = childView
    BY <1>3, OneMover DEF Lock, store, views
  <2>2. \E l \in {"commit", "publish", "warm", "tasks"} : GoTo(p, l)
    BY <1>3, Zenon DEF Lock
  <2>3. pc'[p] \notin {"snapshot", "subscribe", "idle"} /\ op'[p] = op[p]
    BY <2>2, Moves
  <2>4. mem' = mem \/ \E v : Keep(p, "prev", v) \/ Keep(p, "new", v)
    BY <1>3, Zenon DEF Lock
  <2>5. mem'[p].rem = mem[p].rem
    BY <2>4, KeepsRest
  <2>6. op'[p] = "watch" => mem'[p].rem = None
    BY <1>3, <2>3, <2>5 DEF Lock, Blocking, Snapped
  <2> QED BY <2>1, <2>3, <2>6, BlockingQuiet
<1>4. ASSUME NEW p \in Handlers, Step(p) PROVE Blocking'
  <2>0. SameElse(p)
    BY <1>4, OneMover
  <2>1. CASE \/ CommitReward(p) \/ CommitHeartbeat(p) \/ CommitApprove(p)
             \/ CommitSubmit(p) \/ CommitDiscard(p) \/ ReadWarm(p) \/ Publish(p)
             \/ ReadStatus(p) \/ ReadTasks(p)
    <3>1. /\ \E l \in {"publish", "lock", "count", "tasks", "status", "announce"} :
               GoTo(p, l)
          /\ childView' = childView
      BY <2>1 DEF CommitReward, CommitHeartbeat, CommitApprove, CommitSubmit,
         CommitDiscard, ReadWarm, Publish, ReadStatus, ReadTasks, store, views
    <3>2. pc'[p] \notin {"snapshot", "subscribe", "idle"} /\ op'[p] = op[p]
      BY <3>1, Moves
    <3>4. op'[p] = "watch" => mem'[p].rem = None
      <4>1. CASE ReadStatus(p)
        <5>1. op[p] # "watch"
          BY <4>1 DEF ReadStatus, Places, Place
        <5> QED BY <3>2, <5>1
      <4>2. CASE ~ReadStatus(p)
        <5>1. mem' = mem \/ \E v : Keep(p, "new", v) \/ Keep(p, "done", v)
          BY <2>1, <4>2, Zenon DEF CommitReward, CommitHeartbeat, CommitApprove,
             CommitSubmit, CommitDiscard, ReadWarm, Publish, ReadTasks
        <5>2. mem'[p].rem = mem[p].rem
          BY <5>1, KeepsRest
        <5>3. pc[p] \notin {"snapshot", "subscribe"}
          BY <2>1 DEF CommitReward, CommitHeartbeat, CommitApprove, CommitSubmit,
             CommitDiscard, ReadWarm, Publish, ReadStatus, ReadTasks, At
        <5> QED BY <3>2, <5>2, <5>3 DEF Blocking, Snapped
      <4> QED BY <4>1, <4>2
    <3>3. done => done'
      BY <2>1, Zenon
      DEF CommitReward, CommitHeartbeat, CommitApprove, CommitSubmit,
          CommitDiscard, ReadWarm, Publish, ReadStatus, ReadTasks, store
    <3> QED BY <2>0, <3>1, <3>2, <3>3, <3>4, BlockingQuiet
  <2>2. CASE \/ ApproveNothing(p) \/ Answer(p) \/ AnnounceCount(p) \/ CommitDetached(p)
    <3>1. Return(p) /\ childView' = childView
      BY <2>2 DEF ApproveNothing, Answer, AnnounceCount, CommitDetached, views
    <3>2. done => done'
      BY <2>2, Zenon DEF ApproveNothing, Answer, AnnounceCount, CommitDetached, store
    <3>3. pc'[p] = "idle" /\ mem'[p].rem = None
      BY <3>1, Moves, ReturnsBlank
    <3> QED BY <2>0, <3>1, <3>2, <3>3, BlockingQuiet
  <2>3. CASE ReadCount(p)
    <3>1. /\ childView' = childView /\ done' = done /\ pc[p] = "count"
          /\ \E l \in {"subscribe", "announceCount"} : GoTo(p, l)
      BY <2>3, Zenon DEF ReadCount, store, views
    <3>2. op'[p] = op[p] /\ op[p] # "watch" /\ pc'[p] # "idle"
      BY <3>1, Moves DEF Places, Place
    <3> QED BY <2>0, <3>1, <3>2, BlockingQuiet
  <2>4. CASE Announce(p)
    <3> DEFINE shown == Shown(mem[p].rem, mem[p].done)
    <3>1. done' = done /\ childView' \in {childView, Off, shown}
      BY <2>4, Zenon DEF Announce, Send, store
    <3>2. PageZero'
      <4>1. shown.blocked => shown.rem = 0
        BY DEF Shown
      <4> QED BY <3>1, <4>1, Zenon DEF Blocking, PageZero
    <3>3. Snapped(p)'
      <4>1. \/ op'[p] = "approve" /\ pc'[p] = "count"
            \/ op'[p] = "idle" /\ mem'[p].rem = None
        BY <2>4, Moves, ReturnsBlank DEF Announce
      <4> QED BY <4>1 DEF Snapped
    <3> QED BY <2>0, <3>1, <3>2, <3>3, BlockingKept
  <2>5. CASE SnapshotMinutes(p)
    <3>1. /\ done' = done /\ childView' = childView /\ GoTo(p, "snapshot")
          /\ Keep(p, "rem", Shown(mem[p].new, done).rem)
      BY <2>5 DEF SnapshotMinutes, store, views
    <3>2. mem'[p].rem = Shown(mem[p].new, done).rem /\ pc'[p] = "snapshot"
      BY <3>1, KeepsValue, Moves
    <3>3. Snapped(p)' /\ PageZero'
      BY <3>1, <3>2 DEF Snapped, Shown, Blocking, PageZero
    <3> QED BY <2>0, <3>1, <3>3, BlockingKept
  <2>6. CASE SnapshotBlocked(p)
    <3>1. /\ done' = done /\ childView' = childView /\ GoTo(p, "subscribe")
          /\ Keep(p, "done", done) /\ pc[p] = "snapshot"
      BY <2>6 DEF SnapshotBlocked, store, views
    <3>2. /\ mem'[p].rem = mem[p].rem /\ mem'[p].done = done
          /\ pc'[p] = "subscribe" /\ op'[p] = op[p]
      BY <3>1, KeepsValue, KeepsRest, Moves
    <3>3. Snapped(p)' /\ PageZero'
      BY <3>1, <3>2 DEF Snapped, Blocking, PageZero
    <3> QED BY <2>0, <3>1, <3>3, BlockingKept
  <2>7. CASE Subscribe(p)
    <3>1. /\ Return(p) /\ done' = done /\ pc[p] = "subscribe"
          /\ \/ childView' = childView
             \/ /\ op[p] = "watch"
                /\ childView' = IF mem[p].rem = None THEN None
                          ELSE [rem |-> mem[p].rem, blocked |-> ~mem[p].done]
      BY <2>7, Zenon DEF Subscribe, store
    <3>2. Snapped(p)'
      BY <3>1, Moves, ReturnsBlank DEF Snapped
    <3>3. op[p] = "watch" => mem[p].done \/ mem[p].rem \in {0, None}
      BY <3>1 DEF Blocking, Snapped
    <3>4. PageZero'
      <4>1. CASE childView' = childView
        BY <4>1 DEF Blocking, PageZero
      <4>2. CASE childView' = None
        BY <4>2 DEF PageZero
      <4>3. CASE /\ op[p] = "watch" /\ mem[p].rem # None
                 /\ childView' = [rem |-> mem[p].rem, blocked |-> ~mem[p].done]
        <5>1. childView'.rem = mem[p].rem /\ (childView'.blocked <=> ~mem[p].done)
          BY <4>3
        <5> QED BY <3>3, <4>3, <5>1 DEF PageZero
      <4> QED BY <3>1, <4>1, <4>2, <4>3, Zenon
    <3> QED BY <2>0, <3>1, <3>2, <3>4, BlockingKept
  <2> QED
    BY <1>4, <2>1, <2>2, <2>3, <2>4, <2>5, <2>6, <2>7 DEF Step
<1>5. ASSUME NEW p \in Handlers, Abandon(p) PROVE Blocking'
  <2>1. /\ SameElse(p) /\ done' = done /\ childView' = childView
        /\ Return(p) \/ (pc[p] = "commit" /\ GoTo(p, "detached"))
    BY <1>5, OneMover DEF Abandon, store, views
  <2>2. \/ op'[p] = "idle" /\ mem'[p].rem = None
        \/ op'[p] # "watch" /\ pc'[p] = "detached"
    BY <2>1, Moves, ReturnsBlank DEF Places, Place
  <2> QED BY <2>1, <2>2, BlockingQuiet
<1>6. ASSUME NEW p \in Handlers, Fault(p) PROVE Blocking'
  <2>1. SameElse(p) /\ done' = done /\ childView' = childView
    BY <1>6, OneMover DEF Fault, store, views
  <2>2. pc[p] \notin {"snapshot", "subscribe"}
    BY <1>6, DisturbUses, Bounds DEF Fault, Untroubled
  <2>3. \/ Return(p)
        \/ op[p] \in {"watch", "watchParent"} /\ GoTo(p, "subscribe") /\ mem' = mem
    BY <1>6 DEF Fault
  <2>4. \/ op'[p] = "idle" /\ mem'[p].rem = None
        \/ op'[p] = op[p] /\ pc'[p] = "subscribe" /\ mem' = mem
    BY <2>3, Moves, ReturnsBlank
  <2>5. Snapped(p)'
    BY <2>2, <2>4 DEF Blocking, Snapped
  <2>6. PageZero'
    BY <2>1 DEF Blocking, PageZero
  <2> QED BY <2>1, <2>5, <2>6, BlockingKept
<1>7. CASE Leave
  BY <1>7 DEF Leave, store, Blocking, PageZero, Snapped
<1>8. CASE Restart
  BY <1>8 DEF Restart, Blocking, PageZero, Snapped, Blank
<1>9. CASE Midnight
  <2>1. \A p \in Handlers : pc[p] # "snapshot"
    BY <1>9, DisturbUses, Bounds DEF Midnight, Untroubled
  <2>2. UNCHANGED <<pc, op, mem, childView>>
    BY <1>9 DEF Midnight, views
  <2> QED BY <2>1, <2>2 DEF Blocking, PageZero, Snapped
<1> QED BY <1>1, <1>2, <1>3, <1>4, <1>5, <1>6, <1>7, <1>8, <1>9 DEF Next

-----------------------------------------------------------------------------
(* A parent's page, and what the request that changes the count, or opens  *)
(* the page, knows of it.                                                  *)
TellingCount(p) ==
    op[p] \in {"approve", "submit", "discard"} /\ pc[p] # "commit"
Counts(p) ==
    op[p] \in ParentKinds =>
      /\ pc[p] # "detached"
      /\ pc[p] \in {"announceCount", "subscribe"} => mem[p].count = pending
ParentPage ==
    /\ \A p \in Handlers : Counts(p)
    /\ (\A p \in Handlers : ~TellingCount(p)) => parentView \in {Off, pending}

(* A step of the only request there is for the parents.                    *)
LEMMA ParentAlone ==
  ASSUME NEW p \in Handlers, SameElse(p),
         \A q \in Handlers \ {p} : op[q] \notin ParentKinds,
         Counts(p)', TellingCount(p)' \/ parentView' \in {Off, pending'}
  PROVE  ParentPage'
<1>1. ASSUME NEW q \in Handlers PROVE Counts(q)'
  <2>1. CASE q = p
    BY <2>1
  <2>2. CASE q # p
    BY <2>2 DEF Counts, SameElse, Others
  <2> QED BY <2>1, <2>2
<1> QED BY <1>1 DEF ParentPage

(* A step that leaves the count and the parents alone.                     *)
LEMMA ParentQuiet ==
  ASSUME NEW p \in Handlers, ParentPage, SameElse(p),
         op[p] \notin ParentKinds, op'[p] \notin ParentKinds,
         pending' = pending, parentView' = parentView
  PROVE  ParentPage'
<1>1. ASSUME NEW q \in Handlers
      PROVE  Counts(q)' /\ (TellingCount(q)' <=> TellingCount(q))
  <2>1. CASE q = p
    BY <2>1 DEF Counts, TellingCount, ParentKinds
  <2>2. CASE q # p
    BY <2>2 DEF ParentPage, Counts, TellingCount, SameElse, Others
  <2> QED BY <2>1, <2>2
<1> QED BY <1>1 DEF ParentPage

(* A step of a request for the parents that leaves the count and the page  *)
(* alone, before it has changed the count or after.                        *)
LEMMA ParentGoesOn ==
  ASSUME NEW p \in Handlers, ParentPage, SameElse(p),
         \A q \in Handlers \ {p} : op[q] \notin ParentKinds,
         pending' = pending, parentView' = parentView,
         TellingCount(p) => TellingCount(p)',
         op'[p] \in ParentKinds =>
           pc'[p] \notin {"detached", "announceCount", "subscribe"}
  PROVE  ParentPage'
<1>1. Counts(p)'
  BY DEF Counts
<1>2. TellingCount(p)' \/ parentView' \in {Off, pending'}
  <2>1. \A q \in Handlers \ {p} : ~TellingCount(q)
    BY DEF TellingCount, ParentKinds
  <2>2. ~TellingCount(p) => parentView \in {Off, pending}
    BY <2>1 DEF ParentPage
  <2> QED BY <2>2
<1> QED BY <1>1, <1>2, ParentAlone

(* One request at a time keeps the page true.                              *)
LEMMA ParentStep ==
  ASSUME TypeOK, Places, Apart, ParentPage, [Next]_vars, ParentUndisturbed',
         Apart'
  PROVE  ParentPage'
<1>0. /\ used.faults = 0 /\ used.abandons = 0 /\ used.parentRaces = 0
      /\ used'.parentRaces = 0
  BY UsedGrows, Bounds DEF ParentUndisturbed
<1>a. ASSUME NEW p \in Handlers, op[p] \in ParentKinds
      PROVE  \A q \in Handlers \ {p} : op[q] \notin ParentKinds
  BY <1>0, <1>a DEF Apart, RaceForParent
<1>1. CASE UNCHANGED vars
  BY <1>1 DEF vars, store, views, ParentPage, Counts, TellingCount
<1>2. ASSUME NEW p \in Handlers, NEW k \in Kinds, Begin(p, k) PROVE ParentPage'
  <2>1. /\ SameElse(p) /\ op'[p] = k /\ pc[p] = "idle" /\ op[p] = "idle"
        /\ pc'[p] \in {"lock", "count", "commit"}
        /\ pending' = pending /\ parentView' = parentView
    <3>1. SameElse(p)
      BY <1>2, OneMover
    <3> QED BY <1>2, <3>1 DEF Begin, TypeOK, store, views, Places, Place
  <2>2. CASE k \in ParentKinds
    <3>1. \A q \in Handlers \ {p} : op[q] \notin ParentKinds
      BY <1>0, <2>1, <2>2 DEF Apart, RaceForParent, SameElse, Others
    <3>2. ~TellingCount(p)
      BY <2>1 DEF TellingCount
    <3>3. pc'[p] \notin {"detached", "announceCount", "subscribe"}
      BY <2>1
    <3> QED BY <2>1, <3>1, <3>2, <3>3, ParentGoesOn
  <2>3. CASE k \notin ParentKinds
    BY <2>1, <2>3, ParentQuiet DEF ParentKinds
  <2> QED BY <2>2, <2>3
<1>3. ASSUME NEW p \in Handlers, Lock(p) PROVE ParentPage'
  <2>1. SameElse(p) /\ pending' = pending /\ parentView' = parentView
    BY <1>3, OneMover DEF Lock, store, views
  <2>2. pc[p] = "lock" /\ \E l \in {"commit", "publish", "warm", "tasks"} : GoTo(p, l)
    BY <1>3, Zenon DEF Lock
  <2>3. op'[p] = op[p] /\ pc'[p] \in {"commit", "publish", "warm", "tasks"}
    BY <2>2, Moves
  <2>4. CASE op[p] \in ParentKinds
    <3>1. op[p] = "approve"
      BY <2>2, <2>4 DEF Places, Place, ParentKinds
    <3>2. pc'[p] = "publish"
      <4>1. GoTo(p, "publish")
        BY <1>3, <3>1 DEF Lock
      <4> QED BY <4>1, Moves
    <3>3. TellingCount(p)'
      BY <2>3, <3>1, <3>2 DEF TellingCount
    <3> QED BY <1>a, <2>1, <2>4, <3>2, <3>3, ParentGoesOn
  <2>5. CASE op[p] \notin ParentKinds
    BY <2>1, <2>3, <2>5, ParentQuiet
  <2> QED BY <2>4, <2>5
<1>4. ASSUME NEW p \in Handlers, Step(p), op[p] \in ParentKinds PROVE ParentPage'
  <2>0. SameElse(p) /\ \A q \in Handlers \ {p} : op[q] \notin ParentKinds
    BY <1>4, <1>a, OneMover
  <2>1. CASE CommitApprove(p) \/ CommitSubmit(p) \/ CommitDiscard(p)
    <3>1. /\ GoTo(p, "lock") \/ GoTo(p, "count")
          /\ op[p] \in {"approve", "submit", "discard"}
      BY <2>1 DEF CommitApprove, CommitSubmit, CommitDiscard, At
    <3>2. op'[p] = op[p] /\ pc'[p] \in {"lock", "count"}
      BY <3>1, Moves
    <3>3. TellingCount(p)' /\ Counts(p)'
      BY <3>1, <3>2 DEF TellingCount, Counts
    <3> QED BY <2>0, <3>3, ParentAlone
  <2>2. CASE ApproveNothing(p)
    <3>1. /\ pending' = pending /\ parentView' = parentView /\ Return(p)
          /\ pc[p] = "commit"
      BY <2>2 DEF ApproveNothing, store, views, At
    <3>2. pc'[p] = "idle" /\ ~TellingCount(p)
      BY <3>1, Moves DEF TellingCount
    <3>3. pc'[p] \notin {"detached", "announceCount", "subscribe"}
      BY <3>2
    <3> QED BY <2>0, <3>1, <3>2, <3>3, ParentGoesOn
  <2>3. CASE Publish(p) \/ ReadStatus(p) \/ ReadTasks(p) \/ Announce(p)
    <3>1. pc[p] \in {"publish", "status", "tasks", "announce"}
      BY <2>3, Zenon DEF Publish, ReadStatus, ReadTasks, Announce, At
    <3>2. op[p] = "approve"
      BY <1>4, <3>1 DEF Places, Place, ParentKinds
    <3>3. /\ pending' = pending /\ parentView' = parentView
          /\ \E l \in {"tasks", "status", "announce", "count"} : GoTo(p, l)
      BY <2>3, <3>2, Zenon DEF Publish, ReadStatus, ReadTasks, Announce, store, views
    <3>4. op'[p] = op[p] /\ pc'[p] \in {"tasks", "status", "announce", "count"}
      BY <3>3, Moves
    <3>5. /\ TellingCount(p)'
          /\ pc'[p] \notin {"detached", "announceCount", "subscribe"}
      BY <3>2, <3>4 DEF TellingCount
    <3> QED BY <2>0, <3>3, <3>5, ParentGoesOn
  <2>4. CASE ReadCount(p)
    <3>1. /\ pending' = pending /\ parentView' = parentView
          /\ pc[p] = "count" /\ Keep(p, "count", pending)
          /\ GoTo(p, IF op[p] = "watchParent" THEN "subscribe" ELSE "announceCount")
      BY <2>4 DEF ReadCount, store, views
    <3>2. /\ mem'[p].count = pending /\ op'[p] = op[p]
          /\ pc'[p] = IF op[p] = "watchParent" THEN "subscribe" ELSE "announceCount"
      BY <3>1, KeepsValue, Moves
    <3>3. Counts(p)'
      BY <3>1, <3>2 DEF Counts
    <3>4. TellingCount(p)' \/ parentView' \in {Off, pending'}
      <4>1. CASE op[p] = "watchParent"
        <5>1. \A q \in Handlers : ~TellingCount(q)
          BY <2>0, <4>1 DEF TellingCount, ParentKinds
        <5> QED BY <3>1, <5>1 DEF ParentPage
      <4>2. CASE op[p] # "watchParent"
        BY <1>4, <3>2, <4>2 DEF TellingCount, ParentKinds
      <4> QED BY <4>1, <4>2
    <3> QED BY <2>0, <3>3, <3>4, ParentAlone
  <2>5. CASE AnnounceCount(p) \/ Subscribe(p)
    <3>1. /\ pc[p] \in {"announceCount", "subscribe"} /\ pending' = pending
          /\ Return(p)
      BY <2>5, Zenon DEF AnnounceCount, Subscribe, store
    <3>2. mem[p].count = pending
      BY <1>4, <3>1 DEF ParentPage, Counts
    <3>3. parentView' \in {Off, mem[p].count}
      <4>1. CASE AnnounceCount(p)
        BY <4>1 DEF AnnounceCount
      <4>2. CASE Subscribe(p)
        BY <1>4, <4>2 DEF Subscribe, ParentKinds
      <4> QED BY <2>5, <4>1, <4>2
    <3>4. Counts(p)'
      BY <3>1, Moves DEF Counts
    <3> QED BY <2>0, <3>1, <3>2, <3>3, <3>4, ParentAlone
  <2>6. CASE \/ CommitReward(p) \/ CommitHeartbeat(p) \/ ReadWarm(p) \/ Answer(p)
             \/ SnapshotMinutes(p) \/ SnapshotBlocked(p) \/ CommitDetached(p)
    <3>1. \/ op[p] \in {"reward", "heartbeat", "remaining", "watch"}
          \/ pc[p] \in {"warm", "snapshot", "detached"}
      BY <2>6, Zenon DEF CommitReward, CommitHeartbeat, ReadWarm, Answer,
         SnapshotMinutes, SnapshotBlocked, CommitDetached, At
    <3> QED BY <1>4, <3>1 DEF Places, Place, ParentKinds, ParentPage, Counts
  <2> QED
    BY <1>4, <2>1, <2>2, <2>3, <2>4, <2>5, <2>6 DEF Step
<1>5. ASSUME NEW p \in Handlers, Step(p), op[p] \notin ParentKinds
      PROVE  ParentPage'
  <2>1. SameElse(p)
    BY <1>5, OneMover
  <2>2. op'[p] \notin ParentKinds
    <3>1. op'[p] \in {op[p], "idle"}
      <4>1. Return(p) \/ UNCHANGED op
        BY <1>5, Zenon DEF Step, GoTo,
           CommitReward, CommitHeartbeat, CommitApprove, ApproveNothing,
           CommitSubmit, CommitDiscard, ReadWarm, Publish, ReadStatus, ReadTasks,
           Answer, Announce, ReadCount, AnnounceCount, SnapshotMinutes,
           SnapshotBlocked, Subscribe, CommitDetached
      <4> QED BY <4>1, Moves
    <3>2. "idle" \notin ParentKinds
      BY DEF ParentKinds
    <3> QED BY <1>5, <3>1, <3>2
  <2>3. pending' = pending /\ parentView' = parentView
    <3>0. op[p] \notin {"approve", "submit", "discard", "watchParent"}
      BY <1>5 DEF ParentKinds
    <3>1. CASE \/ CommitReward(p) \/ CommitHeartbeat(p) \/ ReadWarm(p)
               \/ Publish(p) \/ ReadStatus(p) \/ ReadTasks(p) \/ Answer(p)
               \/ ReadCount(p) \/ SnapshotMinutes(p) \/ SnapshotBlocked(p)
      BY <3>1 DEF CommitReward, CommitHeartbeat, ReadWarm, Publish, ReadStatus,
         ReadTasks, Answer, ReadCount, SnapshotMinutes, SnapshotBlocked, store, views
    <3>2. CASE Announce(p)
      BY <3>2, Zenon DEF Announce, store
    <3>3. CASE Subscribe(p)
      BY <3>0, <3>3 DEF Subscribe, store
    <3>4. CASE CommitDetached(p)
      BY <3>0, <3>4 DEF CommitDetached, store, views
    <3>5. CASE \/ CommitApprove(p) \/ ApproveNothing(p) \/ CommitSubmit(p)
               \/ CommitDiscard(p)
      BY <3>0, <3>5 DEF CommitApprove, ApproveNothing, CommitSubmit,
         CommitDiscard, At
    <3>6. CASE AnnounceCount(p)
      BY <3>0, <3>6, Serves DEF AnnounceCount, Places, Place, AllKinds, Locking
    <3> QED BY <1>5, <3>1, <3>2, <3>3, <3>4, <3>5, <3>6 DEF Step
  <2> QED BY <1>5, <2>1, <2>2, <2>3, ParentQuiet
<1>6. ASSUME NEW p \in Handlers, Fault(p) \/ Abandon(p) PROVE FALSE
  <2>1. \/ used.faults \in Nat /\ used'.faults = used.faults + 1
        \/ used.abandons \in Nat /\ used'.abandons = used.abandons + 1
    BY <1>6, DisturbUses, Bounds DEF TypeOK, Fault, Abandon, Spend
  <2> QED BY <2>1 DEF ParentUndisturbed
<1>7. CASE Leave \/ Midnight
  <2>1. /\ UNCHANGED <<pending, pc, op, mem>> /\ parentView' \in {parentView, Off}
    BY <1>7 DEF Leave, Midnight, store, views
  <2> QED BY <2>1 DEF ParentPage, Counts, TellingCount
<1>8. CASE Restart
  <2>1. parentView' = Off /\ \A p \in Handlers : pc'[p] = "idle" /\ op'[p] = "idle"
    BY <1>8 DEF Restart
  <2>2. \A p \in Handlers : Counts(p)' /\ ~TellingCount(p)'
    BY <2>1 DEF Counts, TellingCount, ParentKinds
  <2> QED BY <2>1, <2>2 DEF ParentPage
<1> QED BY <1>1, <1>2, <1>3, <1>4, <1>5, <1>6, <1>7, <1>8 DEF Next

-----------------------------------------------------------------------------
(* Between its lock, or its commit, and its end a request works on the     *)
(* cache and the child's page.  It may have a new value that the cache does*)
(* not have yet, and may have to tell the page what it changed.            *)
Changing == {"reward", "heartbeat", "approve"}
Working(p) == op[p] \in ChildKinds /\ (pc[p] # "lock" \/ op[p] = "approve")
Fresh(p) == pc[p] = "publish" \/ (pc[p] = "lock" /\ op[p] = "approve")
Telling(p) ==
    op[p] \in Changing /\ (Fresh(p) \/ pc[p] \in {"status", "tasks", "announce"})

(* The cache and the page while nobody works on them.                      *)
ViewTrue == childView = Off \/ (childView = Status /\ cache # None)
Rested == cache \in {None, remaining} /\ ViewTrue

(* The cache, the page and what the request p knows, while it works.       *)
Knows(p) ==
    LET m == mem[p] IN
    /\ pc[p] # "detached"
    /\ IF Fresh(p) THEN m.new = remaining ELSE cache \in {None, remaining}
    /\ pc[p] \in {"status", "tasks", "announce", "snapshot", "subscribe"} =>
         cache # None
    /\ Telling(p) \/ ViewTrue
    /\ op[p] = "heartbeat" => childView \in {Off, Shown(m.prev, done)}
    /\ op[p] \in Changing /\ pc[p] \in {"tasks", "announce"} => m.rem = remaining
    /\ op[p] \in Changing /\ pc[p] = "announce" => m.done = done
    /\ op[p] = "watch" /\ pc[p] = "tasks" => m.new = remaining
    /\ op[p] = "watch" /\ pc[p] \in {"snapshot", "subscribe"} => m.rem = Status.rem
    /\ op[p] = "watch" /\ pc[p] = "subscribe" => m.done = done

ChildPage ==
    /\ (\A p \in Handlers : ~Working(p)) => Rested
    /\ \A p \in Handlers : Working(p) => Knows(p)

ChildSafe == PlacesInv /\ used.childRaces = 0 /\ ChildPage

(* One request at a time works: others wait for the mutex, or would race.  *)
LEMMA Sole ==
  ASSUME ChildSafe, NEW p \in Handlers, NEW q \in Handlers, p # q, Working(p)
  PROVE  ~Working(q)
<1> SUFFICES ASSUME Working(q) PROVE FALSE
  OBVIOUS
<1>1. /\ op[p] \in Guarded /\ op[q] \in Guarded
      /\ pc[p] \notin {"lock", "detached"} /\ pc[q] \notin {"lock", "detached"}
  BY DEF ChildSafe, PlacesInv, Apart, RaceForChild, Working, ChildPage, Knows,
         Guarded
<1>2. Holds(p) /\ Holds(q)
  BY <1>1 DEF ChildSafe, PlacesInv, Places, Place, Holds, Guarded
<1> QED BY <1>2 DEF ChildSafe, PlacesInv, LockInv, LockDiscipline

(* The others stay away after a step as before.                            *)
LEMMA StillSole ==
  ASSUME NEW p \in Handlers, SameElse(p), \A q \in Handlers \ {p} : ~Working(q)
  PROVE  \A q \in Handlers \ {p} : ~Working(q)'
  BY DEF SameElse, Others, Working

(* A step of the one that works.                                           *)
LEMMA ChildAlone ==
  ASSUME NEW p \in Handlers, \A q \in Handlers \ {p} : ~Working(q)',
         IF Working(p)' THEN Knows(p)' ELSE Rested'
  PROVE  ChildPage'
  BY DEF ChildPage

(* A step that leaves the child alone, of a handler that does not work.    *)
LEMMA ChildQuiet ==
  ASSUME NEW p \in Handlers, ChildPage, SameElse(p), ~Working(p), ~Working(p)',
         UNCHANGED <<remaining, done, cache, childView>>
  PROVE  ChildPage'
<1>1. ASSUME NEW q \in Handlers, q # p
      PROVE  /\ Working(q)' <=> Working(q)
             /\ Knows(q)' <=> Knows(q)
  BY <1>1 DEF Working, Knows, Fresh, Telling, ViewTrue, Status, SameElse, Others
<1>2. Rested' <=> Rested
  BY DEF Rested, ViewTrue, Status
<1> QED BY <1>1, <1>2 DEF ChildPage

(* The minutes are a number, which an empty cache and no page are not.     *)
LEMMA MinutesAre ==
  ASSUME TypeOK
  PROVE  remaining \in Int /\ remaining # None
  BY NoneIsNoHandler DEF TypeOK

(* With the mutex free, only an approval works.                            *)
LEMMA ChildLocks ==
  ASSUME TypeOK, ChildSafe, NEW p \in Handlers, Lock(p)
  PROVE  ChildPage'
<1>1. /\ pc[p] = "lock" /\ owner = None /\ SameElse(p)
      /\ UNCHANGED <<remaining, done, cache, childView>>
  BY OneMover DEF Lock, store, views
<1>2. PlacesInv /\ ChildPage /\ used.childRaces = 0
  BY DEF ChildSafe
<1>3. CASE op[p] = "approve"
  <2>1. Working(p) /\ Fresh(p) /\ Telling(p)
    BY <1>1, <1>3 DEF Working, Fresh, Telling, Changing, ChildKinds
  <2>2. \A q \in Handlers \ {p} : ~Working(q)'
    BY <1>1, <2>1, Sole, StillSole
  <2>3. GoTo(p, "publish") /\ mem' = mem
    BY <1>3 DEF Lock
  <2>4. pc'[p] = "publish" /\ op'[p] = op[p]
    BY <2>3, Moves
  <2>5. Knows(p) /\ mem[p].new = remaining
    BY <1>2, <2>1 DEF ChildPage, Knows
  <2>6. Knows(p)'
    BY <1>1, <1>3, <2>3, <2>4, <2>5 DEF Knows, Fresh, Telling, Changing
  <2>7. Working(p)'
    BY <1>3, <2>4 DEF Working, ChildKinds
  <2> QED BY <2>2, <2>6, <2>7, ChildAlone
<1>4. CASE op[p] # "approve"
  <2>1. op[p] \in Locking
    BY <1>1, <1>2, <1>4, Serves
    DEF PlacesInv, LockInv, Places, Place, AllKinds
  <2>2. \A q \in Handlers : ~Working(q)
    <3>1. ASSUME NEW q \in Handlers, Working(q) PROVE FALSE
      <4>1. q # p
        BY <1>1, <1>4, <3>1 DEF Working
      <4>2. ~RaceForChild(op[p], op[q]) /\ op[q] \in ChildKinds /\ op[p] \in ChildKinds
        BY <1>2, <2>1, <3>1, <4>1 DEF PlacesInv, Apart, Working, ChildKinds
      <4>3. op[q] \in Guarded /\ pc[q] \notin {"lock", "detached"}
        BY <1>2, <3>1, <4>2 DEF RaceForChild, Working, ChildPage, Knows, Guarded
      <4>4. Holds(q)
        BY <1>2, <4>3 DEF PlacesInv, Places, Place, Holds, Guarded
      <4> QED BY <1>1, <1>2, <4>4, NoneIsNoHandler
              DEF PlacesInv, LockInv, LockDiscipline
    <3> QED BY <3>1
  <2>3. Rested /\ \A q \in Handlers \ {p} : ~Working(q)'
    BY <1>1, <1>2, <2>2, StillSole DEF ChildPage
  <2>4. CASE op[p] \in {"reward", "heartbeat"}
    <3>1. /\ Keep(p, "prev", IF cache = None THEN 0 ELSE cache)
          /\ GoTo(p, "commit")
      BY <2>4, Zenon DEF Lock
    <3>2. /\ mem'[p].prev = IF cache = None THEN 0 ELSE cache
          /\ pc'[p] = "commit" /\ op'[p] = op[p]
      BY <3>1, KeepsValue, Moves
    <3>3. childView' \in {Off, Shown(mem'[p].prev, done')}
      BY <1>1, <2>3, <3>2 DEF Rested, ViewTrue, Status
    <3>4. Rested'
      BY <1>1, <2>3 DEF Rested, ViewTrue, Status
    <3>5. Knows(p)'
      BY <2>4, <3>2, <3>3, <3>4 DEF Knows, Fresh, Rested
    <3>6. Working(p)'
      BY <2>4, <3>2 DEF Working, ChildKinds, Locking
    <3> QED BY <2>3, <3>5, <3>6, ChildAlone
  <2>5. CASE op[p] \in {"remaining", "watch"}
    <3>1. IF cache = None THEN GoTo(p, "warm")
                          ELSE GoTo(p, "tasks") /\ Keep(p, "new", cache)
      BY <2>5, Zenon DEF Lock
    <3>2. /\ op'[p] = op[p]
          /\ \/ pc'[p] = "warm"
             \/ pc'[p] = "tasks" /\ cache # None /\ mem'[p].new = cache
      BY <3>1, KeepsValue, Moves
    <3>3. Rested'
      BY <1>1, <2>3 DEF Rested, ViewTrue, Status
    <3>4. cache # None => cache = remaining'
      BY <1>1, <2>3 DEF Rested
    <3>5. Knows(p)'
      BY <1>1, <2>5, <3>2, <3>3, <3>4 DEF Knows, Fresh, Rested, Changing
    <3>6. Working(p)'
      BY <2>5, <3>2 DEF Working, ChildKinds, Locking
    <3> QED BY <2>3, <3>5, <3>6, ChildAlone
  <2> QED BY <2>1, <2>4, <2>5 DEF Locking
<1> QED BY <1>3, <1>4

(* A request that has a value, or has it written to the cache.             *)
LEMMA ChildWrites ==
  ASSUME TypeOK, Places, NEW p \in Handlers, op[p] \in ChildKinds, Knows(p), Working(p),
         \/ CommitReward(p) \/ CommitHeartbeat(p) \/ CommitApprove(p)
         \/ ReadWarm(p) \/ Publish(p)
  PROVE  Working(p)' /\ Knows(p)'
<1>1. CASE CommitReward(p) \/ CommitApprove(p)
  <2>1. /\ \/ op[p] = "reward" /\ GoTo(p, "publish")
           \/ op[p] = "approve" /\ GoTo(p, "lock")
        /\ Keep(p, "new", remaining')
    BY <1>1 DEF CommitReward, CommitApprove, At
  <2>2. /\ op'[p] = op[p] /\ mem'[p].new = remaining'
        /\ \/ op[p] = "reward" /\ pc'[p] = "publish"
           \/ op[p] = "approve" /\ pc'[p] = "lock"
    BY <2>1, KeepsValue, Moves
  <2>3. Fresh(p)' /\ Telling(p)' /\ Working(p)'
    BY <2>2 DEF Fresh, Telling, Working, Changing, ChildKinds, Locking
  <2> QED BY <2>2, <2>3 DEF Knows
<1>2. CASE CommitHeartbeat(p)
  <2>1. /\ op[p] = "heartbeat" /\ GoTo(p, "publish") /\ Keep(p, "new", remaining')
        /\ done' = done /\ childView' = childView
    BY <1>2 DEF CommitHeartbeat, At, views
  <2>2. /\ op'[p] = op[p] /\ mem'[p].new = remaining' /\ pc'[p] = "publish"
        /\ mem'[p].prev = mem[p].prev
    BY <2>1, KeepsValue, KeepsRest, Moves
  <2>3. Fresh(p)' /\ Telling(p)' /\ Working(p)'
    BY <2>1, <2>2 DEF Fresh, Telling, Working, Changing, ChildKinds, Locking
  <2>4. childView' \in {Off, Shown(mem'[p].prev, done')}
    BY <2>1, <2>2 DEF Knows
  <2> QED BY <2>2, <2>3, <2>4 DEF Knows
<1>3. CASE ReadWarm(p)
  <2>1. /\ pc[p] = "warm" /\ GoTo(p, "publish") /\ Keep(p, "new", remaining)
        /\ UNCHANGED <<remaining, done, cache, childView>>
    BY <1>3 DEF ReadWarm, store, views
  <2>2. /\ op'[p] = op[p] /\ mem'[p].new = remaining' /\ pc'[p] = "publish"
        /\ op[p] \in {"remaining", "watch"}
    BY <2>1, KeepsValue, Moves DEF Places, Place, ChildKinds, Locking
  <2>3. Fresh(p)' /\ ViewTrue' /\ Working(p)'
    BY <2>1, <2>2 DEF Knows, Fresh, Telling, ViewTrue, Status, Changing, Working
  <2> QED BY <2>2, <2>3 DEF Knows, Changing
<1>4. CASE Publish(p)
  <2>1. /\ pc[p] = "publish" /\ cache' = mem[p].new /\ mem' = mem
        /\ UNCHANGED <<remaining, done, childView>>
        /\ GoTo(p, IF op[p] \in {"remaining", "watch"} THEN "tasks" ELSE "status")
    BY <1>4 DEF Publish, store, views
  <2>2. /\ op'[p] = op[p]
        /\ pc'[p] = IF op[p] \in {"remaining", "watch"} THEN "tasks" ELSE "status"
    BY <2>1, Moves
  <2>3. mem[p].new = remaining /\ cache' = remaining' /\ cache' # None
    BY <2>1, MinutesAre DEF Knows, Fresh
  <2>4. Working(p)' /\ ~Fresh(p)'
    BY <2>2 DEF Working, Fresh
  <2>5. CASE op[p] \in {"remaining", "watch"}
    <3>1. ViewTrue'
      BY <2>1, <2>3, <2>5 DEF Knows, Telling, Changing, ViewTrue, Status
    <3> QED BY <2>1, <2>2, <2>3, <2>4, <2>5, <3>1 DEF Knows, Changing
  <2>6. CASE op[p] \notin {"remaining", "watch"}
    <3>1. op[p] \in Changing
      BY <2>6 DEF Changing, ChildKinds, Locking
    <3>2. Telling(p)' /\ op'[p] # "watch"
      BY <2>2, <2>6, <3>1 DEF Telling
    <3>3. op[p] = "heartbeat" => childView' \in {Off, Shown(mem'[p].prev, done')}
      BY <2>1 DEF Knows
    <3> QED BY <2>1, <2>2, <2>3, <2>4, <2>6, <3>2, <3>3 DEF Knows
  <2> QED BY <2>5, <2>6
<1> QED BY <1>1, <1>2, <1>3, <1>4

(* A request that reads what it tells the page, or goes on after it.       *)
LEMMA ChildReads ==
  ASSUME TypeOK, Places, NEW p \in Handlers, op[p] \in ChildKinds, Knows(p), Working(p),
         \/ ReadStatus(p) \/ ReadTasks(p) \/ ReadCount(p)
         \/ SnapshotMinutes(p) \/ SnapshotBlocked(p)
  PROVE  Working(p)' /\ Knows(p)'
<1>1. /\ UNCHANGED <<remaining, done, cache, childView>>
      /\ pc[p] \in {"status", "tasks", "count", "snapshot"}
  BY DEF ReadStatus, ReadTasks, ReadCount, SnapshotMinutes, SnapshotBlocked,
         store, views, At
<1>2. /\ cache \in {None, remaining} /\ (Telling(p) \/ ViewTrue)
      /\ pc[p] # "count" => cache # None
  BY <1>1 DEF Knows, Fresh
<1>3. ViewTrue' <=> ViewTrue
  BY <1>1 DEF ViewTrue, Status
<1>4. CASE ReadStatus(p) \/ ReadTasks(p)
  <2>1. /\ \/ pc[p] = "status" /\ GoTo(p, "tasks") /\ Keep(p, "rem", remaining)
           \/ /\ pc[p] = "tasks" /\ GoTo(p, "announce") /\ Keep(p, "done", done)
        /\ op[p] \in Changing
    BY <1>4 DEF ReadStatus, ReadTasks, At, Places, Place, ChildKinds, Locking,
                Changing
  <2>2. /\ op'[p] = op[p] /\ mem'[p].prev = mem[p].prev
        /\ \/ pc'[p] = "tasks" /\ mem'[p].rem = remaining
           \/ /\ pc'[p] = "announce" /\ mem'[p].done = done
              /\ mem'[p].rem = mem[p].rem /\ pc[p] = "tasks"
    BY <2>1, KeepsValue, KeepsRest, Moves
  <2>3. pc[p] = "tasks" => mem[p].rem = remaining
    BY <2>1 DEF Knows
  <2>4. op[p] = "heartbeat" => childView \in {Off, Shown(mem[p].prev, done)}
    BY DEF Knows
  <2>5. Telling(p)' /\ Working(p)' /\ ~Fresh(p)' /\ op'[p] # "watch"
    BY <2>1, <2>2 DEF Telling, Working, Fresh, Changing
  <2> QED BY <1>1, <1>2, <2>1, <2>2, <2>3, <2>4, <2>5 DEF Knows
<1>5. CASE ReadCount(p)
  <2>1. pc[p] = "count" /\ op[p] = "approve"
    BY <1>5 DEF ReadCount, Places, Place, ChildKinds, Locking
  <2>2. GoTo(p, "announceCount")
    BY <1>5, <2>1 DEF ReadCount
  <2>3. op'[p] = op[p] /\ pc'[p] = "announceCount"
    BY <2>2, Moves
  <2>4. ViewTrue
    BY <1>2, <2>1 DEF Telling, Fresh
  <2> QED BY <1>1, <1>2, <1>3, <2>1, <2>3, <2>4 DEF Knows, Working, Fresh
<1>6. CASE SnapshotMinutes(p) \/ SnapshotBlocked(p)
  <2>1. /\ op[p] = "watch"
        /\ \/ /\ pc[p] = "tasks" /\ GoTo(p, "snapshot")
              /\ Keep(p, "rem", Shown(mem[p].new, done).rem)
           \/ pc[p] = "snapshot" /\ GoTo(p, "subscribe") /\ Keep(p, "done", done)
    BY <1>6 DEF SnapshotMinutes, SnapshotBlocked, At, Places, Place, ChildKinds,
                Locking
  <2>2. /\ op'[p] = op[p]
        /\ \/ /\ pc[p] = "tasks" /\ pc'[p] = "snapshot"
              /\ mem'[p].rem = Shown(mem[p].new, done).rem
           \/ /\ pc[p] = "snapshot" /\ pc'[p] = "subscribe"
              /\ mem'[p].done = done /\ mem'[p].rem = mem[p].rem
    BY <2>1, KeepsValue, KeepsRest, Moves
  <2>3. /\ pc[p] = "tasks" => mem[p].new = remaining
        /\ pc[p] = "snapshot" => mem[p].rem = Status.rem
    BY <2>1 DEF Knows
  <2>4. ViewTrue /\ cache # None
    BY <1>2, <2>1 DEF Telling, Changing
  <2>5. Status'.rem = Status.rem /\ mem'[p].rem = Status.rem
    BY <1>1, <2>2, <2>3 DEF Status
  <2> QED BY <1>1, <1>2, <1>3, <2>1, <2>2, <2>4, <2>5
          DEF Knows, Working, Fresh, Changing, ChildKinds, Locking
<1> QED BY <1>4, <1>5, <1>6

(* A request that is done leaves the cache and the page right.             *)
LEMMA ChildEnds ==
  ASSUME TypeOK, Places, NEW p \in Handlers, op[p] \in ChildKinds, Knows(p), Working(p),
         \/ ApproveNothing(p) \/ Answer(p) \/ Announce(p) \/ AnnounceCount(p)
         \/ Subscribe(p)
  PROVE  IF Working(p)' THEN Knows(p)' ELSE Rested'
<1>0. "idle" \notin ChildKinds
  BY DEF ChildKinds, Locking
<1>1. CASE ApproveNothing(p) \/ Answer(p) \/ AnnounceCount(p)
  <2>1. /\ Return(p) /\ UNCHANGED <<remaining, done, cache, childView>>
        /\ \/ pc[p] \in {"commit", "announceCount"}
           \/ pc[p] = "tasks" /\ op[p] = "remaining"
    BY <1>1 DEF ApproveNothing, Answer, AnnounceCount, At, store, views
  <2>2. ~Working(p)'
    BY <1>0, <2>1, Moves DEF Working
  <2>3. cache \in {None, remaining} /\ ViewTrue
    BY <2>1 DEF Knows, Fresh, Telling, Changing
  <2>4. Rested'
    BY <2>1, <2>3 DEF Rested, ViewTrue, Status
  <2> QED BY <2>2, <2>4
<1>2. CASE Announce(p)
  <2> DEFINE shown == Shown(mem[p].rem, mem[p].done)
             before == Shown(mem[p].prev, mem[p].done)
  <2>1. /\ pc[p] = "announce" /\ UNCHANGED <<remaining, done, cache>>
        /\ \/ op[p] = "heartbeat" /\ shown.rem = before.rem /\ childView' = childView
           \/ childView' = IF childView = Off THEN Off ELSE shown
        /\ IF op[p] = "approve" THEN GoTo(p, "count") /\ UNCHANGED mem
                                ELSE Return(p)
    BY <1>2, Zenon DEF Announce, Send, store
  <2>2. op[p] \in Changing
    BY <2>1 DEF Places, Place, ChildKinds, Locking, Changing
  <2>3. /\ mem[p].rem = remaining /\ mem[p].done = done
        /\ cache \in {None, remaining} /\ cache # None
        /\ op[p] = "heartbeat" => childView \in {Off, Shown(mem[p].prev, done)}
    BY <2>1, <2>2 DEF Knows, Fresh
  <2>4. shown = Status
    BY <2>3 DEF Status
  <2>5. shown.rem = before.rem => before = shown
    BY DEF Shown
  <2>6. childView' \in {Off, Status}
    BY <2>1, <2>3, <2>4, <2>5
  <2>7. Rested'
    BY <2>1, <2>3, <2>6 DEF Rested, ViewTrue, Status
  <2>8. CASE op[p] = "approve"
    <3>1. op'[p] = "approve" /\ pc'[p] = "count"
      BY <2>1, <2>8, Moves
    <3> QED BY <2>7, <3>1 DEF Knows, Fresh, Rested
  <2>9. CASE op[p] # "approve"
    <3>1. op'[p] = "idle"
      BY <2>1, <2>9, Moves
    <3>2. ~Working(p)'
      BY <1>0, <3>1 DEF Working
    <3> QED BY <2>7, <3>2
  <2> QED BY <2>8, <2>9
<1>3. CASE Subscribe(p)
  <2>1. pc[p] = "subscribe" /\ op[p] = "watch"
    BY <1>3 DEF Subscribe, Places, Place, ChildKinds, Locking
  <2>2. /\ Return(p) /\ UNCHANGED <<remaining, done, cache>>
        /\ childView' = IF mem[p].rem = None THEN None
                        ELSE [rem |-> mem[p].rem, blocked |-> ~mem[p].done]
    BY <1>3, <2>1 DEF Subscribe, store
  <2>3. /\ mem[p].rem = Status.rem /\ mem[p].done = done
        /\ cache \in {None, remaining} /\ cache # None
    BY <2>1 DEF Knows, Fresh
  <2>4. Status.rem # None /\ Status = [rem |-> Status.rem, blocked |-> ~done]
    BY MinutesAre, NoneIsNoHandler DEF Status, Shown
  <2>5. childView' = Status
    BY <2>2, <2>3, <2>4
  <2>6. Rested'
    BY <2>2, <2>3, <2>5 DEF Rested, ViewTrue, Status
  <2>7. ~Working(p)'
    BY <1>0, <2>2, Moves DEF Working
  <2> QED BY <2>6, <2>7
<1> QED BY <1>1, <1>2, <1>3

(* Without races, failures, dropped requests and midnights, every step     *)
(* keeps the cache and the child's page right.                             *)
LEMMA ChildStep ==
  ASSUME PlacesInv, ChildPage, [Next]_vars, ChildUndisturbed', Apart'
  PROVE  ChildPage'
<1>0. /\ TypeOK /\ Places
      /\ used.faults = 0 /\ used.abandons = 0 /\ used.midnights = 0
      /\ used.childRaces = 0 /\ used'.childRaces = 0
  <2>1. TypeOK /\ Places
    BY DEF PlacesInv, LockInv
  <2> QED BY <2>1, UsedGrows, Bounds DEF ChildUndisturbed
<1>a. ChildSafe
  BY <1>0 DEF ChildSafe
<1>1. CASE UNCHANGED vars
  <2>1. \A p \in Handlers : (Working(p)' <=> Working(p)) /\ (Knows(p)' <=> Knows(p))
    BY <1>1 DEF vars, store, views, Working, Knows, Fresh, Telling, ViewTrue, Status
  <2>2. Rested' <=> Rested
    BY <1>1 DEF vars, store, views, Rested, ViewTrue, Status
  <2> QED BY <2>1, <2>2 DEF ChildPage
<1>2. ASSUME NEW p \in Handlers, NEW k \in Kinds, Begin(p, k) PROVE ChildPage'
  <2>1. SameElse(p)
    BY <1>0, <1>2, OneMover
  <2>2. /\ op'[p] = k /\ op[p] = "idle"
        /\ pc'[p] = IF k \in Locking THEN "lock"
                    ELSE IF k = "watchParent" THEN "count" ELSE "commit"
        /\ UNCHANGED <<remaining, done, cache, childView>>
    BY <1>0, <1>2 DEF Begin, TypeOK, store, views, Places, Place
  <2>3. ~Working(p)
    BY <2>2 DEF Working, ChildKinds, Locking
  <2>4. CASE k = "approve"
    <3>1. ASSUME NEW q \in Handlers \ {p} PROVE op[q] \notin ChildKinds
      <4>1. ~RaceForChild(op'[p], op'[q]) /\ op'[q] = op[q]
        BY <1>0, <2>1 DEF Apart, SameElse, Others
      <4> QED BY <2>2, <2>4, <4>1 DEF RaceForChild, ChildKinds, Guarded
    <3>2. \A q \in Handlers : ~Working(q)
      BY <2>3, <3>1 DEF Working
    <3>3. Rested
      BY <3>2 DEF ChildPage
    <3>4. Rested'
      BY <2>2, <3>3 DEF Rested, ViewTrue, Status
    <3>5. Knows(p)' /\ Working(p)'
      BY <2>2, <2>4, <3>4 DEF Knows, Working, Fresh, Rested, ChildKinds, Locking
    <3> QED BY <2>1, <3>2, <3>5, StillSole, ChildAlone
  <2>5. CASE k # "approve"
    <3>1. ~Working(p)'
      BY <2>2, <2>5 DEF Working, ChildKinds
    <3> QED BY <2>1, <2>2, <2>3, <3>1, ChildQuiet
  <2> QED BY <2>4, <2>5
<1>3. ASSUME NEW p \in Handlers, Lock(p) PROVE ChildPage'
  BY <1>0, <1>3, <1>a, ChildLocks
<1>4. ASSUME NEW p \in Handlers, Step(p), op[p] \in ChildKinds PROVE ChildPage'
  <2>1. pc[p] # "lock" /\ pc[p] # "idle"
    BY <1>4 DEF Step, CommitReward, CommitHeartbeat, CommitApprove, ApproveNothing,
       CommitSubmit, CommitDiscard, ReadWarm, Publish, ReadStatus, ReadTasks,
       Answer, Announce, ReadCount, AnnounceCount, SnapshotMinutes,
       SnapshotBlocked, Subscribe, CommitDetached, At
  <2>2. Working(p) /\ Knows(p)
    BY <1>4, <2>1 DEF Working, ChildPage
  <2>3. \A q \in Handlers \ {p} : ~Working(q)'
    BY <1>0, <1>4, <1>a, <2>2, Sole, OneMover, StillSole
  <2>4. IF Working(p)' THEN Knows(p)' ELSE Rested'
    <3>1. ~CommitDetached(p)
      BY <2>2 DEF CommitDetached, Knows
    <3>2. ~CommitSubmit(p) /\ ~CommitDiscard(p)
      BY <1>4 DEF CommitSubmit, CommitDiscard, At, ChildKinds, Locking
    <3>3. CASE \/ CommitReward(p) \/ CommitHeartbeat(p) \/ CommitApprove(p)
               \/ ReadWarm(p) \/ Publish(p)
      BY <1>0, <1>4, <2>2, <3>3, ChildWrites
    <3>4. CASE \/ ReadStatus(p) \/ ReadTasks(p) \/ ReadCount(p)
               \/ SnapshotMinutes(p) \/ SnapshotBlocked(p)
      BY <1>0, <1>4, <2>2, <3>4, ChildReads
    <3>5. CASE \/ ApproveNothing(p) \/ Answer(p) \/ Announce(p) \/ AnnounceCount(p)
               \/ Subscribe(p)
      BY <1>0, <1>4, <2>2, <3>5, ChildEnds
    <3> QED BY <1>4, <3>1, <3>2, <3>3, <3>4, <3>5 DEF Step
  <2> QED BY <2>3, <2>4, ChildAlone
<1>5. ASSUME NEW p \in Handlers, Step(p), op[p] \notin ChildKinds PROVE ChildPage'
  <2>0. op[p] \notin {"reward", "heartbeat", "remaining", "watch", "approve"}
    BY <1>5 DEF ChildKinds, Locking
  <2>1. SameElse(p)
    BY <1>0, <1>5, OneMover
  <2>2. op'[p] \notin ChildKinds
    <3>1. op'[p] \in {op[p], "idle"}
      <4>1. Return(p) \/ UNCHANGED op
        BY <1>5, Zenon DEF Step, GoTo,
           CommitReward, CommitHeartbeat, CommitApprove, ApproveNothing,
           CommitSubmit, CommitDiscard, ReadWarm, Publish, ReadStatus, ReadTasks,
           Answer, Announce, ReadCount, AnnounceCount, SnapshotMinutes,
           SnapshotBlocked, Subscribe, CommitDetached
      <4> QED BY <1>0, <4>1, Moves
    <3>2. "idle" \notin ChildKinds
      BY DEF ChildKinds, Locking
    <3> QED BY <1>5, <3>1, <3>2
  <2>3. UNCHANGED <<remaining, done, cache, childView>>
    <3>1. CASE \/ CommitSubmit(p) \/ CommitDiscard(p) \/ ReadCount(p)
               \/ AnnounceCount(p)
      BY <3>1 DEF CommitSubmit, CommitDiscard, ReadCount, AnnounceCount, store, views
    <3>2. CASE Subscribe(p)
      BY <2>0, <3>2 DEF Subscribe, store
    <3>3. CASE CommitDetached(p)
      BY <2>0, <3>3 DEF CommitDetached, views
    <3>4. CASE \/ CommitReward(p) \/ CommitHeartbeat(p) \/ CommitApprove(p)
               \/ ApproveNothing(p) \/ ReadTasks(p) \/ Answer(p) \/ SnapshotMinutes(p)
      BY <2>0, <3>4 DEF CommitReward, CommitHeartbeat, CommitApprove,
         ApproveNothing, ReadTasks, Answer, SnapshotMinutes, At
    <3>5. CASE \/ ReadWarm(p) \/ Publish(p) \/ ReadStatus(p) \/ Announce(p)
               \/ SnapshotBlocked(p)
      <4>1. pc[p] \in {"warm", "publish", "status", "announce", "snapshot"}
        BY <3>5, Zenon DEF ReadWarm, Publish, ReadStatus, Announce, SnapshotBlocked
      <4> QED BY <1>0, <2>0, <4>1, Serves DEF Places, Place, AllKinds, Locking
    <3> QED BY <1>5, <3>1, <3>2, <3>3, <3>4, <3>5 DEF Step
  <2>4. ~Working(p) /\ ~Working(p)'
    BY <1>5, <2>2 DEF Working
  <2> QED BY <2>1, <2>3, <2>4, ChildQuiet
<1>6. ASSUME NEW p \in Handlers, Fault(p) \/ Abandon(p) PROVE FALSE
  <2>1. \/ used'.faults = used.faults + 1
        \/ used'.abandons = used.abandons + 1
    BY <1>0, <1>6, DisturbUses, Bounds DEF TypeOK, Fault, Abandon, Spend
  <2> QED BY <1>0, <2>1 DEF ChildUndisturbed
<1>7. CASE Leave
  <2>1. /\ UNCHANGED <<remaining, done, cache, pc, op, mem>>
        /\ childView' \in {childView, Off}
    BY <1>7 DEF Leave, store
  <2>2. ViewTrue => ViewTrue'
    BY <2>1 DEF ViewTrue, Status
  <2>3. \A p \in Handlers : (Working(p)' <=> Working(p)) /\ (Knows(p) => Knows(p)')
    BY <2>1, <2>2 DEF Working, Knows, Fresh, Telling, Status
  <2>4. Rested => Rested'
    BY <2>1, <2>2 DEF Rested
  <2> QED BY <2>3, <2>4 DEF ChildPage
<1>8. CASE Restart
  <2>1. cache' = None /\ childView' = Off /\ \A p \in Handlers : op'[p] = "idle"
    BY <1>8 DEF Restart
  <2>2. \A p \in Handlers : ~Working(p)'
    BY <2>1 DEF Working, ChildKinds, Locking
  <2> QED BY <2>1, <2>2 DEF ChildPage, Rested, ViewTrue
<1>9. CASE Midnight
  <2>1. used'.midnights = used.midnights + 1
    BY <1>0, <1>9, DisturbUses, Bounds DEF Midnight
  <2> QED BY <1>0, <2>1 DEF ChildUndisturbed
<1> QED BY <1>1, <1>2, <1>3, <1>4, <1>5, <1>6, <1>7, <1>8, <1>9 DEF Next

-----------------------------------------------------------------------------
(* The inductive invariant of the pages: where each request is and who     *)
(* races, and what holds of each page for as long as nothing has disturbed *)
(* it that this page does not survive.                                     *)
PagesInv ==
    /\ PlacesInv
    /\ Untroubled => Blocking
    /\ ParentUndisturbed => ParentPage
    /\ ChildUndisturbed => ChildPage

(* Disturbances are only added.                                            *)
LEMMA UndisturbedBefore ==
  ASSUME TypeOK, [Next]_vars
  PROVE  /\ Untroubled' => Untroubled
         /\ ParentUndisturbed' => ParentUndisturbed
         /\ ChildUndisturbed' => ChildUndisturbed
  BY UsedGrows, Bounds DEF Untroubled, ParentUndisturbed, ChildUndisturbed

LEMMA PagesInit == Init => PagesInv
<1> SUFFICES ASSUME Init PROVE PagesInv
  OBVIOUS
<1>1. \A p \in Handlers : pc[p] = "idle" /\ op[p] = "idle"
  BY DEF Init
<1>2. LockInv
  BY <1>1, InitType, NoneIsNoHandler
  DEF Init, LockInv, Route, LockDiscipline, Holds
<1>3. Places /\ Apart
  BY <1>1
  DEF Places, Place, Apart, RaceForChild, RaceForParent, ChildKinds,
      ParentKinds, Locking
<1>4. Blocking
  BY <1>1 DEF Init, Blocking, PageZero, Snapped, Blank
<1>5. ParentPage
  BY <1>1 DEF Init, ParentPage, Counts, ParentKinds
<1>6. ChildPage
  <2>1. \A p \in Handlers : ~Working(p)
    BY <1>1 DEF Working, ChildKinds, Locking
  <2> QED BY <2>1 DEF Init, ChildPage, Rested, ViewTrue
<1> QED BY <1>2, <1>3, <1>4, <1>5, <1>6 DEF PagesInv, PlacesInv

LEMMA PagesStep == PagesInv /\ [Next]_vars => PagesInv'
<1> SUFFICES ASSUME PagesInv, [Next]_vars PROVE PagesInv'
  OBVIOUS
<1>0. PlacesInv /\ LockInv /\ TypeOK /\ Places /\ Apart
  BY DEF PagesInv, PlacesInv, LockInv
<1>1. PlacesInv'
  BY <1>0, TypeStep, LockStep, PlacesStep, ApartStep DEF PlacesInv, LockInv
<1>2. Apart'
  BY <1>1 DEF PlacesInv
<1>3. Untroubled' => Blocking'
  BY <1>0, UndisturbedBefore, BlockingStep DEF PagesInv
<1>4. ParentUndisturbed' => ParentPage'
  BY <1>0, <1>2, UndisturbedBefore, ParentStep DEF PagesInv
<1>5. ChildUndisturbed' => ChildPage'
  BY <1>0, <1>2, UndisturbedBefore, ChildStep DEF PagesInv
<1> QED BY <1>1, <1>3, <1>4, <1>5 DEF PagesInv

LEMMA PagesInvariant == Spec => []PagesInv
<1> QED BY PagesInit, PagesStep, PTL DEF Spec

(* When every request is answered, nobody works on the pages.              *)
LEMMA IdleWorksNot ==
  ASSUME PagesInv, Idle
  PROVE  \A p \in Handlers : ~Working(p) /\ ~TellingCount(p)
<1>1. \A p \in Handlers : op[p] = "idle"
  BY DEF PagesInv, PlacesInv, Places, Place, Idle
<1> QED BY <1>1 DEF Working, TellingCount, ChildKinds, Locking

(* However many requests there are, at once or one by one, once all are    *)
(* answered the child's page shows the minutes the child can use and       *)
(* whether tasks block them: until two requests race for the page, one     *)
(* fails or is dropped, or a day begins (publish and dispatch_event after  *)
(* each change, and the snapshot of a new stream, server/mod.rs).          *)
THEOREM ChildPageTrue == Spec => []QuiescentChildView
<1>1. PagesInv => QuiescentChildView
  BY IdleWorksNot DEF PagesInv, ChildPage, Rested, ViewTrue, QuiescentChildView
<1> QED BY <1>1, PagesInvariant, PTL

(* Once all requests are answered a parent's page shows the number of      *)
(* pending submissions, until two requests that change or send it race, or *)
(* one fails or is dropped before its event.                               *)
THEOREM ParentPageTrue == Spec => []QuiescentParentView
<1>1. PagesInv => QuiescentParentView
  BY IdleWorksNot DEF PagesInv, ParentPage, QuiescentParentView
<1> QED BY <1>1, PagesInvariant, PTL

(* Whatever requests race, fail or are dropped, and however many days      *)
(* begin, a page that says that tasks block the child shows it no minutes, *)
(* until the second read of a snapshot fails or a day begins just before it*)
(* (sse_notifications, server/mod.rs:878-893).                             *)
THEOREM BlockedPages == Spec => []BlockedShowsZero
<1>1. PagesInv => BlockedShowsZero
  BY DEF PagesInv, Untroubled, Blocking, PageZero, BlockedShowsZero
<1> QED BY <1>1, PagesInvariant, PTL

=============================================================================
