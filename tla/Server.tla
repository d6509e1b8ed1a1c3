------------------------------- MODULE Server -------------------------------
(***************************************************************************)
(* The request handlers of gamiscreen-server (server/mod.rs) for one child:*)
(* the per-child mutex that guards a cache of the remaining minutes, the   *)
(* store behind it, and the events sent to the open SSE streams.           *)
(*                                                                         *)
(* A handler is a task; each await on the store is a step of its own, so   *)
(* that other handlers run between the steps.  The store is what the       *)
(* handlers tell apart: the stored minutes, whether the required tasks of  *)
(* today are done, and the number of pending submissions (Ledger has the   *)
(* rest).  Streams of the child and of a parent are kept as what the page  *)
(* at their end shows last; the balance and push messages are left out.    *)
(***************************************************************************)
EXTENDS Integers, FiniteSets

CONSTANTS
    Handlers,      \* tasks that serve requests, each one request at a time
    Kinds,         \* requests the instance makes, a subset of AllKinds
    Grants,        \* minutes of the rewards (any i32)
    None,          \* no value: an empty cache, a snapshot that failed
    Off,           \* no stream is open
    MaxRequests,   \* bound: requests made
    MaxFaults,     \* bound: store errors
    MaxAbandons,   \* bound: connections closed by the client
    MaxMidnights,  \* bound: days that begin
    MaxRestarts    \* bound: crashes of the server

Locking == {"reward", "heartbeat", "remaining", "watch"}
AllKinds == Locking \cup {"approve", "submit", "discard", "watchParent"}

ASSUME ServerAssumption ==
    /\ Kinds \subseteq AllKinds
    /\ Grants \subseteq Int
    /\ None \notin Int /\ Off \notin Int /\ Off # None
    /\ "idle" \notin Kinds
    /\ {MaxRequests, MaxFaults, MaxAbandons, MaxMidnights, MaxRestarts}
         \subseteq Nat
    /\ None \notin Handlers

VARIABLES
    remaining,   \* balances.minutes_remaining
    done,        \* all_required_tasks_done_today
    pending,     \* rows of task_submissions
    cache,       \* the Option<i32> in children_cache
    owner,       \* the handler that holds the child's mutex
    pc,          \* the next step of each handler
    op,          \* the request it serves
    mem,         \* its local variables
    childView,   \* what the child's page shows, Off when it has no stream
    parentView,  \* the pending count a parent's page shows
    used         \* how much of each bound is used up, how many approvals there
                 \* were, and whether requests raced for a page or a snapshot
                 \* was torn between its two reads

store == <<remaining, done, pending>>
views == <<childView, parentView>>
vars == <<store, cache, owner, pc, op, mem, views, used>>

Labels == {"idle", "lock", "commit", "publish", "warm", "status", "tasks",
           "announce", "count", "announceCount", "snapshot", "subscribe",
           "detached"}

Blank == [prev |-> 0, new |-> 0, rem |-> None, done |-> FALSE, count |-> None]
Unused == [requests |-> 0, faults |-> 0, abandons |-> 0, midnights |-> 0,
           restarts |-> 0, approvals |-> 0, childRaces |-> 0, parentRaces |-> 0,
           tornSnapshots |-> 0]

(* What a page shows: the minutes usable now and whether tasks block them. *)
Shown(rem, isDone) ==
    [rem |-> IF isDone THEN rem ELSE 0, blocked |-> ~isDone]

(* compute_child_status, read in one go.                                   *)
Status == Shown(remaining, done)

Init ==
    /\ remaining = 0
    /\ done \in BOOLEAN
    /\ pending = 0
    /\ cache = None
    /\ owner = None
    /\ pc = [p \in Handlers |-> "idle"]
    /\ op = [p \in Handlers |-> "idle"]
    /\ mem = [p \in Handlers |-> Blank]
    /\ childView = Off
    /\ parentView = Off
    /\ used = Unused

-----------------------------------------------------------------------------
Spend(bound, max) ==
    /\ used[bound] < max
    /\ used' = [used EXCEPT ![bound] = @ + 1]

(* Whether something has happened yet, for the history in used.            *)
Raced(race, before) == IF race THEN 1 ELSE before

(* Spends, and notes whether a snapshot is between its reads.              *)
Disturb(bound, max, torn) ==
    /\ used[bound] < max
    /\ used' = [used EXCEPT ![bound] = @ + 1,
                            !["tornSnapshots"] = Raced(torn, @)]

At(p, label, kinds) == pc[p] = label /\ op[p] \in kinds
GoTo(p, label) == pc' = [pc EXCEPT ![p] = label] /\ UNCHANGED op
Keep(p, field, value) == mem' = [mem EXCEPT ![p][field] = value]

(* The handler returns; its locals are gone.                               *)
Return(p) ==
    /\ pc' = [pc EXCEPT ![p] = "idle"]
    /\ op' = [op EXCEPT ![p] = "idle"]
    /\ mem' = [mem EXCEPT ![p] = Blank]

(* The MutexGuard is dropped, if p has it.                                 *)
Unlock(p) == owner' = IF owner = p THEN None ELSE owner

(* dispatch_event: every open stream gets the event.                       *)
Send(shown) == childView' = IF childView = Off THEN Off ELSE shown

-----------------------------------------------------------------------------
(* Requests that read or send what the child's page shows race unless both *)
(* hold the mutex to their end; for the parents' pages all of theirs race. *)
ChildKinds == Locking \cup {"approve"}
Guarded == {"reward", "remaining"}
ParentKinds == {"approve", "submit", "discard", "watchParent"}
RaceForChild(k, l) == {k, l} \subseteq ChildKinds /\ ~({k, l} \subseteq Guarded)
RaceForParent(k, l) == {k, l} \subseteq ParentKinds

(* A request arrives.  A page opens one stream at a time.                  *)
Begin(p, k) ==
    /\ pc[p] = "idle"
    /\ used.requests < MaxRequests
    /\ used' = [used EXCEPT !.requests = @ + 1,
                            !.childRaces =
                              Raced(\E q \in Handlers : RaceForChild(k, op[q]), @),
                            !.parentRaces =
                              Raced(\E q \in Handlers : RaceForParent(k, op[q]), @)]
    /\ k = "watch" =>
         childView = Off /\ \A q \in Handlers : op[q] # "watch"
    /\ k = "watchParent" =>
         parentView = Off /\ \A q \in Handlers : op[q] # "watchParent"
    /\ op' = [op EXCEPT ![p] = k]
    /\ pc' = [pc EXCEPT ![p] = IF k \in Locking THEN "lock"
                               ELSE IF k = "watchParent" THEN "count"
                               ELSE "commit"]
    /\ UNCHANGED <<store, cache, owner, mem, views>>

(* Fault: the guard is given although another handler has it.              *)
Lock_NoWait(p) ==
    /\ pc[p] = "lock"
    /\ owner' = p
    /\ \/ /\ op[p] \in {"reward", "heartbeat"}
          /\ Keep(p, "prev", IF cache = None THEN 0 ELSE cache)
          /\ GoTo(p, "commit")
       \/ /\ op[p] = "approve"
          /\ GoTo(p, "publish")
          /\ UNCHANGED mem
       \/ /\ op[p] \in {"remaining", "watch"}
          /\ IF cache = None THEN GoTo(p, "warm") /\ UNCHANGED mem
                             ELSE GoTo(p, "tasks") /\ Keep(p, "new", cache)
    /\ UNCHANGED <<store, cache, views, used>>

(* child_mutex(..).lock(): what each handler does first with the guard.    *)
Lock(p) ==
    /\ pc[p] = "lock"
    /\ owner = None
    /\ owner' = p
    /\ \/ /\ op[p] \in {"reward", "heartbeat"}
          /\ Keep(p, "prev", IF cache = None THEN 0 ELSE cache)
          /\ GoTo(p, "commit")
       \/ /\ op[p] = "approve"
          /\ GoTo(p, "publish")
          /\ UNCHANGED mem
       \/ /\ op[p] \in {"remaining", "watch"}
          /\ IF cache = None THEN GoTo(p, "warm") /\ UNCHANGED mem
                             ELSE GoTo(p, "tasks") /\ Keep(p, "new", cache)
    /\ UNCHANGED <<store, cache, views, used>>

(* add_reward_minutes commits; a rewarded task may be the last required.   *)
CommitReward(p) ==
    /\ At(p, "commit", {"reward"})
    /\ \E g \in Grants : remaining' = remaining + g
    /\ done' \in {done, TRUE}
    /\ Keep(p, "new", remaining')
    /\ GoTo(p, "publish")
    /\ UNCHANGED <<pending, cache, owner, views, used>>

(* process_usage_minutes commits; a batch may hold nothing new.            *)
CommitHeartbeat(p) ==
    /\ At(p, "commit", {"heartbeat"})
    /\ remaining' \in {remaining, remaining - 1}
    /\ Keep(p, "new", remaining')
    /\ GoTo(p, "publish")
    /\ UNCHANGED <<done, pending, cache, owner, views, used>>

(* approve_submission commits, without the child's mutex.                  *)
CommitApprove(p) ==
    /\ At(p, "commit", {"approve"})
    /\ pending > 0
    /\ pending' = pending - 1
    /\ \E g \in Grants : remaining' = remaining + g
    /\ done' \in {done, TRUE}
    /\ Keep(p, "new", remaining')
    /\ GoTo(p, "lock")
    /\ used' = [used EXCEPT !["approvals"] = @ + 1]
    /\ UNCHANGED <<cache, owner, views>>

(* The submission is gone: nothing to do, nothing to tell.                 *)
ApproveNothing(p) ==
    /\ At(p, "commit", {"approve"})
    /\ Return(p)
    /\ UNCHANGED <<store, cache, owner, views, used>>

CommitSubmit(p) ==
    /\ At(p, "commit", {"submit"})
    /\ pending' = pending + 1
    /\ GoTo(p, "count")
    /\ UNCHANGED <<remaining, done, cache, owner, mem, views, used>>

(* Fault: counts a row as deleted although it was gone.                    *)
CommitDiscard_Unchecked(p) ==
    /\ At(p, "commit", {"discard"})
    /\ pending' = pending - 1
    /\ GoTo(p, "count")
    /\ UNCHANGED <<remaining, done, cache, owner, mem, views, used>>

(* discard_submission: the row may be gone already.                        *)
CommitDiscard(p) ==
    /\ At(p, "commit", {"discard"})
    /\ pending' \in {pending, pending - 1} \cap Nat
    /\ GoTo(p, "count")
    /\ UNCHANGED <<remaining, done, cache, owner, mem, views, used>>

(* remaining_minutes on an empty cache: the stored value is read ...       *)
ReadWarm(p) ==
    /\ pc[p] = "warm"
    /\ Keep(p, "new", remaining)
    /\ GoTo(p, "publish")
    /\ UNCHANGED <<store, cache, owner, views, used>>

(* Fault: an approval announces its minutes and leaves the cache as it was.*)
Publish_NotApproved(p) ==
    /\ pc[p] = "publish"
    /\ cache' = IF op[p] = "approve" THEN cache ELSE mem[p].new
    /\ IF op[p] \in {"heartbeat", "approve"} THEN Unlock(p)
                                             ELSE UNCHANGED owner
    /\ GoTo(p, IF op[p] \in {"remaining", "watch"} THEN "tasks" ELSE "status")
    /\ UNCHANGED <<store, mem, views, used>>

(* ... and every handler that has a new value puts it in the cache.  A     *)
(* heartbeat and an approval drop the guard here.                          *)
Publish(p) ==
    /\ pc[p] = "publish"
    /\ cache' = mem[p].new
    /\ IF op[p] \in {"heartbeat", "approve"} THEN Unlock(p)
                                             ELSE UNCHANGED owner
    /\ GoTo(p, IF op[p] \in {"remaining", "watch"} THEN "tasks" ELSE "status")
    /\ UNCHANGED <<store, mem, views, used>>

(* compute_child_status reads the minutes, then the tasks of today.        *)
ReadStatus(p) ==
    /\ pc[p] = "status"
    /\ Keep(p, "rem", remaining)
    /\ GoTo(p, "tasks")
    /\ UNCHANGED <<store, cache, owner, views, used>>

ReadTasks(p) ==
    /\ At(p, "tasks", {"reward", "heartbeat", "approve"})
    /\ Keep(p, "done", done)
    /\ GoTo(p, "announce")
    /\ UNCHANGED <<store, cache, owner, views, used>>

(* GET remaining has its answer.  What compute_child_status reads with the *)
(* guard dropped changes nothing; if it fails the answer is the error.     *)
Answer(p) ==
    /\ At(p, "tasks", {"remaining"})
    /\ Unlock(p)
    /\ Return(p)
    /\ UNCHANGED <<store, cache, views, used>>

(* Fault: an approval does not tell the parents the new count.             *)
Announce_NoCount(p) ==
    LET m == mem[p]
        shown == Shown(m.rem, m.done)
        before == Shown(m.prev, m.done)
    IN
    /\ pc[p] = "announce"
    /\ IF op[p] = "heartbeat" /\ shown.rem = before.rem THEN UNCHANGED childView
                                                        ELSE Send(shown)
    /\ Return(p)
    /\ Unlock(p)
    /\ UNCHANGED <<store, cache, parentView, used>>

(* The event is sent; a heartbeat that changed nothing sends none.         *)
Announce(p) ==
    LET m == mem[p]
        shown == Shown(m.rem, m.done)
        before == Shown(m.prev, m.done)
    IN
    /\ pc[p] = "announce"
    /\ IF op[p] = "heartbeat" /\ shown.rem = before.rem THEN UNCHANGED childView
                                                        ELSE Send(shown)
    /\ IF op[p] = "approve" THEN GoTo(p, "count") /\ UNCHANGED mem
                            ELSE Return(p)
    /\ Unlock(p)
    /\ UNCHANGED <<store, cache, parentView, used>>

(* pending_submissions_count, after the change or for a new stream.        *)
ReadCount(p) ==
    /\ pc[p] = "count"
    /\ Keep(p, "count", pending)
    /\ GoTo(p, IF op[p] = "watchParent" THEN "subscribe" ELSE "announceCount")
    /\ UNCHANGED <<store, cache, owner, views, used>>

AnnounceCount(p) ==
    /\ pc[p] = "announceCount"
    /\ parentView' = IF parentView = Off THEN Off ELSE mem[p].count
    /\ Return(p)
    /\ UNCHANGED <<store, cache, owner, childView, used>>

(* Fault: the snapshot shows the stored minutes, blocked or not.           *)
SnapshotMinutes_Raw(p) ==
    /\ At(p, "tasks", {"watch"})
    /\ Keep(p, "rem", mem[p].new)
    /\ GoTo(p, "snapshot")
    /\ UNCHANGED <<store, cache, owner, views, used>>

(* sse_notifications: the minutes of the snapshot use one read of today's  *)
(* tasks and its blocked flag another; then the guard is dropped.          *)
SnapshotMinutes(p) ==
    /\ At(p, "tasks", {"watch"})
    /\ Keep(p, "rem", Shown(mem[p].new, done).rem)
    /\ GoTo(p, "snapshot")
    /\ UNCHANGED <<store, cache, owner, views, used>>

SnapshotBlocked(p) ==
    /\ pc[p] = "snapshot"
    /\ Keep(p, "done", done)
    /\ GoTo(p, "subscribe")
    /\ Unlock(p)
    /\ UNCHANGED <<store, cache, views, used>>

(* The stream opens with the snapshot and relays what is sent from now on. *)
Subscribe(p) ==
    /\ pc[p] = "subscribe"
    /\ \/ /\ op[p] = "watch"
          /\ childView' = IF mem[p].rem = None THEN None
                          ELSE [rem |-> mem[p].rem, blocked |-> ~mem[p].done]
          /\ UNCHANGED parentView
       \/ /\ op[p] = "watchParent"
          /\ parentView' = mem[p].count
          /\ UNCHANGED childView
    /\ Return(p)
    /\ UNCHANGED <<store, cache, owner, used>>

-----------------------------------------------------------------------------
(* Fault: the guard outlives the handler that failed.                      *)
Fault_KeepsLock(p) ==
    /\ pc[p] \in {"commit", "warm", "status", "tasks", "snapshot", "count"}
    /\ Disturb("faults", MaxFaults, pc[p] = "snapshot")
    /\ IF op[p] \in {"watch", "watchParent"}
         THEN GoTo(p, "subscribe") /\ UNCHANGED mem
         ELSE Return(p)
    /\ UNCHANGED <<store, cache, owner, views>>

(* A read or a transaction of the store fails.  A handler returns the error*)
(* and drops the guard; a stream opens without the part that failed.       *)
Fault(p) ==
    /\ pc[p] \in {"commit", "warm", "status", "tasks", "snapshot", "count"}
    /\ Disturb("faults", MaxFaults, pc[p] = "snapshot")
    /\ IF op[p] \in {"watch", "watchParent"}
         THEN GoTo(p, "subscribe") /\ UNCHANGED mem
         ELSE Return(p)
    /\ Unlock(p)
    /\ UNCHANGED <<store, cache, views>>

(* The client closes the connection: the handler's future is dropped where *)
(* it waits and its guard with it.  A transaction that was handed to the   *)
(* blocking pool commits all the same, later and unseen.                   *)
Abandon(p) ==
    /\ pc[p] \notin {"idle", "detached"}
    /\ Spend("abandons", MaxAbandons)
    /\ IF pc[p] = "commit" THEN GoTo(p, "detached") /\ UNCHANGED mem
                           ELSE Return(p)
    /\ Unlock(p)
    /\ UNCHANGED <<store, cache, views>>

CommitDetached(p) ==
    /\ pc[p] = "detached"
    /\ \/ /\ op[p] = "reward" \/ (op[p] = "approve" /\ pending > 0)
          /\ pending' = IF op[p] = "approve" THEN pending - 1 ELSE pending
          /\ \E g \in Grants : remaining' = remaining + g
          /\ done' \in {done, TRUE}
       \/ /\ op[p] = "approve"
          /\ UNCHANGED store
       \/ /\ op[p] = "heartbeat"
          /\ remaining' \in {remaining, remaining - 1}
          /\ UNCHANGED <<done, pending>>
       \/ /\ op[p] = "submit"
          /\ pending' = pending + 1
          /\ UNCHANGED <<remaining, done>>
       \/ /\ op[p] = "discard"
          /\ pending' \in {pending, pending - 1} \cap Nat
          /\ UNCHANGED <<remaining, done>>
    /\ Return(p)
    /\ UNCHANGED <<cache, owner, views, used>>

(* A page is closed.                                                       *)
Leave ==
    /\ \/ childView # Off /\ childView' = Off /\ UNCHANGED parentView
       \/ parentView # Off /\ parentView' = Off /\ UNCHANGED childView
    /\ UNCHANGED <<store, cache, owner, pc, op, mem, used>>

(* A UTC day begins: no required task has been done in it yet.             *)
Midnight ==
    /\ Disturb("midnights", MaxMidnights,
               \E p \in Handlers : pc[p] = "snapshot")
    /\ done' = FALSE
    /\ UNCHANGED <<remaining, pending, cache, owner, pc, op, mem, views>>

(* The server dies and starts again: only the store is left.               *)
Restart ==
    /\ Spend("restarts", MaxRestarts)
    /\ cache' = None
    /\ owner' = None
    /\ pc' = [p \in Handlers |-> "idle"]
    /\ op' = [p \in Handlers |-> "idle"]
    /\ mem' = [p \in Handlers |-> Blank]
    /\ childView' = Off
    /\ parentView' = Off
    /\ UNCHANGED store

-----------------------------------------------------------------------------
(* One step of the request p serves, with the mutex free or held.          *)
Step(p) ==
    \/ CommitReward(p) \/ CommitHeartbeat(p) \/ CommitApprove(p)
    \/ ApproveNothing(p) \/ CommitSubmit(p) \/ CommitDiscard(p)
    \/ ReadWarm(p) \/ Publish(p) \/ ReadStatus(p) \/ ReadTasks(p)
    \/ Answer(p) \/ Announce(p) \/ ReadCount(p) \/ AnnounceCount(p)
    \/ SnapshotMinutes(p) \/ SnapshotBlocked(p) \/ Subscribe(p)
    \/ CommitDetached(p)

Next ==
    \/ \E p \in Handlers :
         \/ \E k \in Kinds : Begin(p, k)
         \/ Lock(p) \/ Step(p) \/ Fault(p) \/ Abandon(p)
    \/ Leave \/ Midnight \/ Restart

Spec == Init /\ [][Next]_vars

(* tokio polls every ready task and grants its mutex in FIFO order; a      *)
(* transaction ends, by SQLite's busy timeout at the latest.               *)
Fairness == \A p \in Handlers : WF_vars(Step(p)) /\ SF_vars(Lock(p))

FairSpec == Spec /\ Fairness

-----------------------------------------------------------------------------
MemType == [prev : Int, new : Int, rem : Int \cup {None}, done : BOOLEAN,
            count : Nat \cup {None}]
ViewType == [rem : Int \cup {None}, blocked : BOOLEAN] \cup {None, Off}

(* The shape of every variable.                                            *)
TypeOK ==
    /\ remaining \in Int
    /\ done \in BOOLEAN
    /\ pending \in Nat
    /\ cache \in Int \cup {None}
    /\ owner \in Handlers \cup {None}
    /\ pc \in [Handlers -> Labels]
    /\ op \in [Handlers -> Kinds \cup {"idle"}]
    /\ mem \in [Handlers -> MemType]
    /\ childView \in ViewType
    /\ parentView \in Nat \cup {None, Off}
    /\ used \in [DOMAIN Unused -> Nat]

(* Where a handler has the guard in its hands.                             *)
Holds(p) ==
    \/ pc[p] \in {"commit", "publish"} /\ op[p] \in {"reward", "heartbeat"}
    \/ pc[p] = "publish" /\ op[p] = "approve"
    \/ pc[p] \in {"status", "tasks", "announce"} /\ op[p] = "reward"
    \/ pc[p] \in {"warm", "publish", "tasks", "snapshot"}
         /\ op[p] \in {"remaining", "watch"}

(* The mutex is held exactly by the handler that is between its lock and   *)
(* its drop: no error path, closed connection or restart leaks it.         *)
LockDiscipline == \A p \in Handlers : owner = p <=> Holds(p)

(* Whenever the mutex is free, the cache is empty or equals the store      *)
(* ("None => needs recompute", server/mod.rs:40), as long as no approval   *)
(* was made, which commits without the mutex, and no request was dropped.  *)
CacheCoherent ==
    owner = None /\ used.approvals = 0 /\ used.abandons = 0
      => cache \in {None, remaining}

Idle == \A p \in Handlers : pc[p] = "idle"

(* Once every request is answered, the cache is empty or equals the store: *)
(* no stale value stays behind for the next handler that trusts it.        *)
CacheSettles == Idle => cache \in {None, remaining}

(* Once every request is answered, the child's page shows the minutes the  *)
(* child can use and whether tasks block them, however many requests there *)
(* were, at once or one by one: until two of them race for the page, one   *)
(* fails or is dropped before its event, or a day begins without one.      *)
ChildUndisturbed ==
    /\ used.childRaces = 0 /\ used.midnights = 0
    /\ used.faults = 0 /\ used.abandons = 0
QuiescentChildView ==
    Idle /\ ChildUndisturbed /\ childView \notin {None, Off} => childView = Status

(* Once every request is answered, a parent's page shows the pending count,*)
(* until two requests race for it, or one fails or is dropped.             *)
ParentUndisturbed ==
    used.parentRaces = 0 /\ used.faults = 0 /\ used.abandons = 0
QuiescentParentView ==
    Idle /\ ParentUndisturbed /\ parentView \notin {None, Off} =>
      parentView = pending

(* A page that says that tasks block the child shows it no minutes ("When  *)
(* blocked_by_tasks is true, effective remaining is 0"), whatever requests *)
(* race, fail or are dropped, and however many days begin: until a snapshot*)
(* is torn between its two reads of the tasks, the second of which fails   *)
(* (the page takes that for blocked) or belongs to the next day.           *)
BlockedShowsZero ==
    /\ used.tornSnapshots = 0
    /\ childView \notin {None, Off} /\ childView.blocked
    => childView.rem = 0

(* Every request is answered, or dropped with its connection: no handler   *)
(* waits for the mutex forever.                                            *)
RequestsFinish == \A p \in Handlers : pc[p] # "idle" ~> pc[p] = "idle"

=============================================================================
