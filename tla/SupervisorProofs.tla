-------------------------- MODULE SupervisorProofs --------------------------
(***************************************************************************)
(* What the Windows service never does, for any number of sessions and any *)
(* capacity of its channel: run two agents in a session, or leave an agent *)
(* uncancelled once it has taken the stop from the channel.                *)
(***************************************************************************)
EXTENDS Supervisor, TLAPS

(* Nothing runs before the loop has looked for existing sessions.          *)
Fresh == ~started => DOMAIN workers = {} /\ tasks = {} /\ ~stopping

(* The inductive invariant.  OneAgentPerSession makes CancelAll reach every*)
(* task, Fresh lets the enumeration start from an empty map.               *)
IInv == TypeOK /\ OneAgentPerSession /\ StopReachesAll /\ Fresh

-----------------------------------------------------------------------------
(* What the steps of the loop do to the map and the tasks, apart from the  *)
(* channel: starting some idle sessions, and cancelling some workers.      *)
MapOK ==
    /\ DOMAIN workers \subseteq Sessions
    /\ workers \in [DOMAIN workers -> Worker]
    /\ tasks \subseteq Task
    /\ OneAgentPerSession

(* Starting sessions that have no active worker.                           *)
LEMMA StartsKeep ==
    ASSUME NEW S \in SUBSET Sessions, MapOK, StartAll(S),
           \A s \in S : ~WorkerOf(s).active
    PROVE  MapOK'
<1>1. \A s \in Sessions : WorkerOf(s) \in Worker
  BY DEF WorkerOf, MapOK, NewWorker, Worker
<1>2. DOMAIN workers' = DOMAIN workers \cup S
  BY DEF StartAll
<1>3. \A s \in S : workers'[s] = [generation |-> WorkerOf(s).generation + 1,
                                  active |-> TRUE, removeOnExit |-> FALSE]
  BY DEF StartAll
<1>4. \A s \in DOMAIN workers \ S : workers'[s] = workers[s]
  BY DEF StartAll
<1>5. workers' \in [DOMAIN workers' -> Worker]
  <2>1. ASSUME NEW s \in DOMAIN workers'
        PROVE  workers'[s] \in Worker
    <3>1. CASE s \in S
      <4>1. WorkerOf(s).generation + 1 \in Nat
        BY <1>1, <3>1, SMT DEF Worker
      <4>2. [generation |-> WorkerOf(s).generation + 1, active |-> TRUE,
             removeOnExit |-> FALSE] \in Worker
        BY <4>1 DEF Worker
      <4> QED BY <3>1, <4>2, <1>3
    <3>2. CASE s \notin S
      BY <3>2, <1>2, <1>4 DEF MapOK
    <3> QED BY <3>1, <3>2
  <2> QED BY <2>1, <1>2 DEF StartAll
<1>6. {NewTask(s) : s \in S} \subseteq Task
  <2>1. ASSUME NEW s \in S
        PROVE  NewTask(s) \in Task
    <3>1. WorkerOf(s).generation + 1 \in Nat
      BY <1>1 DEF Worker
    <3> QED BY <3>1 DEF NewTask, Task, Alive
  <2> QED BY <2>1
<1>7. \A t \in tasks : t.session \notin S
  BY DEF MapOK, OneAgentPerSession, WorkerOf
<1>8. OneAgentPerSession'
  <2>1. ASSUME NEW t \in tasks'
        PROVE  /\ t.session \in DOMAIN workers'
               /\ workers'[t.session].active
               /\ workers'[t.session].generation = t.generation
    <3>1. CASE t \in tasks
      BY <3>1, <1>2, <1>4, <1>7 DEF MapOK, OneAgentPerSession
    <3>2. CASE t \in {NewTask(s) : s \in S}
      BY <3>2, <1>2, <1>3 DEF NewTask
    <3> QED BY <3>1, <3>2 DEF StartAll
  <2>2. ASSUME NEW t \in tasks', NEW u \in tasks', t.session = u.session
        PROVE  t = u
    <3>1. CASE t \in tasks /\ u \in tasks
      BY <2>2, <3>1 DEF MapOK, OneAgentPerSession
    <3>2. CASE t \in {NewTask(s) : s \in S} /\ u \in {NewTask(s) : s \in S}
      <4>1. PICK r \in S : t = NewTask(r)
        BY <3>2
      <4>2. PICK q \in S : u = NewTask(q)
        BY <3>2
      <4>3. r = q
        BY <2>2, <4>1, <4>2 DEF NewTask
      <4> QED BY <4>1, <4>2, <4>3
    <3>3. CASE \/ t \in tasks /\ u \in {NewTask(s) : s \in S}
               \/ u \in tasks /\ t \in {NewTask(s) : s \in S}
      BY <2>2, <3>3, <1>7 DEF NewTask
    <3> QED BY <3>1, <3>2, <3>3 DEF StartAll
  <2>3. ASSUME NEW s \in DOMAIN workers', workers'[s].active
        PROVE  \E t \in tasks' : t.session = s
    <3>1. CASE s \in S
      <4>1. NewTask(s) \in tasks' /\ NewTask(s).session = s
        BY <3>1 DEF StartAll, NewTask
      <4> QED BY <4>1
    <3>2. CASE s \notin S
      BY <2>3, <3>2, <1>2, <1>4 DEF MapOK, OneAgentPerSession, StartAll
    <3> QED BY <3>1, <3>2
  <2> QED BY <2>1, <2>2, <2>3 DEF OneAgentPerSession
<1> QED BY <1>2, <1>5, <1>6, <1>8 DEF MapOK, StartAll

(* Cancelling workers.                                                     *)
LEMMA CancelsKeep ==
    ASSUME NEW S \in SUBSET Sessions, MapOK, CancelAll(S)
    PROVE  /\ MapOK'
           /\ \A u \in tasks' : \E t \in tasks :
                /\ u.session = t.session /\ u.state = t.state
                /\ u.cancelled = (t.cancelled \/ t.session \in S)
<1> DEFINE To(t) == IF /\ t.session \in S
                       /\ t.generation = WorkerOf(t.session).generation
                      THEN [t EXCEPT !.cancelled = TRUE]
                      ELSE t
<1>1. tasks' = {To(t) : t \in tasks}
  BY DEF CancelAll
<1>2. \A t \in tasks : t.generation = WorkerOf(t.session).generation
  BY DEF MapOK, OneAgentPerSession, WorkerOf
<1>3. \A t \in tasks : /\ To(t) \in Task
                       /\ To(t).session = t.session
                       /\ To(t).generation = t.generation
                       /\ To(t).state = t.state
                       /\ To(t).cancelled = (t.cancelled \/ t.session \in S)
  BY <1>2 DEF MapOK, Task
<1>4. /\ DOMAIN workers' = DOMAIN workers
      /\ workers' \in [DOMAIN workers' -> Worker]
      /\ \A s \in DOMAIN workers :
           /\ workers'[s].active = workers[s].active
           /\ workers'[s].generation = workers[s].generation
  BY DEF CancelAll, MapOK, Worker
<1>5. OneAgentPerSession'
  <2> HIDE DEF To
  <2>1. \A t \in tasks' : /\ t.session \in DOMAIN workers'
                          /\ workers'[t.session].active
                          /\ workers'[t.session].generation = t.generation
    BY <1>1, <1>3, <1>4 DEF MapOK, OneAgentPerSession
  <2>2. \A t, u \in tasks' : t.session = u.session => t = u
    BY <1>1, <1>3 DEF MapOK, OneAgentPerSession
  <2>3. \A s \in DOMAIN workers' :
           workers'[s].active => \E t \in tasks' : t.session = s
    BY <1>1, <1>3, <1>4 DEF MapOK, OneAgentPerSession
  <2> QED BY <2>1, <2>2, <2>3 DEF OneAgentPerSession
<1> HIDE DEF To
<1>6. tasks' \subseteq Task
  BY <1>1, <1>3
<1> QED BY <1>1, <1>3, <1>4, <1>5, <1>6 DEF MapOK

(* A worker whose result is taken has no other task.                       *)
LEMMA ExitsKeep ==
    ASSUME MapOK, NEW t \in tasks, HandleExit(t)
    PROVE  MapOK' /\ tasks' = tasks \ {t}
<1>1. /\ t.session \in DOMAIN workers
      /\ workers[t.session].generation = t.generation
  BY DEF MapOK, OneAgentPerSession
<1>2. tasks' = tasks \ {t} /\ \A u \in tasks' : u.session # t.session
  BY DEF HandleExit, MapOK, OneAgentPerSession
<1>3. CASE workers' = Removed(t.session)
  <2>1. /\ DOMAIN workers' = DOMAIN workers \ {t.session}
        /\ \A s \in DOMAIN workers' : workers'[s] = workers[s]
        /\ workers' \in [DOMAIN workers' -> Worker]
    BY <1>3 DEF Removed, MapOK
  <2> QED BY <1>2, <2>1 DEF MapOK, OneAgentPerSession
<1>4. CASE workers' = [workers EXCEPT ![t.session].active = FALSE]
  <2>1. /\ DOMAIN workers' = DOMAIN workers
        /\ \A s \in DOMAIN workers' \ {t.session} : workers'[s] = workers[s]
        /\ workers'[t.session].active = FALSE
        /\ workers' \in [DOMAIN workers' -> Worker]
    BY <1>1, <1>4 DEF MapOK, Worker
  <2> QED BY <1>2, <2>1 DEF MapOK, OneAgentPerSession
<1> QED BY <1>1, <1>2, <1>3, <1>4 DEF HandleExit

(* A task that moves on stays the one task of its worker.                  *)
LEMMA EndsKeep ==
    ASSUME MapOK, NEW t \in tasks,
           NEW state \in {"running", "requested", "completed", "failed"},
           Becomes(t, state), UNCHANGED workers
    PROVE  /\ MapOK'
           /\ \A u \in tasks' : \/ u \in tasks
                                \/ u.state = state /\ u.cancelled = t.cancelled
<1> DEFINE ended == [t EXCEPT !.state = state]
<1>1. /\ tasks' = (tasks \ {t}) \cup {ended}
      /\ ended \in Task /\ ended.session = t.session
      /\ ended.generation = t.generation /\ ended.state = state
      /\ ended.cancelled = t.cancelled
  BY DEF Becomes, MapOK, Task, Alive
<1> HIDE DEF ended
<1>2. OneAgentPerSession'
  <2>1. \A u \in tasks' : /\ u.session \in DOMAIN workers'
                          /\ workers'[u.session].active
                          /\ workers'[u.session].generation = u.generation
    BY <1>1 DEF MapOK, OneAgentPerSession
  <2>2. \A u, v \in tasks' : u.session = v.session => u = v
    BY <1>1 DEF MapOK, OneAgentPerSession
  <2>3. ASSUME NEW s \in DOMAIN workers', workers'[s].active
        PROVE  \E u \in tasks' : u.session = s
    <3>1. PICK u \in tasks : u.session = s
      BY <2>3 DEF MapOK, OneAgentPerSession
    <3> QED BY <3>1, <1>1
  <2> QED BY <2>1, <2>2, <2>3 DEF OneAgentPerSession
<1> QED BY <1>1, <1>2 DEF MapOK

-----------------------------------------------------------------------------
(* The invariant holds at the start.                                       *)
THEOREM Initially == Init => IInv
<1> SUFFICES ASSUME Init PROVE IInv
  OBVIOUS
<1>1. DOMAIN workers = {} /\ workers \in [DOMAIN workers -> Worker]
  BY DEF Init
<1>2. queue \in Seq(Event) /\ Len(queue) <= QueueCap
  BY SupervisorAssumption DEF Init
<1>3. spent \in [DOMAIN Unspent -> Nat]
  BY DEF Init, Unspent
<1>4. TypeOK
  BY <1>1, <1>2, <1>3 DEF Init, TypeOK
<1> QED BY <1>1, <1>4 DEF Init, IInv, OneAgentPerSession, StopReachesAll, Fresh

(* The bookkeeping that every step leaves in shape.                        *)
RestOK ==
    /\ connected \subseteq Sessions
    /\ status \in {"running", "stopPending", "stopped"}
    /\ started \in BOOLEAN
    /\ queue \in Seq(Event) /\ Len(queue) <= QueueCap
    /\ stopping \in BOOLEAN
    /\ timers \in [Sessions -> Nat]
    /\ spent \in [DOMAIN Unspent -> Nat]

(* The two halves of the invariant: the map with its tasks, and the rest.  *)
LEMMA Parts == TypeOK /\ OneAgentPerSession <=> RestOK /\ MapOK
  BY DEF TypeOK, RestOK, MapOK

(* Spending a bound keeps the counters natural numbers.                    *)
LEMMA SpendTyped ==
    ASSUME NEW b \in DOMAIN Unspent, NEW max, Spend(b, max), RestOK
    PROVE  spent' \in [DOMAIN Unspent -> Nat]
  BY DEF Spend, RestOK, Unspent

(* The channel never holds more than its capacity.                         *)
LEMMA OfferTyped ==
    ASSUME NEW e \in Event, Offer(e), RestOK
    PROVE  queue' \in Seq(Event) /\ Len(queue') <= QueueCap
  BY SupervisorAssumption DEF Offer, RestOK

(* Every step keeps the invariant.                                         *)
THEOREM Steps == IInv /\ [Next]_vars => IInv'
<1> SUFFICES ASSUME RestOK, MapOK, StopReachesAll, Fresh, [Next]_vars
             PROVE  RestOK' /\ MapOK' /\ StopReachesAll' /\ Fresh'
  BY Parts, PTL DEF IInv
<1>1. ASSUME NEW s \in Sessions, Connect(s) PROVE RestOK' /\ MapOK' /\ StopReachesAll' /\ Fresh'
  <2>1. [kind |-> "activate", session |-> s] \in Event
    BY DEF Event, Kinds
  <2>2. RestOK'
    BY <1>1, <2>1, OfferTyped, SpendTyped DEF Connect, RestOK, loopVars, Unspent
  <2> QED BY <1>1, <2>2 DEF Connect, MapOK, OneAgentPerSession, StopReachesAll, Fresh, loopVars
<1>2. ASSUME NEW s \in Sessions, Disconnect(s) PROVE RestOK' /\ MapOK' /\ StopReachesAll' /\ Fresh'
  <2>1. [kind |-> "deactivate", session |-> s] \in Event
    BY DEF Event, Kinds
  <2>2. RestOK'
    BY <1>2, <2>1, OfferTyped, SpendTyped DEF Disconnect, RestOK, loopVars, Unspent
  <2> QED BY <1>2, <2>2 DEF Disconnect, MapOK, OneAgentPerSession, StopReachesAll, Fresh, loopVars
<1>3. ASSUME NEW s \in Sessions, TimerFires(s) PROVE RestOK' /\ MapOK' /\ StopReachesAll' /\ Fresh'
  <2>1. [kind |-> "restart", session |-> s] \in Event
    BY DEF Event, Kinds
  <2>2. queue' \in Seq(Event) /\ Len(queue') <= QueueCap
    BY <1>3, <2>1, SupervisorAssumption DEF TimerFires, RestOK
  <2>3. timers' \in [Sessions -> Nat]
    BY <1>3 DEF TimerFires, RestOK
  <2> QED BY <1>3, <2>2, <2>3 DEF TimerFires, RestOK, MapOK, OneAgentPerSession, StopReachesAll, Fresh, loopVars
<1>4. ASSUME Stop PROVE RestOK' /\ MapOK' /\ StopReachesAll' /\ Fresh'
  <2>1. [kind |-> "stop"] \in Event
    BY DEF Event
  <2>2. RestOK'
    BY <1>4, <2>1, OfferTyped DEF Stop, RestOK, loopVars
  <2> QED BY <1>4, <2>2 DEF Stop, MapOK, OneAgentPerSession, StopReachesAll, Fresh, loopVars
<1>5. ASSUME Enumerate PROVE RestOK' /\ MapOK' /\ StopReachesAll' /\ Fresh'
  <2>1. DOMAIN workers = {} /\ ~stopping
    BY <1>5 DEF Enumerate, Fresh
  <2>2. \A s \in connected : ~WorkerOf(s).active
    BY <2>1 DEF WorkerOf, NewWorker
  <2>3. MapOK'
    BY <1>5, <2>2, StartsKeep DEF Enumerate, RestOK
  <2> QED BY <1>5, <2>1, <2>3 DEF Enumerate, RestOK, StopReachesAll, Fresh
<1>6. ASSUME EnumerateFails PROVE RestOK' /\ MapOK' /\ StopReachesAll' /\ Fresh'
  <2>1. RestOK'
    BY <1>6, SpendTyped DEF EnumerateFails, RestOK, Unspent
  <2> QED BY <1>6, <2>1 DEF EnumerateFails, MapOK, OneAgentPerSession, StopReachesAll, Fresh
<1>7. ASSUME HandleEvent PROVE RestOK' /\ MapOK' /\ StopReachesAll' /\ Fresh'
  <2> DEFINE event == Head(queue)
  <2>1. event \in Event /\ queue' \in Seq(Event) /\ Len(queue') <= QueueCap
    BY <1>7, SupervisorAssumption DEF HandleEvent, RestOK
  <2>2. event.kind # "stop" => event.session \in Sessions
    BY <2>1 DEF Event
  <2>3. started /\ started' = started
    BY <1>7 DEF HandleEvent, Looping
  <2>4. stopping' \in BOOLEAN
    BY <1>7 DEF HandleEvent, RestOK
  <2>5. RestOK' /\ Fresh'
    BY <1>7, <2>1, <2>3, <2>4 DEF HandleEvent, RestOK, Fresh
  <2>6. CASE /\ event.kind \in {"activate", "restart"}
             /\ Activate(event.session) /\ UNCHANGED stopping
    <3>1. CASE UNCHANGED <<workers, tasks>>
      <4>1. workers' = workers /\ tasks' = tasks /\ stopping' = stopping
        BY <3>1, <2>6
      <4>2. MapOK'
        BY <4>1 DEF MapOK, OneAgentPerSession
      <4>3. StopReachesAll'
        BY <4>1 DEF StopReachesAll
      <4> QED BY <4>2, <4>3, <2>5
    <3>2. CASE /\ ~stopping /\ ~WorkerOf(event.session).active
               /\ StartAll({event.session})
      <4>1. MapOK'
        BY <2>2, <2>6, <3>2, StartsKeep
      <4>2. ~stopping'
        BY <2>6, <3>2
      <4> QED BY <2>5, <4>1, <4>2 DEF StopReachesAll
    <3>3. \/ UNCHANGED <<workers, tasks>>
          \/ ~stopping /\ ~WorkerOf(event.session).active /\ StartAll({event.session})
      BY <2>6 DEF Activate
    <3> QED BY <3>1, <3>2, <3>3
  <2>7. CASE event.kind = "deactivate" /\ Deactivate(event.session) /\ UNCHANGED stopping
    <3> DEFINE S == {event.session} \cap DOMAIN workers
    <3>1. S \subseteq Sessions /\ CancelAll(S)
      BY <2>7 DEF Deactivate, MapOK
    <3> HIDE DEF S
    <3>2. /\ MapOK'
          /\ \A u \in tasks' : \E t \in tasks :
                /\ u.session = t.session /\ u.state = t.state
                /\ u.cancelled = (t.cancelled \/ t.session \in S)
      BY <3>1, CancelsKeep
    <3>3. StopReachesAll'
      <4> SUFFICES ASSUME stopping', NEW u \in tasks', u.state \in Alive
                   PROVE  u.cancelled
        BY DEF StopReachesAll
      <4>1. PICK t \in tasks :
              /\ u.session = t.session /\ u.state = t.state
              /\ u.cancelled = (t.cancelled \/ t.session \in S)
        BY <3>2
      <4>2. stopping
        BY <2>7
      <4> QED BY <4>1, <4>2 DEF StopReachesAll
    <3> QED BY <2>5, <3>2, <3>3
  <2>8. CASE /\ event.kind = "stop" /\ stopping'
             /\ IF stopping THEN UNCHANGED <<workers, tasks>>
                            ELSE CancelAll(DOMAIN workers)
    <3>1. CASE stopping
      BY <2>5, <2>8, <3>1 DEF MapOK, OneAgentPerSession, StopReachesAll
    <3>2. CASE ~stopping
      <4>1. /\ MapOK'
            /\ \A u \in tasks' : \E t \in tasks :
                  /\ u.session = t.session /\ u.state = t.state
                  /\ u.cancelled = (t.cancelled \/ t.session \in DOMAIN workers)
        BY <2>8, <3>2, CancelsKeep DEF MapOK
      <4>2. \A t \in tasks : t.session \in DOMAIN workers
        BY DEF MapOK, OneAgentPerSession
      <4> QED BY <2>5, <4>1, <4>2 DEF StopReachesAll
    <3> QED BY <3>1, <3>2
  <2> QED BY <1>7, <2>6, <2>7, <2>8, <2>5 DEF HandleEvent
<1>8. ASSUME Finish PROVE RestOK' /\ MapOK' /\ StopReachesAll' /\ Fresh'
  BY <1>8 DEF Finish, RestOK, MapOK, OneAgentPerSession, StopReachesAll, Fresh, loopVars
<1>9. ASSUME NEW t \in tasks, HandleExit(t) PROVE RestOK' /\ MapOK' /\ StopReachesAll' /\ Fresh'
  <2>1. MapOK' /\ tasks' = tasks \ {t}
    BY <1>9, ExitsKeep
  <2>2. timers' \in [Sessions -> Nat]
    BY <1>9 DEF HandleExit, RestOK
  <2>3. RestOK'
    BY <1>9, <2>2 DEF HandleExit, RestOK
  <2> QED BY <1>9, <2>1, <2>3 DEF HandleExit, StopReachesAll, Fresh, Looping
<1>10. ASSUME NEW t \in tasks, Terminate(t) PROVE RestOK' /\ MapOK' /\ StopReachesAll' /\ Fresh'
  <2>1. MapOK' /\ \A u \in tasks' : u \in tasks \/ u.state \notin Alive
    BY <1>10, EndsKeep DEF Terminate, loopVars, Alive
  <2>2. started
    BY DEF Fresh
  <2> QED BY <1>10, <2>1, <2>2 DEF Terminate, RestOK, StopReachesAll, Fresh, loopVars
<1>11. ASSUME NEW t \in tasks, NEW e \in Exits, AgentExits(t, e)
       PROVE  RestOK' /\ MapOK' /\ StopReachesAll' /\ Fresh'
  <2>1. MapOK' /\ \A u \in tasks' : u \in tasks \/ u.state \notin Alive
    BY <1>11, EndsKeep, SupervisorAssumption DEF AgentExits, loopVars, Alive
  <2>2. started
    BY DEF Fresh
  <2>3. spent' \in [DOMAIN Unspent -> Nat]
    BY <1>11, SpendTyped DEF AgentExits, Unspent
  <2> QED BY <1>11, <2>1, <2>2, <2>3 DEF AgentExits, RestOK, StopReachesAll, Fresh, loopVars
<1>12. ASSUME NEW t \in tasks, Spawn(t)
       PROVE  RestOK' /\ MapOK' /\ StopReachesAll' /\ Fresh'
  <2>1. t.state \in Alive /\ UNCHANGED <<connected, status, loopVars, queue, timers>>
    BY <1>12 DEF Spawn, Alive
  <2>2. /\ MapOK'
        /\ \A u \in tasks' : u \in tasks \/ u.cancelled = t.cancelled
    BY <1>12, EndsKeep DEF Spawn, loopVars
  <2>3. StopReachesAll'
    BY <2>1, <2>2 DEF StopReachesAll, loopVars
  <2>4. started
    BY DEF Fresh
  <2>5. spent' \in [DOMAIN Unspent -> Nat]
    BY <1>12, SpendTyped DEF Spawn, RestOK, Unspent
  <2> QED BY <2>1, <2>2, <2>3, <2>4, <2>5 DEF RestOK, Fresh, loopVars
<1>13. CASE UNCHANGED vars
  BY <1>13 DEF vars, loopVars, RestOK, MapOK, OneAgentPerSession, StopReachesAll, Fresh
<1> QED BY <1>1, <1>2, <1>3, <1>4, <1>5, <1>6, <1>7, <1>8, <1>9, <1>10, <1>11, <1>12, <1>13 DEF Next

(* IInv holds in every reachable state.                                    *)
THEOREM Invariance == Spec => []IInv
  BY Initially, Steps, PTL DEF Spec

(* The variables keep their shape; the channel never holds more than its   *)
(* capacity.                                                               *)
THEOREM TypeCorrect == Spec => []TypeOK
<1>1. IInv => TypeOK
  BY DEF IInv
<1> QED BY Invariance, <1>1, PTL

(* A session never has two agents, and no worker task escapes the map.     *)
THEOREM OneAgent == Spec => []OneAgentPerSession
<1>1. IInv => OneAgentPerSession
  BY DEF IInv
<1> QED BY Invariance, <1>1, PTL

(* Once the stop was taken, every agent that runs has been cancelled.      *)
THEOREM StopCancels == Spec => []StopReachesAll
<1>1. IInv => StopReachesAll
  BY DEF IInv
<1> QED BY Invariance, <1>1, PTL

=============================================================================
