----------------------------- MODULE Supervisor -----------------------------
(***************************************************************************)
(* The Windows service of gamiscreen-client                                *)
(* (platform/windows/service.rs): a supervisor that keeps one session agent*)
(* running in every connected session.                                     *)
(*                                                                         *)
(* Windows tells the service of session changes and stops on threads of its*)
(* own, through a bounded channel that is never waited for.  One loop takes*)
(* events from the channel and the results of worker tasks, whichever is   *)
(* ready.  A worker task starts an agent process, waits for it to exit, or *)
(* ends it when it is cancelled.  Ending a process and waiting for one are *)
(* taken to work; creating one may fail.                                   *)
(***************************************************************************)
EXTENDS Integers, Sequences, FiniteSets

CONSTANTS
    Sessions,       \* Windows session ids
    Exits,          \* how an agent may end by itself
    QueueCap,       \* capacity of the channel (32)
    MaxChanges,     \* bound: sessions that connect
    MaxDisconnects, \* bound: sessions that disconnect
    MaxExits        \* bound: agents that end by themselves, and failures of
                    \* the enumeration of sessions

ASSUME SupervisorAssumption ==
    /\ Exits \subseteq {"completed", "failed"}
    /\ QueueCap \in Nat \ {0}
    /\ {MaxChanges, MaxDisconnects, MaxExits} \subseteq Nat

VARIABLES
    connected,  \* sessions that are connected
    status,     \* what the service reports to Windows
    started,    \* the loop has looked for existing sessions
    queue,      \* mpsc channel of ServiceEvents
    workers,    \* SessionSupervisor.workers, by session
    tasks,      \* the JoinSet: running tasks and results not yet taken
    stopping,   \* SessionSupervisor.stopping
    timers,     \* sessions whose restart is waited for, by count
    spent       \* how much of each bound is used up

loopVars == <<started, workers, stopping>>
vars == <<connected, status, started, queue, workers, tasks, stopping, timers,
          spent>>

Kinds == {"activate", "deactivate", "restart"}
Event == [kind : Kinds, session : Sessions] \cup {[kind |-> "stop"]}
Worker == [generation : Nat, active : BOOLEAN, removeOnExit : BOOLEAN]
Alive == {"starting", "running"}
Task == [session : Sessions, generation : Nat, cancelled : BOOLEAN,
         state : Alive \cup {"requested", "completed", "failed"}]
Unspent == [changes |-> 0, disconnects |-> 0, exits |-> 0]

Init ==
    /\ connected \in SUBSET Sessions
    /\ status = "running"
    /\ started = FALSE
    /\ queue = <<>>
    /\ workers = [s \in {} |-> 0]
    /\ tasks = {}
    /\ stopping = FALSE
    /\ timers = [s \in Sessions |-> 0]
    /\ spent = Unspent

Spend(bound, max) ==
    /\ spent[bound] < max
    /\ spent' = [spent EXCEPT ![bound] = @ + 1]

-----------------------------------------------------------------------------
(* Fault: the capacity of the channel is off by one.                       *)
Offer_OneMore(event) ==
    queue' = IF Len(queue) <= QueueCap THEN Append(queue, event) ELSE queue

(* The control handler.  try_send drops the event when the channel is full.*)
Offer(event) ==
    queue' = IF Len(queue) < QueueCap THEN Append(queue, event) ELSE queue

(* Logon, console connect and remote connect; several may tell of one      *)
(* change.                                                                 *)
Connect(s) ==
    /\ status = "running"
    /\ Spend("changes", MaxChanges)
    /\ connected' = connected \cup {s}
    /\ Offer([kind |-> "activate", session |-> s])
    /\ UNCHANGED <<status, loopVars, tasks, timers>>

(* Logoff, console disconnect and remote disconnect.                       *)
Disconnect(s) ==
    /\ status = "running"
    /\ Spend("disconnects", MaxDisconnects)
    /\ connected' = connected \ {s}
    /\ Offer([kind |-> "deactivate", session |-> s])
    /\ UNCHANGED <<status, loopVars, tasks, timers>>

(* A stop or shutdown control: Windows sends no further control.           *)
Stop ==
    /\ status = "running"
    /\ status' = "stopPending"
    /\ Offer([kind |-> "stop"])
    /\ UNCHANGED <<connected, loopVars, tasks, timers, spent>>

-----------------------------------------------------------------------------
(* The supervisor's methods.                                               *)
NewWorker == [generation |-> 0, active |-> FALSE, removeOnExit |-> FALSE]

WorkerOf(s) == IF s \in DOMAIN workers THEN workers[s] ELSE NewWorker

NewTask(s) == [session |-> s, generation |-> WorkerOf(s).generation + 1,
               cancelled |-> FALSE, state |-> "starting"]

(* SessionWorker::start, for each session of S.                            *)
StartAll(S) ==
    /\ workers' = [s \in DOMAIN workers \cup S |->
                     IF s \in S
                       THEN [generation |-> WorkerOf(s).generation + 1,
                             active |-> TRUE, removeOnExit |-> FALSE]
                       ELSE workers[s]]
    /\ tasks' = tasks \cup {NewTask(s) : s \in S}

(* The cancel token of every worker of S, and its removal when it exits.   *)
CancelAll(S) ==
    /\ workers' = [s \in DOMAIN workers |->
                     IF s \in S THEN [workers[s] EXCEPT !.removeOnExit = TRUE]
                                ELSE workers[s]]
    /\ tasks' = {IF /\ t.session \in S
                    /\ t.generation = WorkerOf(t.session).generation
                   THEN [t EXCEPT !.cancelled = TRUE]
                   ELSE t : t \in tasks}

(* Fault: a stopping service starts workers.                               *)
Activate_Stopping(s) ==
    IF WorkerOf(s).active
      THEN UNCHANGED <<workers, tasks>>
      ELSE StartAll({s})

(* activate_session: a worker that is active is left alone, also when it   *)
(* has been cancelled.                                                     *)
Activate(s) ==
    IF stopping \/ WorkerOf(s).active
      THEN UNCHANGED <<workers, tasks>>
      ELSE StartAll({s})

Removed(s) == [r \in DOMAIN workers \ {s} |-> workers[r]]

(* Fault: forgets the worker before it has exited.                         *)
Deactivate_Forgets(s) ==
    /\ tasks' = {IF t.session = s THEN [t EXCEPT !.cancelled = TRUE] ELSE t :
                   t \in tasks}
    /\ workers' = Removed(s)

Deactivate(s) == CancelAll({s} \cap DOMAIN workers)

-----------------------------------------------------------------------------
(* The loop.  It starts with the sessions that are there already, unless   *)
(* Windows does not tell.                                                  *)
Enumerate ==
    /\ ~started
    /\ started' = TRUE
    /\ StartAll(connected)
    /\ UNCHANGED <<connected, status, queue, stopping, timers, spent>>

EnumerateFails ==
    /\ ~started
    /\ Spend("exits", MaxExits)
    /\ started' = TRUE
    /\ UNCHANGED <<connected, status, queue, workers, tasks, stopping, timers>>

(* The loop is left when the service stops and nothing runs any more.      *)
Finished == stopping /\ tasks = {} /\ DOMAIN workers = {}

Looping == started /\ status # "stopped" /\ ~Finished

HandleEvent ==
    /\ Looping
    /\ queue # <<>>
    /\ LET event == Head(queue) IN
         \/ /\ event.kind \in {"activate", "restart"}
            /\ Activate(event.session)
            /\ UNCHANGED stopping
         \/ /\ event.kind = "deactivate"
            /\ Deactivate(event.session)
            /\ UNCHANGED stopping
         \/ /\ event.kind = "stop"
            /\ stopping' = TRUE
            /\ IF stopping THEN UNCHANGED <<workers, tasks>>
                           ELSE CancelAll(DOMAIN workers)
    /\ queue' = Tail(queue)
    /\ UNCHANGED <<connected, status, started, timers, spent>>

(* Fault: a worker that was cancelled is kept for another start.           *)
Leaves_Kept(t) == t.state = "failed" /\ stopping

(* The worker is removed instead of kept for another start.                *)
Leaves(t) ==
    \/ workers[t.session].removeOnExit
    \/ t.state = "failed" /\ stopping

(* A failed worker that is kept is started again after a delay.            *)
Retried(t) == t.state = "failed" /\ ~Leaves(t)

(* handle_exit, for a worker task that returned.  One that panics is taken *)
(* from the set and nothing else is done: its worker stays active without a*)
(* task.  Nothing in the task is meant to panic, and the model has none.   *)
HandleExit(t) ==
    /\ Looping
    /\ t.state \notin Alive
    /\ tasks' = tasks \ {t}
    /\ IF t.session \in DOMAIN workers
          /\ workers[t.session].generation = t.generation
         THEN /\ workers' = IF Leaves(t) THEN Removed(t.session)
                            ELSE [workers EXCEPT ![t.session].active = FALSE]
              /\ timers' = IF Retried(t)
                             THEN [timers EXCEPT ![t.session] = @ + 1]
                             ELSE timers
         ELSE UNCHANGED <<workers, timers>>
    /\ UNCHANGED <<connected, status, started, queue, stopping, spent>>

(* Fault: the restart is dropped when the channel is full.                 *)
TimerFires_Drops(s) ==
    /\ status # "stopped"
    /\ timers[s] > 0
    /\ timers' = [timers EXCEPT ![s] = @ - 1]
    /\ Offer([kind |-> "restart", session |-> s])
    /\ UNCHANGED <<connected, status, loopVars, tasks, spent>>

(* A delay is over; the event waits for room in the channel.               *)
TimerFires(s) ==
    /\ status # "stopped"
    /\ timers[s] > 0
    /\ Len(queue) < QueueCap
    /\ timers' = [timers EXCEPT ![s] = @ - 1]
    /\ queue' = Append(queue, [kind |-> "restart", session |-> s])
    /\ UNCHANGED <<connected, status, loopVars, tasks, spent>>

Finish ==
    /\ started /\ Finished
    /\ status # "stopped"
    /\ status' = "stopped"
    /\ UNCHANGED <<connected, loopVars, queue, tasks, timers, spent>>

-----------------------------------------------------------------------------
(* session_worker_task.                                                    *)
Becomes(t, state) == tasks' = (tasks \ {t}) \cup {[t EXCEPT !.state = state]}

(* spawn_session_agent creates the process as the user of the session; it  *)
(* does not look whether the worker was cancelled meanwhile.               *)
Spawn(t) ==
    /\ t.state = "starting"
    /\ \/ Becomes(t, "running") /\ UNCHANGED spent
       \/ Becomes(t, "failed") /\ Spend("exits", MaxExits)
    /\ UNCHANGED <<connected, status, loopVars, queue, timers>>

(* The agent exits.                                                        *)
AgentExits(t, state) ==
    /\ t.state = "running"
    /\ Spend("exits", MaxExits)
    /\ Becomes(t, state)
    /\ UNCHANGED <<connected, status, loopVars, queue, timers>>

(* The agent of a cancelled worker is terminated.                          *)
Terminate(t) ==
    /\ t.state = "running" /\ t.cancelled
    /\ Becomes(t, "requested")
    /\ UNCHANGED <<connected, status, loopVars, queue, timers, spent>>

Next ==
    \/ \E s \in Sessions : Connect(s) \/ Disconnect(s) \/ TimerFires(s)
    \/ Stop
    \/ Enumerate \/ EnumerateFails \/ HandleEvent \/ Finish
    \/ \E t \in tasks :
         \/ HandleExit(t) \/ Spawn(t) \/ Terminate(t)
         \/ \E e \in Exits : AgentExits(t, e)

Spec == Init /\ [][Next]_vars

(* select! takes either side when both are ready; sleeping tasks and worker*)
(* tasks are polled when they are due.  Nothing is assumed of Windows, and *)
(* an agent need not ever exit.                                            *)
Fairness ==
    /\ WF_vars(Enumerate \/ EnumerateFails)
    /\ WF_vars(HandleEvent)
    /\ WF_vars(\E t \in tasks : HandleExit(t))
    /\ WF_vars(\E t \in tasks : Spawn(t))
    /\ WF_vars(\E t \in tasks : Terminate(t))
    /\ WF_vars(Finish)
    /\ \A s \in Sessions : WF_vars(TimerFires(s))

FairSpec == Spec /\ Fairness

-----------------------------------------------------------------------------
(* The shape of every variable.                                            *)
TypeOK ==
    /\ connected \subseteq Sessions
    /\ status \in {"running", "stopPending", "stopped"}
    /\ started \in BOOLEAN
    /\ queue \in Seq(Event) /\ Len(queue) <= QueueCap
    /\ DOMAIN workers \subseteq Sessions
    /\ workers \in [DOMAIN workers -> Worker]
    /\ tasks \subseteq Task
    /\ stopping \in BOOLEAN
    /\ timers \in [Sessions -> Nat]
    /\ spent \in [DOMAIN Unspent -> Nat]

(* Fast user switching, failures and late exits never put two agents into a*)
(* session, and no task escapes the map: the worker of a session is active *)
(* exactly while it has a task, of its own generation.                     *)
OneAgentPerSession ==
    /\ \A t \in tasks :
         /\ t.session \in DOMAIN workers
         /\ workers[t.session].active
         /\ workers[t.session].generation = t.generation
    /\ \A t, u \in tasks : t.session = u.session => t = u
    /\ \A s \in DOMAIN workers :
         workers[s].active => \E t \in tasks : t.session = s

(* Once the stop was taken from the channel every agent is on its way out: *)
(* no queued connect, restart timer or late exit starts one behind its back*)
StopReachesAll ==
    stopping => \A t \in tasks : t.state \in Alive => t.cancelled

(* A stop or shutdown ends: "on ... service stop, the supervisor terminates*)
(* the session agent" (docs/WINDOWS.md, Lifecycle 4) and is done.          *)
StopCompletes == status = "stopPending" ~> status = "stopped"

(* The part of it that holds: a stop that found room in the channel is     *)
(* taken from it, and when every worker then has a task, starting, running,*)
(* failed, completed or cancelled, the service ends, whatever comes after. *)
StopEndsWithTasks ==
    /\ (\E i \in DOMAIN queue : queue[i].kind = "stop") ~> stopping
    /\ (stopping /\ \A s \in DOMAIN workers : workers[s].active)
           ~> status = "stopped"

Running(s) ==
    \E t \in tasks : t.session = s /\ t.state = "running" /\ ~t.cancelled

(* The agent of s failed, and no cancel of it was taken or is in the       *)
(* channel.                                                                *)
FailedAlone(s) ==
    /\ \E t \in tasks : t.session = s /\ t.state = "failed"
    /\ ~workers[s].removeOnExit
    /\ [kind |-> "deactivate", session |-> s] \notin {queue[i] : i \in DOMAIN queue}

(* A session whose agent failed of itself has an agent again without any   *)
(* session change, however full the channel and whatever other sessions do,*)
(* unless it disconnects or the service stops.                             *)
FailedAgentReturns ==
    \A s \in Sessions :
        (s \in connected /\ FailedAlone(s))
            ~> (Running(s) \/ s \notin connected \/ status # "running")

=============================================================================
