-------------------------------- MODULE Agent -------------------------------
(***************************************************************************)
(* The session agent of the client (gamiscreen-client/src/app/agent.rs) on *)
(* one device, with the network to the server, the server's accounting of  *)
(* that device and the child at the screen.                                *)
(*                                                                         *)
(* Each minute the agent adds the minute to a log of pending minutes, kept *)
(* in memory and on disk, and reports the whole log in a heartbeat.  It    *)
(* locks the screen again and again while no minutes remain, or when       *)
(* FailFuse heartbeats in a row have failed.                               *)
(***************************************************************************)
EXTENDS Integers, FiniteSets

CONSTANTS
    None,         \* no value
    Error,        \* the answer of a server that refuses
    FailFuse,     \* failed heartbeats until the failsafe (5)
    WindowPast,   \* oldest minute the server accepts (7 days)
    Start,        \* minutes the child has at the beginning
    Rewards,      \* minutes a parent may grant
    MaxMinute,    \* bound: the clock stops here
    MaxRewards,   \* bound: rewards granted
    MaxCrashes,   \* bound: deaths of the agent
    MaxFaults     \* bound: failed writes of the log and failed lock queries

(* What a torn line of the log reads as: a number with digits missing, far *)
(* before every minute the server accepts.                                 *)
Torn == -(WindowPast + 1)

ASSUME AgentAssumption ==
    /\ None \notin Int /\ Error \notin Int /\ Error # None
    /\ FailFuse \in Nat \ {0}
    /\ WindowPast \in Nat /\ MaxMinute \in Nat
    /\ Start \in Int /\ Rewards \subseteq Int
    /\ MaxRewards \in Nat /\ MaxCrashes \in Nat /\ MaxFaults \in Nat

VARIABLES
    now,        \* minutes since the epoch, on both machines
    granted,    \* server: minutes ever granted
    remaining,  \* server: balances.minutes_remaining
    charged,    \* server: usage_minutes of this device
    late,       \* heartbeats on the network that nobody waits for
    news,       \* the remaining minutes in an event on the SSE stream
    up,         \* the agent runs
    stage,      \* where main_loop is
    pending,    \* PendingMinutes.minutes
    disk,       \* pending-minutes.log
    batch,      \* the minutes in the heartbeat that is waited for
    onWire,     \* that heartbeat has not reached the server
    reply,      \* its answer: the remaining minutes, or an Error
    failures,   \* failed heartbeats in a row
    relock,     \* the re-lock loop runs
    locked,     \* the session is locked
    used,       \* the minutes the agent has counted
    spent       \* how much of each bound is used up

server == <<granted, remaining, charged>>
network == <<late, news>>
request == <<batch, onWire, reply>>
agent == <<up, stage, pending, request, failures, relock>>
vars == <<now, server, network, agent, disk, locked, used, spent>>

Minutes == 0..MaxMinute
Logged == Minutes \cup {Torn}
Unspent == [rewards |-> 0, crashes |-> 0, faults |-> 0]

Init ==
    /\ now = 0
    /\ granted = Start /\ remaining = Start /\ charged = {}
    /\ late = {} /\ news = None
    /\ up = TRUE /\ stage = "sleep"
    /\ pending = {} /\ disk = {}
    /\ batch = {} /\ onWire = FALSE /\ reply = None
    /\ failures = 0
    /\ relock = FALSE /\ locked = FALSE
    /\ used = {}
    /\ spent = Unspent

Spend(bound, max) ==
    /\ spent[bound] < max
    /\ spent' = [spent EXCEPT ![bound] = @ + 1]

-----------------------------------------------------------------------------
(* The log on disk.  fs::write truncates the file and writes it anew, in   *)
(* order: when it is cut short a prefix is left, perhaps with a torn line. *)
Prefixes(log) ==
    LET before(k) == {m \in log : m < k} IN
    {before(k) : k \in log} \cup {before(k) \cup {Torn} : k \in log}

(* save succeeds, or fails where the agent sees the error.                 *)
Saved(log) == disk' = log /\ UNCHANGED spent
NotSaved(log) ==
    /\ Spend("faults", MaxFaults)
    /\ disk' \in {disk} \cup Prefixes(log)

-----------------------------------------------------------------------------
(* main_loop wakes up in an unlocked session.  A locked one is skipped, or *)
(* taken for unlocked when the query for its state fails.                  *)
Wake ==
    /\ up /\ stage = "sleep"
    /\ \/ ~locked /\ UNCHANGED spent
       \/ locked /\ Spend("faults", MaxFaults)
    /\ stage' = "insert"
    /\ UNCHANGED <<now, server, network, up, pending, request, failures,
                   relock, disk, locked, used>>

(* PendingMinutes::insert: an error of save is logged, the minute stays.   *)
Insert ==
    LET log == pending \cup {now} IN
    /\ up /\ stage = "insert"
    /\ stage' = "send"
    /\ used' = used \cup {now}
    /\ pending' = log
    /\ IF now \in pending THEN UNCHANGED <<disk, spent>>
                          ELSE Saved(log) \/ NotSaved(log)
    /\ UNCHANGED <<now, server, network, up, request, failures, relock,
                   locked>>

(* send_pending posts the whole log.                                       *)
Send ==
    /\ up /\ stage = "send"
    /\ stage' = "wait"
    /\ batch' = pending
    /\ onWire' = TRUE
    /\ reply' = None
    /\ UNCHANGED <<now, server, network, up, pending, failures, relock, disk,
                   locked, used, spent>>

(* What the relocker does with a number of remaining minutes.              *)
Enforce(minutes) == relock' = (minutes <= 0)

(* The iteration ends; what was in flight for it is forgotten.             *)
Sleep ==
    /\ stage' = "sleep"
    /\ batch' = {} /\ onWire' = FALSE /\ reply' = None

(* The heartbeat was answered.                                             *)
Acknowledged ==
    /\ up /\ stage = "wait" /\ reply \in Int
    /\ pending' = pending \ batch
    /\ Saved(pending')
    /\ failures' = 0
    /\ Enforce(reply)
    /\ Sleep
    /\ UNCHANGED <<now, server, network, up, locked, used>>

(* Fault: at the fuse the count starts again and nothing is locked.        *)
Fail_NoFuse ==
    /\ failures' = IF failures + 1 = FailFuse THEN 0 ELSE failures + 1
    /\ UNCHANGED relock

(* Fault: the failsafe trips one failure late.                             *)
Fail_OffByOne ==
    IF failures + 1 > FailFuse
      THEN failures' = 0 /\ relock' = TRUE
      ELSE failures' = failures + 1 /\ UNCHANGED relock

(* A failed heartbeat; the failsafe trips at the fuse.                     *)
Fail ==
    IF failures + 1 >= FailFuse
      THEN failures' = 0 /\ relock' = TRUE
      ELSE failures' = failures + 1 /\ UNCHANGED relock

(* The server refused the heartbeat, or never answered: the connection is  *)
(* lost or the request times out, and it may still arrive one day.         *)
Refused ==
    /\ up /\ stage = "wait"
    /\ reply = Error
    /\ Fail
    /\ Sleep
    /\ UNCHANGED <<now, server, network, up, pending, disk, locked, used,
                   spent>>

(* Fault: the minutes of a failed heartbeat are marked as sent.            *)
GiveUp_Marks ==
    /\ up /\ stage = "wait"
    /\ reply # Error
    /\ late' = IF onWire THEN late \cup {batch} ELSE late
    /\ pending' = pending \ batch
    /\ disk' = pending'
    /\ Fail
    /\ Sleep
    /\ UNCHANGED <<now, server, news, up, locked, used, spent>>

GiveUp ==
    /\ up /\ stage = "wait"
    /\ reply # Error
    /\ late' = IF onWire THEN late \cup {batch} ELSE late
    /\ Fail
    /\ Sleep
    /\ UNCHANGED <<now, server, news, up, pending, disk, locked, used, spent>>

(* mark_sent cannot save: the minutes are put back and the heartbeat counts*)
(* as failed.                                                              *)
NotMarked ==
    /\ up /\ stage = "wait" /\ reply \in Int
    /\ NotSaved(pending \ batch)
    /\ Fail
    /\ Sleep
    /\ UNCHANGED <<now, server, network, up, pending, locked, used>>

-----------------------------------------------------------------------------
(* The re-lock loop and the events it listens to.                          *)
Relock ==
    /\ up /\ relock /\ ~locked
    /\ locked' = TRUE
    /\ UNCHANGED <<now, server, network, agent, disk, used, spent>>

Deliver ==
    /\ up /\ news # None
    /\ Enforce(news)
    /\ news' = None
    /\ UNCHANGED <<now, server, late, up, stage, pending, request, failures,
                   disk, locked, used, spent>>

(* The agent dies, possibly while it writes the log; systemd restarts it.  *)
Crash ==
    /\ up
    /\ Spend("crashes", MaxCrashes)
    /\ up' = FALSE
    /\ stage' = "sleep" /\ batch' = {} /\ onWire' = FALSE /\ reply' = None
    /\ late' = IF onWire THEN late \cup {batch} ELSE late
    /\ pending' = {} /\ failures' = 0 /\ relock' = FALSE
    /\ UNCHANGED <<now, server, news, disk, locked, used>>

CrashInSave ==
    /\ up
    /\ spent.faults < MaxFaults /\ spent.crashes < MaxCrashes
    /\ spent' = [spent EXCEPT !.faults = @ + 1, !.crashes = @ + 1]
    /\ \/ /\ stage = "insert" /\ now \notin pending
          /\ disk' \in Prefixes(pending \cup {now})
          /\ used' = used \cup {now}
       \/ /\ stage = "wait" /\ reply \in Int
          /\ disk' \in Prefixes(pending \ batch)
          /\ UNCHANGED used
    /\ up' = FALSE
    /\ stage' = "sleep" /\ batch' = {} /\ onWire' = FALSE /\ reply' = None
    /\ pending' = {} /\ failures' = 0 /\ relock' = FALSE
    /\ UNCHANGED <<now, server, network, locked>>

(* PendingMinutes::load.                                                   *)
Restart ==
    /\ ~up
    /\ up' = TRUE
    /\ pending' = disk
    /\ UNCHANGED <<now, server, network, stage, request, failures, relock,
                   disk, locked, used, spent>>

-----------------------------------------------------------------------------
(* Fault: a minute of any age is accepted.                                 *)
InWindow_AnyAge(log) == TRUE

(* The server.  process_usage_minutes rejects a batch with a minute that is*)
(* too old and otherwise charges the minutes that are new.                 *)
InWindow(log) == \A m \in log : m >= now - WindowPast

(* Fault: charges the minutes it was already told about.                   *)
Charge_Again(log) ==
    /\ charged' = charged \cup log
    /\ remaining' = remaining - Cardinality(log)
    /\ UNCHANGED granted

Charge(log) ==
    /\ charged' = charged \cup log
    /\ remaining' = remaining - Cardinality(log \ charged)
    /\ UNCHANGED granted

Serve ==
    /\ onWire
    /\ onWire' = FALSE
    /\ IF InWindow(batch) THEN Charge(batch) /\ reply' = remaining'
                          ELSE reply' = Error /\ UNCHANGED server
    /\ UNCHANGED <<now, network, up, stage, pending, batch, failures, relock,
                   disk, locked, used, spent>>

(* A heartbeat nobody waits for arrives, or is lost.                       *)
ServeLate ==
    /\ \E log \in late :
         /\ late' = late \ {log}
         /\ IF InWindow(log) THEN Charge(log) ELSE UNCHANGED server
    /\ UNCHANGED <<now, news, agent, disk, locked, used, spent>>

Lose ==
    /\ \/ \E log \in late : late' = late \ {log} /\ UNCHANGED news
       \/ news # None /\ news' = None /\ UNCHANGED late
    /\ UNCHANGED <<now, server, agent, disk, locked, used, spent>>

(* An event leaves the server; it may be overtaken by what happens next.   *)
Announce ==
    /\ news = None
    /\ news' = remaining
    /\ UNCHANGED <<now, server, late, agent, disk, locked, used, spent>>

Reward(g) ==
    /\ Spend("rewards", MaxRewards)
    /\ granted' = granted + g
    /\ remaining' = remaining + g
    /\ UNCHANGED <<now, charged, network, agent, disk, locked, used>>

-----------------------------------------------------------------------------
(* The child locks or unlocks the session; time passes.                    *)
Child ==
    /\ locked' = ~locked
    /\ UNCHANGED <<now, server, network, agent, disk, used, spent>>

Tick ==
    /\ now < MaxMinute
    /\ now' = now + 1
    /\ UNCHANGED <<server, network, agent, disk, locked, used, spent>>

Next ==
    \/ Wake \/ Insert \/ Send \/ Acknowledged \/ Refused \/ GiveUp \/ NotMarked
    \/ Relock \/ Deliver \/ Crash \/ CrashInSave \/ Restart
    \/ Serve \/ ServeLate \/ Lose \/ Announce \/ \E g \in Rewards : Reward(g)
    \/ Child \/ Tick

Spec == Init /\ [][Next]_vars

(* The agent's tasks are scheduled, a request ends by its timeout of 180   *)
(* seconds at the latest, and systemd starts the agent again.  Nothing is  *)
(* assumed of the server, the network or the child.                        *)
Fairness ==
    /\ WF_vars(~locked /\ Wake) /\ WF_vars(Insert) /\ WF_vars(Send)
    /\ WF_vars(Acknowledged \/ Refused \/ GiveUp)
    /\ WF_vars(Relock) /\ WF_vars(Restart)

FairSpec == Spec /\ Fairness

-----------------------------------------------------------------------------
(* The shape of every variable.                                            *)
TypeOK ==
    /\ now \in Minutes
    /\ granted \in Int /\ remaining \in Int
    /\ charged \subseteq Minutes
    /\ late \subseteq SUBSET Logged
    /\ news \in Int \cup {None}
    /\ up \in BOOLEAN
    /\ stage \in {"sleep", "insert", "send", "wait"}
    /\ pending \subseteq Logged
    /\ disk \subseteq Logged
    /\ batch \subseteq Logged
    /\ onWire \in BOOLEAN
    /\ reply \in Int \cup {None, Error}
    /\ failures \in 0..(FailFuse - 1)
    /\ relock \in BOOLEAN
    /\ locked \in BOOLEAN
    /\ used \subseteq Minutes
    /\ spent \in [DOMAIN Unspent -> Nat]

(* The abstract promise: through lost requests and answers, late arrivals, *)
(* retries, torn logs and crashes, a minute is charged at most once and    *)
(* only if it was used.                                                    *)
Promise == INSTANCE Metering
             WITH Minutes <- Minutes, Rewards <- Rewards, used <- used,
                  charged <- charged, granted <- granted,
                  remaining <- remaining
MeteringSpec == Promise!Spec

(* No death of the agent, lost answer or refusal loses a minute while the  *)
(* log can be written whole: what is not charged is on disk.               *)
NoMinuteForgotten == spent.faults = 0 => used \subseteq charged \cup disk

(* Out of time, the session is locked again and again, however often the   *)
(* child unlocks it, with or without a server, and whatever stale event    *)
(* arrives.                                                                *)
OutOfTimeLocks == <>[](remaining <= 0) => []<>locked

(* The failsafe is for an unreachable server (docs/ARCHITECTURE.md:26, "or *)
(* the server is unreachable for ~5 minutes"): an answer of the server,    *)
(* also one that refuses the heartbeat, never starts the re-lock loop.     *)
ReachableServerNeverTrips == [][~relock /\ relock' => reply # Error]_vars

=============================================================================
