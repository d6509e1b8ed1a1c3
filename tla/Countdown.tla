------------------------------ MODULE Countdown ------------------------------
(***************************************************************************)
(* Timing in the session agent (gamiscreen-client/src/app/agent.rs): the   *)
(* heartbeat loop, the countdown task with its channel and timer, the      *)
(* re-locker, the task that takes events of the server, and the one        *)
(* notification on the screen that they share.                             *)
(*                                                                         *)
(* Time passes in units (20 seconds, say), and only when no task has       *)
(* anything to do at once: what tasks do between their waits takes no time *)
(* but happens in any order.  A heartbeat takes up to its timeout.  What is*)
(* charged for a heartbeat is in Agent; here the server may tell anything. *)
(***************************************************************************)
EXTENDS Integers, Sequences

CONSTANTS
    None,       \* nothing
    Interval,   \* HEARTBEAT_INTERVAL_SECS, one minute, in units
    Warn,       \* WARN_BEFORE_LOCK_SECS, in units
    Caution,    \* CAUTION_BEFORE_LOCK_SECS, in units
    Grace,      \* RELOCK_INITIAL_DELAY_SECS, in units
    Decrement,  \* RELOCK_DELAY_DECREMENT_PER_MINUTE, in units
    Poll,       \* RELOCK_POLL_INTERVAL, in units
    Timeout,    \* of a request, in units
    FailFuse,   \* failed heartbeats until the failsafe
    Cap,        \* capacity of the countdown task's channel
    MaxLeft,    \* bound: minutes of the child; 0 is none left, or fewer
    MaxFaults   \* bound: failed locks and failed queries of the lock state

Minutes == 0 .. MaxLeft
Lesser(a, b) == IF a < b THEN a ELSE b
Greater(a, b) == IF a > b THEN a ELSE b

(* What the countdown task and the re-locker know while they run.          *)
ScheduleType == [warn : 0 .. MaxLeft * Interval, caution : BOOLEAN]
RelockerType ==
    [at : {"lock", "look", "again"}, wait : 0 .. Greater(Grace, Poll),
     age : Nat, shows : BOOLEAN, told : BOOLEAN]

ASSUME CountdownAssumption ==
    /\ {Interval, Warn, Caution, Decrement, Poll, FailFuse, Cap}
         \subseteq Nat \ {0}
    /\ {Grace, Timeout, MaxLeft, MaxFaults} \subseteq Nat
    /\ Warn < Interval /\ Interval <= Timeout
    /\ None \notin Int \cup BOOLEAN \cup ScheduleType \cup RelockerType

VARIABLES
    locked,    \* the session is locked
    notice,    \* the notification that is shown
    main,      \* main_loop: its stage, answer, failures and units to wait
    channel,   \* commands to the countdown task: minutes, or 0 to cancel
    schedule,  \* units until the warning; whether caution was shown
    listener,  \* what the event task does
    relocker,  \* the re-lock task, if any
    faults,    \* failed locks and queries so far
    told,      \* history: the minutes the server told last, if it did so
               \*   in time and told them once
    warned,    \* history: units since the warning after that
    silent,    \* history: units since the server was heard, or locked out
    open       \* history: units the session was unlocked under the re-locker

past == <<told, warned, silent, open>>
vars == <<locked, notice, main, channel, schedule, listener,
          relocker, faults, past>>

Init ==
    /\ locked = FALSE
    /\ notice = None
    /\ main = [at |-> "sleep", answer |-> None, failures |-> 0, rest |-> 0,
               waited |-> 0]
    /\ channel = <<>>
    /\ schedule = None
    /\ listener = None
    /\ relocker = None
    /\ faults = 0
    /\ told = None /\ warned = None /\ silent = 0 /\ open = 0

Fault ==
    /\ faults < MaxFaults
    /\ faults' = faults + 1

(* The Notifier: there is one notification, and whoever shows one replaces *)
(* it.                                                                     *)
Display(text) == notice' = text
Close == notice' = None

-----------------------------------------------------------------------------
(* Fault: the delay falls below zero.                                      *)
Delay_BelowZero(age) == Grace - Decrement * (age \div Interval)

(* The re-lock task.  relock_delay falls with every minute of its life.    *)
Delay(age) == Greater(Grace - Decrement * (age \div Interval), 0)

(* A task that was just spawned; shows says that it has overtime to show.  *)
Spawned(shows) ==
    [at |-> "lock", wait |-> 0, age |-> 0, shows |-> shows, told |-> FALSE]

(* platform.lock has login1 lock every graphical session of the user, and  *)
(* then comes the next look.  An error of a call is logged, a session that *)
(* refuses is passed over: in both cases the session may stay unlocked.    *)
TryLock(wait) ==
    /\ \/ locked' = TRUE /\ open' = 0 /\ UNCHANGED faults
       \/ Fault /\ UNCHANGED <<locked, open>>
    /\ relocker' = [relocker EXCEPT !.at = "look", !.wait = wait]

Relock ==
    /\ relocker # None /\ relocker.wait = 0
    /\ \/ relocker.at = "lock" /\ TryLock(0)
       \/ relocker.at = "again" /\ TryLock(Poll)
    /\ UNCHANGED <<notice, main, channel, schedule, listener,
                   told, warned, silent>>

(* Fault: the grace starts anew with every look.                           *)
Look_Patient ==
    /\ relocker # None /\ relocker.wait = 0 /\ relocker.at = "look"
    /\ IF locked
         THEN /\ relocker' = [relocker EXCEPT !.wait = Poll, !.told = FALSE]
              /\ UNCHANGED notice
         ELSE /\ relocker' = [relocker EXCEPT !.at = "again", !.wait = Grace,
                                !.told = @ \/ relocker.shows]
              /\ notice' = IF relocker.shows /\ ~relocker.told
                             THEN "overtime" ELSE notice
    /\ UNCHANGED <<locked, main, channel, schedule, listener,
                   faults, past>>

(* is_session_locked asks the first of three services that is there.  A    *)
(* call that fails is an error (None); the session counts as unlocked when *)
(* none is there or the answer is not a Boolean.                           *)
Query(answer) ==
    \/ answer = locked /\ UNCHANGED faults
    \/ answer # locked /\ answer \in {FALSE, None} /\ Fault

(* A session found unlocked is locked after a grace.                       *)
Look ==
    /\ relocker # None /\ relocker.wait = 0 /\ relocker.at = "look"
    /\ \/ /\ Query(TRUE)
          /\ relocker' = [relocker EXCEPT !.wait = Poll, !.told = FALSE]
          /\ UNCHANGED notice
       \/ /\ Query(FALSE)
          /\ relocker' = [relocker EXCEPT !.at = "again",
                            !.wait = Delay(relocker.age),
                            !.told = @ \/ relocker.shows]
          /\ IF relocker.shows /\ ~relocker.told THEN Display("overtime")
                                                 ELSE UNCHANGED notice
       \/ /\ Query(None)
          /\ relocker' = [relocker EXCEPT !.wait = Poll]
          /\ UNCHANGED notice
    /\ UNCHANGED <<locked, main, channel, schedule, listener, past>>

-----------------------------------------------------------------------------
(* The heartbeat loop.                                                     *)
MainGoes(stage) == main' = [main EXCEPT !.at = stage]
Sleep == main' = [main EXCEPT !.at = "sleep", !.answer = None]
Room == Len(channel) < Cap
Heard == silent' = 0
Forget == told' = None /\ warned' = None

(* A locked session is skipped, after the countdown was cancelled; an error*)
(* of the query counts as unlocked.                                        *)
Skip ==
    /\ main.at = "sleep" /\ main.rest = 0
    /\ Query(TRUE) /\ Room
    /\ channel' = Append(channel, 0)
    /\ main' = [main EXCEPT !.rest = Interval]
    /\ Heard
    /\ Forget
    /\ UNCHANGED <<locked, notice, schedule, listener, relocker, open>>

Beat ==
    /\ main.at = "sleep" /\ main.rest = 0
    /\ Query(FALSE) \/ Query(None)
    /\ main' = [main EXCEPT !.at = "beat", !.rest = Interval]
    /\ UNCHANGED <<locked, notice, channel, schedule, listener,
                   relocker, past>>

(* The heartbeat is answered.                                              *)
Answer(minutes) ==
    /\ main.at = "beat"
    /\ main' = [main EXCEPT !.at = "tell", !.answer = minutes,
                            !.failures = 0, !.waited = 0]
    /\ Heard
    /\ IF minutes = 0 THEN UNCHANGED <<told, warned>>
       ELSE told' = (IF main.waited = 0 THEN minutes ELSE None) /\ warned' = None
    /\ UNCHANGED <<locked, notice, channel, schedule, listener, relocker,
                   faults, open>>

(* CountdownTask::tick or cancel.                                          *)
Tell ==
    /\ main.at = "tell" /\ Room
    /\ channel' = Append(channel, main.answer)
    /\ MainGoes(IF main.answer > 0 THEN "abort" ELSE "enable")
    /\ UNCHANGED <<locked, notice, schedule, listener, relocker,
                   faults, past>>

(* ReLocker::disable aborts the task and then hides the notification.      *)
Abort == relocker' = None /\ open' = 0

Disable ==
    /\ main.at = "abort"
    /\ Abort
    /\ MainGoes("hide")
    /\ UNCHANGED <<locked, notice, channel, schedule, listener,
                   faults, told, warned, silent>>

(* Fault: only the re-locker's own notification is hidden.                 *)
Hide_Unscheduled ==
    /\ main.at = "hide"
    /\ notice' = IF notice = "overtime" THEN None ELSE notice
    /\ Sleep
    /\ UNCHANGED <<locked, channel, schedule, listener, relocker,
                   faults, past>>

Hide ==
    /\ main.at = "hide"
    /\ Close
    /\ Sleep
    /\ UNCHANGED <<locked, channel, schedule, listener, relocker,
                   faults, past>>

(* ReLocker::enable: a task that runs is kept, and told by a notification. *)
Enable ==
    /\ main.at = "enable"
    /\ IF relocker = None
         THEN relocker' = Spawned(main.answer # None) /\ Heard /\ Sleep
         ELSE /\ IF main.answer = None THEN Sleep ELSE MainGoes("show")
              /\ UNCHANGED <<relocker, silent>>
    /\ Forget
    /\ UNCHANGED <<locked, notice, channel, schedule, listener, faults, open>>

Show ==
    /\ main.at = "show"
    /\ Display("overtime")
    /\ Sleep
    /\ UNCHANGED <<locked, channel, schedule, listener, relocker,
                   faults, past>>

(* Fault: only heartbeats that ran into the timeout are counted.           *)
Fail_Timeouts ==
    LET failures == IF main.waited < Timeout THEN main.failures
                                             ELSE main.failures + 1 IN
    /\ main.at = "beat"
    /\ main' = IF failures >= FailFuse
                 THEN [main EXCEPT !.at = "enable", !.failures = 0, !.waited = 0]
                 ELSE [main EXCEPT !.at = "sleep", !.waited = 0, !.failures = failures]
    /\ Forget
    /\ UNCHANGED <<locked, notice, channel, schedule, listener,
                   relocker, faults, silent, open>>

(* The heartbeat fails, or is answered too late.                           *)
Fail ==
    /\ main.at = "beat"
    /\ main' = IF main.failures + 1 >= FailFuse
                 THEN [main EXCEPT !.at = "enable", !.failures = 0, !.waited = 0]
                 ELSE [main EXCEPT !.at = "sleep", !.waited = 0, !.failures = @ + 1]
    /\ Forget
    /\ UNCHANGED <<locked, notice, channel, schedule, listener,
                   relocker, faults, silent, open>>

-----------------------------------------------------------------------------
(* Fault: an update keeps the warning that was scheduled.                  *)
Scheduled_Keeps(minutes, caution) ==
    [warn |-> IF schedule = None THEN Greater(minutes * Interval - Warn, 0)
                                 ELSE schedule.warn,
     caution |-> caution]

(* The countdown task.  Update counts from the time it is taken.           *)
Scheduled(minutes, caution) ==
    [warn |-> Greater(minutes * Interval - Warn, 0), caution |-> caution]

Update ==
    LET minutes == Head(channel)
        low == minutes * Interval <= Caution
        cautioned == schedule # None /\ schedule.caution
    IN
    /\ channel # <<>> /\ Head(channel) > 0
    /\ channel' = Tail(channel)
    /\ schedule' = Scheduled(minutes, low)
    /\ \/ low /\ ~cautioned /\ Display("caution")
       \/ ~low /\ cautioned /\ Close
       \/ low = cautioned /\ UNCHANGED notice
    /\ UNCHANGED <<locked, main, listener, relocker, faults, past>>

Cancel ==
    /\ channel # <<>> /\ Head(channel) = 0
    /\ channel' = Tail(channel)
    /\ schedule' = None
    /\ Close
    /\ UNCHANGED <<locked, main, listener, relocker, faults, past>>

(* The timer: after the warning the schedule is forgotten.                 *)
Fire ==
    /\ schedule # None /\ schedule.warn = 0
    /\ schedule' = None
    /\ Display("warning")
    /\ warned' = IF told = None THEN None ELSE 0
    /\ UNCHANGED <<locked, main, channel, listener, relocker,
                   faults, told, silent, open>>

-----------------------------------------------------------------------------
(* The task that takes events of the server, which may come at any time.   *)
Listen(minutes) ==
    /\ listener = None
    /\ Heard
    /\ IF minutes > 0 THEN UNCHANGED <<told, warned>> ELSE Forget
    /\ IF minutes > 0 THEN Abort /\ listener' = "hide"
       ELSE IF relocker = None
         THEN relocker' = Spawned(TRUE) /\ UNCHANGED <<listener, open>>
         ELSE listener' = "show" /\ UNCHANGED <<relocker, open>>
    /\ UNCHANGED <<locked, notice, main, channel, schedule, faults>>

Notify ==
    /\ listener # None
    /\ listener' = None
    /\ IF listener = "show" THEN Display("overtime") ELSE Close
    /\ UNCHANGED <<locked, main, channel, schedule, relocker,
                   faults, past>>

-----------------------------------------------------------------------------
(* The child locks or unlocks the session.                                 *)
Child ==
    /\ locked' = ~locked
    /\ open' = 0
    /\ UNCHANGED <<notice, main, channel, schedule, listener,
                   relocker, faults, told, warned, silent>>

(* A bound for TLC: an age at which no grace is left.                      *)
OldAge == Interval * (Grace + 1)

(* A unit passes: everyone waits.                                          *)
Tick ==
    /\ \/ main.at = "sleep" /\ main.rest > 0
       \/ main.at = "beat" /\ main.waited < Timeout
    /\ channel = <<>>
    /\ schedule # None => schedule.warn > 0
    /\ listener = None
    /\ relocker # None => relocker.wait > 0
    /\ main' = [main EXCEPT !.rest = Greater(@ - 1, 0),
                            !.waited = IF main.at = "beat" THEN @ + 1 ELSE @]
    /\ schedule' = IF schedule = None THEN None
                   ELSE [schedule EXCEPT !.warn = @ - 1]
    /\ relocker' = IF relocker = None THEN None
                   ELSE [relocker EXCEPT !.wait = @ - 1,
                           !.age = Lesser(@ + 1, OldAge)]
    /\ warned' = IF warned = None THEN None ELSE Lesser(warned + 1, Warn)
    /\ silent' = IF relocker = None THEN silent + 1 ELSE 0
    /\ open' = IF relocker # None /\ ~locked THEN open + 1 ELSE 0
    /\ UNCHANGED <<locked, notice, channel, listener, faults, told>>

Main ==
    \/ Skip \/ Beat \/ Tell \/ Disable \/ Hide \/ Enable \/ Show \/ Fail
    \/ \E minutes \in Minutes : Answer(minutes)
Counting == Update \/ Cancel \/ Fire

Next ==
    \/ Main \/ Counting \/ Relock \/ Look \/ Notify
    \/ \E minutes \in Minutes : Listen(minutes)
    \/ Child \/ Tick

Spec == Init /\ [][Next]_vars

(* Tasks are scheduled, requests end by their timeout, and time passes.    *)
Fairness ==
    /\ WF_vars(Main) /\ WF_vars(Update \/ Cancel) /\ WF_vars(Fire)
    /\ WF_vars(Notify) /\ WF_vars(Relock \/ Look) /\ WF_vars(Tick)

FairSpec == Spec /\ Fairness

-----------------------------------------------------------------------------
Notices == {"caution", "warning", "overtime", None}
MainType ==
    [at : {"sleep", "beat", "tell", "abort", "hide", "enable", "show"},
     answer : Minutes \cup {None}, failures : 0 .. FailFuse - 1,
     rest : 0 .. Interval, waited : 0 .. Timeout]
Channels == {s \in Seq(Minutes) : Len(s) <= Cap}

(* The shape of every variable.                                            *)
TypeOK ==
    /\ locked \in BOOLEAN
    /\ notice \in Notices
    /\ main \in MainType
    /\ channel \in Channels
    /\ schedule \in ScheduleType \cup {None}
    /\ listener \in {"hide", "show", None}
    /\ relocker \in RelockerType \cup {None}
    /\ faults \in 0 .. MaxFaults
    /\ told \in Minutes \cup {None}
    /\ warned \in 0 .. Warn \cup {None}
    /\ silent \in Nat /\ open \in Nat

(* A lock because the minutes ran down was announced its full 45 seconds   *)
(* before ("always shows a critical notification 45 seconds before a lock  *)
(* would trigger", docs/INSTALL.md:102), if the answer before told of the  *)
(* last minute at once.                                                    *)
WarnedInTime ==
    main.at = "enable" /\ main.answer # None /\ told = 1 => warned = Warn

(* While the re-locker runs nobody keeps the session open longer, per      *)
(* failure of the system, than a look takes and the grace that was left a  *)
(* Grace before the session was unlocked: who locks and unlocks it during  *)
(* a grace keeps what the last look gave, which may be more than is left.  *)
RelockInTime ==
    relocker # None =>
      open <= (1 + faults)
                * (Poll + Delay(Greater(relocker.age - Grace - open, 0)))

(* When the server is not heard of, the re-locker starts after the rest of *)
(* the interval and the timeouts of FailFuse heartbeats at the latest: the *)
(* "~5 minutes" of docs/ARCHITECTURE.md:26 are up to 16.                   *)
FailsafeInTime == silent <= Interval + FailFuse * Timeout

(* When the server only tells of minutes to spare, no notification of their*)
(* end stays, in whatever order tasks show and hide them.                  *)
Plenty == told # None /\ told * Interval > Caution
NoticeGoes == <>[]Plenty => <>[](notice = None)

=============================================================================
