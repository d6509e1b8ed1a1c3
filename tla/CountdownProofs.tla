--------------------------- MODULE CountdownProofs ---------------------------
(***************************************************************************)
(* Proofs about Countdown, for all durations and bounds.                   *)
(***************************************************************************)
EXTENDS Countdown, TLAPS

(* Who is about to tell the countdown task has something to tell.          *)
Answered == main.at = "tell" => main.answer # None
Resting == main.at \in {"sleep", "beat"} => main.answer = None

(* How long the server was not heard of, by the stage of the heartbeat     *)
(* loop.  The interval runs on while a heartbeat waits.                    *)
Silence ==
    /\ silent <= Interval + FailFuse * Timeout
    /\ main.at # "beat" => main.waited = 0
    /\ main.at = "beat" => main.rest = Greater(Interval - main.waited, 0)
    /\ main.at \in {"tell", "abort", "hide", "show"} => silent = 0
    /\ main.at = "enable" /\ main.answer # None => silent = 0
    /\ relocker = None /\ main.at = "sleep" =>
         silent + main.rest <= Interval + main.failures * Timeout
    /\ relocker = None /\ main.at = "beat" =>
         silent <= Interval + main.failures * Timeout + main.waited

(* What one look at an unlocked session may cost.                          *)
Span == Poll + Delay(Greater(relocker.age - Grace - open, 0))

(* How long the session was open, by the stage of the re-locker.           *)
Relocking ==
    /\ relocker = None \/ locked => open = 0
    /\ relocker # None =>
         /\ relocker.at = "lock" => relocker.wait = 0 /\ open = 0
         /\ relocker.at = "look" =>
              /\ relocker.wait <= Poll
              /\ ~locked => open + relocker.wait <= faults * Span + Poll
         /\ relocker.at = "again" =>
              /\ relocker.wait
                   <= Delay(Greater(relocker.age - Grace + relocker.wait, 0))
              /\ ~locked => open + relocker.wait <= (1 + faults) * Span

(* Where the last minute is, from the answer that told it to the end.      *)
LastMinute ==
    \/ main.at = "tell" /\ main.answer = 1 /\ main.rest = Interval
    \/ /\ main.at \in {"abort", "hide", "sleep"} /\ main.rest = Interval
       /\ channel # <<>> /\ channel[Len(channel)] = 1
    \/ /\ main.at \in {"abort", "hide", "sleep"}
       /\ main.at # "sleep" => main.rest = Interval
       /\ channel = <<>> /\ schedule # None
       /\ main.rest = schedule.warn + Warn
    \/ /\ main.at = "sleep" /\ channel = <<>> /\ schedule = None
       /\ warned # None /\ warned + main.rest = Warn
    \/ /\ \/ main.at = "beat" /\ channel = <<>>
          \/ main.at = "tell" /\ main.answer = 0 /\ channel = <<>>
          \/ main.at = "enable" /\ channel \in {<<>>, <<0>>}
       /\ schedule = None /\ warned = Warn

Announced == told = 1 => LastMinute

Timing == Answered /\ Resting /\ Silence /\ Relocking /\ Announced

-----------------------------------------------------------------------------
(* What the constants are.                                                 *)
LEMMA Constants ==
  /\ Interval \in Nat \ {0} /\ Warn \in Nat \ {0} /\ Caution \in Nat \ {0}
  /\ Decrement \in Nat \ {0} /\ Poll \in Nat \ {0} /\ FailFuse \in Nat \ {0}
  /\ Cap \in Nat \ {0} /\ Grace \in Nat /\ Timeout \in Nat
  /\ MaxLeft \in Nat /\ MaxFaults \in Nat
  /\ Warn < Interval /\ Interval <= Timeout /\ None \notin Int
  BY CountdownAssumption DEF CountdownAssumption

(* A product grows with its first factor.                                  *)
LEMMA Grows ==
  ASSUME NEW a \in Nat, NEW b \in Nat, NEW c \in Nat, a <= b
  PROVE  a * c \in Nat /\ b * c \in Nat /\ a * c <= b * c
<1>1. PICK d \in Nat : b = a + d
  <2>1. b - a \in Nat /\ b = a + (b - a)
    OBVIOUS
  <2> QED BY <2>1
<1>2. b * c = a * c + d * c /\ d * c >= 0
  BY <1>1
<1> QED BY <1>2

(* So does the product with one more.                                      *)
LEMMA GrowsByOne ==
  ASSUME NEW a \in Nat, NEW b \in Nat, NEW c \in Nat, a <= b
  PROVE  (1 + a) * c \in Nat /\ (1 + b) * c \in Nat /\ (1 + a) * c <= (1 + b) * c
<1>1. 1 + a \in Nat /\ 1 + b \in Nat /\ 1 + a <= 1 + b
  OBVIOUS
<1> QED BY <1>1, Grows

(* One failure more is one timeout more.                                   *)
LEMMA OneMore ==
  ASSUME NEW a \in Nat, NEW c \in Nat
  PROVE  (a + 1) * c = a * c + c /\ a * c \in Nat
  OBVIOUS

(* A later minute is a later minute of the re-locker.                      *)
LEMMA MinutesGrow ==
  ASSUME NEW a \in Nat, NEW b \in Nat, a <= b
  PROVE  /\ a \div Interval \in Nat /\ b \div Interval \in Nat
         /\ a \div Interval <= b \div Interval
<1>1. Interval \in Nat \ {0}
  BY Constants
<1> DEFINE x == a \div Interval
           y == b \div Interval
<1>2. /\ x \in Int /\ y \in Int
      /\ a = Interval * x + (a % Interval) /\ a % Interval \in 0 .. (Interval - 1)
      /\ b = Interval * y + (b % Interval) /\ b % Interval \in 0 .. (Interval - 1)
  BY <1>1
<1>3. x >= 0 /\ y >= 0
  BY <1>1, <1>2
<1>4. x <= y
  BY <1>1, <1>2, <1>3
<1> QED BY <1>2, <1>3, <1>4

(* The grace never grows, and is not longer than at first.                 *)
LEMMA DelayFalls ==
  ASSUME NEW a \in Nat, NEW b \in Nat, a <= b
  PROVE  Delay(a) \in 0 .. Grace /\ Delay(b) \in 0 .. Grace /\ Delay(b) <= Delay(a)
<1> DEFINE x == a \div Interval
           y == b \div Interval
<1>1. x \in Nat /\ y \in Nat /\ x <= y
  BY MinutesGrow
<1>2. Decrement \in Nat /\ Grace \in Nat
  BY Constants
<1>3. x * Decrement \in Nat /\ y * Decrement \in Nat /\ x * Decrement <= y * Decrement
  BY <1>1, <1>2, Grows
<1>4. Decrement * x = x * Decrement /\ Decrement * y = y * Decrement
  BY <1>1, <1>2
<1> HIDE DEF x, y
<1>5. /\ Delay(a) = Greater(Grace - Decrement * x, 0)
      /\ Delay(b) = Greater(Grace - Decrement * y, 0)
  BY DEF Delay, x, y
<1> QED BY <1>2, <1>3, <1>4, <1>5 DEF Greater

-----------------------------------------------------------------------------
(* The warning is scheduled within the minutes there are.                  *)
LEMMA ScheduledType ==
  ASSUME NEW minutes \in Minutes, NEW caution \in BOOLEAN
  PROVE  Scheduled(minutes, caution)
           \in ScheduleType
<1>1. minutes \in Nat /\ MaxLeft \in Nat /\ minutes <= MaxLeft
  BY Constants DEF Minutes
<1>2. /\ minutes * Interval \in Nat /\ MaxLeft * Interval \in Nat
      /\ minutes * Interval <= MaxLeft * Interval
  BY <1>1, Constants, Grows
<1> QED BY <1>2, Constants DEF Scheduled, Greater, ScheduleType

(* A fault uses up its bound.                                              *)
LEMMA FaultType ==
  ASSUME TypeOK, Fault \/ UNCHANGED faults
  PROVE  faults' \in 0 .. MaxFaults /\ faults <= faults'
  BY Constants DEF TypeOK, Fault

(* What is appended where there is room, and what is left of the channel.  *)
LEMMA AppendType ==
  ASSUME TypeOK, Room, NEW m \in Minutes
  PROVE  Append(channel, m) \in Channels
  BY Constants DEF TypeOK, Room, Channels

LEMMA TailType ==
  ASSUME TypeOK, channel # <<>>
  PROVE  Tail(channel) \in Channels /\ Head(channel) \in Minutes
  BY Constants DEF TypeOK, Channels

(* A re-locker that was just spawned.                                      *)
LEMMA SpawnedType ==
  ASSUME NEW shows \in BOOLEAN
  PROVE  Spawned(shows) \in RelockerType /\ Spawned(shows) # None
<1>1. 0 \in 0 .. Greater(Grace, Poll)
  BY Constants DEF Greater
<1>2. Spawned(shows) \in RelockerType
  BY <1>1 DEF Spawned, RelockerType
<1> QED BY <1>2, CountdownAssumption DEF CountdownAssumption

(* A step of the re-locker, or of the clock, does not end it.              *)
LEMMA RelockerStays ==
  ASSUME TypeOK, relocker # None, Relock \/ Look \/ Tick
  PROVE  relocker' \in RelockerType /\ relocker' # None
<1>0. relocker \in RelockerType
  BY DEF TypeOK
<1>1. CASE Relock
  <2>1. {0, Poll} \subseteq 0 .. Greater(Grace, Poll)
    BY Constants DEF Greater
  <2>2. \E wait \in {0, Poll} :
          relocker' = [relocker EXCEPT !.at = "look", !.wait = wait]
    BY <1>1, Zenon DEF Relock, TryLock
  <2>3. relocker' \in RelockerType
    BY <1>0, <2>1, <2>2 DEF RelockerType
  <2> QED BY <2>3, CountdownAssumption DEF CountdownAssumption
<1>2. CASE Look
  <2>1. Delay(relocker.age) \in 0 .. Grace
    BY <1>0, DelayFalls DEF RelockerType
  <2>2. Poll \in 0 .. Greater(Grace, Poll)
        /\ Delay(relocker.age) \in 0 .. Greater(Grace, Poll)
    BY <2>1, Constants DEF Greater
  <2>3. \/ relocker' = [relocker EXCEPT !.wait = Poll, !.told = FALSE]
        \/ relocker' = [relocker EXCEPT !.at = "again",
                          !.wait = Delay(relocker.age),
                          !.told = @ \/ relocker.shows]
        \/ relocker' = [relocker EXCEPT !.wait = Poll]
    BY <1>2, Zenon DEF Look
  <2>4. relocker' \in RelockerType
    BY <1>0, <2>2, <2>3 DEF RelockerType
  <2> QED BY <2>4, CountdownAssumption DEF CountdownAssumption
<1>3. CASE Tick
  <2>1. OldAge \in Nat /\ relocker.wait > 0
    BY <1>3, Constants DEF OldAge, Tick
  <2>2. Lesser(relocker.age + 1, OldAge) \in Nat
    BY <1>0, <2>1 DEF Lesser, RelockerType
  <2>3. relocker.wait - 1 \in 0 .. Greater(Grace, Poll)
    BY <1>0, <2>1, Constants DEF RelockerType, Greater
  <2>4. relocker' \in RelockerType
    BY <1>0, <1>3, <2>2, <2>3 DEF Tick, RelockerType
  <2> QED BY <2>4, CountdownAssumption DEF CountdownAssumption
<1> QED BY <1>1, <1>2, <1>3

(* Every step keeps the shape of the variables.                            *)
LEMMA TypeStep == ASSUME TypeOK, Answered, [Next]_vars PROVE TypeOK' /\ Answered'
<1>0. Minutes \subseteq Nat /\ 0 \in Minutes
  BY Constants DEF Minutes
<1>a. main \in MainType /\ Interval \in 0 .. Interval
  BY Constants DEF TypeOK
<1>1. CASE UNCHANGED vars
  BY <1>1 DEF vars, past, TypeOK, Answered
<1>2. CASE Skip
  <2>1. main.at = "sleep" /\ main' = [main EXCEPT !.rest = Interval]
    BY <1>2 DEF Skip
  <2>3. main' \in MainType /\ main'.at = "sleep"
    BY <1>a, <2>1 DEF MainType
  <2>2. faults' \in 0 .. MaxFaults /\ channel' \in Channels
    BY <1>0, <1>2, FaultType, AppendType DEF Skip, Query
  <2> QED BY <1>2, <2>2, <2>3 DEF Skip, Heard, Forget, TypeOK, Answered
<1>3. CASE Beat
  <2>1. main' \in MainType /\ main'.at = "beat"
    <3>1. main' = [main EXCEPT !.at = "beat", !.rest = Interval]
      BY <1>3 DEF Beat
    <3> QED BY <1>a, <3>1 DEF MainType
  <2>2. faults' \in 0 .. MaxFaults
    BY <1>3, FaultType DEF Beat, Query
  <2> QED BY <1>3, <2>1, <2>2 DEF Beat, TypeOK, Answered, past
<1>4. CASE Tell
  <2>1. main' \in MainType /\ main'.at # "tell"
    BY <1>4 DEF Tell, MainGoes, TypeOK, MainType
  <2>2. channel' \in Channels
    BY <1>4, AppendType DEF Tell, Answered, TypeOK, MainType
  <2> QED BY <1>4, <2>1, <2>2 DEF Tell, TypeOK, Answered, past
<1>5. CASE Disable
  <2>1. main' \in MainType /\ main'.at # "tell"
    BY <1>5 DEF Disable, MainGoes, TypeOK, MainType
  <2> QED BY <1>5, <2>1 DEF Disable, Abort, TypeOK, Answered
<1>6. CASE Hide
  <2>1. main' \in MainType /\ main'.at # "tell"
    BY <1>6 DEF Hide, Sleep, TypeOK, MainType
  <2> QED BY <1>6, <2>1 DEF Hide, Close, TypeOK, Answered, past, Notices
<1>7. CASE Enable
  <2>1. main' \in MainType /\ main'.at # "tell"
    BY <1>7 DEF Enable, Sleep, MainGoes, TypeOK, MainType
  <2>2. relocker' \in RelockerType \cup {None} /\ silent' \in Nat
    <3>1. /\ relocker' \in {relocker, Spawned(main.answer # None)}
          /\ silent' \in {silent, 0}
      BY <1>7, Zenon DEF Enable, Heard
    <3>2. (main.answer # None) \in BOOLEAN
      OBVIOUS
    <3>3. Spawned(main.answer # None) \in RelockerType
      BY <3>2, SpawnedType, Zenon
    <3> QED BY <3>1, <3>3 DEF TypeOK
  <2> QED BY <1>7, <2>1, <2>2 DEF Enable, Forget, TypeOK, Answered
<1>8. CASE Show
  <2>1. main' \in MainType /\ main'.at # "tell"
    <3>1. main' = [main EXCEPT !.at = "sleep", !.answer = None]
      BY <1>8 DEF Show, Sleep
    <3> QED BY <1>a, <3>1 DEF MainType
  <2> QED BY <1>8, <2>1 DEF Show, Display, TypeOK, Answered, past, Notices
<1>9. CASE Fail
  <2>1. main' \in MainType /\ main'.at # "tell"
    <3>1. CASE main.failures + 1 >= FailFuse
      <4>1. main' = [main EXCEPT !.at = "enable", !.failures = 0, !.waited = 0]
        BY <1>9, <3>1, Zenon DEF Fail
      <4>2. 0 \in 0 .. FailFuse - 1 /\ 0 \in 0 .. Timeout
        BY Constants
      <4> QED BY <1>a, <4>1, <4>2 DEF MainType
    <3>2. CASE ~(main.failures + 1 >= FailFuse)
      <4>1. main' = [main EXCEPT !.at = "sleep", !.waited = 0,
                                 !.failures = main.failures + 1]
        BY <1>9, <3>2, Zenon DEF Fail
      <4>2. main.failures + 1 \in 0 .. FailFuse - 1 /\ 0 \in 0 .. Timeout
        BY <1>a, <3>2, Constants DEF MainType
      <4> QED BY <1>a, <4>1, <4>2 DEF MainType
    <3> QED BY <3>1, <3>2
  <2> QED BY <1>9, <2>1 DEF Fail, Forget, TypeOK, Answered
<1>10. ASSUME NEW minutes \in Minutes, Answer(minutes) PROVE TypeOK' /\ Answered'
  <2>1. main' \in MainType /\ main'.answer # None
    <3>1. main' = [main EXCEPT !.at = "tell", !.answer = minutes,
                            !.failures = 0, !.waited = 0]
      BY <1>10 DEF Answer
    <3>2. 0 \in 0 .. FailFuse - 1 /\ 0 \in 0 .. Timeout /\ minutes # None
      BY <1>0, Constants
    <3> QED BY <1>a, <3>1, <3>2 DEF MainType
  <2>2. told' \in Minutes \cup {None} /\ warned' \in 0 .. Warn \cup {None}
    BY <1>10 DEF Answer, TypeOK
  <2> QED BY <1>10, <2>1, <2>2 DEF Answer, Heard, TypeOK, Answered
<1>11. CASE Update
  <2> DEFINE low == Head(channel) * Interval <= Caution
  <2>1. channel' \in Channels /\ Head(channel) \in Minutes
    BY <1>11, TailType DEF Update
  <2>2. schedule' \in ScheduleType
    <3>1. low \in BOOLEAN
      OBVIOUS
    <3> QED BY <1>11, <2>1, <3>1, ScheduledType, Zenon DEF Update
  <2>3. notice' \in Notices
    BY <1>11 DEF Update, Display, Close, TypeOK, Notices
  <2> QED BY <1>11, <2>1, <2>2, <2>3 DEF Update, TypeOK, Answered, past
<1>12. CASE Cancel
  <2>1. channel' \in Channels
    BY <1>12, TailType DEF Cancel
  <2> QED BY <1>12, <2>1 DEF Cancel, Close, TypeOK, Answered, past, Notices
<1>13. CASE Fire
  <2>1. warned' \in 0 .. Warn \cup {None}
    BY <1>13, Constants DEF Fire
  <2> QED BY <1>13, <2>1 DEF Fire, Display, TypeOK, Answered, Notices
<1>14. CASE Relock
  <2>1. faults' \in 0 .. MaxFaults
    BY <1>14, FaultType DEF Relock, TryLock
  <2>2. relocker' \in RelockerType
    BY <1>14, RelockerStays DEF Relock
  <2>3. locked' \in {locked, TRUE} /\ open' \in {open, 0}
    BY <1>14, Zenon DEF Relock, TryLock
  <2>4. open' \in Nat
    BY <2>3 DEF TypeOK
  <2>5. locked' \in BOOLEAN
    BY <2>3, Zenon DEF TypeOK
  <2> QED BY <1>14, <2>1, <2>2, <2>4, <2>5 DEF Relock, TypeOK, Answered
<1>15. CASE Look
  <2>1. faults' \in 0 .. MaxFaults
    BY <1>15, FaultType DEF Look, Query
  <2>2. relocker' \in RelockerType
    BY <1>15, RelockerStays DEF Look
  <2>3. notice' \in Notices
    BY <1>15 DEF Look, Display, TypeOK, Notices
  <2> QED BY <1>15, <2>1, <2>2, <2>3 DEF Look, TypeOK, Answered, past
<1>16. CASE Notify
  BY <1>16 DEF Notify, Display, Close, TypeOK, Answered, past, Notices
<1>17. ASSUME NEW minutes \in Minutes, Listen(minutes) PROVE TypeOK' /\ Answered'
  <2>1. relocker' \in RelockerType \cup {None} /\ listener' \in {"hide", "show", None}
        /\ open' \in Nat
    <3>1. /\ relocker' \in {relocker, None, Spawned(TRUE)}
          /\ listener' \in {listener, "hide", "show"}
          /\ open' \in {open, 0}
      BY <1>17, Zenon DEF Listen, Abort
    <3>2. Spawned(TRUE) \in RelockerType
      BY SpawnedType
    <3>3. relocker' \in RelockerType \cup {None}
      BY <3>1, <3>2, Zenon DEF TypeOK
    <3>4. listener' \in {"hide", "show", None}
      BY <3>1, Zenon DEF TypeOK
    <3>5. open' \in Nat
      BY <3>1 DEF TypeOK
    <3> QED BY <3>3, <3>4, <3>5
  <2>2. told' \in Minutes \cup {None} /\ warned' \in 0 .. Warn \cup {None}
    BY <1>17 DEF Listen, Forget, TypeOK
  <2> QED BY <1>17, <2>1, <2>2 DEF Listen, Heard, TypeOK, Answered
<1>18. CASE Child
  BY <1>18 DEF Child, TypeOK, Answered
<1>19. CASE Tick
  <2>1. main' \in MainType /\ main'.at = main.at /\ main'.answer = main.answer
    <3> DEFINE waited == IF main.at = "beat" THEN main.waited + 1 ELSE main.waited
               rest == Greater(main.rest - 1, 0)
    <3>1. main' = [main EXCEPT !.rest = rest, !.waited = waited]
      BY <1>19 DEF Tick
    <3>2. waited \in 0 .. Timeout
      BY <1>19, <1>a, Constants DEF Tick, MainType
    <3>3. rest \in 0 .. Interval
      BY <1>a, Constants DEF MainType, Greater
    <3> HIDE DEF waited, rest
    <3> QED BY <1>a, <3>1, <3>2, <3>3 DEF MainType
  <2>2. schedule' \in ScheduleType \cup {None}
    <3>1. MaxLeft * Interval \in Nat
      BY Constants
    <3>2. ASSUME schedule # None PROVE schedule' \in ScheduleType
      <4>1. schedule \in ScheduleType /\ schedule.warn > 0
        BY <1>19, <3>2 DEF Tick, TypeOK
      <4>2. schedule.warn - 1 \in 0 .. MaxLeft * Interval
        BY <3>1, <4>1 DEF ScheduleType
      <4> QED BY <1>19, <3>2, <4>1, <4>2 DEF Tick, ScheduleType
    <3> QED BY <1>19, <3>2 DEF Tick
  <2>3. relocker' \in RelockerType \cup {None}
    BY <1>19, RelockerStays DEF Tick
  <2>4. warned' \in 0 .. Warn \cup {None} /\ silent' \in Nat /\ open' \in Nat
    <3>1. \/ warned' = None /\ warned = None
          \/ warned # None /\ warned' = Lesser(warned + 1, Warn)
      BY <1>19, Zenon DEF Tick
    <3>2. silent' \in {silent + 1, 0} /\ open' \in {open + 1, 0}
      BY <1>19, Zenon DEF Tick
    <3>3. warned \in 0 .. Warn \cup {None} /\ silent \in Nat /\ open \in Nat
      BY DEF TypeOK
    <3> QED BY <3>1, <3>2, <3>3, Constants DEF Lesser
  <2> QED BY <1>19, <2>1, <2>2, <2>3, <2>4 DEF Tick, TypeOK, Answered
<1> QED
  BY <1>1, <1>2, <1>3, <1>4, <1>5, <1>6, <1>7, <1>8, <1>9, <1>10, <1>11, <1>12,
     <1>13, <1>14, <1>15, <1>16, <1>17, <1>18, <1>19
  DEF Next, Main, Counting

-----------------------------------------------------------------------------
(* What main is, without its set.                                          *)
LEMMA MainFacts ==
  ASSUME TypeOK
  PROVE  /\ main.failures \in Nat /\ main.failures + 1 <= FailFuse
         /\ main.rest \in Nat /\ main.rest <= Interval
         /\ main.waited \in Nat /\ main.waited <= Timeout
         /\ silent \in Nat
         /\ main.at \in {"sleep", "beat", "tell", "abort", "hide", "enable", "show"}
         /\ main.answer \in Minutes \cup {None}
<1>1. main \in MainType /\ silent \in Nat
  BY DEF TypeOK
<1> QED BY <1>1, Constants DEF MainType

(* A step that leaves the heartbeat loop and the clock of silence alone,   *)
(* and does not end the re-locker.                                         *)
LEMMA SilenceKept ==
  ASSUME Silence, UNCHANGED <<main, silent>>, relocker' = None => relocker = None
  PROVE  Silence'
  BY DEF Silence

(* The loop has no answer between its heartbeats.                          *)
LEMMA RestingStep ==
  ASSUME TypeOK, Resting, [Next]_vars
  PROVE  Resting'
<1>0. main \in MainType
  BY DEF TypeOK
<1>1. CASE UNCHANGED main
  BY <1>1 DEF Resting
<1>2. CASE main' = [main EXCEPT !.rest = Interval]
  BY <1>0, <1>2 DEF Resting, MainType
<1>3. CASE Beat
  BY <1>0, <1>3 DEF Beat, Resting, MainType
<1>4. CASE Tell \/ Disable
  BY <1>0, <1>4 DEF Tell, Disable, MainGoes, Resting, MainType
<1>5. CASE Hide \/ Enable \/ Show
  <2>1. MainGoes("show") \/ Sleep
    BY <1>5, Zenon DEF Hide, Enable, Show
  <2> QED BY <1>0, <2>1 DEF MainGoes, Sleep, Resting, MainType
<1>6. CASE Fail
  <2>1. main.at = "beat"
    BY <1>6 DEF Fail
  <2> QED BY <1>0, <1>6, <2>1 DEF Fail, Resting, MainType
<1>7. ASSUME NEW minutes \in Minutes, Answer(minutes) PROVE Resting'
  BY <1>0, <1>7 DEF Answer, Resting, MainType
<1>8. CASE Tick
  BY <1>0, <1>8 DEF Tick, Resting, MainType
<1>9. CASE \/ UNCHANGED vars \/ Counting \/ Relock \/ Look \/ Notify \/ Child
           \/ \E minutes \in Minutes : Listen(minutes)
  BY <1>1, <1>9
  DEF vars, Counting, Update, Cancel, Fire, Relock, Look, Notify, Child, Listen
<1>10. CASE Skip
  BY <1>2, <1>10 DEF Skip
<1> QED BY <1>3, <1>4, <1>5, <1>6, <1>7, <1>8, <1>9, <1>10 DEF Next, Main

(* After hearing the server, the silence is as short as any stage needs.   *)
LEMMA SilenceBroken ==
  ASSUME TypeOK, TypeOK', silent' = 0,
         main'.at # "beat" => main'.waited = 0,
         main'.at = "beat" => main'.rest = Greater(Interval - main'.waited, 0)
  PROVE  Silence'
<1>1. /\ main'.failures \in Nat /\ main'.rest <= Interval /\ main'.rest \in Nat
      /\ main'.waited \in Nat
  <2>1. main' \in MainType
    BY DEF TypeOK
  <2> QED BY <2>1, Constants DEF MainType
<1>2. Interval \in Nat /\ Timeout \in Nat /\ FailFuse \in Nat
  BY Constants
<1>3. main'.failures * Timeout \in Nat /\ FailFuse * Timeout \in Nat
  BY <1>1, <1>2
<1> QED BY <1>1, <1>2, <1>3 DEF Silence

(* A heartbeat that failed costs no more than its timeout.                 *)
LEMMA SilenceFails ==
  ASSUME TypeOK, Resting, Silence, Fail
  PROVE  Silence'
<1> DEFINE f == main.failures
           w == main.waited
<1>1. /\ f \in Nat /\ f + 1 <= FailFuse /\ w \in Nat /\ w <= Timeout
      /\ silent \in Nat /\ main.at = "beat"
  BY MainFacts DEF Fail
<1>2. /\ Interval \in Nat /\ Timeout \in Nat /\ FailFuse \in Nat
      /\ Interval <= Timeout
  BY Constants
<1>3. /\ f * Timeout \in Nat /\ (f + 1) * Timeout = f * Timeout + Timeout
      /\ (f + 1) * Timeout <= FailFuse * Timeout /\ FailFuse * Timeout \in Nat
  BY <1>1, <1>2, OneMore, Grows
<1>4. /\ silent <= Interval + FailFuse * Timeout
      /\ main.rest = Greater(Interval - w, 0)
      /\ relocker = None => silent <= Interval + f * Timeout + w
  BY <1>1 DEF Silence
<1>5. silent' = silent /\ relocker' = relocker
  BY DEF Fail
<1>6. CASE main.failures + 1 >= FailFuse
  <2>1. main' = [main EXCEPT !.at = "enable", !.failures = 0, !.waited = 0]
    BY <1>6, Zenon DEF Fail
  <2>2. main \in MainType
    BY DEF TypeOK
  <2>3. main'.at = "enable" /\ main'.waited = 0 /\ main'.answer = main.answer
    BY <2>1, <2>2 DEF MainType
  <2>4. main.answer = None
    BY <1>1 DEF Resting
  <2> QED BY <1>4, <1>5, <2>3, <2>4 DEF Silence
<1>7. CASE ~(main.failures + 1 >= FailFuse)
  <2>1. main' = [main EXCEPT !.at = "sleep", !.waited = 0, !.failures = f + 1]
    BY <1>7, Zenon DEF Fail
  <2>2. main \in MainType
    BY DEF TypeOK
  <2>3. /\ main'.at = "sleep" /\ main'.waited = 0 /\ main'.failures = f + 1
        /\ main'.rest = main.rest
    BY <2>1, <2>2 DEF MainType
  <2>4. relocker = None => silent + main.rest <= Interval + (f + 1) * Timeout
    BY <1>1, <1>2, <1>3, <1>4 DEF Greater
  <2> QED BY <1>4, <1>5, <2>3, <2>4 DEF Silence
<1> QED BY <1>6, <1>7

(* A unit of silence is paid from the interval or from a timeout.          *)
LEMMA SilenceTicks ==
  ASSUME TypeOK, Silence, Tick
  PROVE  Silence'
<1> DEFINE f == main.failures
<1>1. /\ f \in Nat /\ f + 1 <= FailFuse /\ main.waited \in Nat
      /\ main.rest \in Nat /\ main.rest <= Interval /\ silent \in Nat
  BY MainFacts
<1>2. /\ Interval \in Nat /\ Timeout \in Nat /\ FailFuse \in Nat
  BY Constants
<1>3. /\ f * Timeout \in Nat /\ (f + 1) * Timeout = f * Timeout + Timeout
      /\ (f + 1) * Timeout <= FailFuse * Timeout /\ FailFuse * Timeout \in Nat
  BY <1>1, <1>2, OneMore, Grows
<1>4. relocker' = None <=> relocker = None
  <2>1. ASSUME relocker # None PROVE relocker' # None
    BY <2>1, RelockerStays
  <2> QED BY <2>1 DEF Tick
<1>5. silent' = IF relocker = None THEN silent + 1 ELSE 0
  BY DEF Tick
<1>6. CASE main.at = "sleep"
  <2>1. /\ main'.at = "sleep" /\ main'.waited = main.waited
        /\ main'.failures = f /\ main'.rest = Greater(main.rest - 1, 0)
        /\ main.rest > 0
    BY <1>6 DEF Tick, TypeOK, MainType
  <2>2. main.waited = 0
    BY <1>6 DEF Silence
  <2>3. relocker = None => silent + main.rest <= Interval + f * Timeout
    BY <1>6 DEF Silence
  <2> HIDE DEF f
  <2> QED BY <1>1, <1>2, <1>3, <1>4, <1>5, <2>1, <2>2, <2>3 DEF Silence, Greater
<1>7. CASE main.at = "beat"
  <2>1. /\ main'.at = "beat" /\ main'.waited = main.waited + 1
        /\ main'.failures = f /\ main'.rest = Greater(main.rest - 1, 0)
        /\ main.waited < Timeout
    BY <1>7 DEF Tick, TypeOK, MainType
  <2>2. main.rest = Greater(Interval - main.waited, 0)
    BY <1>7 DEF Silence
  <2>3. relocker = None => silent <= Interval + f * Timeout + main.waited
    BY <1>7 DEF Silence
  <2> HIDE DEF f
  <2> QED BY <1>1, <1>2, <1>3, <1>4, <1>5, <2>1, <2>2, <2>3 DEF Silence, Greater
<1> QED BY <1>6, <1>7 DEF Tick

(* Every step keeps the silence short.                                     *)
LEMMA SilenceStep ==
  ASSUME TypeOK, TypeOK', Resting, Silence, [Next]_vars
  PROVE  Silence'
<1>0. main \in MainType
  BY DEF TypeOK
<1>1. CASE Skip
  <2>1. main.at = "sleep" /\ main' = [main EXCEPT !.rest = Interval]
    BY <1>1 DEF Skip
  <2>2. main'.at = "sleep" /\ main'.waited = 0
    BY <1>0, <2>1 DEF MainType, Silence
  <2> QED BY <1>1, <2>2, SilenceBroken DEF Skip, Heard
<1>2. CASE Beat
  <2>1. /\ main.at = "sleep" /\ main.rest = 0
        /\ main' = [main EXCEPT !.at = "beat", !.rest = Interval]
        /\ relocker' = relocker /\ silent' = silent
    BY <1>2 DEF Beat, past
  <2>2. /\ main'.at = "beat" /\ main'.rest = Interval /\ main'.waited = main.waited
        /\ main'.failures = main.failures
    BY <1>0, <2>1 DEF MainType
  <2>3. main.waited = 0 /\ silent <= Interval + FailFuse * Timeout
    BY <2>1 DEF Silence
  <2>4. relocker = None => silent + 0 <= Interval + main.failures * Timeout
    BY <2>1 DEF Silence
  <2>5. Greater(Interval - 0, 0) = Interval
    BY Constants DEF Greater
  <2>6. main.failures * Timeout \in Nat /\ silent \in Nat /\ Interval \in Nat
    BY MainFacts, Constants
  <2> QED BY <2>1, <2>2, <2>3, <2>4, <2>5, <2>6 DEF Silence
<1>3. CASE Tell \/ Disable
  <2>1. /\ \E stage \in {"abort", "enable", "hide"} : main' = [main EXCEPT !.at = stage]
        /\ main.at \in {"tell", "abort"} /\ silent' = silent
    BY <1>3 DEF Tell, Disable, MainGoes, past
  <2>2. main'.at \in {"abort", "enable", "hide"} /\ main'.waited = main.waited
    BY <1>0, <2>1 DEF MainType
  <2>3. silent' = 0 /\ main'.waited = 0
    BY <2>1, <2>2 DEF Silence
  <2> QED BY <2>2, <2>3, SilenceBroken
<1>4. CASE Hide \/ Show
  <2>1. /\ main' = [main EXCEPT !.at = "sleep", !.answer = None]
        /\ main.at \in {"hide", "show"} /\ silent' = silent
    BY <1>4 DEF Hide, Show, Sleep, past
  <2>2. main'.at = "sleep" /\ main'.waited = main.waited
    BY <1>0, <2>1 DEF MainType
  <2>3. silent' = 0 /\ main'.waited = 0
    BY <2>1, <2>2 DEF Silence
  <2> QED BY <2>2, <2>3, SilenceBroken
<1>5. CASE Enable
  <2>1. main.at = "enable" /\ main.waited = 0 /\ silent <= Interval + FailFuse * Timeout
    BY <1>5 DEF Enable, Silence
  <2>2. CASE relocker = None
    <3>1. main' = [main EXCEPT !.at = "sleep", !.answer = None] /\ silent' = 0
      BY <1>5, <2>2 DEF Enable, Sleep, Heard
    <3>2. main'.at = "sleep" /\ main'.waited = 0
      BY <1>0, <2>1, <3>1 DEF MainType
    <3> QED BY <3>1, <3>2, SilenceBroken
  <2>3. CASE relocker # None /\ main.answer = None
    <3>1. /\ main' = [main EXCEPT !.at = "sleep", !.answer = None]
          /\ silent' = silent /\ relocker' = relocker
      BY <1>5, <2>3 DEF Enable, Sleep
    <3>2. main'.at = "sleep" /\ main'.waited = 0
      BY <1>0, <2>1, <3>1 DEF MainType
    <3> QED BY <2>1, <2>3, <3>1, <3>2 DEF Silence
  <2>4. CASE relocker # None /\ main.answer # None
    <3>1. main' = [main EXCEPT !.at = "show"] /\ silent' = silent
      BY <1>5, <2>4 DEF Enable, MainGoes
    <3>2. main'.at = "show" /\ main'.waited = 0
      BY <1>0, <2>1, <3>1 DEF MainType
    <3>3. silent = 0
      BY <2>1, <2>4 DEF Silence
    <3> QED BY <3>1, <3>2, <3>3, SilenceBroken
  <2> QED BY <2>2, <2>3, <2>4
<1>6. CASE Fail
  BY <1>6, SilenceFails
<1>7. ASSUME NEW minutes \in Minutes, Answer(minutes) PROVE Silence'
  <2>1. main' = [main EXCEPT !.at = "tell", !.answer = minutes,
                             !.failures = 0, !.waited = 0]
    BY <1>7 DEF Answer
  <2>2. main'.at = "tell" /\ main'.waited = 0
    BY <1>0, <2>1 DEF MainType
  <2> QED BY <1>7, <2>2, SilenceBroken DEF Answer, Heard
<1>8. CASE Tick
  BY <1>8, SilenceTicks
<1>9. CASE UNCHANGED vars \/ Counting \/ Notify \/ Child
  <2>1. UNCHANGED <<main, silent, relocker>>
    BY <1>9 DEF vars, past, Counting, Update, Cancel, Fire, Notify, Child
  <2> QED BY <2>1, SilenceKept
<1>10. CASE Relock \/ Look
  <2>1. UNCHANGED <<main, silent>>
    BY <1>10 DEF Relock, Look, past
  <2>3. relocker' # None
    BY <1>10, RelockerStays DEF Relock, Look
  <2> QED BY <2>1, <2>3, SilenceKept
<1>11. ASSUME NEW minutes \in Minutes, Listen(minutes) PROVE Silence'
  <2>1. silent' = 0 /\ main' = main
    BY <1>11 DEF Listen, Heard
  <2> QED BY <2>1, SilenceBroken DEF Silence
<1> QED
  BY <1>1, <1>2, <1>3, <1>4, <1>5, <1>6, <1>7, <1>8, <1>9, <1>10, <1>11
  DEF Next, Main

-----------------------------------------------------------------------------
(* The grace at an age that may lie before the re-locker's first moment.   *)
Grace_At(x) == Delay(Greater(x, 0))

LEMMA GraceFalls ==
  ASSUME NEW x \in Int, NEW y \in Int, x <= y
  PROVE  /\ Grace_At(x) \in 0 .. Grace /\ Grace_At(y) \in 0 .. Grace
         /\ Grace_At(y) <= Grace_At(x)
<1>1. /\ Greater(x, 0) \in Nat /\ Greater(y, 0) \in Nat
      /\ Greater(x, 0) <= Greater(y, 0)
  BY DEF Greater
<1> QED BY <1>1, DelayFalls DEF Grace_At

(* What the re-locker is, without its set.                                 *)
LEMMA RelockerFacts ==
  ASSUME TypeOK, relocker # None
  PROVE  /\ relocker \in RelockerType /\ relocker.wait \in Nat
         /\ relocker.age \in Nat /\ open \in Nat /\ faults \in Nat
         /\ Span \in Nat /\ Poll <= Span /\ Span = Poll + Grace_At(relocker.age - Grace - open)
<1>1. relocker \in RelockerType /\ open \in Nat /\ faults \in Nat
  BY Constants DEF TypeOK
<1>2. relocker.wait \in Nat /\ relocker.age \in Nat
  BY <1>1, Constants DEF RelockerType, Greater
<1>3. relocker.age - Grace - open \in Int
  BY <1>1, <1>2, Constants
<1>4. Grace_At(relocker.age - Grace - open) \in 0 .. Grace
  BY <1>3, GraceFalls
<1> QED BY <1>1, <1>2, <1>4, Constants DEF Span, Grace_At

(* A step that leaves the re-locker and the lock alone.                    *)
LEMMA RelockKept ==
  ASSUME TypeOK, TypeOK', Relocking, UNCHANGED <<locked, relocker, open>>,
         Fault \/ UNCHANGED faults
  PROVE  Relocking'
<1>1. CASE relocker = None
  BY <1>1 DEF Relocking
<1>2. CASE relocker # None
  <2>1. /\ faults \in Nat /\ faults' \in Nat /\ faults <= faults'
        /\ Span \in Nat /\ Span' = Span /\ relocker.wait \in Nat /\ open \in Nat
    <3>1. faults' \in Nat /\ faults <= faults'
      BY FaultType DEF TypeOK
    <3> QED BY <1>2, <3>1, RelockerFacts DEF Span
  <2>2. faults * Span <= faults' * Span /\ (1 + faults) * Span <= (1 + faults') * Span
        /\ faults * Span \in Nat /\ faults' * Span \in Nat
        /\ (1 + faults) * Span \in Nat /\ (1 + faults') * Span \in Nat
    BY <2>1, Grows, GrowsByOne
  <2> HIDE DEF Span
  <2> QED BY <1>2, <2>1, <2>2, Constants DEF Relocking
<1> QED BY <1>1, <1>2

(* A lock that fails opens one more span.                                  *)
LEMMA RelockLocks ==
  ASSUME TypeOK, TypeOK', Relocking, Relock
  PROVE  Relocking'
<1>1. /\ relocker # None /\ relocker \in RelockerType /\ relocker.wait = 0
      /\ open \in Nat /\ faults \in Nat /\ Span \in Nat /\ Poll <= Span
      /\ relocker' # None /\ relocker' \in RelockerType
  BY RelockerFacts, RelockerStays DEF Relock
<1>2. PICK wait \in {0, Poll} :
        /\ relocker' = [relocker EXCEPT !.at = "look", !.wait = wait]
        /\ (relocker.at = "lock" /\ wait = 0) \/ relocker.at = "again"
        /\ \/ locked' = TRUE /\ open' = 0
           \/ Fault /\ UNCHANGED <<locked, open>>
  BY Zenon DEF Relock, TryLock
<1>3. relocker'.at = "look" /\ relocker'.wait = wait /\ relocker'.age = relocker.age
  BY <1>1, <1>2 DEF RelockerType
<1>4. Poll \in Nat /\ wait <= Poll /\ wait \in Nat
  BY <1>2, Constants
<1>5. CASE locked' = TRUE /\ open' = 0
  BY <1>1, <1>3, <1>4, <1>5 DEF Relocking
<1>6. CASE Fault /\ UNCHANGED <<locked, open>>
  <2>1. faults' = faults + 1 /\ Span' = Span
    BY <1>3, <1>6 DEF Fault, Span
  <2>2. faults' * Span = faults * Span + Span /\ (1 + faults) * Span = faults' * Span
        /\ faults * Span \in Nat
    BY <1>1, <2>1, OneMore
  <2>3. ~locked => open <= faults' * Span
    BY <1>1, <1>2, <2>2 DEF Relocking
  <2> HIDE DEF Span
  <2> QED BY <1>1, <1>3, <1>4, <1>6, <2>1, <2>2, <2>3 DEF Relocking
<1> QED BY <1>2, <1>5, <1>6

(* A look gives the grace that is left, or waits for the next look.        *)
LEMMA RelockLooks ==
  ASSUME TypeOK, TypeOK', Relocking, Look
  PROVE  Relocking'
<1> DEFINE age == relocker.age
<1>1. /\ relocker # None /\ relocker \in RelockerType /\ relocker.wait = 0
      /\ relocker.at = "look" /\ age \in Nat
      /\ open \in Nat /\ faults \in Nat /\ Span \in Nat /\ Poll <= Span
      /\ Span = Poll + Grace_At(age - Grace - open)
      /\ relocker' # None /\ relocker' \in RelockerType
      /\ locked' = locked /\ open' = open
  BY RelockerFacts, RelockerStays DEF Look, past
<1>2. /\ Poll \in Nat /\ Grace \in Nat
      /\ ~locked => open <= faults * Span + Poll
      /\ locked => open = 0
  BY <1>1, Constants DEF Relocking
<1>3. /\ faults * Span \in Nat /\ (1 + faults) * Span = faults * Span + Span
      /\ (faults + 1) * Span = faults * Span + Span
  BY <1>1, OneMore
<1>4. CASE Query(TRUE) /\ relocker' = [relocker EXCEPT !.wait = Poll, !.told = FALSE]
  <2>1. locked
    <3>1. TRUE # None
      BY CountdownAssumption, Zenon DEF CountdownAssumption
    <3> QED BY <1>4, <3>1, Zenon DEF Query
  <2>2. relocker'.at = "look" /\ relocker'.wait = Poll
    BY <1>1, <1>4 DEF RelockerType
  <2> QED BY <1>1, <1>2, <2>1, <2>2 DEF Relocking
<1>5. CASE Query(FALSE) /\ relocker' = [relocker EXCEPT !.at = "again",
                             !.wait = Delay(age), !.told = @ \/ relocker.shows]
  <2>1. relocker'.at = "again" /\ relocker'.wait = Delay(age) /\ relocker'.age = age
    BY <1>1, <1>5 DEF RelockerType
  <2>2. /\ Delay(age) = Grace_At(age) /\ Delay(age) \in 0 .. Grace
        /\ Delay(age) <= Grace_At(age - Grace - open)
        /\ Delay(age) <= Grace_At(age - Grace + Delay(age))
    <3>1. Delay(age) = Grace_At(age) /\ Delay(age) \in 0 .. Grace
      BY <1>1, DelayFalls DEF Grace_At, Greater
    <3>2. /\ age - Grace - open \in Int /\ age - Grace - open <= age
          /\ age - Grace + Delay(age) \in Int /\ age - Grace + Delay(age) <= age
      BY <1>1, <1>2, <3>1
    <3> QED BY <1>1, <3>1, <3>2, GraceFalls
  <2>3. Span' = Span /\ faults' \in Nat /\ faults <= faults'
    <3>1. faults' \in 0 .. MaxFaults /\ faults <= faults'
      BY <1>5, FaultType DEF Query
    <3> QED BY <1>1, <2>1, <3>1, Constants DEF Span
  <2>4. (1 + faults) * Span <= (1 + faults') * Span /\ (1 + faults') * Span \in Nat
    BY <1>1, <2>3, GrowsByOne
  <2>5. ~locked => open + Delay(age) <= (1 + faults) * Span
    <3> DEFINE grace == Grace_At(age - Grace - open)
               spans == faults * Span
               delay == Delay(age)
    <3>1. grace \in 0 .. Grace
      BY <1>1, <1>2, GraceFalls
    <3>2. /\ Span = Poll + grace /\ delay <= grace /\ delay \in Nat
          /\ spans \in Nat /\ (1 + faults) * Span = spans + Span
          /\ ~locked => open <= spans + Poll
      BY <1>1, <1>2, <1>3, <2>2
    <3> HIDE DEF grace, spans, delay, Span
    <3> QED BY <1>1, <1>2, <3>1, <3>2 DEF delay
  <2>6. Delay(age) <= Delay(Greater(age - Grace + Delay(age), 0))
    BY <2>2 DEF Grace_At
  <2> HIDE DEF Span, age
  <2>7. ~locked' => open' + Delay(age) <= (1 + faults') * Span'
    BY <1>1, <1>3, <2>2, <2>3, <2>4, <2>5
  <2> QED BY <1>1, <1>2, <2>1, <2>6, <2>7 DEF Relocking
<1>6. CASE Query(None) /\ relocker' = [relocker EXCEPT !.wait = Poll]
  <2>1. relocker'.at = "look" /\ relocker'.wait = Poll /\ relocker'.age = age
    BY <1>1, <1>6 DEF RelockerType
  <2>2. faults' = faults + 1
    <3>1. locked # None
      BY CountdownAssumption, Zenon DEF TypeOK, CountdownAssumption
    <3> QED BY <1>6, <3>1 DEF Query, Fault
  <2>3. Span' = Span
    BY <1>1, <2>1 DEF Span
  <2> HIDE DEF Span, age
  <2> QED BY <1>1, <1>2, <1>3, <2>1, <2>2, <2>3 DEF Relocking
<1> QED BY <1>4, <1>5, <1>6 DEF Look

(* A factor that does not fall.                                            *)
LEMMA FactorGrows ==
  ASSUME NEW n \in Nat, NEW a \in Nat, NEW b \in Nat, a <= b
  PROVE  n * a \in Nat /\ n * b \in Nat /\ n * a <= n * b
<1>1. a * n <= b * n
  BY Grows
<1>2. n * a = a * n /\ n * b = b * n /\ n * a \in Nat /\ n * b \in Nat
  OBVIOUS
<1> QED BY <1>1, <1>2

(* A unit of time makes the session one unit older and open for one more:  *)
(* what is granted to it does not become less.                             *)
LEMMA RelockTicks ==
  ASSUME TypeOK, TypeOK', Relocking, Tick
  PROVE  Relocking'
<1> DEFINE age == relocker.age
           wait == relocker.wait
<1>1. locked' = locked /\ faults' = faults
  BY DEF Tick
<1>2. CASE relocker = None
  <2>1. relocker' = None /\ open' = 0
    BY <1>2 DEF Tick
  <2> QED BY <2>1 DEF Relocking
<1>3. CASE relocker # None
  <2>1. /\ relocker \in RelockerType /\ wait \in Nat /\ age \in Nat /\ open \in Nat
        /\ faults \in Nat /\ Span \in Nat
        /\ Span = Poll + Grace_At(age - Grace - open)
        /\ Grace \in Nat /\ Poll \in Nat
    BY <1>3, RelockerFacts, Constants
  <2>2. relocker' \in RelockerType /\ relocker' # None
    BY <1>3, RelockerStays
  <2>3. /\ relocker'.at = relocker.at /\ relocker'.wait = wait - 1 /\ wait > 0
        /\ relocker'.age = Lesser(age + 1, OldAge)
    BY <1>3, <2>1 DEF Tick, RelockerType
  <2>4. /\ relocker'.age \in Nat /\ relocker'.age <= age + 1
        /\ open' = IF locked THEN 0 ELSE open + 1
    <3>1. OldAge \in Nat
      BY Constants DEF OldAge
    <3>2. open' = IF locked THEN 0 ELSE open + 1
      BY <1>3, Zenon DEF Tick
    <3> QED BY <2>1, <2>3, <3>1, <3>2 DEF Lesser
  <2>5. locked' => open' = 0
    BY <1>1, <2>4
  <2>6. ~locked => Span <= Span' /\ Span' \in Nat
    <3> SUFFICES ASSUME ~locked PROVE Span <= Span' /\ Span' \in Nat
      OBVIOUS
    <3>1. /\ relocker'.age - Grace - open' \in Int /\ age - Grace - open \in Int
          /\ relocker'.age - Grace - open' <= age - Grace - open
      BY <2>1, <2>4
    <3>2. /\ Grace_At(age - Grace - open) <= Grace_At(relocker'.age - Grace - open')
          /\ Grace_At(age - Grace - open) \in 0 .. Grace
          /\ Grace_At(relocker'.age - Grace - open') \in 0 .. Grace
      BY <3>1, GraceFalls
    <3>3. Span' = Poll + Grace_At(relocker'.age - Grace - open')
      BY DEF Span, Grace_At
    <3> QED BY <2>1, <3>2, <3>3
  <2>7. CASE relocker.at = "look"
    <3>1. wait <= Poll /\ (~locked => open + wait <= faults * Span + Poll)
      BY <1>3, <2>7 DEF Relocking
    <3>2. ~locked => /\ faults * Span <= faults * Span' /\ faults * Span \in Nat
                     /\ faults * Span' \in Nat
      BY <2>1, <2>6, FactorGrows
    <3> HIDE DEF Span, wait
    <3>3. ~locked => open' + (wait - 1) <= faults * Span' + Poll
      BY <2>1, <2>4, <3>1, <3>2
    <3> QED BY <1>1, <2>1, <2>2, <2>3, <2>5, <2>7, <3>1, <3>3 DEF Relocking
  <2>8. CASE relocker.at = "again"
    <3>1. /\ wait <= Grace_At(age - Grace + wait)
          /\ ~locked => open + wait <= (1 + faults) * Span
      BY <1>3, <2>8 DEF Relocking, Grace_At
    <3>2. /\ Grace_At(age - Grace + wait)
               <= Grace_At(relocker'.age - Grace + relocker'.wait)
          /\ Grace_At(age - Grace + wait) \in 0 .. Grace
          /\ Grace_At(relocker'.age - Grace + relocker'.wait) \in 0 .. Grace
      <4>1. /\ relocker'.age - Grace + relocker'.wait \in Int
            /\ age - Grace + wait \in Int
            /\ relocker'.age - Grace + relocker'.wait <= age - Grace + wait
        BY <2>1, <2>3, <2>4
      <4> QED BY <4>1, GraceFalls
    <3>3. relocker'.wait <= Delay(Greater(relocker'.age - Grace + relocker'.wait, 0))
      <4>1. relocker'.wait <= Grace_At(relocker'.age - Grace + relocker'.wait)
        BY <2>1, <2>3, <3>1, <3>2
      <4> QED BY <4>1 DEF Grace_At
    <3>4. 1 + faults \in Nat
      BY <2>1
    <3>5. ~locked => /\ (1 + faults) * Span <= (1 + faults) * Span'
                     /\ (1 + faults) * Span \in Nat /\ (1 + faults) * Span' \in Nat
      BY <2>1, <2>6, <3>4, FactorGrows
    <3> HIDE DEF Span, wait
    <3>6. ~locked => open' + (wait - 1) <= (1 + faults) * Span'
      BY <2>1, <2>4, <3>1, <3>5
    <3> QED BY <1>1, <2>1, <2>2, <2>3, <2>5, <2>8, <3>3, <3>6 DEF Relocking
  <2>9. relocker.at \in {"look", "again"}
    BY <1>3, <2>1, <2>3 DEF RelockerType, Relocking
  <2> QED BY <2>7, <2>8, <2>9
<1> QED BY <1>2, <1>3

(* Who unlocks the session in a grace has what is left of that grace.      *)
LEMMA RelockUnlocked ==
  ASSUME TypeOK, TypeOK', Relocking, Child
  PROVE  Relocking'
<1>1. open' = 0 /\ relocker' = relocker /\ faults' = faults
  BY DEF Child
<1>2. CASE relocker = None
  BY <1>1, <1>2 DEF Relocking
<1>3. CASE relocker # None
  <2> DEFINE age == relocker.age
             wait == relocker.wait
  <2>1. /\ relocker \in RelockerType /\ wait \in Nat /\ age \in Nat
        /\ faults \in Nat /\ Grace \in Nat /\ Poll \in Nat
    BY <1>3, RelockerFacts, Constants
  <2>2. /\ age - Grace \in Int /\ age - Grace + wait \in Int
        /\ age - Grace <= age - Grace + wait /\ age - Grace - open' = age - Grace
    BY <1>1, <2>1
  <2>3. /\ Grace_At(age - Grace) \in 0 .. Grace
        /\ Grace_At(age - Grace + wait) \in 0 .. Grace
        /\ Grace_At(age - Grace + wait) <= Grace_At(age - Grace)
    BY <2>2, GraceFalls
  <2>4. Span' = Poll + Grace_At(age - Grace)
    BY <1>1, <2>2 DEF Span, Grace_At
  <2>5. /\ Span' \in Nat /\ faults * Span' \in Nat
        /\ (1 + faults) * Span' = faults * Span' + Span'
    <3>1. Span' \in Nat
      BY <2>1, <2>3, <2>4
    <3>2. (faults + 1) * Span' = faults * Span' + Span' /\ faults * Span' \in Nat
      BY <2>1, <3>1, OneMore
    <3>3. 1 + faults = faults + 1
      BY <2>1
    <3> QED BY <3>1, <3>2, <3>3
  <2>6. relocker.at = "again" => wait <= Grace_At(age - Grace + wait)
    BY <1>3 DEF Relocking, Grace_At
  <2>7. relocker.at = "again" => open' + wait <= (1 + faults) * Span'
    <3> HIDE DEF Span
    <3> QED BY <1>1, <2>1, <2>3, <2>4, <2>5, <2>6
  <2>8. relocker.at = "look" => wait <= Poll /\ open' + wait <= faults * Span' + Poll
    <3>1. relocker.at = "look" => wait <= Poll
      BY <1>3 DEF Relocking
    <3> HIDE DEF Span
    <3> QED BY <1>1, <2>1, <2>5, <3>1
  <2>9. relocker.at = "lock" => wait = 0
    BY <1>3 DEF Relocking
  <2>10. relocker.at = "again" =>
           wait <= Delay(Greater(age - Grace + wait, 0))
    BY <2>6 DEF Grace_At
  <2> HIDE DEF Span
  <2> QED BY <1>1, <1>3, <2>7, <2>8, <2>9, <2>10 DEF Relocking
<1> QED BY <1>2, <1>3

(* Every step keeps the session shut in time.                              *)
LEMMA RelockStep ==
  ASSUME TypeOK, TypeOK', Relocking, [Next]_vars
  PROVE  Relocking'
<1>1. CASE UNCHANGED <<locked, relocker, open, faults>>
  BY <1>1, RelockKept
<1>2. CASE UNCHANGED vars \/ Counting \/ Notify
  <2>1. UNCHANGED <<locked, relocker, open, faults>>
    BY <1>2 DEF vars, past, Counting, Update, Cancel, Fire, Notify
  <2> QED BY <1>1, <2>1
<1>3. CASE Skip \/ Beat
  <2>1. UNCHANGED <<locked, relocker, open>>
    BY <1>3 DEF Skip, Beat, past
  <2>2. Fault \/ UNCHANGED faults
    BY <1>3 DEF Skip, Beat, Query
  <2> QED BY <2>1, <2>2, RelockKept
<1>4. CASE Tell \/ Hide \/ Show \/ Fail
  <2>1. UNCHANGED <<locked, relocker, open, faults>>
    BY <1>4 DEF Tell, Hide, Show, Fail, past
  <2> QED BY <1>1, <2>1
<1>5. ASSUME NEW minutes \in Minutes, Answer(minutes) PROVE Relocking'
  <2>1. UNCHANGED <<locked, relocker, open, faults>>
    BY <1>5 DEF Answer
  <2> QED BY <1>1, <2>1
<1>6. ASSUME relocker' = None, open' = 0 PROVE Relocking'
  BY <1>6 DEF Relocking
<1>7. ASSUME relocker = None, UNCHANGED open, NEW shows \in BOOLEAN,
             relocker' = Spawned(shows)
      PROVE  Relocking'
  <2>1. open' = 0
    BY <1>7 DEF Relocking
  <2>2. relocker'.at = "lock" /\ relocker'.wait = 0
    BY <1>7 DEF Spawned
  <2> QED BY <2>1, <2>2 DEF Relocking
<1>8. CASE Disable
  BY <1>6, <1>8 DEF Disable, Abort
<1>9. CASE Enable
  <2>1. CASE relocker = None
    <3>1. relocker' = Spawned(main.answer # None) /\ UNCHANGED open
      BY <1>9, <2>1 DEF Enable
    <3>2. (main.answer # None) \in BOOLEAN
      OBVIOUS
    <3> QED BY <1>7, <2>1, <3>1, <3>2, Zenon
  <2>2. CASE relocker # None
    <3>1. UNCHANGED <<locked, relocker, open, faults>>
      BY <1>9, <2>2 DEF Enable
    <3> QED BY <1>1, <3>1
  <2> QED BY <2>1, <2>2
<1>10. ASSUME NEW minutes \in Minutes, Listen(minutes) PROVE Relocking'
  <2>1. \/ relocker' = None /\ open' = 0
        \/ relocker = None /\ relocker' = Spawned(TRUE) /\ UNCHANGED open
        \/ UNCHANGED <<locked, relocker, open, faults>>
    BY <1>10 DEF Listen, Abort
  <2> QED BY <1>1, <1>6, <1>7, <2>1
<1>11. CASE Relock
  BY <1>11, RelockLocks
<1>12. CASE Look
  BY <1>12, RelockLooks
<1>13. CASE Child
  BY <1>13, RelockUnlocked
<1>14. CASE Tick
  BY <1>14, RelockTicks
<1> QED
  BY <1>2, <1>3, <1>4, <1>5, <1>8, <1>9, <1>10, <1>11, <1>12, <1>13, <1>14
  DEF Next, Main

-----------------------------------------------------------------------------
(* The last minute stays where it is when nobody moves it.                 *)
LEMMA MinuteKept ==
  ASSUME Announced, UNCHANGED <<told, main, channel, schedule, warned>>
  PROVE  Announced'
  BY DEF Announced, LastMinute

(* Nothing is to be shown for a server that told nothing in time.          *)
LEMMA MinuteForgotten ==
  ASSUME told' # 1
  PROVE  Announced'
  BY DEF Announced

(* The answer is a minute in the channel.                                  *)
LEMMA MinuteSent ==
  ASSUME TypeOK, Announced, Tell
  PROVE  Announced'
<1> SUFFICES ASSUME told = 1 PROVE LastMinute'
  BY DEF Announced, Tell, past
<1>1. main.at = "tell" /\ LastMinute /\ main \in MainType
  BY DEF Tell, Announced, TypeOK
<1>2. /\ channel \in Seq(Minutes) /\ channel' = Append(channel, main.answer)
      /\ warned' = warned /\ schedule' = schedule
  BY DEF TypeOK, Tell, past, Channels
<1>3. CASE main.answer = 1 /\ main.rest = Interval
  <2>1. main' = [main EXCEPT !.at = "abort"]
    BY <1>3 DEF Tell, MainGoes
  <2>2. main'.at = "abort" /\ main'.rest = Interval
    BY <1>1, <1>3, <2>1 DEF MainType
  <2>3. 1 \in Minutes
    BY <1>1, <1>3, Constants DEF MainType
  <2>4. channel' # <<>> /\ channel'[Len(channel')] = 1
    BY <1>2, <1>3, <2>3
  <2> QED BY <2>2, <2>4 DEF LastMinute
<1>4. CASE main.answer = 0 /\ channel = <<>> /\ schedule = None /\ warned = Warn
  <2>1. main' = [main EXCEPT !.at = "enable"]
    BY <1>4 DEF Tell, MainGoes
  <2>2. main'.at = "enable"
    BY <1>1, <2>1 DEF MainType
  <2>3. channel' = <<0>>
    BY <1>2, <1>4
  <2> QED BY <1>2, <1>4, <2>2, <2>3 DEF LastMinute
<1> QED BY <1>1, <1>3, <1>4 DEF LastMinute

(* The minute is the last command: the warning comes when it has Warn left.*)
LEMMA MinuteScheduled ==
  ASSUME TypeOK, Announced, Update \/ Cancel
  PROVE  Announced'
<1> SUFFICES ASSUME told = 1 PROVE LastMinute'
  BY DEF Announced, Update, Cancel, past
<1>1. /\ channel # <<>> /\ channel' = Tail(channel) /\ channel \in Seq(Minutes)
      /\ main' = main /\ warned' = warned /\ LastMinute
  BY DEF TypeOK, Update, Cancel, past, Channels, Announced
<1>2. CASE /\ main.at \in {"abort", "hide", "sleep"} /\ main.rest = Interval
           /\ channel[Len(channel)] = 1
  <2>1. CASE channel' = <<>>
    <3>1. Head(channel) = 1
      <4>1. Len(Tail(channel)) = Len(channel) - 1 /\ Len(channel) \in Nat
        BY <1>1
      <4>0. \A s : s = <<>> => Len(s) = 0
        OBVIOUS
      <4>2. Len(Tail(channel)) = 0
        BY <1>1, <2>1, <4>0, Zenon
      <4>3. Len(channel) = 1
        BY <4>1, <4>2
      <4> QED BY <1>1, <1>2, <4>3
    <3>2. Update
      BY <3>1 DEF Cancel
    <3>3. \E low \in BOOLEAN : schedule' = Scheduled(1, low)
      <4>1. (Head(channel) * Interval <= Caution) \in BOOLEAN
        OBVIOUS
      <4> QED BY <3>1, <3>2, <4>1, Zenon DEF Update
    <3>4. schedule' # None /\ schedule'.warn = Interval - Warn
      <4>1. PICK low \in BOOLEAN : schedule' = Scheduled(1, low)
        BY <3>3
      <4>2. schedule'.warn = Interval - Warn
        BY <4>1, Constants DEF Scheduled, Greater
      <4>3. 1 \in Minutes
        BY <1>1, <3>1
      <4>4. schedule' \in ScheduleType
        BY <4>1, <4>3, ScheduledType
      <4> QED BY <4>2, <4>4, CountdownAssumption DEF CountdownAssumption
    <3> QED BY <1>1, <1>2, <2>1, <3>4, Constants DEF LastMinute
  <2>2. CASE channel' # <<>>
    <3>1. channel'[Len(channel')] = 1
      BY <1>1, <1>2, <2>2
    <3> QED BY <1>1, <1>2, <2>2, <3>1 DEF LastMinute
  <2> QED BY <2>1, <2>2
<1>3. CASE /\ main.at = "enable" /\ channel = <<0>>
           /\ schedule = None /\ warned = Warn
  <2>1. Cancel
    BY <1>3 DEF Update
  <2>2. schedule' = None /\ channel' = <<>>
    BY <1>1, <1>3, <2>1 DEF Cancel
  <2> QED BY <1>1, <1>3, <2>2 DEF LastMinute
<1> QED BY <1>1, <1>2, <1>3 DEF LastMinute

(* The warning is shown when the minute has Warn left.                     *)
LEMMA MinuteWarned ==
  ASSUME TypeOK, Silence, Announced, Fire
  PROVE  Announced'
<1> SUFFICES ASSUME told = 1 PROVE LastMinute'
  BY DEF Announced, Fire
<1>1. /\ schedule # None /\ schedule.warn = 0 /\ LastMinute /\ schedule' = None
      /\ UNCHANGED <<main, channel>> /\ warned' = 0
  BY CountdownAssumption DEF Fire, Announced, CountdownAssumption
<1>2. 0 # None /\ Warn \in Nat /\ Warn < Interval
  BY Constants
<1> QED BY <1>1, <1>2 DEF LastMinute

(* A heartbeat that is answered at once tells of the minute a whole        *)
(* interval before the next.                                               *)
LEMMA MinuteTold ==
  ASSUME TypeOK, Silence, Announced, NEW minutes \in Minutes, Answer(minutes)
  PROVE  Announced'
<1> SUFFICES ASSUME told' = 1 PROVE LastMinute'
  BY DEF Announced
<1>1. /\ main.at = "beat" /\ main \in MainType
      /\ main' = [main EXCEPT !.at = "tell", !.answer = minutes,
                              !.failures = 0, !.waited = 0]
  BY DEF Answer, TypeOK
<1>2. /\ main'.at = "tell" /\ main'.answer = minutes /\ main'.rest = main.rest
      /\ UNCHANGED <<channel, schedule>>
  BY <1>1 DEF MainType, Answer
<1>3. CASE minutes = 0
  <2>1. told = 1 /\ warned' = warned
    BY <1>3 DEF Answer
  <2>2. channel = <<>> /\ schedule = None /\ warned = Warn
    BY <1>1, <2>1 DEF Announced, LastMinute
  <2> QED BY <1>2, <1>3, <2>1, <2>2 DEF LastMinute
<1>4. CASE minutes # 0
  <2>1. told' = IF main.waited = 0 THEN minutes ELSE None
    BY <1>4 DEF Answer
  <2>2. main.waited = 0 /\ minutes = 1
    BY <2>1, Constants
  <2>3. main.rest = Interval
    BY <1>1, <2>2, Constants DEF Silence, Greater
  <2> QED BY <1>2, <2>2, <2>3 DEF LastMinute
<1> QED BY <1>3, <1>4

(* A heartbeat begins when the minute is over, and with it the warning.    *)
LEMMA MinuteOver ==
  ASSUME TypeOK, Announced, Beat
  PROVE  Announced'
<1> SUFFICES ASSUME told = 1 PROVE LastMinute'
  BY DEF Announced, Beat, past
<1>1. /\ main.at = "sleep" /\ main.rest = 0 /\ main \in MainType /\ LastMinute
      /\ main' = [main EXCEPT !.at = "beat", !.rest = Interval]
      /\ UNCHANGED <<channel, schedule, warned>>
  BY DEF Beat, TypeOK, Announced, past
<1>2. main'.at = "beat"
  BY <1>1 DEF MainType
<1>3. schedule # None => schedule.warn \in Nat
  <2>1. MaxLeft * Interval \in Nat
    BY Constants
  <2> QED BY <2>1 DEF TypeOK, ScheduleType
<1>4. Warn \in Nat \ {0} /\ Interval # 0 /\ (warned # None => warned \in 0 .. Warn)
  BY Constants DEF TypeOK
<1>5. channel = <<>> /\ schedule = None /\ warned = Warn
  BY <1>1, <1>3, <1>4 DEF LastMinute
<1> QED BY <1>1, <1>2, <1>5 DEF LastMinute

(* The minute, the warning that is due and the one that was shown advance  *)
(* together.                                                               *)
LEMMA MinutePasses ==
  ASSUME TypeOK, Announced, Tick
  PROVE  Announced'
<1> SUFFICES ASSUME told = 1 PROVE LastMinute'
  BY DEF Announced, Tick
<1>1. /\ main \in MainType /\ channel = <<>> /\ channel' = channel /\ LastMinute
      /\ (main.at = "sleep" /\ main.rest > 0) \/ main.at = "beat"
  BY DEF Tick, TypeOK, Announced
<1>2. /\ main'.at = main.at /\ main'.rest = Greater(main.rest - 1, 0)
      /\ main.rest \in Nat
  BY Constants DEF Tick, TypeOK, MainType
<1>3. CASE main.at = "sleep" /\ schedule # None /\ main.rest = schedule.warn + Warn
  <2>1. /\ schedule \in ScheduleType /\ schedule.warn \in Nat /\ schedule.warn > 0
        /\ schedule' = [schedule EXCEPT !.warn = @ - 1]
    <3>1. MaxLeft * Interval \in Nat
      BY Constants
    <3> QED BY <1>3, <3>1 DEF Tick, TypeOK, ScheduleType
  <2>2. schedule'.warn = schedule.warn - 1
    BY <2>1 DEF ScheduleType
  <2>3. schedule' # None
    <3>1. MaxLeft * Interval \in Nat
      BY Constants
    <3>2. schedule.warn - 1 \in 0 .. MaxLeft * Interval
      BY <2>1, <3>1 DEF ScheduleType
    <3>3. schedule' \in ScheduleType
      BY <2>1, <3>2 DEF ScheduleType
    <3> QED BY <3>3, CountdownAssumption DEF CountdownAssumption
  <2>4. main'.rest = schedule'.warn + Warn
    BY <1>2, <1>3, <2>1, <2>2, Constants DEF Greater
  <2>5. channel' = <<>> /\ main'.at = "sleep"
    BY <1>1, <1>2, <1>3
  <2> QED BY <2>3, <2>4, <2>5 DEF LastMinute
<1>4. CASE /\ main.at = "sleep" /\ schedule = None
           /\ warned # None /\ warned + main.rest = Warn
  <2>1. schedule' = None /\ warned' = Lesser(warned + 1, Warn) /\ warned \in 0 .. Warn
    BY <1>4 DEF Tick, TypeOK
  <2>2. main.rest > 0
    BY <1>1, <1>4
  <2>3. warned' = warned + 1 /\ main'.rest = main.rest - 1 /\ warned' # None
    BY <1>2, <1>4, <2>1, <2>2, Constants DEF Lesser, Greater
  <2>4. warned' + main'.rest = Warn
    BY <1>2, <1>4, <2>1, <2>3, Constants
  <2>5. channel' = <<>> /\ main'.at = "sleep"
    BY <1>1, <1>2, <1>4
  <2> QED BY <2>1, <2>3, <2>4, <2>5 DEF LastMinute
<1>5. CASE main.at = "beat" /\ schedule = None /\ warned = Warn
  <2>1. schedule' = None /\ warned' = Lesser(Warn + 1, Warn)
    BY <1>5, Constants DEF Tick
  <2>2. warned' = Warn
    BY <2>1, Constants DEF Lesser
  <2> QED BY <1>1, <1>2, <1>5, <2>1, <2>2 DEF LastMinute
<1> QED BY <1>1, <1>3, <1>4, <1>5 DEF LastMinute

(* Every step takes the last minute to the next place.                     *)
LEMMA AnnouncedStep ==
  ASSUME TypeOK, Silence, Announced, [Next]_vars
  PROVE  Announced'
<1>1. CASE \/ UNCHANGED vars \/ Relock \/ Look \/ Notify \/ Child
  <2>1. UNCHANGED <<told, main, channel, schedule, warned>>
    BY <1>1 DEF vars, past, Relock, Look, Notify, Child
  <2> QED BY <2>1, MinuteKept
<1>2. CASE Skip \/ Enable \/ Fail
  <2>1. told' = None
    BY <1>2 DEF Skip, Enable, Fail, Forget
  <2> QED BY <2>1, Constants, MinuteForgotten
<1>3. ASSUME NEW minutes \in Minutes, Listen(minutes) PROVE Announced'
  <2>1. told' = None \/ UNCHANGED <<told, main, channel, schedule, warned>>
    BY <1>3 DEF Listen, Forget
  <2> QED BY <2>1, Constants, MinuteForgotten, MinuteKept
<1>4. CASE Disable \/ Hide
  <2>1. /\ \/ main.at = "abort" /\ main' = [main EXCEPT !.at = "hide"]
           \/ main.at = "hide" /\ main' = [main EXCEPT !.at = "sleep", !.answer = None]
        /\ UNCHANGED <<told, channel, schedule, warned>>
    BY <1>4 DEF Disable, Hide, MainGoes, Sleep, past
  <2>2. /\ main.at \in {"abort", "hide"} /\ main'.at \in {"hide", "sleep"}
        /\ main'.rest = main.rest
    BY <2>1 DEF TypeOK, MainType
  <2> QED BY <2>1, <2>2 DEF Announced, LastMinute
<1>5. CASE Show
  <2>1. main.at = "show" /\ told' = told
    BY <1>5 DEF Show, past
  <2> QED BY <2>1 DEF Announced, LastMinute
<1>6. CASE Tell
  BY <1>6, MinuteSent
<1>7. CASE Update \/ Cancel
  BY <1>7, MinuteScheduled
<1>8. CASE Fire
  BY <1>8, MinuteWarned
<1>9. CASE Beat
  BY <1>9, MinuteOver
<1>10. CASE Tick
  BY <1>10, MinutePasses
<1>11. ASSUME NEW minutes \in Minutes, Answer(minutes) PROVE Announced'
  BY <1>11, MinuteTold
<1> QED
  BY <1>1, <1>2, <1>3, <1>4, <1>5, <1>6, <1>7, <1>8, <1>9, <1>10, <1>11
  DEF Next, Main, Counting

-----------------------------------------------------------------------------
(* The agent begins asleep, unlocked, and with nothing told.               *)
LEMMA TimingInit == Init => TypeOK /\ Timing
<1> SUFFICES ASSUME Init PROVE TypeOK /\ Timing
  OBVIOUS
<1>1. TypeOK
  <2>1. main \in MainType
    BY Constants DEF Init, MainType
  <2>2. channel \in Channels
    <3>1. <<>> \in Seq(Minutes) /\ Len(<<>>) = 0
      OBVIOUS
    <3> QED BY <3>1, Constants DEF Init, Channels
  <2>3. 0 \in 0 .. MaxFaults /\ 0 \in Nat
    BY Constants
  <2> QED BY <2>1, <2>2, <2>3, Zenon DEF Init, TypeOK, Notices
<1>2. Answered /\ Resting
  BY DEF Init, Answered, Resting
<1>3. Silence
  <2>1. FailFuse * Timeout \in Nat
    BY Constants
  <2>2. 0 * Timeout = 0
    BY Constants
  <2> QED BY <2>1, <2>2, Constants DEF Init, Silence
<1>4. Relocking
  BY DEF Init, Relocking
<1>5. Announced
  BY Constants DEF Init, Announced
<1> QED BY <1>1, <1>2, <1>3, <1>4, <1>5 DEF Timing

(* The invariant of the agent's clocks.                                    *)
LEMMA TimingInvariant == Spec => [](TypeOK /\ Timing)
<1>1. ASSUME TypeOK, Timing, [Next]_vars PROVE TypeOK' /\ Timing'
  <2>1. Answered /\ Resting /\ Silence /\ Relocking /\ Announced
    BY <1>1 DEF Timing
  <2>2. TypeOK' /\ Answered'
    BY <1>1, <2>1, TypeStep
  <2>3. Resting' /\ Silence'
    BY <1>1, <2>1, <2>2, RestingStep, SilenceStep
  <2>4. Relocking' /\ Announced'
    BY <1>1, <2>1, <2>2, RelockStep, AnnouncedStep
  <2> QED BY <2>2, <2>3, <2>4 DEF Timing
<1> QED BY <1>1, TimingInit, PTL DEF Spec

(* Every variable keeps its shape.                                         *)
THEOREM TypeCorrect == Spec => []TypeOK
  BY TimingInvariant, PTL

(* A lock because the minutes ran down was announced Warn units before, if *)
(* the answer before told of the last minute at once: whatever the session,*)
(* the events and the other tasks do meanwhile.                            *)
THEOREM Warned == Spec => []WarnedInTime
<1>1. TypeOK /\ Timing => WarnedInTime
  BY DEF Timing, Announced, LastMinute, WarnedInTime
<1> QED BY <1>1, TimingInvariant, PTL

(* However the child locks and unlocks the session and whatever calls of   *)
(* the system fail, the re-locker leaves it open no longer, per failure,   *)
(* than a look and the grace of a Grace before.                            *)
THEOREM Relocked == Spec => []RelockInTime
<1>1. TypeOK /\ Timing => RelockInTime
  <2> SUFFICES ASSUME TypeOK, Timing, relocker # None
               PROVE  open <= (1 + faults) * Span
    BY DEF RelockInTime, Span
  <2>1. /\ relocker \in RelockerType /\ relocker.wait \in Nat /\ open \in Nat
        /\ faults \in Nat /\ Span \in Nat /\ Poll <= Span /\ Relocking
    BY RelockerFacts DEF Timing
  <2>2. /\ faults * Span \in Nat /\ (1 + faults) * Span = faults * Span + Span
    <3>1. (faults + 1) * Span = faults * Span + Span /\ faults * Span \in Nat
      BY <2>1, OneMore
    <3>2. 1 + faults = faults + 1
      BY <2>1
    <3> QED BY <3>1, <3>2
  <2>3. CASE locked
    BY <2>1, <2>2, <2>3 DEF Relocking
  <2>4. CASE ~locked
    <3>1. \/ relocker.at = "lock" /\ open = 0
          \/ relocker.at = "look" /\ open + relocker.wait <= faults * Span + Poll
          \/ relocker.at = "again" /\ open + relocker.wait <= (1 + faults) * Span
      BY <2>1, <2>4 DEF Relocking, RelockerType
    <3>2. Poll \in Nat
      BY Constants
    <3> HIDE DEF Span
    <3> QED BY <2>1, <2>2, <3>1, <3>2
  <2> QED BY <2>3, <2>4
<1> QED BY <1>1, TimingInvariant, PTL

(* The failsafe comes after one interval and the timeouts of FailFuse      *)
(* heartbeats at the latest, whatever else happens.                        *)
THEOREM FailsafeSoon == Spec => []FailsafeInTime
<1>1. TypeOK /\ Timing => FailsafeInTime
  BY DEF Timing, Silence, FailsafeInTime
<1> QED BY <1>1, TimingInvariant, PTL

=============================================================================
