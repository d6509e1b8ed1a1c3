---------------------------- MODULE AgentProofs -----------------------------
(***************************************************************************)
(* Proofs about Agent, for every clock, fuse, window and number of faults. *)
(***************************************************************************)
EXTENDS Agent, FiniteSetTheorems, TLAPS

(* The minutes the agent may report: those it counted, and a torn line.    *)
Known == used \cup {Torn}

(* Nothing but known minutes is in the log, on the network or in flight;   *)
(* the server has charged only minutes that were counted, and an answer    *)
(* means that the whole batch is charged.                                  *)
LogInv ==
    /\ now \in Minutes
    /\ remaining \in Int /\ granted \in Int
    /\ pending \subseteq Known /\ disk \subseteq Known /\ batch \subseteq Known
    /\ \A log \in late : log \subseteq Known
    /\ used \subseteq Minutes /\ charged \subseteq used
    /\ reply \in Int \cup {None, Error}
    /\ reply \in Int => batch \subseteq charged

(* No value and a refusal are not numbers.                                 *)
LEMMA Distinct == None \notin Int /\ Error \notin Int /\ Error # None
  BY AgentAssumption DEF AgentAssumption

(* A log with a torn line is outside the window at any time.               *)
LEMMA TornIsOld ==
  ASSUME now \in Nat, NEW log, InWindow(log)
  PROVE  Torn \notin log
<1> SUFFICES ASSUME Torn \in log PROVE FALSE
  OBVIOUS
<1>1. Torn >= now - WindowPast
  BY DEF InWindow
<1> QED BY <1>1, AgentAssumption DEF Torn, AgentAssumption

(* What a save, done, failed or cut short, leaves on disk.                 *)
LEMMA PrefixesIn ==
  ASSUME NEW K, Torn \in K, NEW log, log \subseteq K, NEW d \in Prefixes(log)
  PROVE  d \subseteq K
  BY DEF Prefixes

(* A save, cut short or not, leaves only lines of the log or a torn one.   *)
LEMMA SaveIn ==
  ASSUME NEW K, Torn \in K, NEW log, log \subseteq K, disk \subseteq K,
         Saved(log) \/ NotSaved(log)
  PROVE  disk' \subseteq K
  BY PrefixesIn DEF Saved, NotSaved

(* Charging a log takes one minute for each minute that is new.            *)
LEMMA CardinalityOfNew ==
  ASSUME LogInv, NEW log, log \subseteq Known
  PROVE  Cardinality(log \ charged) \in Nat
<1>1. IsFiniteSet(Minutes)
  BY FS_Interval, AgentAssumption DEF Minutes, AgentAssumption
<1>2. log \subseteq Minutes \cup {Torn}
  BY DEF LogInv, Known
<1>3. IsFiniteSet(Minutes \cup {Torn})
  BY <1>1, FS_AddElement
<1>4. IsFiniteSet(log \ charged)
  BY <1>2, <1>3, FS_Subset
<1> QED BY <1>4, FS_CardinalityType

(* The server charges a batch of known minutes: the minutes that are new   *)
(* were used and not charged before.                                       *)
LEMMA ChargeNew ==
  ASSUME LogInv, NEW log, log \subseteq Known, InWindow(log), Charge(log)
  PROVE  /\ log \ charged \in SUBSET (used \ charged)
         /\ charged' = charged \cup (log \ charged)
         /\ remaining' = remaining - Cardinality(log \ charged)
         /\ granted' = granted
         /\ charged \subseteq charged' /\ log \subseteq charged'
         /\ charged' \subseteq used
<1>1. Torn \notin log
  BY TornIsOld, AgentAssumption DEF LogInv, Minutes, AgentAssumption
<1>2. log \subseteq used
  BY <1>1 DEF Known
<1> QED BY <1>2 DEF LogInv, Charge

-----------------------------------------------------------------------------
(* A step that leaves the server's account, the counted minutes and the    *)
(* clock alone, and after which every log is still made of known minutes.  *)
LEMMA LogsMove ==
  ASSUME LogInv, UNCHANGED <<now, remaining, granted, charged, used>>,
         pending' \subseteq Known, disk' \subseteq Known,
         batch' \subseteq Known,
         late' \subseteq late \cup {batch},
         reply' \in {None, Error} \/ (reply' = reply /\ batch' = batch)
  PROVE  LogInv'
<1>1. Known' = Known
  BY DEF Known
<1>2. \A log \in late' : log \subseteq Known
  BY DEF LogInv
<1>3. reply' \in Int => batch' \subseteq charged
  BY Distinct DEF LogInv
<1> QED BY <1>1, <1>2, <1>3 DEF LogInv

(* No step breaks the invariant of the log.                                *)
LEMMA LogStep == ASSUME LogInv, [Next]_vars PROVE LogInv'
<1> USE DEF server, network, request, agent
<1>0. {} \subseteq Known /\ Torn \in Known
  BY DEF Known
<1>1. CASE UNCHANGED vars
  BY <1>1 DEF vars, LogInv, Known
<1>2. CASE Wake
  BY <1>2, LogsMove DEF Wake, LogInv
<1>3. CASE Insert
  <2> DEFINE log == pending \cup {now}
  <2>1. /\ used' = used \cup {now} /\ pending' = log
        /\ UNCHANGED <<now, remaining, granted, charged, batch, late, reply>>
    BY <1>3 DEF Insert
  <2>2. /\ Known \subseteq Known' /\ log \subseteq Known' /\ Torn \in Known'
        /\ used' \subseteq Minutes
    BY <2>1 DEF LogInv, Known
  <2>3. disk \subseteq Known'
    BY <2>2 DEF LogInv
  <2>4. UNCHANGED disk \/ Saved(log) \/ NotSaved(log)
    BY <1>3 DEF Insert
  <2>5. disk' \subseteq Known'
    BY <2>2, <2>3, <2>4, SaveIn
  <2> QED BY <2>1, <2>2, <2>5 DEF LogInv
<1>4. CASE Send
  BY <1>4, LogsMove DEF Send, LogInv
<1>5. CASE Acknowledged
  <2>1. pending' \subseteq Known /\ Saved(pending')
    BY <1>5 DEF Acknowledged, LogInv
  <2>2. disk' \subseteq Known
    BY <2>1 DEF Saved
  <2> QED BY <1>0, <1>5, <2>1, <2>2, LogsMove DEF Acknowledged, Sleep
<1>6. CASE Refused
  BY <1>0, <1>6, LogsMove DEF Refused, Sleep, LogInv
<1>7. CASE GiveUp
  BY <1>0, <1>7, LogsMove DEF GiveUp, Sleep, LogInv
<1>8. CASE NotMarked
  <2>1. pending \ batch \subseteq Known /\ disk \subseteq Known
    BY DEF LogInv
  <2>2. disk' \subseteq Known
    BY <1>0, <1>8, <2>1, SaveIn DEF NotMarked
  <2> QED BY <1>0, <1>8, <2>2, LogsMove DEF NotMarked, Sleep, LogInv
<1>9. CASE Relock \/ Child
  BY <1>9, LogsMove DEF Relock, Child, LogInv
<1>10. CASE Deliver \/ Announce
  BY <1>10, LogsMove DEF Deliver, Announce, LogInv
<1>11. CASE Crash
  BY <1>0, <1>11, LogsMove DEF Crash, LogInv
<1>12. CASE CrashInSave
  <2>1. /\ \/ used' = used \cup {now} /\ disk' \in Prefixes(pending \cup {now})
           \/ used' = used /\ disk' \in Prefixes(pending \ batch)
        /\ pending' = {} /\ batch' = {} /\ reply' = None
        /\ UNCHANGED <<now, remaining, granted, charged, late>>
    BY <1>12 DEF CrashInSave
  <2>2. /\ Known \subseteq Known' /\ Torn \in Known' /\ used \subseteq used'
        /\ used' \subseteq Minutes
    BY <2>1 DEF LogInv, Known
  <2>3. disk' \subseteq Known'
    <3>1. CASE used' = used \cup {now} /\ disk' \in Prefixes(pending \cup {now})
      <4>1. pending \cup {now} \subseteq Known'
        BY <2>2, <3>1 DEF LogInv, Known
      <4> QED BY <2>2, <3>1, <4>1, PrefixesIn
    <3>2. CASE used' = used /\ disk' \in Prefixes(pending \ batch)
      <4>1. pending \ batch \subseteq Known'
        BY <2>2 DEF LogInv
      <4> QED BY <2>2, <3>2, <4>1, PrefixesIn
    <3> QED BY <2>1, <3>1, <3>2
  <2> QED BY <2>1, <2>2, <2>3, Distinct DEF LogInv
<1>13. CASE Restart
  BY <1>13, LogsMove DEF Restart, LogInv
<1>14. CASE Serve
  <2>1. UNCHANGED <<now, pending, disk, batch, late, used>> /\ Known' = Known
    BY <1>14 DEF Serve, Known
  <2>2. CASE InWindow(batch)
    <3>1. Charge(batch) /\ reply' = remaining' /\ batch \subseteq Known
      BY <1>14, <2>2 DEF Serve, LogInv
    <3>2. /\ charged' \subseteq used /\ batch \subseteq charged'
          /\ granted' = granted
      BY <2>2, <3>1, ChargeNew
    <3>3. remaining' \in Int
      BY <3>1, CardinalityOfNew DEF Charge, LogInv
    <3> QED BY <2>1, <3>1, <3>2, <3>3 DEF LogInv
  <2>3. CASE ~InWindow(batch)
    BY <1>14, <2>1, <2>3, Distinct DEF Serve, LogInv
  <2> QED BY <2>2, <2>3
<1>15. CASE ServeLate
  <2>1. PICK log \in late :
          /\ late' = late \ {log}
          /\ IF InWindow(log) THEN Charge(log) ELSE UNCHANGED server
    BY <1>15 DEF ServeLate
  <2>2. /\ UNCHANGED <<now, pending, disk, batch, reply, used>> /\ Known' = Known
        /\ log \subseteq Known
    BY <1>15 DEF ServeLate, Known, LogInv
  <2>3. CASE InWindow(log)
    <3>1. /\ charged' \subseteq used /\ charged \subseteq charged'
          /\ granted' = granted
      BY <2>1, <2>2, <2>3, ChargeNew
    <3>2. remaining' = remaining - Cardinality(log \ charged)
      BY <2>1, <2>3 DEF Charge
    <3>3. remaining' \in Int
      BY <2>2, <3>2, CardinalityOfNew DEF LogInv
    <3> QED BY <2>1, <2>2, <3>1, <3>3 DEF LogInv
  <2>4. CASE ~InWindow(log)
    BY <2>1, <2>2, <2>4 DEF LogInv
  <2> QED BY <2>3, <2>4
<1>16. CASE Lose
  BY <1>16, LogsMove DEF Lose, LogInv
<1>17. ASSUME NEW g \in Rewards, Reward(g) PROVE LogInv'
  BY <1>17, AgentAssumption DEF Reward, LogInv, Known, AgentAssumption
<1>18. CASE Tick
  <2>1. now' \in Minutes
    BY <1>18, AgentAssumption DEF Tick, LogInv, Minutes, AgentAssumption
  <2> QED BY <1>18, <2>1 DEF Tick, LogInv, Known
<1> QED
  BY <1>1, <1>2, <1>3, <1>4, <1>5, <1>6, <1>7, <1>8, <1>9, <1>10, <1>11,
     <1>12, <1>13, <1>14, <1>15, <1>16, <1>17, <1>18 DEF Next

(* LogInv holds in every reachable state.                                  *)
LEMMA LogInvariant == Spec => []LogInv
<1>1. Init => LogInv
  BY AgentAssumption, Distinct
  DEF Init, LogInv, Known, Minutes, AgentAssumption
<1> QED BY <1>1, LogStep, PTL DEF Spec

-----------------------------------------------------------------------------
(* Metering counts with the same Cardinality.                              *)
LEMMA SameCardinality == \A S : Promise!Cardinality(S) = Cardinality(S)
  BY Zenon DEF Promise!Cardinality, Cardinality

(* Every step of the agent, the network and the server is a step of        *)
(* Metering, or none.                                                      *)
LEMMA MeteringStep ==
  ASSUME LogInv, [Next]_vars
  PROVE  [Promise!Next]_(Promise!vars)
<1> USE DEF server, network, request, agent, Promise!vars
<1>1. CASE UNCHANGED vars
  BY <1>1 DEF vars
<1>2. ASSUME NEW m \in Minutes, used' = used \cup {m},
             UNCHANGED <<charged, granted, remaining>>
      PROVE  Promise!Next
  BY <1>2 DEF Promise!Next, Promise!Use
<1>3. ASSUME NEW log, log \subseteq Known, InWindow(log), Charge(log),
             UNCHANGED used
      PROVE  Promise!Next
  <2>1. /\ log \ charged \in SUBSET (used \ charged)
        /\ charged' = charged \cup (log \ charged)
        /\ remaining' = remaining - Cardinality(log \ charged)
        /\ granted' = granted
    BY <1>3, ChargeNew
  <2>2. Promise!Charge(log \ charged)
    BY <1>3, <2>1, SameCardinality DEF Promise!Charge
  <2> QED BY <2>1, <2>2 DEF Promise!Next
<1>4. CASE Insert
  BY <1>2, <1>4 DEF Insert, LogInv
<1>5. CASE CrashInSave
  <2>1. /\ used' = used \/ used' = used \cup {now}
        /\ UNCHANGED <<charged, granted, remaining>>
    BY <1>5 DEF CrashInSave
  <2> QED BY <1>2, <2>1 DEF LogInv
<1>6. CASE Serve
  <2>1. batch \subseteq Known /\ UNCHANGED used
    BY <1>6 DEF Serve, LogInv
  <2>2. (InWindow(batch) /\ Charge(batch)) \/ UNCHANGED server
    BY <1>6 DEF Serve
  <2> QED BY <1>3, <2>1, <2>2
<1>7. CASE ServeLate
  <2>1. PICK log \in late : (InWindow(log) /\ Charge(log)) \/ UNCHANGED server
    BY <1>7 DEF ServeLate
  <2>2. log \subseteq Known /\ UNCHANGED used
    BY <1>7 DEF ServeLate, LogInv
  <2> QED BY <1>3, <2>1, <2>2
<1>8. ASSUME NEW g \in Rewards, Reward(g) PROVE Promise!Next
  BY <1>8 DEF Reward, Promise!Next, Promise!Grant
<1>9. CASE \/ Wake \/ Send \/ Acknowledged \/ Refused \/ GiveUp \/ NotMarked
           \/ Relock \/ Deliver \/ Crash \/ Restart \/ Lose \/ Announce
           \/ Child \/ Tick
  BY <1>9 DEF Wake, Send, Acknowledged, Refused, GiveUp, NotMarked, Relock,
              Deliver, Crash, Restart, Lose, Announce, Child, Tick
<1> QED BY <1>1, <1>4, <1>5, <1>6, <1>7, <1>8, <1>9 DEF Next

(* Metering is exact: whatever is lost, repeated, delayed or torn, a minute*)
(* is charged at most once, and only if the agent counted it.              *)
THEOREM Exact == Spec => MeteringSpec
<1>1. Init => Promise!Init
  BY AgentAssumption DEF Init, Promise!Init, AgentAssumption
<1>2. LogInv /\ [Next]_vars => [Promise!Next]_(Promise!vars)
  BY MeteringStep
<1> QED BY <1>1, <1>2, LogInvariant, PTL DEF Spec, MeteringSpec, Promise!Spec

-----------------------------------------------------------------------------
(* Until a write fails or is torn, the log in memory and the log on disk   *)
(* are the same while the agent runs.                                      *)
DiskInv ==
    /\ spent \in [DOMAIN Unspent -> Nat]
    /\ spent.faults = 0 => /\ up => pending = disk
                           /\ used \subseteq charged \cup disk

(* Using up a bound leaves the other bounds alone.                         *)
LEMMA SpendShape ==
  ASSUME NEW bound \in DOMAIN Unspent, NEW max, Spend(bound, max),
         spent \in [DOMAIN Unspent -> Nat]
  PROVE  /\ spent' \in [DOMAIN Unspent -> Nat]
         /\ spent'[bound] # 0
         /\ bound # "faults" => spent'.faults = spent.faults
<1>1. spent[bound] \in Nat /\ spent' = [spent EXCEPT ![bound] = spent[bound] + 1]
  BY DEF Spend
<1>2. "faults" \in DOMAIN Unspent
  BY DEF Unspent
<1> QED BY <1>1, <1>2

(* No step forgets a minute without a write that failed.                   *)
LEMMA DiskStep ==
  ASSUME LogInv, DiskInv, [Next]_vars
  PROVE  DiskInv'
<1> USE DEF server, network, request, agent, DiskInv
<1> DEFINE Bounds == DOMAIN Unspent
<1>a. {"rewards", "crashes", "faults"} = Bounds
  BY DEF Unspent
<1>0. ASSUME Spend("faults", MaxFaults) PROVE DiskInv'
  BY <1>0, <1>a, SpendShape
<1>1. CASE UNCHANGED vars
  BY <1>1 DEF vars
<1>2. CASE Wake
  BY <1>0, <1>2 DEF Wake
<1>3. CASE Insert
  BY <1>0, <1>3 DEF Insert, Saved, NotSaved
<1>4. CASE Acknowledged
  <2>1. batch \subseteq charged
    BY <1>4 DEF Acknowledged, LogInv
  <2> QED BY <1>4, <2>1 DEF Acknowledged, Saved
<1>5. CASE NotMarked
  BY <1>0, <1>5 DEF NotMarked, NotSaved
<1>6. CASE CrashInSave
  <2>1. spent' = [spent EXCEPT !.faults = @ + 1, !.crashes = @ + 1]
    BY <1>6 DEF CrashInSave
  <2>2. spent' = [b \in Bounds |-> IF b = "rewards" THEN spent[b]
                                                  ELSE spent[b] + 1]
    BY <1>a, <2>1
  <2>3. spent' \in [Bounds -> Nat]
    BY <2>2
  <2>4. spent'.faults # 0
    BY <1>a, <2>2
  <2> QED BY <2>3, <2>4
<1>7. CASE Serve
  BY <1>7 DEF Serve, Charge
<1>8. CASE ServeLate
  BY <1>8 DEF ServeLate, Charge
<1>9. ASSUME NEW g \in Rewards, Reward(g) PROVE DiskInv'
  <2>1. Spend("rewards", MaxRewards)
    BY <1>9 DEF Reward
  <2>2. spent' \in [Bounds -> Nat] /\ spent'.faults = spent.faults
    BY <1>a, <2>1, SpendShape
  <2> QED BY <1>9, <2>2 DEF Reward
<1>10. CASE Crash
  <2>1. Spend("crashes", MaxCrashes)
    BY <1>10 DEF Crash
  <2>2. spent' \in [Bounds -> Nat] /\ spent'.faults = spent.faults
    BY <1>a, <2>1, SpendShape
  <2> QED BY <1>10, <2>2 DEF Crash
<1>11. CASE \/ Send \/ Refused \/ GiveUp \/ Relock \/ Deliver \/ Restart
            \/ Lose \/ Announce \/ Child \/ Tick
  BY <1>11 DEF Send, Refused, GiveUp, Relock, Deliver, Restart, Lose, Announce,
               Child, Tick
<1> QED
  BY <1>1, <1>2, <1>3, <1>4, <1>5, <1>6, <1>7, <1>8, <1>9, <1>10, <1>11 DEF Next

(* As long as every write of the log is whole, no counted minute is lost,  *)
(* however often the agent dies and whatever the network does.             *)
THEOREM Remembered == Spec => []NoMinuteForgotten
<1>1. Init => DiskInv
  BY DEF Init, DiskInv, Unspent
<1>2. LogInv /\ DiskInv /\ [Next]_vars => DiskInv'
  BY DiskStep
<1>3. DiskInv => NoMinuteForgotten
  BY DEF DiskInv, NoMinuteForgotten
<1> QED BY <1>1, <1>2, <1>3, LogInvariant, PTL DEF Spec

-----------------------------------------------------------------------------
(* The flags of the agent and the screen.                                  *)
FlagsInv ==
    /\ news \in Int \cup {None}
    /\ up \in BOOLEAN
    /\ stage \in {"sleep", "insert", "send", "wait"}
    /\ onWire \in BOOLEAN
    /\ failures \in 0..(FailFuse - 1)
    /\ relock \in BOOLEAN
    /\ locked \in BOOLEAN

(* A failed heartbeat keeps the count below the fuse.                      *)
LEMMA FailBelowFuse ==
  ASSUME FlagsInv, Fail
  PROVE  failures' \in 0..(FailFuse - 1) /\ relock' \in BOOLEAN
<1>1. FailFuse \in Nat \ {0} /\ failures \in 0..(FailFuse - 1)
  BY AgentAssumption DEF FlagsInv, AgentAssumption
<1>2. CASE failures + 1 >= FailFuse
  <2>1. failures' = 0 /\ relock' = TRUE
    BY <1>2 DEF Fail
  <2> QED BY <1>1, <2>1
<1>3. CASE ~(failures + 1 >= FailFuse)
  <2>1. failures' = failures + 1 /\ relock' = relock
    BY <1>3 DEF Fail
  <2>2. failures' \in 0..(FailFuse - 1)
    BY <1>1, <1>3, <2>1
  <2> QED BY <2>1, <2>2 DEF FlagsInv
<1> QED BY <1>2, <1>3

(* The re-lock switch is set to whether no minutes are left.               *)
LEMMA EnforceSets ==
  ASSUME NEW minutes, Enforce(minutes) PROVE relock' \in BOOLEAN
  BY DEF Enforce

(* No step gives a flag another shape.                                     *)
LEMMA FlagsStep == ASSUME LogInv, FlagsInv, [Next]_vars PROVE FlagsInv'
<1> USE DEF server, network, request, agent, FlagsInv
<1>a. FailFuse \in Nat \ {0} /\ 0 \in 0..(FailFuse - 1)
  BY AgentAssumption DEF AgentAssumption
<1>1. CASE UNCHANGED vars
  BY <1>1 DEF vars
<1>2. CASE Wake
  BY <1>2, Zenon DEF Wake
<1>3. CASE Insert
  BY <1>3, Zenon DEF Insert
<1>4. CASE Send
  BY <1>4, Zenon DEF Send
<1>5. CASE Acknowledged
  <2>1. /\ UNCHANGED <<news, up, locked>> /\ failures' = 0
        /\ stage' = "sleep" /\ onWire' = FALSE /\ Enforce(reply)
    BY <1>5 DEF Acknowledged, Sleep
  <2>2. relock' \in BOOLEAN
    BY <2>1, EnforceSets
  <2> QED BY <1>a, <2>1, <2>2, Zenon
<1>6. CASE Refused \/ GiveUp \/ NotMarked
  <2>1. /\ UNCHANGED <<news, up, locked>> /\ Fail
        /\ stage' = "sleep" /\ onWire' = FALSE
    BY <1>6 DEF Refused, GiveUp, NotMarked, Sleep
  <2>2. failures' \in 0..(FailFuse - 1) /\ relock' \in BOOLEAN
    BY <2>1, FailBelowFuse
  <2> QED BY <2>1, <2>2, Zenon
<1>7. CASE Relock \/ Child
  BY <1>7, Zenon DEF Relock, Child
<1>8. CASE Deliver
  <2>1. /\ UNCHANGED <<up, stage, onWire, failures, locked>>
        /\ news' = None /\ Enforce(news)
    BY <1>8 DEF Deliver
  <2>2. relock' \in BOOLEAN
    BY <2>1, EnforceSets
  <2> QED BY <2>1, <2>2, Zenon
<1>9. CASE Crash
  BY <1>9, <1>a, Zenon DEF Crash
<1>10. CASE CrashInSave
  BY <1>10, <1>a, Zenon DEF CrashInSave
<1>11. CASE Restart
  BY <1>11, Zenon DEF Restart
<1>12. CASE Serve
  BY <1>12, Zenon DEF Serve
<1>13. CASE Announce
  BY <1>13 DEF Announce, LogInv
<1>14. CASE Lose
  BY <1>14, Zenon DEF Lose
<1>15. ASSUME NEW g \in Rewards, Reward(g) PROVE FlagsInv'
  BY <1>15, Zenon DEF Reward
<1>16. CASE ServeLate \/ Tick
  BY <1>16, Zenon DEF ServeLate, Tick
<1> QED
  BY <1>1, <1>2, <1>3, <1>4, <1>5, <1>6, <1>7, <1>8, <1>9, <1>10, <1>11,
     <1>12, <1>13, <1>14, <1>15, <1>16 DEF Next

(* The three invariants together give every variable its shape.            *)
LEMMA ShapeFollows == LogInv /\ DiskInv /\ FlagsInv => TypeOK
<1> SUFFICES ASSUME LogInv, DiskInv, FlagsInv PROVE TypeOK
  OBVIOUS
<1>1. Known \subseteq Logged /\ charged \subseteq Minutes
  BY DEF LogInv, Known, Logged
<1>2. late \subseteq SUBSET Logged
  BY <1>1 DEF LogInv
<1>3. pending \subseteq Logged /\ disk \subseteq Logged /\ batch \subseteq Logged
  BY <1>1 DEF LogInv
<1>4. /\ now \in Minutes /\ granted \in Int /\ remaining \in Int
      /\ used \subseteq Minutes /\ reply \in Int \cup {None, Error}
  BY DEF LogInv
<1>5. spent \in [DOMAIN Unspent -> Nat]
  BY DEF DiskInv
<1> QED BY <1>1, <1>2, <1>3, <1>4, <1>5, Zenon DEF TypeOK, FlagsInv

(* Every variable of the agent, the network and the server keeps its shape,*)
(* and the count of failures stays below the fuse, for every fuse.         *)
THEOREM TypeCorrect == Spec => []TypeOK
<1>1. Init => DiskInv
  BY DEF Init, DiskInv, Unspent
<1>2. Init => FlagsInv
  <2>1. 0 \in 0..(FailFuse - 1)
    BY AgentAssumption DEF AgentAssumption
  <2> QED BY <2>1, Zenon DEF Init, FlagsInv
<1>3. LogInv /\ DiskInv /\ [Next]_vars => DiskInv'
  BY DiskStep
<1>4. LogInv /\ FlagsInv /\ [Next]_vars => FlagsInv'
  BY FlagsStep
<1> QED BY <1>1, <1>2, <1>3, <1>4, LogInvariant, ShapeFollows, PTL DEF Spec

=============================================================================
