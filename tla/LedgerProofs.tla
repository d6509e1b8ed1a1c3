---------------------------- MODULE LedgerProofs ----------------------------
(***************************************************************************)
(* Theorems about Ledger, for every set of children and devices, every     *)
(* family of catalogues, every reward and every bound.                     *)
(***************************************************************************)
EXTENDS Ledger, FiniteSetTheorems, TLAPS

-----------------------------------------------------------------------------
(* What a reward does to the two columns together: they grow by the reward *)
(* unless it is lent, in which case they trade places; and what it repays  *)
(* is at most the debt.                                                    *)
LEMMA RewardDeltas ==
    ASSUME NEW mins \in Int, NEW borrowed \in BOOLEAN, NEW debt \in Int,
           debt <= 0
    PROVE  /\ Repay(mins, debt) \in 0..(-debt)
           /\ RemainingDelta(mins, borrowed, debt) \in Int
           /\ BalanceDelta(mins, borrowed, debt) \in Int
           /\ RemainingDelta(mins, borrowed, debt)
                + BalanceDelta(mins, borrowed, debt)
                  = IF borrowed THEN 0 ELSE mins
           /\ ~borrowed /\ RemainingDelta(mins, borrowed, debt) > 0
                => debt + BalanceDelta(mins, borrowed, debt) = 0
  BY DEF Repay, RemainingDelta, BalanceDelta

(* A day is a natural number, and days follow the clock.                   *)
LEMMA DayNat ==
    ASSUME NEW m \in Nat
    PROVE  Day(m) \in Nat
  BY LedgerAssumption DEF Day

(* A batch is a finite set of minutes, so its new rows can be counted, and *)
(* recording it adds exactly the new rows.                                 *)
LEMMA BatchRows ==
    ASSUME NEW batch \in SUBSET Minutes, NEW d \in Devices,
           NEW rows, IsFiniteSet(rows)
    PROVE  /\ IsFiniteSet(rows \cup (batch \X {d}))
           /\ Cardinality((batch \X {d}) \ rows) \in Nat
           /\ Cardinality(rows \cup (batch \X {d}))
                = Cardinality(rows) + Cardinality((batch \X {d}) \ rows)
<1>1. IsFiniteSet(Minutes)
  <2>1. 0 \in Int /\ MaxMinute + WindowFuture \in Int
    BY LedgerAssumption
  <2>2. QED
    BY <2>1, FS_Interval DEF Minutes
<1>2. IsFiniteSet(batch)
  BY <1>1, FS_Subset
<1>3. IsFiniteSet(batch \X {d})
  <2>1. IsFiniteSet({d})
    BY FS_Singleton
  <2>2. QED
    BY <1>2, <2>1, FS_Product
<1> DEFINE new == (batch \X {d}) \ rows
<1>4. IsFiniteSet(new)
  BY <1>3, FS_Difference
<1>5. rows \cup (batch \X {d}) = rows \cup new
  OBVIOUS
<1>6. rows \cap new = {}
  OBVIOUS
<1>7. /\ IsFiniteSet(rows \cup new)
      /\ Cardinality(rows \cup new)
           = Cardinality(rows) + Cardinality(new) - Cardinality(rows \cap new)
  BY <1>4, FS_Union
<1>8. Cardinality(rows \cap new) = 0
  BY <1>6, FS_EmptySet
<1>9. Cardinality(rows) \in Nat /\ Cardinality(new) \in Nat
  BY <1>4, FS_CardinalityType
<1>10. Cardinality(rows \cup new) = Cardinality(rows) + Cardinality(new)
  <2> HIDE DEF new
  <2> QED
    BY <1>7, <1>8, <1>9
<1> QED
  BY <1>5, <1>7, <1>9, <1>10

-----------------------------------------------------------------------------
(* The inductive invariant.  Beside the type, conservation needs the usage *)
(* rows to be finite, so that they can be counted; the debt is what the    *)
(* audit rows say, which is what keeps it from becoming a credit.          *)
UsageFinite == \A c \in Children : IsFiniteSet(usage[c])

LedgerInv == TypeOK /\ UsageFinite /\ DebtAudited /\ MinutesConserved

(* The balance is a debt, never a credit.                                  *)
LEMMA DebtNotPositive ==
    ASSUME LedgerInv, NEW c \in Children
    PROVE  account_balance[c] \in Int /\ account_balance[c] <= 0
  BY DEF LedgerInv, TypeOK, DebtAudited

(* The books start out right.                                              *)
LEMMA InitLedgerInv == Init => LedgerInv
<1> SUFFICES ASSUME Init PROVE LedgerInv
  OBVIOUS
<1>1. TypeOK
  BY LedgerAssumption DEF Init, TypeOK, Submission
<1>2. UsageFinite
  BY FS_EmptySet DEF Init, UsageFinite
<1>3. DebtAudited
  BY DEF Init, DebtAudited
<1>4. MinutesConserved
  BY FS_EmptySet DEF Init, MinutesConserved
<1> QED
  BY <1>1, <1>2, <1>3, <1>4 DEF LedgerInv

(* A reward preserves the parts of the invariant that speak of rewards.    *)
LEMMA GrantKeepsBooks ==
    ASSUME LedgerInv, NEW c \in Children, NEW mins \in Int,
           NEW borrowed \in BOOLEAN, borrowed => mins > 0,
           GrantTo(c, mins, borrowed), UNCHANGED usage
    PROVE  /\ minutes_remaining' \in [Children -> Int]
           /\ account_balance' \in [Children -> Int]
           /\ rewarded' \in [Children -> Int]
           /\ rewardRows' \in [Children -> 0..MaxRows]
           /\ lent' \in [Children -> Nat]
           /\ repaid' \in [Children -> Nat]
           /\ UsageFinite' /\ DebtAudited' /\ MinutesConserved'
<1> DEFINE debt == account_balance[c]
<1>1. debt \in Int /\ debt <= 0
  BY DebtNotPositive
<1>2. /\ Repay(mins, debt) \in 0..(-debt)
      /\ RemainingDelta(mins, borrowed, debt) \in Int
      /\ BalanceDelta(mins, borrowed, debt) \in Int
      /\ RemainingDelta(mins, borrowed, debt)
           + BalanceDelta(mins, borrowed, debt)
             = IF borrowed THEN 0 ELSE mins
  BY <1>1, RewardDeltas
<1>3. BalanceDelta(mins, borrowed, debt)
        = IF borrowed THEN -mins ELSE Repay(mins, debt)
  BY DEF BalanceDelta
<1> HIDE DEF debt
<1>4. /\ rewardRows[c] < MaxRows
      /\ rewardRows' = [rewardRows EXCEPT ![c] = @ + 1]
      /\ rewarded' = [rewarded EXCEPT ![c] = IF borrowed THEN @ ELSE @ + mins]
      /\ lent' = [lent EXCEPT ![c] = IF borrowed THEN @ + mins ELSE @]
      /\ repaid' = [repaid EXCEPT
                      ![c] = IF borrowed THEN @ ELSE @ + Repay(mins, debt)]
      /\ minutes_remaining' = [minutes_remaining EXCEPT
                                 ![c] = @ + RemainingDelta(mins, borrowed, debt)]
      /\ account_balance' = [account_balance EXCEPT
                               ![c] = @ + BalanceDelta(mins, borrowed, debt)]
  BY DEF GrantTo, debt
<1>5. /\ minutes_remaining \in [Children -> Int]
      /\ account_balance \in [Children -> Int]
      /\ rewarded \in [Children -> Int]
      /\ rewardRows \in [Children -> 0..MaxRows]
      /\ lent \in [Children -> Nat]
      /\ repaid \in [Children -> Nat]
  BY DEF LedgerInv, TypeOK
<1>6. /\ minutes_remaining' \in [Children -> Int]
      /\ account_balance' \in [Children -> Int]
      /\ rewarded' \in [Children -> Int]
      /\ rewardRows' \in [Children -> 0..MaxRows]
      /\ lent' \in [Children -> Nat]
      /\ repaid' \in [Children -> Nat]
  BY <1>1, <1>2, <1>4, <1>5, LedgerAssumption
<1>7. UsageFinite'
  BY DEF LedgerInv, UsageFinite
<1>8. DebtAudited'
  <2> SUFFICES ASSUME NEW k \in Children
               PROVE  /\ account_balance'[k] = repaid'[k] - lent'[k]
                      /\ repaid'[k] <= lent'[k]
    BY DEF DebtAudited
  <2>1. account_balance[k] = repaid[k] - lent[k] /\ repaid[k] <= lent[k]
    BY DEF LedgerInv, DebtAudited
  <2>2. CASE k = c
    <3>1. debt = repaid[c] - lent[c]
      BY <2>1, <2>2 DEF debt
    <3>2. CASE borrowed
      BY <1>3, <1>4, <1>5, <2>1, <2>2, <3>2
    <3>3. CASE ~borrowed
      <4>1. /\ account_balance'[c] = account_balance[c] + Repay(mins, debt)
            /\ repaid'[c] = repaid[c] + Repay(mins, debt)
            /\ lent'[c] = lent[c]
        BY <1>3, <1>4, <1>5, <3>3
      <4>2. QED
        BY <1>1, <1>2, <1>5, <2>1, <2>2, <3>1, <4>1
    <3>4. QED
      BY <3>2, <3>3
  <2>3. CASE k # c
    BY <1>4, <1>5, <2>1, <2>3
  <2>4. QED
    BY <2>2, <2>3
<1>9. MinutesConserved'
  <2> SUFFICES ASSUME NEW k \in Children
               PROVE  minutes_remaining'[k] + account_balance'[k]
                        = rewarded'[k] - Cardinality(usage'[k])
    BY DEF MinutesConserved
  <2>1. minutes_remaining[k] + account_balance[k]
          = rewarded[k] - Cardinality(usage[k])
    BY DEF LedgerInv, MinutesConserved
  <2>2. usage'[k] = usage[k] /\ Cardinality(usage[k]) \in Nat
    BY FS_CardinalityType DEF LedgerInv, UsageFinite
  <2>3. CASE k = c
    <3> DEFINE n == Cardinality(usage[k])
               dr == RemainingDelta(mins, borrowed, debt)
               db == BalanceDelta(mins, borrowed, debt)
    <3>1. /\ minutes_remaining'[k] = minutes_remaining[k] + dr
          /\ account_balance'[k] = account_balance[k] + db
          /\ rewarded'[k] = IF borrowed THEN rewarded[k] ELSE rewarded[k] + mins
      BY <1>4, <1>5, <2>3
    <3>2. dr \in Int /\ db \in Int /\ dr + db = IF borrowed THEN 0 ELSE mins
      BY <1>2
    <3>3. n \in Nat /\ usage'[k] = usage[k]
      BY <2>2
    <3>4. minutes_remaining[k] + account_balance[k] = rewarded[k] - n
      BY <2>1
    <3> HIDE DEF n, dr, db
    <3>5. minutes_remaining'[k] + account_balance'[k] = rewarded'[k] - n
      BY <1>5, <3>1, <3>2, <3>3, <3>4
    <3>6. QED
      BY <3>5, <3>3 DEF n
  <2>4. CASE k # c
    BY <1>4, <1>5, <2>1, <2>2, <2>4
  <2>5. QED
    BY <2>3, <2>4
<1> QED
  BY <1>6, <1>7, <1>8, <1>9

-----------------------------------------------------------------------------
(* One lemma per transaction.                                              *)

(* A completion keeps the shape of the completions.                        *)
LEMMA CompleteType ==
    ASSUME TypeOK, NEW c \in Children, NEW t \in Tasks, Complete(c, t)
    PROVE  completions' \in [Children -> SUBSET (Tasks \X Nat)]
<1>1. Day(now) \in Nat
  BY DayNat DEF TypeOK
<1> QED
  BY <1>1 DEF TypeOK, Complete

(* Every task of the catalogue has its minutes.                            *)
LEMMA CatalogueMinutes ==
    ASSUME TypeOK, NEW t \in DOMAIN catalogue
    PROVE  t \in Tasks /\ catalogue[t].minutes \in Int
  BY DEF TypeOK, IsCatalogue, TaskInfo

(* A custom reward keeps the books right.                                  *)
LEMMA RewardMinutesStep ==
    ASSUME LedgerInv, NEW c \in Children, NEW mins \in Amounts,
           NEW b \in BOOLEAN, RewardMinutes(c, mins, b)
    PROVE  LedgerInv'
<1>1. mins \in Int
  BY LedgerAssumption
<1>2. (b => mins > 0) /\ GrantTo(c, mins, b) /\ UNCHANGED usage
  BY DEF RewardMinutes
<1>3. TypeOK'
  <2>1. /\ minutes_remaining' \in [Children -> Int]
        /\ account_balance' \in [Children -> Int]
        /\ rewarded' \in [Children -> Int]
        /\ rewardRows' \in [Children -> 0..MaxRows]
        /\ lent' \in [Children -> Nat]
        /\ repaid' \in [Children -> Nat]
    BY <1>1, <1>2, GrantKeepsBooks
  <2>2. QED
    BY <2>1 DEF RewardMinutes, submissionVars, LedgerInv, TypeOK, IsCatalogue
<1>4. UsageFinite' /\ DebtAudited' /\ MinutesConserved'
  BY <1>1, <1>2, GrantKeepsBooks
<1> QED
  BY <1>3, <1>4 DEF LedgerInv

(* A task reward keeps the books right.                                    *)
LEMMA RewardTaskStep ==
    ASSUME LedgerInv, NEW c \in Children, NEW t \in Tasks,
           NEW b \in BOOLEAN, RewardTask(c, t, b)
    PROVE  LedgerInv'
<1> DEFINE mins == catalogue[t].minutes
<1>1. mins \in Int
  BY CatalogueMinutes DEF RewardTask, LedgerInv
<1>2. /\ b => mins > 0
      /\ GrantTo(c, mins, b)
      /\ Complete(c, t)
      /\ UNCHANGED <<now, catalogue, usage, submissionVars>>
  BY DEF RewardTask
<1> HIDE DEF mins
<1>3. TypeOK'
  <2>1. /\ minutes_remaining' \in [Children -> Int]
        /\ account_balance' \in [Children -> Int]
        /\ rewarded' \in [Children -> Int]
        /\ rewardRows' \in [Children -> 0..MaxRows]
        /\ lent' \in [Children -> Nat]
        /\ repaid' \in [Children -> Nat]
    BY <1>1, <1>2, GrantKeepsBooks
  <2>2. completions' \in [Children -> SUBSET (Tasks \X Nat)]
    BY <1>2, CompleteType DEF LedgerInv
  <2>3. QED
    BY <1>2, <2>1, <2>2 DEF submissionVars, LedgerInv, TypeOK, IsCatalogue
<1>4. UsageFinite' /\ DebtAudited' /\ MinutesConserved'
  BY <1>1, <1>2, GrantKeepsBooks
<1> QED
  BY <1>3, <1>4 DEF LedgerInv

(* A submission keeps the books right.                                     *)
LEMMA SubmitStep ==
    ASSUME LedgerInv, NEW c \in Children, NEW t \in Tasks, Submit(c, t)
    PROVE  LedgerInv'
<1>1. TypeOK'
  <2>1. [id |-> nextSubmission, child |-> c, task |-> t] \in Submission
    BY DEF Submission, LedgerInv, TypeOK
  <2>2. nextSubmission' \in 1..(MaxSubmissions + 1)
    BY LedgerAssumption DEF Submit, LedgerInv, TypeOK
  <2>3. submissions' \subseteq Submission
    BY <2>1 DEF Submit, LedgerInv, TypeOK
  <2>4. QED
    BY <2>2, <2>3
       DEF Submit, balances, rewardTables, LedgerInv, TypeOK, IsCatalogue
<1>2. UsageFinite' /\ DebtAudited' /\ MinutesConserved'
  BY DEF Submit, balances, rewardTables, LedgerInv, UsageFinite, DebtAudited,
         MinutesConserved
<1> QED
  BY <1>1, <1>2 DEF LedgerInv

(* An approval can only be of a task the catalogue has.                    *)
LEMMA ApproveStep ==
    ASSUME LedgerInv, SubmissionsApprovable, NEW s \in submissions, Approve(s)
    PROVE  LedgerInv'
<1> DEFINE c == s.child
           mins == catalogue[s.task].minutes
<1>1. s.task \in Tasks /\ mins \in Int /\ c \in Children
  BY CatalogueMinutes
     DEF SubmissionsApprovable, Listed, LedgerInv, TypeOK, Submission
<1>2. /\ GrantTo(c, mins, FALSE)
      /\ Complete(c, s.task)
      /\ submissions' = submissions \ {s}
      /\ approved' = approved + 1
      /\ UNCHANGED <<now, catalogue, usage, nextSubmission, discarded>>
  BY DEF Approve
<1> HIDE DEF c, mins
<1>3. TypeOK'
  <2>1. /\ minutes_remaining' \in [Children -> Int]
        /\ account_balance' \in [Children -> Int]
        /\ rewarded' \in [Children -> Int]
        /\ rewardRows' \in [Children -> 0..MaxRows]
        /\ lent' \in [Children -> Nat]
        /\ repaid' \in [Children -> Nat]
    BY <1>1, <1>2, GrantKeepsBooks
  <2>2. completions' \in [Children -> SUBSET (Tasks \X Nat)]
    BY <1>1, <1>2, CompleteType DEF LedgerInv
  <2>3. QED
    BY <1>2, <2>1, <2>2 DEF LedgerInv, TypeOK, IsCatalogue
<1>4. UsageFinite' /\ DebtAudited' /\ MinutesConserved'
  BY <1>1, <1>2, GrantKeepsBooks
<1> QED
  BY <1>3, <1>4 DEF LedgerInv

(* A discard keeps the books right.                                        *)
LEMMA DiscardStep ==
    ASSUME LedgerInv, NEW s \in submissions, Discard(s)
    PROVE  LedgerInv'
<1>1. TypeOK'
  BY DEF Discard, balances, rewardTables, LedgerInv, TypeOK, IsCatalogue
<1>2. UsageFinite' /\ DebtAudited' /\ MinutesConserved'
  BY DEF Discard, balances, rewardTables, LedgerInv, UsageFinite, DebtAudited,
         MinutesConserved
<1> QED
  BY <1>1, <1>2 DEF LedgerInv

(* A heartbeat charges exactly the rows it inserts.                        *)
LEMMA ProcessUsageStep ==
    ASSUME LedgerInv, NEW c \in Children, NEW d \in Devices,
           NEW batch \in SUBSET Minutes, ProcessUsage(c, d, batch)
    PROVE  LedgerInv'
<1> DEFINE n == Cardinality(NewRows(c, d, batch))
<1>1. /\ usage' = [usage EXCEPT ![c] = @ \cup (batch \X {d})]
      /\ minutes_remaining' = [minutes_remaining EXCEPT ![c] = @ - n]
      /\ UNCHANGED <<now, catalogue, account_balance, rewardTables,
                     completions, submissionVars>>
  BY DEF ProcessUsage
<1>2. /\ IsFiniteSet(usage[c] \cup (batch \X {d}))
      /\ n \in Nat
      /\ Cardinality(usage[c] \cup (batch \X {d}))
           = Cardinality(usage[c]) + n
  <2>1. IsFiniteSet(usage[c])
    BY DEF LedgerInv, UsageFinite
  <2>2. QED
    BY <2>1, BatchRows DEF NewRows
<1> HIDE DEF n
<1>3. usage' \in [Children -> SUBSET (Minutes \X Devices)]
  BY <1>1 DEF LedgerInv, TypeOK
<1>4. TypeOK'
  <2>1. minutes_remaining' \in [Children -> Int]
    BY <1>1, <1>2 DEF LedgerInv, TypeOK
  <2>2. QED
    BY <1>1, <1>3, <2>1
       DEF rewardTables, submissionVars, LedgerInv, TypeOK, IsCatalogue
<1>5. UsageFinite'
  BY <1>1, <1>2 DEF LedgerInv, TypeOK, UsageFinite
<1>6. DebtAudited'
  BY <1>1 DEF rewardTables, LedgerInv, DebtAudited
<1>7. MinutesConserved'
  <2> SUFFICES ASSUME NEW k \in Children
               PROVE  minutes_remaining'[k] + account_balance'[k]
                        = rewarded'[k] - Cardinality(usage'[k])
    BY DEF MinutesConserved
  <2>1. minutes_remaining[k] + account_balance[k]
          = rewarded[k] - Cardinality(usage[k])
    BY DEF LedgerInv, MinutesConserved
  <2>2. Cardinality(usage[k]) \in Nat
    BY FS_CardinalityType DEF LedgerInv, UsageFinite
  <2>3. /\ minutes_remaining[k] \in Int /\ account_balance[k] \in Int
        /\ rewarded[k] \in Int
        /\ account_balance'[k] = account_balance[k]
        /\ rewarded'[k] = rewarded[k]
    BY <1>1 DEF rewardTables, LedgerInv, TypeOK
  <2>4. CASE k = c
    <3>1. minutes_remaining'[k] = minutes_remaining[k] - n
      BY <1>1, <2>4 DEF LedgerInv, TypeOK
    <3>2. usage'[k] = usage[k] \cup (batch \X {d})
      BY <1>1, <2>4 DEF LedgerInv, TypeOK
    <3>3. Cardinality(usage'[k]) = Cardinality(usage[k]) + n
      BY <1>2, <2>4, <3>2
    <3>4. QED
      BY <1>2, <2>1, <2>2, <2>3, <3>1, <3>3
  <2>5. CASE k # c
    <3>1. minutes_remaining'[k] = minutes_remaining[k] /\ usage'[k] = usage[k]
      BY <1>1, <2>5 DEF LedgerInv, TypeOK
    <3>2. QED
      BY <2>1, <2>3, <3>1
  <2>6. QED
    BY <2>4, <2>5
<1> QED
  BY <1>4, <1>5, <1>6, <1>7 DEF LedgerInv

(* A restart with another catalogue keeps the books right.                 *)
LEMMA SeedStep ==
    ASSUME LedgerInv, NEW cfg \in Configs, Seed(cfg)
    PROVE  LedgerInv'
<1>1. IsCatalogue(catalogue')
  BY LedgerAssumption DEF Seed, LedgerInv, TypeOK, IsCatalogue
<1>2. TypeOK'
  BY <1>1 DEF Seed, balances, rewardTables, submissionVars, LedgerInv, TypeOK
<1>3. UsageFinite' /\ DebtAudited' /\ MinutesConserved'
  BY DEF Seed, balances, rewardTables, LedgerInv, UsageFinite, DebtAudited,
         MinutesConserved
<1> QED
  BY <1>2, <1>3 DEF LedgerInv

(* The passing of time keeps the books right.                              *)
LEMMA TickStep ==
    ASSUME LedgerInv, Tick
    PROVE  LedgerInv'
<1>1. TypeOK'
  BY LedgerAssumption
     DEF Tick, balances, rewardTables, submissionVars, LedgerInv, TypeOK,
         IsCatalogue
<1>2. UsageFinite' /\ DebtAudited' /\ MinutesConserved'
  BY DEF Tick, balances, rewardTables, LedgerInv, UsageFinite, DebtAudited,
         MinutesConserved
<1> QED
  BY <1>1, <1>2 DEF LedgerInv

-----------------------------------------------------------------------------
(* Tasks are never deleted from the catalogue, so a submission keeps       *)
(* naming a task that can be rewarded.                                     *)
LEMMA ApprovableStep ==
    ASSUME SubmissionsApprovable, [Next]_vars
    PROVE  SubmissionsApprovable'
<1>1. CASE \E c \in Children, mins \in Amounts, b \in BOOLEAN :
             RewardMinutes(c, mins, b)
  BY <1>1 DEF SubmissionsApprovable, Listed, RewardMinutes, submissionVars
<1>2. CASE \E c \in Children, t \in Tasks, b \in BOOLEAN : RewardTask(c, t, b)
  BY <1>2 DEF SubmissionsApprovable, Listed, RewardTask, submissionVars
<1>3. CASE \E c \in Children, t \in Tasks : Submit(c, t)
  BY <1>3 DEF SubmissionsApprovable, Listed, Submit
<1>4. CASE \E s \in submissions : Approve(s)
  BY <1>4 DEF SubmissionsApprovable, Listed, Approve
<1>5. CASE \E s \in submissions : Discard(s)
  BY <1>5 DEF SubmissionsApprovable, Listed, Discard
<1>6. CASE \E c \in Children, d \in Devices, batch \in SUBSET Minutes :
             ProcessUsage(c, d, batch)
  BY <1>6 DEF SubmissionsApprovable, Listed, ProcessUsage, submissionVars
<1>7. CASE \E cfg \in Configs : Seed(cfg)
  BY <1>7 DEF SubmissionsApprovable, Listed, Seed, submissionVars
<1>8. CASE Tick
  BY <1>8 DEF SubmissionsApprovable, Listed, Tick, submissionVars
<1>9. CASE UNCHANGED vars
  BY <1>9 DEF SubmissionsApprovable, Listed, vars, submissionVars
<1> QED
  BY <1>1, <1>2, <1>3, <1>4, <1>5, <1>6, <1>7, <1>8, <1>9 DEF Next

(* Every step keeps the books right.                                       *)
LEMMA LedgerStep ==
    ASSUME LedgerInv, SubmissionsApprovable, [Next]_vars
    PROVE  LedgerInv'
<1>1. CASE UNCHANGED vars
  BY <1>1 DEF vars, balances, rewardTables, submissionVars, LedgerInv, TypeOK,
              IsCatalogue, UsageFinite, DebtAudited, MinutesConserved
<1>2. CASE Next
  BY <1>2, RewardMinutesStep, RewardTaskStep, SubmitStep, ApproveStep,
     DiscardStep, ProcessUsageStep, SeedStep, TickStep DEF Next
<1> QED
  BY <1>1, <1>2

-----------------------------------------------------------------------------
(* A submission pending in the store always names a known task.            *)
THEOREM Approvable == Spec => []SubmissionsApprovable
<1>1. Init => SubmissionsApprovable
  BY DEF Init, SubmissionsApprovable, Listed
<1>2. SubmissionsApprovable /\ [Next]_vars => SubmissionsApprovable'
  BY ApprovableStep
<1> QED
  BY <1>1, <1>2, PTL DEF Spec

(* LedgerInv holds in every reachable state.                               *)
THEOREM LedgerInvariant == Spec => []LedgerInv
<1>1. Init => LedgerInv
  BY InitLedgerInv
<1>2. LedgerInv /\ SubmissionsApprovable /\ [Next]_vars => LedgerInv'
  BY LedgerStep
<1> QED
  BY <1>1, <1>2, Approvable, PTL DEF Spec

(* Every variable keeps its type.                                          *)
THEOREM TypeCorrect == Spec => []TypeOK
<1>1. LedgerInv => TypeOK
  BY DEF LedgerInv
<1> QED
  BY <1>1, LedgerInvariant, PTL

(* No history of transactions creates or loses a minute.                   *)
THEOREM Conservation == Spec => []MinutesConserved
<1>1. LedgerInv => MinutesConserved
  BY DEF LedgerInv
<1> QED
  BY <1>1, LedgerInvariant, PTL

(* The debt is the one the audit rows account for, and is never a credit.  *)
THEOREM DebtCorrect == Spec => []DebtAudited
<1>1. LedgerInv => DebtAudited
  BY DEF LedgerInv
<1> QED
  BY <1>1, LedgerInvariant, PTL

-----------------------------------------------------------------------------
(* Each submission is settled at most once: the pending rows are finite    *)
(* and carry ids already handed out, so that a new row never coincides     *)
(* with a pending one.                                                     *)
SettleInv ==
    /\ IsFiniteSet(submissions)
    /\ \A s \in submissions : s.id < nextSubmission
    /\ SubmissionsSettledOnce

(* Every step settles submissions at most once.                            *)
LEMMA SettleStep ==
    ASSUME TypeOK, SettleInv, [Next]_vars
    PROVE  SettleInv'
<1>0. /\ IsFiniteSet(submissions) /\ Cardinality(submissions) \in Nat
      /\ nextSubmission \in Nat /\ approved \in Nat /\ discarded \in Nat
      /\ nextSubmission - 1 = Cardinality(submissions) + approved + discarded
  BY FS_CardinalityType, LedgerAssumption
     DEF SettleInv, SubmissionsSettledOnce, TypeOK
<1>1. ASSUME UNCHANGED submissionVars
      PROVE  SettleInv'
  BY <1>1 DEF submissionVars, SettleInv, SubmissionsSettledOnce
<1>2. ASSUME NEW c \in Children, NEW t \in Tasks, Submit(c, t)
      PROVE  SettleInv'
  <2> DEFINE row == [id |-> nextSubmission, child |-> c, task |-> t]
  <2>1. row \notin submissions
    <3>1. row.id = nextSubmission
      OBVIOUS
    <3>2. ~(nextSubmission < nextSubmission)
      BY <1>0
    <3>3. QED
      BY <3>1, <3>2 DEF SettleInv
  <2>2. /\ IsFiniteSet(submissions \cup {row})
        /\ Cardinality(submissions \cup {row}) = Cardinality(submissions) + 1
    BY <1>0, <2>1, FS_AddElement
  <2>3. /\ submissions' = submissions \cup {row}
        /\ nextSubmission' = nextSubmission + 1
        /\ approved' = approved /\ discarded' = discarded
    BY <1>2 DEF Submit
  <2>4. \A s \in submissions' : s.id < nextSubmission'
    <3>1. \A s \in submissions : s.id \in Nat /\ s.id < nextSubmission
      BY DEF SettleInv, TypeOK, Submission
    <3>2. QED
      BY <1>0, <2>3, <3>1
  <2>5. Cardinality(submissions') = Cardinality(submissions) + 1
    BY <2>2, <2>3
  <2>6. SubmissionsSettledOnce'
    <3> HIDE DEF row
    <3> QED
      BY <1>0, <2>3, <2>5 DEF SubmissionsSettledOnce
  <2>7. QED
    BY <2>2, <2>3, <2>4, <2>6 DEF SettleInv
<1>3. ASSUME NEW s \in submissions, submissions' = submissions \ {s},
             nextSubmission' = nextSubmission,
             \/ approved' = approved + 1 /\ discarded' = discarded
             \/ approved' = approved /\ discarded' = discarded + 1
      PROVE  SettleInv'
  <2>1. /\ IsFiniteSet(submissions')
        /\ Cardinality(submissions') = Cardinality(submissions) - 1
    BY <1>0, <1>3, FS_RemoveElement
  <2>2. SubmissionsSettledOnce'
    <3>1. CASE approved' = approved + 1 /\ discarded' = discarded
      BY <1>0, <1>3, <2>1, <3>1 DEF SubmissionsSettledOnce
    <3>2. CASE approved' = approved /\ discarded' = discarded + 1
      BY <1>0, <1>3, <2>1, <3>2 DEF SubmissionsSettledOnce
    <3>3. QED
      BY <1>3, <3>1, <3>2
  <2>3. \A r \in submissions' : r.id < nextSubmission'
    BY <1>3 DEF SettleInv
  <2>4. QED
    BY <2>1, <2>2, <2>3 DEF SettleInv
<1>4. ASSUME NEW s \in submissions, Approve(s)
      PROVE  SettleInv'
  BY <1>0, <1>3, <1>4 DEF Approve
<1>5. ASSUME NEW s \in submissions, Discard(s)
      PROVE  SettleInv'
  BY <1>0, <1>3, <1>5 DEF Discard
<1>6. ASSUME \/ \E c \in Children, mins \in Amounts, b \in BOOLEAN :
                   RewardMinutes(c, mins, b)
             \/ \E c \in Children, t \in Tasks, b \in BOOLEAN :
                   RewardTask(c, t, b)
             \/ \E c \in Children, d \in Devices, batch \in SUBSET Minutes :
                   ProcessUsage(c, d, batch)
             \/ \E cfg \in Configs : Seed(cfg)
             \/ Tick
             \/ UNCHANGED vars
      PROVE  SettleInv'
  <2>1. UNCHANGED submissionVars
    BY <1>6 DEF RewardMinutes, RewardTask, ProcessUsage, Seed, Tick, vars
  <2>2. QED
    BY <1>1, <2>1
<1> QED
  BY <1>2, <1>4, <1>5, <1>6 DEF Next

(* Every submission is rewarded or discarded at most once, and is pending  *)
(* until then.                                                             *)
THEOREM SettledOnce == Spec => []SubmissionsSettledOnce
<1>1. Init => SettleInv
  BY FS_EmptySet DEF Init, SettleInv, SubmissionsSettledOnce
<1>2. TypeOK /\ SettleInv /\ [Next]_vars => SettleInv'
  BY SettleStep
<1>3. SettleInv => SubmissionsSettledOnce
  BY DEF SettleInv
<1> QED
  BY <1>1, <1>2, <1>3, TypeCorrect, PTL DEF Spec

-----------------------------------------------------------------------------
(* Earned minutes repay the debt before they become usable.                *)
RepaidFirst(c) ==
    minutes_remaining'[c] > minutes_remaining[c] /\ lent'[c] = lent[c]
        => account_balance'[c] = 0

(* A grant that adds minutes without lending clears the debt.              *)
LEMMA GrantRepaysFirst ==
    ASSUME LedgerInv, NEW c \in Children, NEW mins \in Int,
           NEW b \in BOOLEAN, b => mins > 0, GrantTo(c, mins, b),
           NEW k \in Children
    PROVE  RepaidFirst(k)
<1> DEFINE debt == account_balance[c]
<1>1. debt \in Int /\ debt <= 0
  BY DebtNotPositive
<1> HIDE DEF debt
<1>2. /\ RemainingDelta(mins, b, debt) \in Int
      /\ BalanceDelta(mins, b, debt) \in Int
      /\ ~b /\ RemainingDelta(mins, b, debt) > 0
           => debt + BalanceDelta(mins, b, debt) = 0
  BY <1>1, RewardDeltas
<1>3. /\ lent' = [lent EXCEPT ![c] = IF b THEN @ + mins ELSE @]
      /\ minutes_remaining' = [minutes_remaining EXCEPT
                                 ![c] = @ + RemainingDelta(mins, b, debt)]
      /\ account_balance' = [account_balance EXCEPT
                               ![c] = @ + BalanceDelta(mins, b, debt)]
  BY DEF GrantTo, debt
<1>4. /\ minutes_remaining \in [Children -> Int]
      /\ account_balance \in [Children -> Int]
      /\ lent \in [Children -> Nat]
  BY DEF LedgerInv, TypeOK
<1>5. CASE k # c
  BY <1>3, <1>4, <1>5 DEF RepaidFirst
<1>6. CASE k = c /\ b
  BY <1>3, <1>4, <1>6 DEF RepaidFirst
<1>7. CASE k = c /\ ~b
  <2> DEFINE dr == RemainingDelta(mins, b, debt)
             db == BalanceDelta(mins, b, debt)
  <2>1. /\ minutes_remaining'[k] = minutes_remaining[k] + dr
        /\ account_balance'[k] = account_balance[k] + db
        /\ account_balance[k] = debt
    BY <1>3, <1>4, <1>7 DEF debt
  <2>2. dr \in Int /\ db \in Int /\ (dr > 0 => debt + db = 0)
    BY <1>2, <1>7
  <2> HIDE DEF dr, db
  <2>3. QED
    BY <1>1, <1>4, <2>1, <2>2 DEF RepaidFirst
<1> QED
  BY <1>5, <1>6, <1>7

(* A step that adds minutes without lending clears the debt.               *)
LEMMA RepaidFirstStep ==
    ASSUME LedgerInv, SubmissionsApprovable, Next, NEW k \in Children
    PROVE  RepaidFirst(k)
<1>0. /\ minutes_remaining \in [Children -> Int]
      /\ account_balance \in [Children -> Int]
      /\ lent \in [Children -> Nat]
  BY DEF LedgerInv, TypeOK
<1>1. ASSUME NEW c \in Children, NEW mins \in Amounts, NEW b \in BOOLEAN,
             RewardMinutes(c, mins, b)
      PROVE  RepaidFirst(k)
  BY <1>1, GrantRepaysFirst, LedgerAssumption DEF RewardMinutes
<1>2. ASSUME NEW c \in Children, NEW t \in Tasks, NEW b \in BOOLEAN,
             RewardTask(c, t, b)
      PROVE  RepaidFirst(k)
  BY <1>2, GrantRepaysFirst, CatalogueMinutes DEF RewardTask, LedgerInv
<1>3. ASSUME NEW s \in submissions, Approve(s)
      PROVE  RepaidFirst(k)
  <2>1. /\ s.child \in Children
        /\ catalogue[s.task].minutes \in Int
        /\ GrantTo(s.child, catalogue[s.task].minutes, FALSE)
    BY <1>3, CatalogueMinutes
       DEF Approve, SubmissionsApprovable, Listed, LedgerInv, TypeOK, Submission
  <2>2. QED
    BY <2>1, GrantRepaysFirst
<1>4. ASSUME UNCHANGED minutes_remaining
      PROVE  RepaidFirst(k)
  BY <1>0, <1>4 DEF RepaidFirst
<1>5. ASSUME NEW c \in Children, NEW d \in Devices,
             NEW batch \in SUBSET Minutes, ProcessUsage(c, d, batch)
      PROVE  RepaidFirst(k)
  <2>1. Cardinality(NewRows(c, d, batch)) \in Nat
    BY BatchRows DEF NewRows, LedgerInv, UsageFinite
  <2>2. /\ minutes_remaining'[k] \in Int
        /\ minutes_remaining'[k] <= minutes_remaining[k]
    BY <1>0, <1>5, <2>1 DEF ProcessUsage
  <2>3. ~(minutes_remaining'[k] > minutes_remaining[k])
    BY <1>0, <2>2
  <2>4. QED
    BY <2>3 DEF RepaidFirst
<1>6. ASSUME \/ \E c \in Children, t \in Tasks : Submit(c, t)
             \/ \E s \in submissions : Discard(s)
             \/ \E cfg \in Configs : Seed(cfg)
             \/ Tick
      PROVE  RepaidFirst(k)
  <2>1. UNCHANGED minutes_remaining
    BY <1>6 DEF Submit, Discard, Seed, Tick, balances
  <2>2. QED
    BY <1>4, <2>1
<1> QED
  BY <1>1, <1>2, <1>3, <1>5, <1>6 DEF Next

(* A step that makes more minutes usable without lending any leaves the    *)
(* child without debt.                                                     *)
THEOREM RepaymentFirst == Spec => DebtRepaidFirst
<1>1. LedgerInv /\ SubmissionsApprovable /\ [Next]_vars
        => [\A c \in Children :
              minutes_remaining'[c] > minutes_remaining[c] /\ lent'[c] = lent[c]
                  => account_balance'[c] = 0]_vars
  BY RepaidFirstStep DEF RepaidFirst
<1> QED
  BY <1>1, LedgerInvariant, Approvable, PTL DEF Spec, DebtRepaidFirst

-----------------------------------------------------------------------------
(* Days do not run backwards.                                              *)
LEMMA DayMonotone ==
    ASSUME NEW m \in Nat
    PROVE  Day(m) <= Day(m + 1)
<1> DEFINE q == m \div DayLength
           r == (m + 1) \div DayLength
<1>1. q \in Nat /\ r \in Nat
  BY LedgerAssumption
<1>2. DayLength * q <= m /\ m < DayLength * (q + 1)
  BY LedgerAssumption
<1>3. DayLength * r <= m + 1 /\ m + 1 < DayLength * (r + 1)
  BY LedgerAssumption
<1> HIDE DEF q, r
<1>4. DayLength * q < DayLength * (r + 1)
  BY <1>1, <1>2, <1>3, LedgerAssumption
<1>5. q < r + 1
  BY <1>1, <1>4, LedgerAssumption
<1> QED
  BY <1>1, <1>5 DEF Day, q, r

(* No completion carries the date of a day still to come, so a new day     *)
(* starts with nothing done.                                               *)
NoFutureCompletion ==
    \A c \in Children : \A e \in completions[c] : e[2] <= Day(now)

(* No step records a completion in the future.                             *)
LEMMA CompletionsStep ==
    ASSUME TypeOK, NoFutureCompletion, [Next]_vars
    PROVE  NoFutureCompletion'
<1>0. now \in Nat /\ Day(now) \in Nat
  BY DayNat DEF TypeOK
<1>1. ASSUME NEW c \in Children, NEW t, Complete(c, t), UNCHANGED now
      PROVE  NoFutureCompletion'
  <2> SUFFICES ASSUME NEW k \in Children, NEW e \in completions'[k]
               PROVE  e[2] <= Day(now)
    BY <1>1 DEF NoFutureCompletion
  <2>1. e \in completions[k] \/ e = <<t, Day(now)>>
    BY <1>1 DEF Complete, TypeOK
  <2>2. QED
    BY <1>0, <2>1 DEF NoFutureCompletion
<1>2. ASSUME UNCHANGED <<now, completions>>
      PROVE  NoFutureCompletion'
  BY <1>2 DEF NoFutureCompletion
<1>3. CASE Tick
  <2>1. Day(now') \in Nat /\ Day(now) <= Day(now')
    BY <1>0, <1>3, DayMonotone, DayNat DEF Tick
  <2>2. ASSUME NEW k \in Children, NEW e \in completions[k]
        PROVE  e[2] <= Day(now')
    <3>1. e[2] \in Nat /\ e[2] <= Day(now)
      BY <2>2 DEF TypeOK, NoFutureCompletion
    <3>2. QED
      BY <1>0, <2>1, <3>1
  <2>3. QED
    BY <1>3, <2>2 DEF Tick, NoFutureCompletion
<1>4. ASSUME \/ \E c \in Children, t \in Tasks, b \in BOOLEAN :
                   RewardTask(c, t, b)
             \/ \E s \in submissions : Approve(s)
      PROVE  NoFutureCompletion'
  BY <1>1, <1>4 DEF RewardTask, Approve, TypeOK, Submission
<1>5. ASSUME \/ \E c \in Children, mins \in Amounts, b \in BOOLEAN :
                   RewardMinutes(c, mins, b)
             \/ \E c \in Children, t \in Tasks : Submit(c, t)
             \/ \E s \in submissions : Discard(s)
             \/ \E c \in Children, d \in Devices, batch \in SUBSET Minutes :
                   ProcessUsage(c, d, batch)
             \/ \E cfg \in Configs : Seed(cfg)
             \/ UNCHANGED vars
      PROVE  NoFutureCompletion'
  <2>1. UNCHANGED <<now, completions>>
    BY <1>5 DEF RewardMinutes, Submit, Discard, ProcessUsage, Seed, vars
  <2>2. QED
    BY <1>2, <2>1
<1> QED
  BY <1>3, <1>4, <1>5 DEF Next

(* A step that unblocks a child rewards it or changes the catalogue.       *)
LEMMA UnblockStep ==
    ASSUME LedgerInv, SubmissionsApprovable, NoFutureCompletion, Next,
           NEW k \in Children, ~AllDone(k), AllDone(k)'
    PROVE  rewardRows'[k] > rewardRows[k] \/ catalogue' # catalogue
<1>1. rewardRows \in [Children -> 0..MaxRows] /\ MaxRows \in Nat
  BY LedgerAssumption DEF LedgerInv, TypeOK
<1>2. ASSUME UNCHANGED <<now, catalogue>>, completions'[k] = completions[k]
      PROVE  FALSE
  BY <1>2 DEF AllDone
<1>3. ASSUME NEW c \in Children, NEW mins, NEW b, NEW t,
             GrantTo(c, mins, b), Complete(c, t), UNCHANGED <<now, catalogue>>
      PROVE  rewardRows'[k] > rewardRows[k]
  <2>1. CASE c = k
    <3>1. rewardRows'[k] = rewardRows[k] + 1 /\ rewardRows[k] \in Int
      BY <1>1, <1>3, <2>1 DEF GrantTo
    <3>2. QED
      BY <3>1
  <2>2. CASE c # k
    <3>1. completions'[k] = completions[k]
      BY <1>3, <2>2 DEF Complete, LedgerInv, TypeOK
    <3>2. QED
      BY <1>2, <1>3, <3>1
  <2>3. QED
    BY <2>1, <2>2
<1>4. ASSUME NEW c \in Children, NEW t \in Tasks, NEW b \in BOOLEAN,
             RewardTask(c, t, b)
      PROVE  rewardRows'[k] > rewardRows[k]
  BY <1>3, <1>4 DEF RewardTask
<1>5. ASSUME NEW s \in submissions, Approve(s)
      PROVE  rewardRows'[k] > rewardRows[k]
  BY <1>3, <1>5 DEF Approve, LedgerInv, TypeOK, Submission
<1>6. CASE Tick
  <2>1. now \in Nat /\ Day(now) \in Nat /\ now' \in Nat
    BY <1>6, DayNat DEF Tick, LedgerInv, TypeOK
  <2>2. Day(now') \in Nat /\ Day(now) <= Day(now')
    BY <1>6, <2>1, DayMonotone, DayNat DEF Tick
  <2>3. PICK t \in DOMAIN catalogue :
           catalogue[t].required /\ <<t, Day(now)>> \notin completions[k]
    BY DEF AllDone
  <2>4. <<t, Day(now')>> \in completions[k]
    BY <1>6, <2>3 DEF AllDone, Tick
  <2>5. Day(now') <= Day(now)
    BY <2>4 DEF NoFutureCompletion
  <2>6. Day(now') = Day(now)
    BY <2>1, <2>2, <2>5
  <2>7. QED
    BY <2>3, <2>4, <2>6
<1>7. ASSUME \/ \E c \in Children, mins \in Amounts, b \in BOOLEAN :
                   RewardMinutes(c, mins, b)
             \/ \E c \in Children, t \in Tasks : Submit(c, t)
             \/ \E s \in submissions : Discard(s)
             \/ \E c \in Children, d \in Devices, batch \in SUBSET Minutes :
                   ProcessUsage(c, d, batch)
      PROVE  FALSE
  <2>1. UNCHANGED <<now, catalogue, completions>>
    BY <1>7 DEF RewardMinutes, Submit, Discard, ProcessUsage
  <2>2. QED
    BY <1>2, <2>1
<1>8. ASSUME NEW cfg \in Configs, Seed(cfg)
      PROVE  catalogue' # catalogue
  BY <1>2, <1>8 DEF Seed
<1> QED
  BY <1>4, <1>5, <1>6, <1>7, <1>8 DEF Next

(* A child blocked by required tasks is unblocked by a reward or approval  *)
(* for that child, or by a new catalogue, and by nothing else.             *)
THEOREM ParentsUnblock == Spec => OnlyParentsUnblock
<1>1. Init => NoFutureCompletion
  BY DEF Init, NoFutureCompletion
<1>2. TypeOK /\ NoFutureCompletion /\ [Next]_vars => NoFutureCompletion'
  BY CompletionsStep
<1>3. Spec => []NoFutureCompletion
  BY <1>1, <1>2, TypeCorrect, PTL DEF Spec
<1>4. LedgerInv /\ SubmissionsApprovable /\ NoFutureCompletion /\ [Next]_vars
        => [\A c \in Children :
              ~AllDone(c) /\ AllDone(c)'
                  => rewardRows'[c] > rewardRows[c]
                       \/ catalogue' # catalogue]_vars
  BY UnblockStep
<1> QED
  BY <1>3, <1>4, LedgerInvariant, Approvable, PTL DEF Spec, OnlyParentsUnblock

-----------------------------------------------------------------------------
(* The usage chart.  A minute lies in the bucket its division finds.       *)
LEMMA BucketSpans ==
  ASSUME NEW m \in Int, NEW size \in Nat \ {0}
  PROVE  /\ BucketOf(m, size) \in Int
         /\ BucketOf(m, size) <= m /\ m < BucketOf(m, size) + size
  BY DEF BucketOf

(* Of two multiples the greater is greater by the size at least.           *)
LEMMA Multiples ==
  ASSUME NEW a \in Int, NEW b \in Int, NEW size \in Nat \ {0}, a * size < b * size
  PROVE  a * size + size <= b * size
<1>1. a < b
  OBVIOUS
<1>2. a + 1 <= b
  BY <1>1
<1>3. (a + 1) * size <= b * size
  BY <1>2
<1> QED BY <1>3

(* The start of a bucket is a multiple of the size.                        *)
LEMMA BucketIsMultiple ==
  ASSUME NEW m \in Int, NEW size \in Nat \ {0}
  PROVE  BucketOf(m, size) % size = 0
<1> DEFINE q == m \div size
           d == (q * size) \div size
           r == (q * size) % size
<1>1. q \in Int /\ d \in Int /\ r \in 0..(size - 1) /\ q * size = d * size + r
  OBVIOUS
<1> HIDE DEF q, d, r
<1>2. ~(d * size < q * size)
  BY <1>1, Multiples
<1>3. r = 0
  BY <1>1, <1>2
<1> QED BY <1>3 DEF BucketOf, q, r

(* Each minute of the period falls into one of the chart's buckets.        *)
LEMMA BucketInChart ==
  ASSUME NEW days \in 1..ChartDays, NEW size \in Sizes, TypeOK,
         NEW m \in Int, ChartStart(days) <= m, m < ChartEnd
  PROVE  BucketOf(m, size) \in BucketStarts(days, size)
<1>0. /\ size \in Nat \ {0} /\ ChartStart(days) \in Int /\ ChartEnd \in Int
  BY LedgerAssumption DEF Sizes, ChartStart, ChartEnd, TypeOK
<1> DEFINE q == m \div size
           first == ChartStart(days) \div size
           last == (ChartEnd + size - 1) \div size
<1>1. q \in Int /\ first \in Int /\ last \in Int
  BY <1>0
<1>2. /\ BucketOf(m, size) = q * size
      /\ BucketOf(ChartStart(days), size) = first * size
      /\ BucketOf(ChartEnd + size - 1, size) = last * size
  BY DEF BucketOf
<1> HIDE DEF q, first, last
<1>3. /\ q * size <= m /\ m < q * size + size
      /\ first * size <= ChartStart(days)
      /\ ChartEnd + size - 1 < last * size + size
      /\ (q * size) % size = 0
  <2>1. ChartEnd + size - 1 \in Int
    BY <1>0
  <2> QED BY <1>0, <1>2, <2>1, BucketSpans, BucketIsMultiple
<1>4. first * size <= q * size
  <2>1. ~(q * size < first * size)
    BY <1>0, <1>1, <1>3, Multiples
  <2> QED BY <1>0, <1>1, <1>3, <2>1
<1>5. q * size < last * size
  <2>1. ~(last * size <= q * size)
    BY <1>0, <1>1, <1>3
  <2> QED BY <1>0, <1>1, <1>3, <2>1
<1> QED BY <1>0, <1>1, <1>2, <1>3, <1>4, <1>5 DEF BucketStarts

(* Sets that share nothing are counted one by one.                         *)
LEMMA DisjointUnion ==
  ASSUME NEW S, NEW T, IsFiniteSet(S), IsFiniteSet(T), S \cap T = {}
  PROVE  Cardinality(S \cup T) = Cardinality(S) + Cardinality(T)
<1>1. Cardinality(S \cup T) = Cardinality(S) + Cardinality(T) - Cardinality(S \cap T)
  BY FS_Union
<1>2. Cardinality(S \cap T) = 0
  BY FS_EmptySet
<1>3. Cardinality(S) \in Nat /\ Cardinality(T) \in Nat
  BY FS_CardinalityType
<1> QED BY <1>1, <1>2, <1>3

(* The sum over the buckets counts every minute of the period once: by     *)
(* induction over the sets of buckets, with a least set for which the sum  *)
(* would be wrong.                                                         *)
LEMMA ChartCounts ==
  ASSUME NEW c, NEW days, NEW size, NEW seen,
         seen = UsageMinutes(c, ChartStart(days), ChartEnd),
         IsFiniteSet(seen), IsFiniteSet(BucketStarts(days, size)),
         \A m \in seen : BucketOf(m, size) \in BucketStarts(days, size)
  PROVE  ChartTotal(c, days, size) = Cardinality(seen)
<1> DEFINE starts == BucketStarts(days, size)
           Count(b) == BucketCount(c, days, size, b)
           Shown(s) == {m \in seen : BucketOf(m, size) \in s}
           Pick(s) == CHOOSE b \in s : TRUE
           Sums(f) == f = [s \in SUBSET starts |->
                             IF s = {} THEN 0 ELSE Count(Pick(s)) + f[s \ {Pick(s)}]]
           sum == CHOOSE f : Sums(f)
<1>1. ChartTotal(c, days, size) = sum[starts]
  BY DEF ChartTotal, MapThenSumSet, MapThenFoldSet
<1>2. \A s : IsFiniteSet(Shown(s)) /\ Cardinality(Shown(s)) \in Nat
  BY FS_Subset, FS_CardinalityType
<1>3. ASSUME NEW s \in SUBSET starts
      PROVE  Cardinality(Shown(s)) =
               IF s = {} THEN 0
               ELSE Count(Pick(s)) + Cardinality(Shown(s \ {Pick(s)}))
  <2>1. CASE s = {}
    <3>1. Shown(s) = {}
      BY <2>1
    <3> QED BY <2>1, <3>1, FS_EmptySet
  <2>2. CASE s # {}
    <3>1. Pick(s) \in s
      BY <2>2
    <3> HIDE DEF Pick
    <3>2. /\ Shown(s) = Shown({Pick(s)}) \cup Shown(s \ {Pick(s)})
          /\ Shown({Pick(s)}) \cap Shown(s \ {Pick(s)}) = {}
          /\ Shown({Pick(s)}) = {m \in seen : BucketOf(m, size) = Pick(s)}
      BY <3>1
    <3>3. Count(Pick(s)) = Cardinality(Shown({Pick(s)}))
      BY <3>2 DEF BucketCount
    <3> HIDE DEF Shown
    <3> DEFINE one == Shown({Pick(s)})
               others == Shown(s \ {Pick(s)})
    <3>4. /\ IsFiniteSet(one) /\ IsFiniteSet(others)
          /\ Shown(s) = one \cup others /\ one \cap others = {}
      BY <1>2, <3>2
    <3> HIDE DEF one, others
    <3>5. Cardinality(Shown(s)) = Cardinality(one) + Cardinality(others)
      BY <3>4, DisjointUnion
    <3> USE DEF one, others
    <3> HIDE DEF Count
    <3> QED BY <2>2, <3>3, <3>5
  <2> QED BY <2>1, <2>2
<1>4. Sums([s \in SUBSET starts |-> Cardinality(Shown(s))])
  <2> DEFINE g == [s \in SUBSET starts |-> Cardinality(Shown(s))]
             h == [s \in SUBSET starts |->
                     IF s = {} THEN 0 ELSE Count(Pick(s)) + g[s \ {Pick(s)}]]
  <2>1. ASSUME NEW s \in SUBSET starts PROVE g[s] = h[s]
    <3> HIDE DEF Count, Shown, Pick
    <3> QED BY <1>3
  <2> HIDE DEF Count, Shown, Pick
  <2>2. g = h
    BY <2>1
  <2> QED BY <2>2
<1>5. Sums(sum)
  <2> HIDE DEF Sums
  <2> QED BY <1>4
<1> HIDE DEF sum
<1> DEFINE odd == {s \in SUBSET starts : sum[s] # Cardinality(Shown(s))}
<1>6. odd = {}
  <2> SUFFICES ASSUME odd # {} PROVE FALSE
    OBVIOUS
  <2>1. PICK s \in odd : \A t \in odd : <<t, s>> \notin StrictSubsetOrdering(starts)
    <3>1. odd \subseteq FiniteSubsetsOf(starts)
      BY FS_FiniteSubsetsOfFinite
    <3> HIDE DEF odd
    <3> QED BY <3>1, FS_StrictSubsetOrderingWellFounded, WFMin
  <2>2. s \in SUBSET starts /\ sum[s] # Cardinality(Shown(s))
    OBVIOUS
  <2>3. sum[s] = IF s = {} THEN 0 ELSE Count(Pick(s)) + sum[s \ {Pick(s)}]
    <3> HIDE DEF Count, Pick
    <3> QED BY <1>5, <2>2
  <2>4. s # {}
    <3> HIDE DEF Count, Pick, Shown
    <3> QED BY <1>3, <2>2, <2>3
  <2>5. s \ {Pick(s)} \in SUBSET starts /\ <<s \ {Pick(s)}, s>> \in StrictSubsetOrdering(starts)
    BY <2>2, <2>4 DEF StrictSubsetOrdering
  <2>6. sum[s \ {Pick(s)}] = Cardinality(Shown(s \ {Pick(s)}))
    <3> HIDE DEF Pick, Shown
    <3> QED BY <2>1, <2>5
  <2> HIDE DEF Count, Pick, Shown
  <2> QED BY <1>3, <2>2, <2>3, <2>6
<1>7. Shown(starts) = seen
  OBVIOUS
<1> HIDE DEF Shown
<1>8. sum[starts] = Cardinality(Shown(starts))
  BY <1>6
<1> QED BY <1>1, <1>7, <1>8

(* What a chart has to show is what the query returns.                     *)
LEMMA SeenUsage ==
  ASSUME TypeOK, NEW c \in Children, NEW days \in 1..ChartDays
  PROVE  LET seen == UsageMinutes(c, ChartStart(days), ChartEnd) IN
         /\ seen = {m \in Minutes :
                      /\ now - m \in 0..(days * DayLength - 1)
                      /\ \E d \in Devices : <<m, d>> \in usage[c]}
         /\ seen \subseteq Minutes /\ IsFiniteSet(seen)
         /\ \A m \in seen : m \in Int /\ ChartStart(days) <= m /\ m < ChartEnd
<1> DEFINE seen == UsageMinutes(c, ChartStart(days), ChartEnd)
           span == days * DayLength
<1>0. /\ days \in Nat \ {0} /\ now \in Int /\ usage[c] \subseteq Minutes \X Devices
      /\ MaxMinute + WindowFuture \in Int
  BY LedgerAssumption DEF TypeOK
<1>1. span \in Int /\ Minutes \subseteq Int /\ IsFiniteSet(Minutes)
  <2>1. days \in Int /\ DayLength \in Int /\ 0 \in Int
    BY <1>0, LedgerAssumption
  <2> QED BY <1>0, <2>1, FS_Interval DEF Minutes
<1>2. ChartStart(days) = (now + 1) - span /\ ChartEnd = now + 1
  BY DEF ChartStart, ChartEnd
<1> HIDE DEF span
<1>3. ASSUME NEW m \in Minutes
      PROVE  ChartStart(days) <= m /\ m < ChartEnd
               <=> now - m \in 0..(span - 1)
  <2>1. m \in Int
    BY <1>1
  <2> QED BY <1>0, <1>1, <1>2, <2>1
<1>4. seen = {m \in Minutes : /\ ChartStart(days) <= m /\ m < ChartEnd
                              /\ \E d \in Devices : <<m, d>> \in usage[c]}
  <2>1. ASSUME NEW m PROVE m \in seen <=> m \in Minutes
          /\ ChartStart(days) <= m /\ m < ChartEnd
          /\ \E d \in Devices : <<m, d>> \in usage[c]
    <3>1. ASSUME m \in seen PROVE m \in Minutes
            /\ ChartStart(days) <= m /\ m < ChartEnd
            /\ \E d \in Devices : <<m, d>> \in usage[c]
      <4>1. PICK r \in usage[c] :
               ChartStart(days) <= r[1] /\ r[1] < ChartEnd /\ m = r[1]
        BY <3>1 DEF UsageMinutes
      <4>2. r \in Minutes \X Devices
        BY <1>0, <4>1
      <4>3. r = <<r[1], r[2]>> /\ r[1] \in Minutes /\ r[2] \in Devices
        BY <4>2
      <4> QED BY <4>1, <4>3
    <3>2. ASSUME m \in Minutes, ChartStart(days) <= m, m < ChartEnd,
                 NEW d \in Devices, <<m, d>> \in usage[c]
          PROVE  m \in seen
      BY <3>2 DEF UsageMinutes
    <3> QED BY <3>1, <3>2
  <2> QED BY <2>1
<1>5. seen \subseteq Minutes /\ IsFiniteSet(seen)
  BY <1>1, <1>4, FS_Subset
<1> QED BY <1>1, <1>3, <1>4, <1>5 DEF span

(* The chart of a period is complete: no minute is shown twice, none is    *)
(* left out at either end, and no bucket overflows.                        *)
THEOREM ChartsAddUp == Spec => []ChartAddsUp
<1>1. TypeOK => ChartAddsUp
  <2>0. SUFFICES ASSUME TypeOK PROVE ChartAddsUp
    OBVIOUS
  <2> SUFFICES ASSUME NEW c \in Children, NEW days \in 1..ChartDays, NEW size \in Sizes
               PROVE  LET seen == {m \in Minutes :
                                     /\ now - m \in 0..(days * DayLength - 1)
                                     /\ \E d \in Devices : <<m, d>> \in usage[c]} IN
                      /\ ChartTotal(c, days, size) = Cardinality(seen)
                      /\ \A b \in BucketStarts(days, size) :
                            BucketCount(c, days, size, b) <= size
    BY DEF ChartAddsUp
  <2> DEFINE seen == UsageMinutes(c, ChartStart(days), ChartEnd)
             starts == BucketStarts(days, size)
  <2>1. /\ seen = {m \in Minutes :
                     /\ now - m \in 0..(days * DayLength - 1)
                     /\ \E d \in Devices : <<m, d>> \in usage[c]}
        /\ IsFiniteSet(seen)
        /\ \A m \in seen : m \in Int /\ ChartStart(days) <= m /\ m < ChartEnd
    BY <2>0, SeenUsage
  <2>2. /\ size \in Nat \ {0} /\ IsFiniteSet(starts) /\ starts \subseteq Int
    <3>1. size \in Nat \ {0} /\ ChartStart(days) \in Int /\ ChartEnd + size - 1 \in Int
      BY <2>0, LedgerAssumption DEF Sizes, ChartStart, ChartEnd, TypeOK
    <3>2. /\ BucketOf(ChartStart(days), size) \in Int
          /\ BucketOf(ChartEnd + size - 1, size) \in Int
      BY <3>1, BucketSpans
    <3>3. IsFiniteSet(BucketOf(ChartStart(days), size)
                        ..(BucketOf(ChartEnd + size - 1, size) - 1))
      BY <3>2, FS_Interval
    <3>4. starts \subseteq BucketOf(ChartStart(days), size)
                             ..(BucketOf(ChartEnd + size - 1, size) - 1)
      BY DEF BucketStarts
    <3> QED BY <3>1, <3>2, <3>3, <3>4, FS_Subset
  <2>3. \A m \in seen : BucketOf(m, size) \in starts
    BY <2>0, <2>1, BucketInChart
  <2> HIDE DEF starts
  <2>4. ChartTotal(c, days, size) = Cardinality(seen)
    <3> HIDE DEF seen
    <3>1. seen = UsageMinutes(c, ChartStart(days), ChartEnd)
      BY DEF seen
    <3> QED BY <2>1, <2>2, <2>3, <3>1, ChartCounts DEF starts
  <2>5. ASSUME NEW b \in starts PROVE BucketCount(c, days, size, b) <= size
    <3> DEFINE here == {m \in seen : BucketOf(m, size) = b}
    <3>1. b \in Int /\ b + size - 1 \in Int
      BY <2>2
    <3>2. ASSUME NEW m \in here PROVE m \in b..(b + size - 1)
      <4>1. m \in Int /\ BucketOf(m, size) = b
        BY <2>1
      <4> QED BY <2>2, <3>1, <4>1, BucketSpans
    <3>3. /\ IsFiniteSet(b..(b + size - 1))
          /\ Cardinality(b..(b + size - 1)) = size
      BY <2>2, <3>1, FS_Interval
    <3>4. Cardinality(here) <= size
      <4> HIDE DEF here
      <4>1. here \in SUBSET (b..(b + size - 1))
        BY <3>2
      <4> QED BY <3>3, <4>1, FS_Subset
    <3> QED BY <3>4 DEF BucketCount
  <2> QED BY <2>1, <2>4, <2>5 DEF starts
<1> QED BY <1>1, TypeCorrect, PTL

=============================================================================
