------------------------------- MODULE Ledger -------------------------------
(***************************************************************************)
(* The accounting core of gamiscreen-server: what the SQLite store         *)
(* (gamiscreen-server/src/storage/mod.rs) keeps about screen time, with    *)
(* one action per commit.  Every operation that changes a balance runs in  *)
(* one immediate_transaction; a submission and a discard write one row     *)
(* each.  Only the seed writes several rows that commit one by one.        *)
(*                                                                         *)
(* Tables are kept at the grain the properties need.  usage_minutes is the *)
(* set of its keys.  rewards and balance_transactions are append-only, so  *)
(* they are kept as the sums and counts of their rows, per child.          *)
(***************************************************************************)
EXTENDS Integers, FiniteSetsExt

CONSTANTS
    Children,       \* child ids; all of them are in the configuration
    Devices,        \* device ids that send heartbeats
    Tasks,          \* task ids that may appear in a configuration
    Configs,        \* task catalogues the administrator may start with
    Amounts,        \* custom reward minutes a parent may type (any i32)
    WindowPast,     \* oldest minute a heartbeat may report (7 days)
    WindowFuture,   \* clock skew tolerated in a heartbeat (5 minutes)
    DayLength,      \* minutes in a UTC day
    ChartDays,      \* longest period of the usage chart (90 days)
    MaxMinute,      \* bound: the clock stops here
    MaxRows,        \* bound: rewards rows per child
    MaxSubmissions  \* bound: submissions ever made

(* A catalogue gives some tasks their minutes and their required flag.     *)
(* The minutes of a task are read from YAML and not validated: they may be *)
(* zero or negative.                                                       *)
TaskInfo == [minutes : Int, required : BOOLEAN]
IsCatalogue(f) == DOMAIN f \subseteq Tasks /\ f \in [DOMAIN f -> TaskInfo]

ASSUME LedgerAssumption ==
    /\ \A cfg \in Configs : IsCatalogue(cfg)
    /\ Amounts \subseteq Int
    /\ WindowPast \in Nat /\ WindowFuture \in Nat
    /\ DayLength \in Nat \ {0} /\ ChartDays \in Nat \ {0}
    /\ MaxMinute \in Nat /\ MaxRows \in Nat /\ MaxSubmissions \in Nat

VARIABLES
    now,                \* Utc::now() in minutes
    catalogue,          \* tasks table
    minutes_remaining,  \* balances.minutes_remaining
    account_balance,    \* balances.account_balance
    rewarded,           \* SUM(minutes) of rewards rows with is_borrowed = 0
    rewardRows,         \* COUNT of rewards rows
    lent,               \* minus the SUM of "Lent time" balance_transactions
    repaid,             \* SUM of "Auto-repayment" balance_transactions
    usage,              \* usage_minutes: keys <<minute_ts, device_id>>
    completions,        \* task_completions: <<task_id, day of done_at>>
    submissions,        \* task_submissions rows
    nextSubmission,     \* AUTOINCREMENT of task_submissions
    approved,           \* rewards rows inserted by approvals
    discarded           \* task_submissions rows deleted by discards

balances == <<minutes_remaining, account_balance>>
rewardTables == <<rewarded, rewardRows, lent, repaid>>
submissionVars == <<submissions, nextSubmission, approved, discarded>>
vars == <<now, catalogue, balances, rewardTables, usage, completions,
          submissionVars>>

Day(m) == m \div DayLength
Minutes == 0..(MaxMinute + WindowFuture)
Submission == [id : Nat, child : Children, task : Tasks]

Init ==
    /\ now = 0
    /\ catalogue \in Configs
    /\ minutes_remaining = [c \in Children |-> 0]
    /\ account_balance = [c \in Children |-> 0]
    /\ rewarded = [c \in Children |-> 0]
    /\ rewardRows = [c \in Children |-> 0]
    /\ lent = [c \in Children |-> 0]
    /\ repaid = [c \in Children |-> 0]
    /\ usage = [c \in Children |-> {}]
    /\ completions = [c \in Children |-> {}]
    /\ submissions = {}
    /\ nextSubmission = 1
    /\ approved = 0
    /\ discarded = 0

-----------------------------------------------------------------------------
(* apply_reward_to_balance: the deltas of the two balance columns for a    *)
(* reward of mins minutes to a child whose account_balance is debt.        *)

(* Fault: repays the whole reward, also when it exceeds the debt.          *)
Repay_NoCap(mins, debt) == IF mins > 0 /\ debt < 0 THEN mins ELSE 0

(* Fault: a repayment that clears the debt has the sign of the debt.       *)
Repay_WrongSign(mins, debt) == IF mins > 0 /\ debt < 0
                               THEN IF mins <= -debt THEN mins ELSE debt
                               ELSE 0

Repay(mins, debt) == IF mins > 0 /\ debt < 0
                     THEN IF mins <= -debt THEN mins ELSE -debt
                     ELSE 0

(* Fault: credits the whole reward although part of it went to the debt.   *)
RemainingDelta_NoSurplus(mins, borrowed, debt) == mins

RemainingDelta(mins, borrowed, debt) ==
    IF borrowed THEN mins ELSE mins - Repay(mins, debt)

BalanceDelta(mins, borrowed, debt) ==
    IF borrowed THEN -mins ELSE Repay(mins, debt)

(* The rows and columns a reward writes: the rewards row, the audit row    *)
(* and the two columns of balances.                                        *)
GrantTo(c, mins, borrowed) ==
    LET debt == account_balance[c] IN
    /\ rewardRows[c] < MaxRows
    /\ rewardRows' = [rewardRows EXCEPT ![c] = @ + 1]
    /\ rewarded' = [rewarded EXCEPT ![c] = IF borrowed THEN @ ELSE @ + mins]
    /\ lent' = [lent EXCEPT ![c] = IF borrowed THEN @ + mins ELSE @]
    /\ repaid' = [repaid EXCEPT
                    ![c] = IF borrowed THEN @ ELSE @ + Repay(mins, debt)]
    /\ minutes_remaining' = [minutes_remaining EXCEPT
                               ![c] = @ + RemainingDelta(mins, borrowed, debt)]
    /\ account_balance' = [account_balance EXCEPT
                             ![c] = @ + BalanceDelta(mins, borrowed, debt)]

(* record_task_done_inner, in the transaction of a reward.                 *)
Complete(c, t) ==
    completions' = [completions EXCEPT ![c] = @ \cup {<<t, Day(now)>>}]

-----------------------------------------------------------------------------
(* POST children/{id}/reward with custom minutes: add_reward_minutes.      *)
RewardMinutes(c, mins, borrowed) ==
    /\ mins # 0
    /\ borrowed => mins > 0
    /\ GrantTo(c, mins, borrowed)
    /\ UNCHANGED <<now, catalogue, usage, completions, submissionVars>>

(* The same with a task_id: its minutes, and its completion is recorded.   *)
RewardTask(c, t, borrowed) ==
    /\ t \in DOMAIN catalogue
    /\ catalogue[t].minutes # 0
    /\ borrowed => catalogue[t].minutes > 0
    /\ GrantTo(c, catalogue[t].minutes, borrowed)
    /\ Complete(c, t)
    /\ UNCHANGED <<now, catalogue, usage, submissionVars>>

(* Fault: records the completion when the child submits the task.          *)
Submit_Completes(c, t) ==
    /\ t \in DOMAIN catalogue
    /\ nextSubmission <= MaxSubmissions
    /\ submissions' = submissions \cup
                        {[id |-> nextSubmission, child |-> c, task |-> t]}
    /\ nextSubmission' = nextSubmission + 1
    /\ Complete(c, t)
    /\ UNCHANGED <<now, catalogue, balances, rewardTables, usage,
                   approved, discarded>>

(* submit_task: a child asks for a task to be approved.                    *)
Submit(c, t) ==
    /\ t \in DOMAIN catalogue
    /\ nextSubmission <= MaxSubmissions
    /\ submissions' = submissions \cup
                        {[id |-> nextSubmission, child |-> c, task |-> t]}
    /\ nextSubmission' = nextSubmission + 1
    /\ UNCHANGED <<now, catalogue, balances, rewardTables, usage, completions,
                   approved, discarded>>

(* list_pending_submissions: the parents see the rows whose task there is, *)
(* by the join that an approval makes, too.                                *)
Listed == {s \in submissions : s.task \in DOMAIN catalogue}

(* Fault: leaves the approved submission in the table.                     *)
Approve_KeepRow(s) ==
    /\ s \in Listed
    /\ GrantTo(s.child, catalogue[s.task].minutes, FALSE)
    /\ Complete(s.child, s.task)
    /\ approved' = approved + 1
    /\ UNCHANGED <<now, catalogue, usage, submissions, nextSubmission,
                   discarded>>

(* approve_submission: the reward, the completion and the deletion of the  *)
(* row commit together.  Minutes come from the catalogue as it is now.     *)
Approve(s) ==
    /\ s \in Listed
    /\ GrantTo(s.child, catalogue[s.task].minutes, FALSE)
    /\ Complete(s.child, s.task)
    /\ submissions' = submissions \ {s}
    /\ approved' = approved + 1
    /\ UNCHANGED <<now, catalogue, usage, nextSubmission, discarded>>

(* discard_submission: deleting a row that is gone deletes nothing.        *)
Discard(s) ==
    /\ s \in submissions
    /\ submissions' = submissions \ {s}
    /\ discarded' = discarded + 1
    /\ UNCHANGED <<now, catalogue, balances, rewardTables, usage, completions,
                   nextSubmission, approved>>

(* The minutes a heartbeat may report.                                     *)
InWindow(m) == m >= now - WindowPast /\ m <= now + WindowFuture

(* Fault: charges every minute of the batch, recorded or not.              *)
NewRows_NoDedup(c, d, batch) == batch \X {d}

(* The rows of a batch that on_conflict_do_nothing inserts.                *)
NewRows(c, d, batch) == (batch \X {d}) \ usage[c]

(* process_usage_minutes: one out-of-window minute rejects the batch; the  *)
(* minutes not yet recorded for this device are recorded and charged.      *)
ProcessUsage(c, d, batch) ==
    /\ batch # {}
    /\ \A m \in batch : InWindow(m)
    /\ usage' = [usage EXCEPT ![c] = @ \cup (batch \X {d})]
    /\ minutes_remaining' = [minutes_remaining EXCEPT
                               ![c] = @ - Cardinality(NewRows(c, d, batch))]
    /\ UNCHANGED <<now, catalogue, account_balance, rewardTables, completions,
                   submissionVars>>

(* Fault: replaces the tasks table by the configured tasks.                *)
Seed_Replace(cfg) ==
    /\ catalogue' = cfg
    /\ UNCHANGED <<now, balances, rewardTables, usage, completions,
                   submissionVars>>

(* seed_from_config at every start: the tasks are upserted, none is        *)
(* deleted; a child that has a balances row keeps it.  The rows commit one *)
(* by one before any request is served: a start that dies half way is a    *)
(* seed with a part of its catalogue, and the next start seeds again.      *)
Seed(cfg) ==
    /\ catalogue' = [t \in DOMAIN cfg \cup DOMAIN catalogue |->
                       IF t \in DOMAIN cfg THEN cfg[t] ELSE catalogue[t]]
    /\ UNCHANGED <<now, balances, rewardTables, usage, completions,
                   submissionVars>>

Tick ==
    /\ now < MaxMinute
    /\ now' = now + 1
    /\ UNCHANGED <<catalogue, balances, rewardTables, usage, completions,
                   submissionVars>>

Next ==
    \/ \E c \in Children, mins \in Amounts, b \in BOOLEAN :
          RewardMinutes(c, mins, b)
    \/ \E c \in Children, t \in Tasks, b \in BOOLEAN : RewardTask(c, t, b)
    \/ \E c \in Children, t \in Tasks : Submit(c, t)
    \/ \E s \in submissions : Approve(s)
    \/ \E s \in submissions : Discard(s)
    \/ \E c \in Children, d \in Devices, batch \in SUBSET Minutes :
          ProcessUsage(c, d, batch)
    \/ \E cfg \in Configs : Seed(cfg)
    \/ Tick

Spec == Init /\ [][Next]_vars

-----------------------------------------------------------------------------
(* all_required_tasks_done_today and the minutes a child may use now       *)
(* (compute_child_status).                                                 *)
AllDone(c) ==
    \A t \in DOMAIN catalogue :
        catalogue[t].required => <<t, Day(now)>> \in completions[c]

Effective(c) == IF AllDone(c) THEN minutes_remaining[c] ELSE 0

-----------------------------------------------------------------------------
(* The usage chart (api_list_child_usage): the minutes of the last days    *)
(* days in buckets of size minutes.  Both are clamped, to 1..ChartDays and *)
(* 1..DayLength, so these are all the charts there are.                    *)
Sizes == 1..DayLength
ChartEnd == now + 1
ChartStart(days) == ChartEnd - days * DayLength

(* list_usage_minutes: SELECT DISTINCT of the minutes in [from, to).       *)
UsageMinutes(c, from, to) ==
    {r[1] : r \in {row \in usage[c] : from <= row[1] /\ row[1] < to}}

(* Rust divides towards zero and TLA+ towards minus infinity: a bucket of  *)
(* a real chart starts long after minute 0 and the two agree.              *)
BucketOf(m, size) == (m \div size) * size

(* Fault: the last bucket is the last full one.                            *)
BucketStarts_Full(days, size) ==
    {b \in BucketOf(ChartStart(days), size)..(BucketOf(ChartEnd, size) - 1) :
        b % size = 0}

(* The cursor: from the bucket of the start up to the end rounded up.      *)
BucketStarts(days, size) ==
    {b \in BucketOf(ChartStart(days), size)
             ..(BucketOf(ChartEnd + size - 1, size) - 1) : b % size = 0}

BucketCount(c, days, size, b) ==
    Cardinality({m \in UsageMinutes(c, ChartStart(days), ChartEnd) :
                    BucketOf(m, size) = b})

ChartTotal(c, days, size) ==
    MapThenSumSet(LAMBDA b : BucketCount(c, days, size, b),
                  BucketStarts(days, size))

-----------------------------------------------------------------------------
(* The shape of every variable.                                            *)
TypeOK ==
    /\ now \in 0..MaxMinute
    /\ IsCatalogue(catalogue)
    /\ minutes_remaining \in [Children -> Int]
    /\ account_balance \in [Children -> Int]
    /\ rewarded \in [Children -> Int]
    /\ rewardRows \in [Children -> 0..MaxRows]
    /\ lent \in [Children -> Nat]
    /\ repaid \in [Children -> Nat]
    /\ usage \in [Children -> SUBSET (Minutes \X Devices)]
    /\ completions \in [Children -> SUBSET (Tasks \X Nat)]
    /\ submissions \subseteq Submission
    /\ nextSubmission \in 1..(MaxSubmissions + 1)
    /\ approved \in Nat
    /\ discarded \in Nat

(* No minute is created or lost: through any history of rewards, loans,    *)
(* penalties, repayments, approvals, repeated heartbeats and restarts, the *)
(* two columns of balances add up to the minutes earned (penalties         *)
(* included) less one minute for each recorded (minute, device) pair.      *)
MinutesConserved ==
    \A c \in Children :
        minutes_remaining[c] + account_balance[c]
            = rewarded[c] - Cardinality(usage[c])

(* account_balance is the debt the audit rows account for, and a child     *)
(* never repays more than was lent: the balance never becomes a credit.    *)
DebtAudited ==
    \A c \in Children :
        /\ account_balance[c] = repaid[c] - lent[c]
        /\ repaid[c] <= lent[c]

(* Every submission ever made is pending, or was rewarded exactly once, or *)
(* was discarded without a reward.                                         *)
SubmissionsSettledOnce ==
    nextSubmission - 1 = Cardinality(submissions) + approved + discarded

(* The badge of the parents counts the rows of the table, their list and   *)
(* the approval join it with the tasks: restarts with another catalogue    *)
(* never leave a submission that is counted but cannot be seen or approved.*)
SubmissionsApprovable == \A s \in submissions : s \in Listed

(* Every chart adds up, whatever its period and the size of its buckets:   *)
(* the buckets together show each minute of the period at which some       *)
(* device of the child was used, the present one included, exactly once,   *)
(* and no bucket shows more minutes than it has.  A chart therefore shows  *)
(* less than what was charged when two devices were used at once.          *)
ChartAddsUp ==
    \A c \in Children, days \in 1..ChartDays, size \in Sizes :
        LET seen == {m \in Minutes :
                       /\ now - m \in 0..(days * DayLength - 1)
                       /\ \E d \in Devices : <<m, d>> \in usage[c]} IN
        /\ ChartTotal(c, days, size) = Cardinality(seen)
        /\ \A b \in BucketStarts(days, size) :
              BucketCount(c, days, size, b) <= size

(* A debt is repaid before earned minutes become usable: a step that adds  *)
(* usable minutes without lending leaves the child without debt.           *)
DebtRepaidFirst ==
    [][\A c \in Children :
         minutes_remaining'[c] > minutes_remaining[c] /\ lent'[c] = lent[c]
             => account_balance'[c] = 0]_vars

(* Only a parent lifts the block of required tasks: a blocked child is     *)
(* unblocked by a reward or an approval for that child, or by an           *)
(* administrator's new catalogue, never by a submission, by usage or by    *)
(* the passing of time.                                                    *)
OnlyParentsUnblock ==
    [][\A c \in Children :
         ~AllDone(c) /\ AllDone(c)'
             => rewardRows'[c] > rewardRows[c] \/ catalogue' # catalogue]_vars

=============================================================================
