# Gamiscreen in TLA+

Gamiscreen limits the screen time of children. A server keeps the books of
every child; an agent on each device reports the minutes a child uses and locks
the screen when none are left; parents and children open a web page (or its
Android shell) that shows the state and changes it. This directory holds TLA+
models of the parts where time, failure and concurrency meet, the TLC
configurations that check them on small instances, and TLAPS proofs of what
must hold for every instance. Paths below are relative to `src/`.

## The system

| Component | State | Operations | Talks to |
|---|---|---|---|
| Store (`gamiscreen-server/src/storage`) | SQLite tables: children, tasks, balances, rewards, balance_transactions, task_completions, task_submissions, usage_minutes, sessions, push_subscriptions | one transaction per operation, in a blocking thread | handlers |
| Handlers (`server/mod.rs`) | per-child mutex around a cached `Option<i32>`, broadcast channel of 64 events | reward, heartbeat, remaining, submit, approve, discard, counts, usage chart, event stream | store, pages and agents (JSON, SSE), push |
| Tokens (`server/auth.rs`) | sessions table; one kept token per client (keyring, browser storage) | login, registration, use, renew, logout | every client |
| Push (`server/push.rs`) | push_subscriptions; the last minutes announced per child | subscribe, unsubscribe, a task per event and per delivery | browsers' push services |
| Device agent (`gamiscreen-client/src/app/agent.rs`, `sse.rs`) | pending minutes in memory and in a log file, failure count, re-lock task, countdown task, one notification | a heartbeat per minute, events, lock, warn | server, desktop |
| Self-update (`gamiscreen-client/src/update.rs`) | the binary all agents of a machine share | ask, choose, download, verify, rename, exec | GitHub, server, systemd |
| Windows service (`platform/windows/service.rs`) | map of workers, set of running tasks, bounded channel, restart timers | session changes, process creation and exit, stop | Windows, one agent process per session |
| Rate limit, access control | attempts per address; none | per login; per request | handlers |
| Web application, Android shell | the kept token, what a page shows | polling, SSE | server |
| Configuration, installers, other lock methods | files | one-shot commands, I/O | operating system |

Where it is hard: the handlers await the store between their steps, so any two
requests interleave at every query; a heartbeat may be lost, answered without
being heard, or arrive after it was sent again; agents and server crash between
writes; events overtake each other, and every push event is a task of its own;
the UTC day ends between two reads; four tasks of the agent share one
notification; agents of several users replace one file; the service's loop
takes events and exits in either order. `PROJECT.json` lists each hazard at the
line where it bites, with the properties that cover it.

What makes each part correct:

- **Books**: minutes are neither created nor lost, the debt is what the audit
  rows say, a submission is rewarded once, only parents lift a block, every
  chart shows each used minute once.
- **Handlers**: the mutex is never leaked, the cache is never stale, an open
  page ends up showing the truth, every request is answered.
- **Tokens**: a login that is over stays over, unless a request that was
  checked before is still under way; a renewal that was delivered leaves no
  session of the token it replaced.
- **Push**: what is due is announced once and to the right browsers, and no
  late clean-up removes a subscription that works.
- **Agent**: each used minute is charged exactly once whatever the network
  does; a child without minutes is warned, locked and locked again in time,
  with or without a server.
- **Self-update**: the shared binary is always whole and one that may run, and
  updating ends.
- **Service**: one agent per connected session, none after a stop, and a stop
  ends.

## Modules

`Ledger`, `Server`, `Push`, `Sessions`, `Agent`, `Countdown`, `Update` and
`Supervisor` are specifications in their own right; they meet where one
abstracts another. `Server` keeps of the books only what handlers tell apart
(stored minutes, tasks done, number of submissions), and `Ledger` has one action
for each transaction `Server` commits. `Push` takes the events `Server` sends as
any sequence of minutes. `Agent` composes the agent, the network and the
server's accounting of one device, and implements `Metering`, an abstract
promise; `Countdown` looks at the same agent with durations and with the tasks
`Agent` leaves out. For each module `M` there is an `MCM` with the definitions
its `.cfg` files need, and an `MProofs` with its theorems. An operator named
`Name_Something` is a deliberately broken variant of `Name`, kept beside it: the
checks use it to show that a property notices that mistake.

### Ledger

One action per commit of `storage/mod.rs`. What changes a balance runs in one
`immediate_transaction`; `Submit` and `Discard` write a single row in
autocommit. `Seed` writes row by row in autocommit and is one step all the same:
no request is served before it is done, a start that dies half way leaves what a
seed with a part of the catalogue leaves, and the next start seeds again (the
theorems hold for every set of catalogues). `RewardMinutes`, `RewardTask`,
`Submit`, `Approve`, `Discard` and `ProcessUsage` are the store operations;
`Listed` is the join of the parents' list, which an approval makes as well;
`Seed` is `seed_from_config` at a restart with any catalogue; `Tick` is the
clock. `Repay`, `RemainingDelta`, `BalanceDelta` are `apply_reward_to_balance`.
Tables that only grow are kept as sums and counts. A restarted server upserts
tasks and never deletes one, as the code does.

The usage chart is a set of operators over the same state: `UsageMinutes` is
the `SELECT DISTINCT`, `BucketStarts` the cursor of `api_list_child_usage`,
`BucketCount` its map of counts. `ChartAddsUp` compares every chart there is
with the used minutes themselves, in every state of the books.

### Server

The handlers of one child, one step per await. `Lock` ... `Unlock` is the
child's mutex; `Commit*` are the transactions, `Publish` the write to the
cache, `ReadStatus`/`ReadTasks` the reads of `compute_child_status`, `Announce`
the event, `SnapshotMinutes`/`SnapshotBlocked`/`Subscribe` the opening of a
stream. `Fault` is a store error at any query; `Abandon` is a closed
connection, which drops the handler where it waits while a transaction already
handed to the blocking pool still commits (`CommitDetached`); `Midnight` makes
today's tasks undone; `Restart` keeps only the store. A page is what it shows
last; a stream delivers at once and in order. `used` counts what the bounds
limit and remembers three things: that two requests that read or send what the
child's page shows ran at once, other than two that hold the mutex to their end
(`RaceForChild`), the same for the parents' pages (`RaceForParent`), and that a
read failed or a day began while a snapshot was between its two reads of the
tasks (`Disturb`). They are histories the properties speak of and guard
nothing. What `GET remaining` reads after it dropped the guard (`mod.rs:493`) is
left out: it changes nothing, and an error there is only an answer. A request
refused by a validation is one that fails (`Fault`).

### Push

`BeginSubscribe`, `Lookup`, `Count`, `Upsert` are the queries of
`api_push_subscribe`, `BeginUnsubscribe` and `Delete` those of
`api_push_unsubscribe`. `Dispatch` starts a task for an event, `Decide` is
`should_push_remaining` under its mutex, `List` reads the subscriptions and
starts a delivery for each; `Deliver`, `Refuse`, `Mark` and `Remove` are
`send_single`. `Restart` forgets the thresholds and the tasks; `Expire` is a
browser that gave up its endpoint. Payloads, keys and signatures are left out.
Who was ever subscribed and who was told are history variables.

### Sessions

Tokens are numbered in the order of issue. Each query of the sessions table is
a step, and so is a look at the clock that a later query uses. `Verify` is
`require_bearer` up to its query: the signature and `exp` are checked
(`auth.rs:42`) and the cutoff of the idle window is computed (`auth.rs:70`).
`Authenticate` is the `UPDATE` of `touch_session_with_cutoff`, which runs when
the blocking pool gets to it, compares with that cutoff and writes a time of its
own; days may pass between the two, which stands for any delay that a window's
end falls into. `Admit` is what a login (or the registration of a device) is
refused for, `Create` is `issue_jwt_for_user` with `Insert`, `DeleteOld` and
`CleanUp` are the end of `api_auth_renew`. A `stream` request is the event
stream, which `sse_notifications` lets in on the token alone, without a look at
its session; `Reopen` is a stream that ended and is opened again with the token
in its URL. `Deliver` is what a client does with an answer - a browser forgets
the token it keeps by then when it reads a 401, also that of a wrong password,
but not the event stream's -, `Lose` a broken connection, `Logout` the browser
forgetting its token. All tabs of a browser share one kept token; a device is
taken to use the token in its keyring. The login of a device is two requests in
the code, the user's login and the registration; the model has the one whose
token is kept. Days stand for times: the 60 seconds of leeway for `exp` are
below the grain.

### Agent and Metering

`Wake`, `Insert`, `Send`, `Acknowledged`, `Refused`, `GiveUp`, `NotMarked` are
one iteration of `main_loop`. `Prefixes` is what `fs::write` leaves when it is
cut short, with a torn last line that reads as a small number. `Serve` and
`ServeLate` are the server's handler for a heartbeat that is waited for, and
for one the agent has given up on; `Lose` drops messages; `Announce`/`Deliver`
are the event stream, which may be stale; `Relock` is the re-lock loop;
`Child` locks and unlocks at will. `Metering` says what all this is for: used
minutes are charged once, nothing else is, and the balance is what was granted
less what was charged. A clean shutdown of the agent loses no more than
`Crash` does.

### Countdown

Time in units. Time passes (`Tick`) only when no task can go on at once, so
tasks take no time but run in any order. `Sleep`, `Skip`, `Beat`, `Answer`,
`Fail` are the heartbeat loop; `Tell` sends to the countdown task's channel and
waits for room; `Update`, `Cancel` and `Fire` are the arms of that task's
`select!`; `Disable` (`Abort`, then `Hide`) and `Enable` (then `Show`) are the
re-locker's switch with the awaits between its parts; `Relock` and `Look` are
the re-lock task; `Listen` and `Notify` the event task. `Query` is the question
whether the session is locked and `TryLock` the lock through login1, each of
which may fail. Whoever shows a notification replaces the one there is.

### Update

One agent per user, one binary. `Ask` is the question for the server's version,
which may change before `Choose` lists the releases and takes one (`Candidates`,
`Selected`). A digest that cannot be fetched drops its release
(`update.rs:286`), so any part of the candidates may be what is chosen from, and
a lower release may be taken. The list and the digests are one step: releases
are only added, and what is missing of the digests is any part. `Fetch` the
download, the digest (`Verified`) and the staged file, `Install` the rename over
the running binary, `Exec` its execution, `GiveUp` every early return, `Kill` a
logout at any point, `Start` systemd. `Publish` and `ChangeServer` change the
world around it.

### Supervisor

Windows calls `Connect`, `Disconnect` and `Stop` from threads of its own, and
`Offer` drops what does not fit into the channel. `Enumerate` is the look at
existing sessions; `HandleEvent` and `HandleExit` are the arms of the loop's
`select!`; `TimerFires` is a restart after its delay; `Spawn` creates the
process with the user's token, or fails; `AgentExits` and `Terminate` are the
ends of `session_worker_task`; `Finish` is the report of SERVICE_STOPPED.
`TerminateProcess` and waiting for a process are taken to work, and a worker's
task not to panic: after a panic the loop takes the task from its set and leaves
the worker active without one (`service.rs:517`). Delays are left out: a timer
may fire at any time.

## What the checks show

| Run | Instance | Result |
|---|---|---|
| `ledger` | 1 child, 2 devices, 2 tasks, 2 catalogues, 3 rewards, 2 submissions, 3 minutes over 2 days, all charts | `MinutesConserved`, `DebtAudited`, `SubmissionsSettledOnce`, `SubmissionsApprovable`, `DebtRepaidFirst`, `OnlyParentsUnblock`, `ChartAddsUp` hold |
| `server_pages` | 2 handlers, 4 requests of all kinds, 1 fault, 1 midnight, 1 restart | an idle server's pages show the store (`QuiescentChildView`, `QuiescentParentView`); `BlockedShowsZero` |
| `server_locks` | 2 handlers, 3 requests of all kinds, 1 fault, 1 closed connection | `LockDiscipline`, `CacheCoherent`, and every request ends (`RequestsFinish`) |
| `server_approve` | approve, submit, heartbeat; 2 handlers, 4 requests | **violated** `CacheSettles`: an approval leaves a stale cache |
| `push` | 2 children, 3 endpoints, a limit of 1, 2 requests at once, 4 events and requests, 1 fault or restart | `SubscriptionsBounded`, `AlertsAsPromised`, `OwnAlertsOnly`, `LiveKept` |
| `sessions_races` | 1 browser, 2 handlers, 3 tokens, 1 fault, 1 loss, 3 days, windows of 0 and 1 days | `NoRevival`, `ReplacedTokenDead` |
| `agent_metering` | 3 minutes, a window of 1, 1 reward, 1 crash, 1 failed write | `MeteringSpec`, `NoMinuteForgotten`, `OutOfTimeLocks` |
| `agent_window` | clock past the server's window | **violated** `ReachableServerNeverTrips`: refusals by a reachable server trip the failsafe |
| `countdown` | minutes of 3 units, warning 2 before the end, caution 3, a grace of 3 that shrinks by 3, a look every unit, 2 failures to the failsafe, timeouts of 4, 1 failed lock or query | `WarnedInTime`, `RelockInTime`, `FailsafeInTime`, `NoticeGoes` |
| `update` | 2 agents, 5 releases, 3 server versions, 3 changes, 1 kill, 1 failed rename or exec | `InstalledGood`, `UpdatesEnd` |
| `supervisor` | 2 sessions, channel of 2, 2 connects, 2 disconnects, 2 exits or failed starts | `OneAgentPerSession`, `StopReachesAll`, `FailedAgentReturns`, `StopEndsWithTasks` |
| `supervisor_hang` | 1 session, 1 failed agent | **violated** `StopCompletes`: a stop hangs on a worker that waits for its restart |

Each passing run also checks its module's `TypeOK`, except `server_pages`,
which shares its module with `server_locks`. Every violated property quotes a
document or comment; `findings` in `PROJECT.json` says where the code differs.

**Bounds.** Each names what runs out (`MaxRows`, `MaxRequests`, `MaxCrashes`,
...). They are chosen so that each interaction a property is about can happen,
and happen twice where that matters: two rewards around a loan, two
submissions, a day that ends with one under way, buckets that do not divide the
period, a retry of a retry, two children who share endpoints, a second event
before the first is handled, a second warning while the first is on the
screen, a newer release while an older one is installed, a channel that
overflows. Amounts include a penalty, a repayment smaller and one larger than
the debt. Symmetry is used only for identifiers the model never orders, and not
together with liveness. Deadlock is not checked because every bound ends the
run by itself and idle parts really stop; that no handler, agent or stop waits
for ever is checked as liveness.

**What a property leaves out on purpose**, because the code does not keep the
promise there, as the models show when a bound is widened:

- `CacheCoherent` speaks of histories without approvals (`server_approve` shows
  why) and without connections that were closed early, whose transaction
  commits without the cache being told (`mod.rs:1059`).
- `QuiescentChildView` and `QuiescentParentView` speak of a page until two
  requests have raced for it, one failed or was dropped, or, for the child's
  page, a day began; requests that do not touch the page may run at once with
  those that do, and any number may wait for the mutex. After a race the claim
  would be false: an event sent after a stream's snapshot and before its
  subscription (`mod.rs:896`) is lost to the page, and two heartbeats may
  announce in the wrong order (`mod.rs:1067`). A request that fails after its
  commit never announces it, and nothing is announced at midnight.
- `BlockedShowsZero` compares a page with itself: it holds through every race,
  failure and midnight, until a snapshot is torn between its two reads of the
  required tasks (`mod.rs:880` and `mod.rs:882`), by a second read that fails,
  which it takes for a block, or by a day that begins. Such a page does show
  minutes with a block. Whether the page says what is true of the tasks is
  `QuiescentChildView`.
- `SubscriptionsBounded`: the limit of ten is checked and the row written in
  two queries, so a child can end up with as many more subscriptions as there
  are requests under way, less one.
- `AlertsAsPromised` holds while the tasks of a child's events run in the order
  of the events, and since the server started. Out of order a fall is pushed as
  a rise; after a restart a rise against a value from before it is not pushed.
- `NoRevival` counts a login as over only when no request is under way that was
  checked while the idle window was open. Such a request does revive an idle
  login: the cutoff is taken at `auth.rs:70`, and the `UPDATE` at
  `storage/mod.rs:898` may run after the window has closed and writes the time
  it finds then. TLC shows it when `Passing` is taken out of `Over`. The comment
  at `storage/mod.rs:881` says the race is eliminated; what is eliminated is the
  gap between the comparison and the write. The property bounds it: as soon as
  those requests are answered nothing revives the login, and none ever revives
  one that has expired or was renewed.
- The windows themselves are constants. `docs/AUTH.md:13-14` gives 7 days of
  inactivity and 30 days to `exp`; the code has 14 and 30 days for users, 30 and
  60 for devices (`auth.rs:12-18`).
- `ReplacedTokenDead` is about the session of a replaced token, without which
  `require_bearer` refuses it. The event stream looks at the token only
  (`mod.rs:858-863`, and says so), so a replaced or idle token opens it until
  its `exp`, although `docs/AUTH.md:12` says a renewal invalidates the previous
  session. The property also claims nothing of a token that two renewals use at
  once: both get a session (`mod.rs:1197` only warns), while `docs/AUTH.md:12`
  speaks of one. Nor does any property claim that only renewals extend a login,
  as `docs/AUTH.md:11` does: `Touch` moves the window at every use. When the
  answer of a renewal is lost the client is left with a token whose session is
  gone and has to log in again, though `agent.rs:63` logs "continuing with
  existing token".
- `WarnedInTime` is about an answer that came at once. The countdown starts
  when an answer is taken, so after a slow one the 45 seconds of
  `docs/INSTALL.md:102` are not given in full.
- `RelockInTime` bounds one opening by a look and the grace that was left a
  grace before the session was unlocked, once more for each look or lock that
  failed, and not by the grace that is left: a child that locks and unlocks
  during a wait keeps the length the last look gave it. The earlier, stronger
  form held on instances with a short grace; the proof did not go through, and a
  longer grace gave TLC the counterexample.
- `FailsafeInTime` bounds the silence by an interval and five timeouts of 180
  seconds, 16 minutes, where `docs/ARCHITECTURE.md:26` says ~5.
- `NoticeGoes` is about a notification that stays for ever. The other
  direction, a late cancel that hides the re-locker's notification at once
  (`agent.rs:448`), is what the code does.
- `UpdatesEnd` says that no update is repeated for ever, not that an agent gets
  to metering: a download that stalls has no timeout (`update.rs:118`). Two
  agents that asked under different server versions may put an older release
  over a newer one; the next start updates again.
- `FailedAgentReturns` says that a session whose agent failed gets another one,
  by the timer alone, unless it is disconnected or the service stops.
  `docs/WINDOWS.md:58` ("retries on the next session change") and
  `docs/INSTALL.md:213` ("on the next session event") say otherwise: the code
  restarts after a backoff (`service.rs:496-512`) and needs no such event. It
  says nothing of a session without a failed worker: one that
  reconnects while its agent is being terminated is left without one
  (`service.rs:432`), and a restart timer set before a disconnect starts an
  agent after it (`service.rs:414`). `StopEndsWithTasks` is the part of
  `StopCompletes` that holds: when every worker has a task as the stop is
  taken, the service ends.
- `Ledger` charges a minute once per device, and the chart shows it once. The
  client's `README.md:55` says that simultaneous use is counted once;
  `docs/ARCHITECTURE.md:25` says per device, as the code does.

**Fairness.** `Server`: tokio polls a ready task and its mutex is FIFO, so a
waiting handler gets it (strong fairness of `Lock`), and a transaction ends by
SQLite's busy timeout. `Agent`: the agent's tasks run, a request ends by its
180 s timeout, systemd restarts the agent (`Restart=always`); nothing is
assumed of server, network or child. `Countdown`: every task that can go on
does and time passes; nothing is assumed of the child, nor of when answers and
events come. `Update`: an agent's steps on its own machine are taken; nothing is
assumed of GitHub or the server. `Supervisor`: `select!` takes either ready
side, a due timer, a new worker and a cancelled one are polled; nothing is
assumed of Windows or of agents. `Ledger`, `Push` and `Sessions` state no
fairness: their properties are about what must never happen.

## What is proved

TLAPS proves these for all values of the constants, from the named assumptions
of each module (bounds are naturals, model values are distinct, catalogues are
well-formed). Bounds appear only as guards, so the proofs hold for every bound.
In each module `TypeOK` is proved first or with the invariant.

- `LedgerProofs`: `MinutesConserved`, `DebtAudited`, `SubmissionsSettledOnce`,
  `SubmissionsApprovable`, `DebtRepaidFirst`, `OnlyParentsUnblock`. The
  invariant adds that usage sets are finite and, for `OnlyParentsUnblock`, that
  no completion lies in the future: without it midnight could unblock a child.
  `ChartAddsUp`, for every period and size: a minute of the period lies in one
  bucket, from the bounds of a division (`BucketInChart`), and the sum over the
  buckets counts the minutes that lie in some bucket (`ChartCounts`). The sum is
  a fold, a recursive function over sets of buckets; counting the minutes
  satisfies its equation, so the function exists, and a least set on which the
  two differ gives a contradiction (`WFMin`, which needs no operator parameter).
- `ServerProofs`: `LockDiscipline`, with the routes a request may take through
  the steps (`Route`), and `CacheCoherent`, where the value about to be
  published equals the store (`NewIsStored`). The pages rest on one invariant,
  `PagesInv`: where each kind of request can be (`Places`), that requests which
  would race have been noticed (`Apart`), and then, for as long as nothing
  disturbed the page in question, what holds of it. For the child's page
  (`ChildPage`): at most one request works on it (`Sole`, by the mutex or by the
  absence of races); while it works, `Knows` says what its locals, the cache and
  the page have to do with the store at each label; while none does, all agree.
  `ParentPage` is the same for the count and `Blocking` follows a snapshot
  through every race, failure and midnight, from before its first read (no
  minutes yet) to the page. The three give `QuiescentChildView`,
  `QuiescentParentView`, `BlockedShowsZero`.
- `PushProofs`: `SubscriptionsBounded`, by counting the rows together with the
  requests that have passed the check; `AlertsAsPromised`, where `recent` is
  what a reader of the handled events would remember; `OwnAlertsOnly`, from
  what each task knows of the rows it read; `LiveKept`.
- `SessionsProofs`: `ReplacedTokenDead`, with what each handler knows at each
  step of a renewal (`Locals`) and the fact that a token replaces an earlier
  one (`Ancestry`); `NoRevival` from it: only a touch makes a session younger,
  a touch needs a session that is young enough for its request's cutoff, and for
  a login that is over there is no such request and can be none.
- `AgentProofs`: `Agent` implements `Metering` (`Exact`), failed writes and
  crashes included; the mapping is written out in `Promise`. The invariant says
  that everything in any log, batch or late heartbeat was used or is torn, and
  that an acknowledged batch is charged. Until a write of the log fails, nothing
  forgets a minute (`Remembered`). The count of failures never reaches the fuse
  without being acted upon (`TypeCorrect`).
- `CountdownProofs`: `WarnedInTime`, `RelockInTime`, `FailsafeInTime`, for any
  interval, grace, timeout and number of failures. The invariant `Timing` states
  for each stage of each task how much of its bound is used: `Silence` for the
  heartbeat loop (the time unheard and what is left of the interval are at most
  an interval and a timeout per failure), `Relocking` for the re-lock task (the
  time open and what is left of its wait), `Announced` for where the last minute
  is between the answer that told it and the warning (`LastMinute`: in the loop,
  in the channel, or in the countdown's schedule with just that time left). It
  is inductive because `Tick` waits for every task that can go on.
- `UpdateProofs`: `InstalledGood`. A staged file is what was selected, and what
  was selected was listed and fitted the version the agent was told, which the
  server has had; both sets only grow.
- `SupervisorProofs`: `OneAgentPerSession` and `StopReachesAll`, for any number
  of sessions and any capacity. A worker is active exactly while its task is
  there, so the generation check of `handle_exit` is never what decides.

Every invariant and every action property a run checks is so proved. Only
model-checked are the liveness properties (`RequestsFinish`, `OutOfTimeLocks`,
`UpdatesEnd`, `NoticeGoes`, `StopEndsWithTasks`, `FailedAgentReturns`): they
rest on fairness and ENABLED, which are beyond TLAPS here.

## What the models assume of the world, and what was seen beside them

- A file of a release is taken to be built from its tag, as the release
  workflow does. The workflow's `Get-FileHash` writes upper-case digits and
  `eq_hex_constant_time` (`update.rs`) compares with lower-case ones, so a
  digest made that way never verifies; the model's `Verified` is about digests
  of the same spelling.
- `rename` is taken to be atomic. The file is not synced before it: what a power
  failure leaves is not modelled.
- A notification that is asked for is shown. A desktop that never answers holds
  the notifier's mutex (`platform/linux/mod.rs:95`) and with it the heartbeat
  loop; with such a call no property of the loop would hold.
- The books are integers. The code reads SQLite's 64-bit sums through 32-bit
  columns; amounts of two thousand million minutes are not worth a module.
- A slow subscriber that lags 64 events misses the oldest without being told
  (`mod.rs:53`). The agent hears its minutes in every answer as well, and
  `Agent` loses events at will; the pages of `Server` receive at once.

## Not modelled

- **Login rate limit**: a window over attempts in one function under one mutex,
  with unit tests at its boundaries beside it. `Sessions` has its refusal.
- **Access control**: a pure decision over role, child and path with a table of
  tests; it keeps no state.
- **Windows replacement script and other lock methods**: the script `move`s over
  a binary that is started again outside the program's control, and the lock
  methods besides login1 (`lock.rs:194` and `lock.rs:362` on) are single calls
  of other services; `Countdown` has the calls' outcomes, a lock or none.
- **Web page**: rendering, polling and the service worker. Its token and what it
  shows are in `Sessions` and `Server`.
- **Android shell**: a web view with a copy of the token.
- **Configuration, installation, command line**: files and one-shot commands.

These keep no state that another part can find in the wrong order. Worth adding
are a lagging subscriber with its channel under `Server`, and `Server` as a
refinement of `Ledger`'s transactions.
