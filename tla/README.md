# A verification project for PolyMonitor

TLA+ specifications of the concurrent parts of PolyMonitor, TLC configurations
that model-check them on small instances, and TLAPS proofs of their safety
properties for every instance.
Paths are relative to the repository's root (`scripts/api/db_pool.py` is
`src/scripts/api/db_pool.py` in `PROJECT.json`).

## The system

PolyMonitor is a Flask API served by a few gunicorn worker processes on one
host, a set of watcher processes that collect external data, a Telegram
publisher and a Telegram bot, alert and web-push delivery, an LLM agent, and the
scripts that deploy all of it. Most of the code fetches, parses and ranks data.
The core logic that is hard to get right is the part that bounds and shares
work: pools, permits, leases, caches and the files they are kept in.

| Component | State | Operations | Interacts with | What makes it correct | Module |
|---|---|---|---|---|---|
| Bounded PostgreSQL pool (`api/db_pool.py`, `api/read_budget.py`) | idle connections, count, `_connecting`, circuit, closed; one flock per permit | acquire, release, close, worker exit | all request threads of a worker; other workers through lock files | exclusive leases, exact counts, one permit per session, no lost wakeup, nothing lent after close | `ConnectionPool`, `ConnectionLending` |
| Snapshot cache (`api/cache.py`, `api/context.py`, `runtime/snapshot_store.py`) | SQLite rows, Redis lease, `snapshot_refreshing`, cooldowns, slots | get, admit, rebuild, release, expiry | request threads, background threads, other workers through Redis | one builder per key, exact admission, no stolen lease, no leaked mark | `SnapshotRefresh` |
| Seed recovery (`api/services/seed_recovery.py`) and watcher publication (`runtime/finance_watch_panels_watcher.py`) | SQLite and Redis seeds, fetch locks, `_running`, `_last_attempts`, slots | GET, recover, publish, expiry | watchers, other API processes | exact admission, no newer seed overwritten | `SeedRecovery` |
| Panel read cache (`api/services/panel_read_cache.py`) | SQLite rows, error rows, build permits, fetch locks | get, build, fall back | store, permits | exact permits, one builder per key, no needless build, nobody waits | `PanelReads` |
| Dashboard cache (`api/services/bootstrap_service.py`) | memory entry, Redis entry, snapshot, refreshing flag | get, schedule, refresh | request threads, refresh thread | a refresh is not overwritten by what it replaces | planned |
| Service runtime (`api/runtime.py`, `api/context.py`) | threads, futures, stopped | start, submit, close | all background work | nothing starts after close, close is bounded | planned |
| Readiness probe (`api/readiness.py`) | running event, result, age | poll, run | pollers | one probe at a time, no stale answer | not modelled: one flag under one lock |
| Source transport (`api/clients/source_transport.py`) | cooldowns and failure counts, in memory and SQLite | request, cool, fail, succeed | collectors in several processes | a cooldown is respected and not shortened by late answers | planned |
| Telegram publisher (`telegram/topics`) | dedupe state file, file lock | fetch, prime, send, mark, save | panels, Telegram, API and watcher bridges | what is remembered was posted; what is posted twice was an accident; no backlog | `TelegramPublisher` |
| Telegram bot (`telegram/bot`) | offset, alerts, state file | poll, handle, reply, notify, save | Telegram | no command skipped, no alert lost or silently done | `TelegramBot` |
| Alerts and web push (`api/services/product_service.py`, `web_push_service.py`, `runtime/product_alert_watcher.py`) | rules, events, preferences, subscriptions, deliveries | evaluate, queue, publish, mark, retry, revoke | users through the API, market tables, push services | an event needs a crossing, a delivery is pushed once, cancelled stays cancelled, retries end | `AlertDelivery` |
| Release deployment (`scripts/deploy`) | the serving tree, units, backups with receipts, `current.json` | preflight, apply, sync-units, restart, verify, record, rollback | remote host over ssh, signals, operators | what is not restored can be restored, the next release is not refused, the report is true, hotfixes survive | `ReleaseDeploy` |
| Agent budget (`agent/common/budget.py`) | one JSON file | claim | processes of one host | never more claims than the limit | planned |
| Trade analytics sync (`scripts/db/sync_trade_analytics.py`) | checkpoints, daily counts, latest prices, serving rows, status snapshot | status and serving refresh, batches, commits | collectors of trades and oracle events | each trade counted once, derived tables agree, everything is caught up with | `TradeSync` |
| Authentication, panel builders, other watchers, web UI | | | | | not modelled: database transactions, I/O and data transformation, presentation |

The hard behaviours are interleavings of threads under one lock but with slow
steps outside it, interleavings of processes that share only files or Redis,
processes that die in the middle, and leases and timeouts that end early.
`PROJECT.json` lists those that matter most at their lines under `hazards`.

## What is modelled

### ConnectionPool

`ConnectionPool.tla` is `ApiPostgresConnectionPool` for every worker of a host,
with the file-lock budget the workers share. `Worker`, `Thread` (with `Home`),
`Conn`, `MaxSize` (`_max_size`) and `Capacity` (`_budget_capacity`) are
parameters.

| Code | Specification |
|---|---|
| `_closed`, `_idle`, `_connection_count`, `_connecting`, `now < _retry_at` | `closed`, `idle`, `count`, `connecting`, `circuit` |
| where a thread is in acquire/release/close | `pc` |
| the local `connection`, the index of the lock file being tried | `hand`, `probe` |
| the permit attached to a connection | `slot` (number of its lock file, 0 for none) |
| sessions on the database server | `live` |
| `close()`'s private tuple of idle connections | `doomed` |
| the locked loop of `acquire` | `AcquireRaises`, `TakeIdle`, `ReserveNew`, `Park` |
| `Condition.wait(remaining)` | `Park`, `Expire`, `WakeAllAnd`, `WakeOneAndLeave` |
| `try_permit` | `ProbeSlot`, one lock file at a time, then `BudgetFull` |
| connect, set-up, their `except` and `finally` | `Dial`, `SetUp`, `UndoConnect`, `Unwind` |
| the re-check of `_closed` | `Admit`, `Retire` |
| `release`, `close` | `Rollback`, `Release`, `Close`, `CloseIdle` |
| death of a worker (flocks are released by the kernel) | `Exit` |

A section of code under the condition is one action; every step outside it is
its own. Durations are left out: any deadline or circuit may pass at any time.
Connections have identities, taken when their unit of `_connection_count` is
reserved. `connection.close()` is assumed not to raise.

`ConnectionLending.tla` is the abstract specification: leases of a connection
and a permit, given to one thread at a time, none after a shut. The refinement
maps a thread that is using a connection to its lease.

### SnapshotRefresh

`SnapshotRefresh.tla` is `get_snapshot_payload` with its admission and release,
for the workers of a host. A thread is one request, or the background rebuild it
scheduled. `refreshing`, `cooling` and `slots` are the worker's
`snapshot_refreshing`, `snapshot_retry_at` and `snapshot_slots`; `lease` is the
Redis key with its owner; `row` is the SQLite snapshot reduced to absent,
expired or fresh. A busy SQLite reads as nothing and swallows a write, as the
store does. With `RedisFaults`, Redis may be absent, or raise after it has done
the work; a build of an activity in `Slow` may outlast its lease. `Start` is
`start_thread`, which is refused after a stop, and which may raise: then nobody
releases what was admitted, and the slot and the mark are lost until the worker
dies (`leaked`, which is history; the lease expires). Nothing in these functions
waits, so any other slot or mark that is never given back would show in
`AdmissionIsExact` as one that no activity holds.

### SeedRecovery

`SeedRecovery.tla` is `read_watch_seed` and `recover_seed` for several API
processes, together with `store_payload` and `load_previous_payload` of the
finance watcher. A payload is its `generatedAt` and whether its content is
usable; a small clock makes ages and cooldowns. `running`, `attempted`, `slots`
are `_running`, `_last_attempts`, `_slots`; `lock` are the striped fetch locks.
`surprised` is history: the recoveries whose last look failed to read SQLite, or
behind whose look the watcher published.

### PanelReads

`PanelReads.tla` is `PanelReadCache.get` for the workers of a host. `pc` follows
a read through the function: the three looks at the store (`Get`, `GetStale`,
`GetError`), `TryPermit`, the refresh thread (`Start`), the fetch lock with
timeout 0 (`TakeLock`), the two looks under it (`Reread`, `Recheck`), the
builder, the store and the memory (`Build`, `Store`, `Remember`), the error
marker (`Fail`), and the two `with` blocks on the way out (`Unlock`,
`ClosePermit`). `row` is the payload's row reduced to absent, stale or fresh,
`errors` the keys that cool down, `permits` the free `panel-builds` locks.
`UnboundedKey` are the reads with `admit=False`, `BackgroundKey` those that may
answer with stale data and refresh in a thread; a thread of the model is then
the refresh. A busy SQLite reads as nothing and swallows writes. `blind` and
`leaked` are history: the reads whose look under the lock met a busy store, and
the permits that were lost with refresh threads that could not be started (a file
lock stays open until its process ends).

### TelegramPublisher

`TelegramPublisher.tla` is `run_once` of the publisher loop (`Catalog`) and the
bridges that publish one panel after an API fetch (the other processes), which
share the state file `file` under `state_lock`. A round fetches what panels it
gets (`Fetch`), loads the state (`Load`, `Begin`), handles its candidates in any
order (`Skip`, `PrimeOne`, `BeginSend`, then `PartAccepted` or `PartRaises` for
each chunk), and saves once (`Save`; `SaveCatalog` for the second save of a
complete priming round). `Abandon` is a death, or a save that raises.
`delivered`, `absorbed`, `lost` and `old` are history: what Telegram has posted,
what was primed, which posts no mark remembers, and what has been on the panels
all the time and is not trimmed.

### TelegramBot

`TelegramBot.tla` is the loop of `poller.py`. `data` is `BotState.data` and
`saved` the copy in the file, both an offset and the alerts that are on or off;
`stage` is what the round does next. (Its specification is `BotSpec` and its
other general names begin with `Bot` too, so that `TelegramProofs` can extend it
beside the publisher.)
`confirmed` is Telegram's side of the offset: updates below it are deleted.
`HandleCommand` includes the save that commands which change alerts (and
`/start`) do before there is a reply; `Reply` includes `mark_update`;
`SaveBatch`, `CheckAlerts`, `Notify`, `SaveAlerts` follow the rest of the round.
Every call that can raise has an action for it, which ends the round and keeps
the memory; `Restart` is a death, which loses it. The next start loads the file, or
begins an empty state when it cannot read or parse the file
(`telegram/bot/state.py:19-22`); the first save after that overwrites the alerts,
so that `acked`, the alerts their users were told of, is empty from then on. `cut`
is history: the commands that took effect before something failed.

### AlertDelivery

`AlertDelivery.tla` is the product alert watcher, which loops through
`evaluate_alert_rules` and `publish_pending_deliveries`, against the API
operations of the user and the changing market tables. Tables are functions
(`rule`, `events`, `prefs`, `sub`, `delivery`). An evaluation is one transaction
in three steps under READ COMMITTED: `Read` selects the rules, `Decide` meets, with
a new event, the foreign key of a deleted rule (`DecideOnDeletedRule`) and reads
preferences and subscriptions again for the queue, `Commit` publishes it; rows it has
written are `Locked` for the API. The publisher expires and cancels (`Prepare`),
selects and groups (`Select`), and pushes and marks one batch at a time (`Hold`,
`Push`, then `MarkSent`, `MarkFailed` or `MarkRetry`). A rule's `keyed` is
whether an event with the source row's present `updated_at` exists, which is what
`event_key` tests. Time is reduced to whether an open delivery has to wait
(`wait`). `clear`, `tried`, `landed` and `forgotten` are history; `landed` and
`tried` do not count a push whose answer, mark or process was lost, because no
code could tell it from one that failed.

### ReleaseDeploy

`ReleaseDeploy.tla` is `deploy_gcp_release.sh` on the deployer (`pc`, `base`,
`target`, `report`) and the commands of `gcp_release.py` it starts on the host
(`cmd`), which change one file, one backup copy or all units at a time. A
command is `awaited`, or `stray` once its connection was lost: then it goes on
beside the rollback, or beside a later deployment. Releases are numbered,
`Version[k][f]` is the content of a file in one, and `Accepted` is what
`_accepted_hashes` and `preflight` let through. Traps are `CommandFailed`,
`VerificationFails`, `Interrupted` and `InterruptedLate`; `HostRestarts`,
`HostRestartsWriting`, `DeployerDies`, `ConnectionLost` and `Edit` come from
outside. `current.json` is written in two steps, because the shell truncates it
(`TruncateState`) before `printf` fills it (`WriteState`); whatever fails in
between leaves `NoRelease` there, and as long as that is so `Begin` is impossible.
History says what a release has replaced (`touched`, `displaced`), what the last
deployment found (`before`), which release the files belong to (`floor`: the
target once `current.json` names it, and the release before when that deployment
is rolled back after all), and which of the accidents happened that no rollback
can make good: `late` (a rollback after `current.json` was written), `strayed`,
`astray` (a stray command changed the host during a later deployment), `stale` (a
restart failed at the end of a rollback, which the script ignores) and `racing[k]`
(edits made after `apply` of release `k` checked the tree, and before the
deployment and its commands are over; `apply` clears it when it runs its own
preflight). `stranded` are the files that neither the recorded release nor
its base has and that are in the tree all the same: what an interrupted release
brought and no rollback took away.

### TradeSync

`TradeSync.tla` is `sync_trade_analytics`. `db` is what is committed and `work`
what the open transaction sees. A cycle brings the status snapshot up to date
(`ReadEvents` page by page, `ReadFlags`, `WriteRows`, `CloseEnded`, or the full
refresh `ReadFlags`, `ReplaceRows`, `ReadMax`), refreshes all serving rows on a
new day (`ServeAll`), commits (`CommitHead`), and then takes trades batch by
batch (`FetchBatch`, `Apply`, `CommitBatch`). Rows that will arrive are constants
(`Trade`, `Oracle`); they become visible at any time and in any order. A status
row is built from several queries, of which two are apart: the flags and the
settlement. `overtaken` and `missed` are history: trades and events that
became visible below a checkpoint, which the code never looks for again. The
deployed unit runs with `--max-batches 0` (`deploy/systemd/polydata-analytics-sync.service:10`),
where only the part up to `CommitHead` happens, without `ServeAll`.

Each module also defines fault operators, such as `CloseIdlePermitFirst` or
`UnleaseAnyone`: what an action would be with a plausible bug. They are not part
of `Next`; they are named in `PROJECT.json` under `mutants`, and each makes one
property fail.

## What the runs check

| Run | Instance | Shows |
|---|---|---|
| `pool_safety` | two workers (2+1 threads), three connections, pools of 2, budget of 2 | `OnePlace`, `CountIsExact`, `PermitPerSession`, `ImplementsLending`, with an oversubscribed budget, failures, closes and deaths |
| `pool_live` | four threads of one worker, a pool of one, under fairness | `NoLostWakeup` (every idle connection and free unit has a thread on its way to it while others are parked), `AcquireEnds`, `ClosedPoolDrains` |
| `pool_ceiling` | expected violation | see Findings |
| `snapshot_safety` | two workers (2+1 activities), one key, two slots, Redis faults, threads that do not start, one slow activity | `AdmissionIsExact` (but for what a thread that did not start takes along), `OneBuilder` (in one worker always; in two, for activities that got the lease and are not slow), `OnlyOwnerUnleases` |
| `seed_safety` | two processes (2+1 threads), one key with a publishing watcher, one slot each, busy SQLite, two times | `AdmissionIsExact`, `RecoveriesRefuseNewer` (no good seed is replaced by an older one, but by a `surprised` recovery) |
| `seed_race` | expected violation | see Findings |
| `reads_safety` | one read in each of two workers, a bounded background key and an unbounded one, one permit, busy SQLite | `PermitsAreExact`, `OneBuilderPerKey`, `BuildsAreNeeded` (looking twice under the lock is enough), `NobodyWaits`, through refusals, failures, threads that do not start, stops and deaths |
| `publisher_safety` | the loop and a bridge, two panels, two messages of two chunks, a state of one entry, deaths, unreadable files, under fairness | `SentMeansDelivered` (with the bound of the state), `RepostsAreExcused`, `NoBacklog`, `EveryMessageIsHandled` |
| `bot_safety` | two updates of any kind in one batch or two, every fault, a state that cannot be read, under fairness | `NoCommandSkipped`, `DoneMeansNotified`, `AlertsAreKept`, `DuplicatesAreExcused`, `QueriesAreAnswered` |
| `alerts` | one rule with up to two events, one browser, realtime with quiet hours or digests, two attempts, one fault, under fairness | `SentOnce`, `TriesAreBounded`, `RevokedIsForgotten`, `EventsNeedACrossing`, `DeliveriesEnd` |
| `deploy` | two files, three releases after the first, two deployments, two faults, one edit | `RecoveryIsComplete`, `NeverStuck` (the files pass the preflight from the release they belong to), `ReportedIsTrue`, `HotfixesSurvive` (edits made before `apply`'s own preflight, or after the deployment) |
| `sync` | two markets, four trades in batches of two, two oracle events in pages of one, one end date, two days, one fault, under fairness | `CountsAreExact`, `LatestIsNewest`, `ServingMatches`, `StatusCoversEvents`, `CatchesUp` |

Type invariants are part of the property they serve (`AdmissionIsExact`,
`PermitsAreExact`, `SentMeansDelivered`, `AlertsAreKept`, `TriesAreBounded`,
`RecoveryIsComplete`, `CountsAreExact`).

An invariant of a run under fairness is checked on every reachable state of the
specification without it: fairness removes no finite behaviour.

Bounds. The pool needs two threads of one worker for contention inside it and a
second worker for contention on the budget; two connections per pool make
"below the limit", "at the limit" and "over the budget" all reachable. Lost
wakeups need a thread that holds the connection, one that is notified as its
wait times out, one that barges in and one that stays parked, hence the four
threads and the pool of one in `pool_live`. For the snapshot and seed modules a
single contended key is where all the races are. `MaxTime` bounds the clock of
`SeedRecovery`: one tick ends a cooldown and a maximum age of one, and separates
an older from a newer seed. `PanelReads` has no counters; two reads contend for
whatever they share, and one of them can finish, or fail, between the looks of
the other. In `TelegramPublisher`, `Parts` of two gives a half-sent message, and
a message per panel gives a partial priming round; `MaxEntries` is one, so that
the second message trims the first. In `TelegramBot`, `MaxUpdate` bounds the
updates, `Limit` the batch, and `Copies` of two is the first repetition of a
command. In `AlertDelivery`, `MaxEvents` of two gives a digest of two deliveries
with different numbers of attempts, and a second crossing; `MaxAttempts` of two
gives a retry and a last attempt; a second rule or browser adds deliveries that
touch nothing of each other's (the model allows them; the instance has one of
each). The mode `off` is in the model and not among the instance's preferences.
In `ReleaseDeploy`, two files make every partial state; one of them is brought by
the first release, removed by the second and brought back by the third, so that a
first release that is cut short strands it in the way of the third; two faults are a failure and a failure
of its rollback; two deployments are the least that a stray command or a stale
backup can disturb. In `TradeSync`, four trades are two batches, the third is of
a later day and an earlier position than the first; pages of one event make the
loop of `ReadEvents` go round.

Fairness. `FairSpec` of each module assumes that a thread that can run does
(operating-system scheduling), that builders and database calls end (they have
timeouts), that a waiting thread's timeout passes, and that Redis expires keys.
In the publisher, a process that waits for `flock` gets it in the end, the loop
fetches every panel again and again, and neither there nor in the bot does
Telegram refuse one message, or one poll, for ever (strong fairness of the
accepted send and of the successful poll: the code has no answer to one that
does). In the publisher this is asked for each part of a message, since a send
begins with its first part again. Their liveness also assumes that faults that
cost a whole round stop in the end, because a process that always dies before its
save gets nowhere: `DeathsEnd` (no more deaths or failing saves of the publisher)
and `FaultsEnd` (no more deaths of the bot, and no failing saves in the middle of
a command). A death can be the same step as an ordinary one, for instance a save
of an unchanged state, or the end of a round in which nothing happened. Both
assumptions therefore exclude only those steps that no live process takes
(`Live`, `BotLive`): rounds that change nothing, whose sends fail, or whose last
save fails, may go on for ever, and in such behaviours too what the properties
promise has to come. These two conjuncts say something of the future that no
finite behaviour rules out, but unlike weak or strong fairness they are not of the
form TLA+ calls machine closed. In
`AlertDelivery` the watcher's loop goes on and every wait ends; in `TradeSync` the
service keeps running cycles; in both, faults are bounded by `MaxFaults`.
`SnapshotRefresh`, `SeedRecovery`, `PanelReads` and `ReleaseDeploy` state no
fairness: nothing in the first three waits for anything, and a deployment may be
left as it is for ever, which is why their properties speak of every state.
The other modules assume nothing about requests, failures, closes or deaths. In the pool, the
deadline of `acquire` is what ends a wait: nothing promises a connection.

## What is proved

Each component has its theorems in a module `<Component>Proofs.tla`
(`TelegramProofs` for the publisher and the bot, one after the other), for every
value of the constants: any number of workers, threads, keys, messages, trades,
files, releases, attempts and faults, where the runs have two or three.
No theorem assumes fairness.

| Module | Theorem | States |
|---|---|---|
| `ConnectionPoolProofs` | `TypeCorrect` | `[]TypeOK` |
| | `ConnectionsAreExclusive` | `[]OnePlace` |
| | `SessionsHavePermits` | `[]PermitPerSession` |
| | `CountNeverDrifts` | `[]CountIsExact` |
| | `WakeupsAreNotLost` | `[]NoLostWakeup` |
| | `NoLendingAfterClose` | `NoLeaseAfterClose` |
| | `PoolImplementsLending` | `ImplementsLending` |
| `SnapshotRefreshProofs` | `AdmissionAlwaysExact` | `[]AdmissionIsExact` |
| | `BuildersAreAlone` | `[]OneBuilder` |
| | `LeasesAreNotStolen` | `OnlyOwnerUnleases` |
| `PanelReadsProofs` | `PermitsNeverLeak` | `[]PermitsAreExact` |
| | `KeysAreBuiltAlone` | `[]OneBuilderPerKey` |
| | `LooksUnderTheLockSuffice` | `[]BuildsAreNeeded` |
| `SeedRecoveryProofs` | `RecoveriesLeakNothing` | `[]AdmissionIsExact` |
| | `NewerSeedsSurvive` | `RecoveriesRefuseNewer` |
| `TelegramProofs` | `MarksAreTrue` | `[]SentMeansDelivered` |
| | `RepostsHaveAnExcuse` | `[]RepostsAreExcused` |
| | `PrimingHoldsBackTheBacklog` | `[]NoBacklog` |
| | `CommandsAreNeverSkipped` | `[]NoCommandSkipped` |
| | `AlertsEndForAReason` | `[]DoneMeansNotified` |
| | `ToldAlertsAreKept` | `[]AlertsAreKept` |
| | `DuplicatesHaveAnExcuse` | `[]DuplicatesAreExcused` |
| `AlertDeliveryProofs` | `DeliveriesLandOnce` | `[]SentOnce` |
| | `PushesAreBounded` | `[]TriesAreBounded` |
| | `CancelledIsFinal` | `[]RevokedIsForgotten` |
| | `NoEventWithoutACrossing` | `EventsNeedACrossing` |
| `TradeSyncProofs` | `CountsNeverDrift` | `[]CountsAreExact` |
| | `LatestPricesAreNewest` | `[]LatestIsNewest` |
| | `ServingRowsAgree` | `[]ServingMatches` |
| | `StatusReflectsEvents` | `[]StatusCoversEvents` |
| `ReleaseDeployProofs` | `Invariance` | `[]IInv` |
| | `RecoveryStaysComplete` | `[]RecoveryIsComplete` |
| | `HotfixesAreNotOverwritten` | `HotfixesSurvive` |
| | `NextReleasePasses` | `[]NeverStuck` |
| | `ReportsAreTrue` | `[]ReportedIsTrue` |

All but `NoLeaseAfterClose` and `IInv` are properties of the run of their module;
`ImplementsLending` says more than that one.

### Assumptions

They are the named `ASSUME`s of the modules, which TLC evaluates in every run.
Threads have a worker (`Home`), sizes and limits are positive, null values are
different from what they stand beside. Four say a little more. There is a key
(`Key # {}`): the code has a fixed table of panels, and a thread that has not
begun has some key in the model. `ConnAssumption`: finitely many connections,
out of which a pool counts those it has. `SyncAssumption`: identifiers and
positions are positive numbers (auto-increment columns, block and log index),
the tables are finite, every trade has a known market and a day of the model's
calendar. `DeployAssumption` adds that no release contains an operator's edit.
Nothing is assumed of how releases differ: a file may be brought, changed,
removed and brought back in any of them. Threads, processes, messages and keys may be infinite in number; the
proofs show that what is counted is finite.

### The arguments

Each module has an inductive invariant `IInv`, and lemmas that a step preserves
its conjuncts. Hardly any of the listed invariants is inductive as it stands;
what it needs in addition is the reason why the code is right.

*ConnectionPool.* `TypeInv` adds that exactly the resting threads have no
connection in hand (`HandInv`). `OnePlace` is inductive relative to it: a step
either moves a connection under the lock, or picks one that is nowhere.
`PermitPerSession` says nothing of threads, so a step that closes a permit could
seem to take it from a session in use; `PermitInv` adds what each stage of
acquire and release has (`StageInv`: permit, session, both or neither), what the
idle list has (`StoreInv`), that unknown connections have nothing (`FreeInv`)
and that permits are exclusive (`SlotInv`). `CountIsExact` is inductive with
these: a pool's connections are counted by adding and removing one at a time.
`NoLostWakeup` is not: with one thread awake, an idle connection and a free
unit, that thread takes the connection and nobody comes for the unit. What the
code keeps is a sum (`WakeInv`): while anyone is parked, at least as many
threads are awake as there are connections and units to come for, because each
one that turns up notifies a thread of its own. The refinement needs `IInv`
only: a thread that goes on to use a connection has one that no lease has, with
a permit that no lease has; `Rollback` ends a lease; `Close` is `Shut`; `Exit`
is `Restart`; every other step leaves the lent connections alone (`QuietSteps`).

*SnapshotRefresh.* Removing a mark is right only if no other activity of the
worker has the same one (`MarksInv`), and builders in two workers are kept apart
by the lease that each of them, unless slow, still has (`LeaseInv`).
`OnlyOwnerUnleases` needs the types only: the script that deletes a lease
compares its owner.

*PanelReads.* The fetch lock has one owner (`LockInv`), who alone can build or
store for the key; what its two looks established nobody else undoes
(`LookInv`): a row may expire behind them, and an error marker go, but neither
can appear.

*SeedRecovery.* As for the snapshots, and the fetch lock has one owner who is
under it (`LockInv`). Between the last look and the write only the watcher can
touch the row, and that is recorded in `surprised` (`NewestInv`).

*TelegramPublisher.* The file lock makes the round that runs the owner of what
is remembered: a message with a post is in its state, being sent, or recorded as
lost, and in the file or lost when none runs (`MemoryInv`). `PrimedInv` follows
what was on the panels from the start through the candidates of a complete round
into its state and the file.

*TelegramBot.* A batch is a contiguous piece of Telegram's queue that starts
where everything before is answered (`BatchInv`), so that moving the offset by
one skips nothing (`OffsetInv`). The file lags behind the memory in alerts and
never leads it (`KeptInv`). The alerts of a command are numbered without gaps,
and a command with an alert is behind the offset, waits for its reply, or was
cut off (`RepeatInv`).

*AlertDelivery.* A rule that is not active, and one that the open evaluation
read as not active or not holding, had its condition false since its last event
(`ClearInv`, `EvalInv`); the second part is what a change by the user or the
market between `Read` and `Commit` could break. What the publisher holds is in
one batch only, with fewer attempts than the batch stands for, and not final but
by cancellation (`HandInv`); pushes follow the rows but for the one batch that
is pushed and not marked (`PushInv`).

*TradeSync.* A batch is what lies next above the checkpoint among the trades
that were there when it was read, so that the checkpoint's move counts the batch
exactly and leaves behind only what came in between (`BatchInv`, `CountInv`).
The day of the cycle is that of the tables from the head commit on, so that the
serving rows of a batch and those of all other markets are of the same day
(`OpenInv`, `ServingInv`). An event that the checkpoint is about to pass was
read before the flags (`EventsInv`, `StatusInv`).

*ReleaseDeploy.* Two commands may be at one tree, the awaited one and one that
lost its connection; every conjunct speaks of both.

- A directory under `backups/` is made once, by the one `apply` of its release
  that finds none, so that there is never a second writer of copies for a release
  (`BackupInv`); the receipt is written when every entry has its copy, and from
  then on the backup does not change. Files are replaced only under a receipt.
  Until `apply` replaces a file, the copy is what the tree still holds, and what
  it replaces is then what the copy says (`CopyInv`): recovery is complete.
- A hotfix is in reach of a command only if it was made after the preflight that
  `apply` itself runs: the entries of an `apply` under way, and the copies of
  every backup in use, contain no file with an older edit (`HotfixInv`). What is
  in use is a backup whose release still has a command, or a deployer that can
  start one (`InUse`); an edit made later is out of reach for good.
- Every file is absent, edited, or as in some release from the one the files
  belong to (`floor`) to the newest tried (`RangeInv`), and so is every copy, so
  that putting copies back does not leave that range; a preflight from `floor`
  accepts the range. `current` is `floor` unless it is cut off or `late`; a
  deployment that begins under a late `current` begins above `floor`, and since
  `floor` is below its base the range stays. A late rollback moves `floor` back to
  where that deployment began, whose range its copies kept (`BeganBetween`); a
  command of an earlier deployment leaves the range. After a success the range shrinks to
  the target alone, and what is not an entry of that release stays outside it:
  the stranded files.
- From the end of `apply` to the end of the deployment every entry is as in the
  target (`TargetInv`). Before that, and without lost commands and edits, the tree
  is what it was but for the files in the receipt, whose copies say what it was
  (`BeforeInv`); a rollback that goes through puts them and the units back, also
  one that comes after `current.json` was cut off or written.

The first version of `NeverStuck` had no `stranded`, and `RangeInv` could not be
proved for it across the step that writes `current.json`: for an arbitrary
sequence of releases the property was false (see Deployments below). The run's
instance now has three releases, which is what the counterexample takes.

### Checked by TLC only

- Liveness: `AcquireEnds`, `ClosedPoolDrains`, `EveryMessageIsHandled`,
  `QueriesAreAnswered`, `DeliveriesEnd`, `CatchesUp`. They rest on fairness, which
  needs ENABLED.
- `NobodyWaits` of `PanelReads`, which is stated with ENABLED.

## Findings

`pool_ceiling`. When the set-up of a new session fails, `acquire` gives the host
permit back (`scripts/api/db_pool.py:121`) before it closes the session (line
124). Another worker can take the permit and dial in between, so the host has
more sessions than permits for a moment. `docs/market-panel-reads.md:24` says
"At most four PostgreSQL connections across API worker generations on one host."
`PermitPerSession` states the exception precisely: only a session that is about
to be closed lacks a permit.

`seed_race`. A recovery looks at the stored seed, then writes
(`scripts/api/services/seed_recovery.py:122-128`). It holds the fetch lock, but
the watchers publish without it
(`scripts/runtime/finance_watch_panels_watcher.py:203`), so a watcher's newer
seed can be overwritten by the older result of a recovery.
`docs/panel-runtime-lifecycle.md:56-57` says that a recovery "refuses to
overwrite a newer watcher publication". `RecoveriesRefuseNewer` states how far it
is so: among recoveries of all processes, and against a watcher that published
before the last look.

## Observations no run checks

Limits of the code that the properties above are worded around.

Permits. Reads with `admit=False` get an empty permit
(`scripts/api/services/panel_read_cache.py:37`); the record, catalog and oracle
panels are read that way (`scripts/api/services/market_service.py:116`, 192,
327). `docs/market-panel-reads.md:39` says "Two rebuilds maximum"; those reads
come on top of the two. `PermitsAreExact` and `OneBuilderPerKey` hold for both
kinds.

Reposts. A message is marked only when `send_message` has returned
(`telegram/topics/publisher.py:205-221`). If Telegram posted it and the answer
was lost, or a later chunk failed, the next round posts it again.
`telegram/README.md:73-74` says that the state file "deduplicates messages so
repeated page refreshes do not repost the same update". `RepostsAreExcused`
states when it does.

Ignored updates. An update that is not a command or a text (a sticker, a photo, a
member who joins) is skipped without moving the offset
(`telegram/bot/poller.py:36-38`). Once `--limit` of them (50) are at the head of
Telegram's queue, every round fetches the same batch, and no command behind it is
answered. `QueriesAreAnswered` is checked where fewer of them than `Limit` come
before a query.

Alerts. A second crossing under the same `updated_at` of the source row is
dropped by the event key (`api/services/product_service.py:883-909`), and the
upsert of `market_list_serving` does not move that column
(`db/sync_trade_analytics.py:927-947`). A condition that turns true during the
cooldown makes no event, then or later (lines 872-882). A delivery that an open
evaluation has queued survives the revocation of its subscription and is pushed
if the browser subscribes again before the next round. An answer of 410 that
arrives after the browser has subscribed again revokes the new subscription
(`web_push_service.py:604-612`). A watcher started with `--once` beside the
service may record a second event for one crossing.

Deployments. `printf ... > current.json` truncates the file and then fills it
(`deploy_gcp_release.sh:199`). A full disk or a crash in between leaves it empty;
the rollback restores the files and not the state, and as `json.load` then raises
(line 94), no later release begins until someone writes the file. A signal after
`current.json` was written and before the traps are cleared rolls the files back
under a state that names the new release (lines 195-201); the next release may
then be refused, or find files that its base does not know. `NeverStuck` states
both: `current` may be `NoRelease` or `late`, and even then the files pass the
preflight from the release they belong to, so that a `current.json` put right is
all it takes; `ReportedIsTrue` says that files, services and units are what they
were in these cases too. `apply` checks the tree, copies it and then replaces file
by file without looking again (`gcp_release.py:406`, 470-475): a hotfix made in
between is overwritten, and one made before the copy comes back with a rollback,
one made after it does not (`racing` in `HotfixesSurvive`). A release that was rolled back cannot be tried again while its
backup is there (lines 143-145), which is what the script intends.
If the deployer is killed while a release is being applied, or its rollback
fails, files that this release brought stay in the tree. A later release that does not have them has
them in no manifest either: a manifest has the target's files and what changed
between `current.json` and the target (`gcp_release.py:264-303`), and the
interrupted release was never recorded. They stay through any number of
successful deployments, and when a release brings one of them back with another
content, the preflight refuses it, because it accepts a missing file and the
versions since the recorded release only (`_accepted_hashes`, lines 198-219).
`stranded` records them in `NeverStuck` and `ReportedIsTrue`.

Synchronisation. Events that arrive during the first full refresh, after the
flags were read (`sync_trade_analytics.py:735-769`), are not in the rows and below
the checkpoint, until the next event of their market. Trades that get their market
below the checkpoint are never counted. A second process would count batches
twice. On MySQL, `ON DUPLICATE KEY UPDATE` assigns columns from left to right, so
the comparisons of `_upsert_market_latest` would see new block numbers beside old
log indices. On PostgreSQL the unqualified columns of the same statements, `ELSE
latest_trade_at` and the like in `_upsert_market_latest` (lines 1509-1586) and
`ELSE last_trade_at` in `_upsert_market_daily` (lines 1308 and 1314), are ambiguous,
since both the table and `excluded` have them. The model has the semantics of
SQLite, where they are those of the table.

Threads that cannot start. `Thread.start()` that raises leaves a slot and a mark
of the snapshot refresh taken (`api/cache.py:202`) and, from a panel read, the host
permit of the build (`api/services/panel_read_cache.py:73`), until the worker ends.
`SnapshotRefresh` and `PanelReads` have these steps and count in `leaked` what they
lose; their exactness holds up to that. The readiness probe stays marked as running
(`api/readiness.py:20`), which is not modelled.

## Not modelled, and the plan

Most of the repository's Python is fetching, parsing, ranking, formatting and SQL
for one panel or table each (`market_quality_service.py`,
`global_transport_shipping_service.py`, `query_service.py` and the like) and the
web interface. It keeps no state between calls but the caches, pools and files
that are modelled, and what it computes is data that no property here tells
apart, so the modules cover a small part of its lines, and a large part of the
code where steps of several actors meet.

Left for later, most important first:

1. `DashboardCache` (a request stores the stale payload after scheduling its
   refresh) and `ServiceLifecycle`.
2. `SourceTransport`, `AgentBudget` and the token bucket of `read_budget.py`.
3. `TradeMigration`: `scripts/db/archive/backfill_trades_v2.py` and
   `cutover_trades_v2.py` (copy in ranges beside live writers, then switch),
   which the repository keeps as an archive.

Authentication is sequential database transactions, whose atomicity is the
database's; the readiness probe is one flag under one lock. Spaced attempts of
`SeedRecovery` take two keys of one process and two cooldowns to go wrong, which
is too much beside the watcher and the second process; `Purged` models the purge.

Runs stay at two or three actors, one or two keys, and faults switched by
constants, as above.

Every safety property of the present runs is proved but `NobodyWaits`. Theorems
worth proving next are those of the planned modules, and refinements: of the
dashboard, snapshot and panel caches to one specification of a cache with a
single builder.
