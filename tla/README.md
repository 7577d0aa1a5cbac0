# A formal model of NuviloView's bot

NuviloView is a Discord bot (`src/discord-bot.mjs`) with a Next.js web application. The bot
writes what it observes to a local SQLite store first; a separate sync worker replicates the
store to several cloud databases and builds analytics snapshots; a lease row in PostgreSQL
decides which host may connect the bot to Discord; the dashboard controls imports, resets
and the spam policy through tables that the bot polls or caches. This directory holds TLA+
modules of the parts where several actors interact, the TLC configurations that check them,
and proofs that the TLA+ proof system checks.

    tlc -workers 2 -config SyncTwoWorkers.cfg MCMultiProviderSync.tla
    tlapm MultiProviderSyncProofs.tla

## 1. Inventory

| Part | State it keeps | Operations | What is hard about it | What makes it correct |
|---|---|---|---|---|
| Outbox (`lib/sync/outbox.mjs`) | `sync_outbox`: one envelope per event | enqueue, requeue, purge | shared by bot, workers and scripts | an envelope outlives the obligations it stands for |
| Provider delivery (`lib/storage/repositories/provider-delivery.mjs`) | `sync_provider_delivery`: one row per event and provider, with status, attempts, lock | policy, claim, settle, complete, purge, backfill | locks expire while a push is under way; policies differ by process | a row is acknowledged only if stored; Cloud Complete means every required row is acknowledged |
| Multi-DB worker (`lib/sync/multi-worker.mjs`) | rounds, pushes under way, adaptive batches | maintenance, claim, push, settle, stop | crash between push and settlement, partial failure, rejected rounds | nothing is lost, nothing stays undecided |
| Circuit breaker (`lib/sync/circuit-breaker.mjs`) | state, failures, probe in flight | canAttempt, record, restore | a probe that never reports | a provider that recovers is used again |
| Single-replica worker (`lib/sync/worker.mjs`) | locks and retries on the envelopes themselves | batch, retry, dead letter, purge | switch-over to Multi-DB and back | - |
| Analytics compaction (`lib/sync/analytics-compaction.mjs`, `repositories/analytics-projections.mjs`) | dirty buckets, source sequence | mark, bootstrap, refreshDue | events that arrive during a rebuild | a clean bucket includes every event it owes its readers |
| Snapshot sync (`repositories/sync-snapshots.mjs`) | versioned snapshots and their delivery rows | upsert, claim, settle | a new version while the old one is pushed | a synced row is at the version the provider has; the cloud never goes back |
| Local events (`lib/event-local-first.mjs`, `repositories/analytics-events.mjs`) | voice sessions, members, reactions, sequences | live event, reconciliation, baseline | restarts, missed events, overtaking handlers | the rows show Discord as it is, as far as the bot was told |
| History import (`repositories/history-import.mjs`, `lib/message-history-import*.mjs`) | job, channels, cursors, receipts | start, pause, resume, cancel, save a page, delete | crash between two databases, a dashboard between any two queries | no message is skipped or counted twice, no job is forgotten |
| Guild reset (`lib/guild-reset-service.mjs`, `lib/guild-reset-api.ts`) | plans, requests, locks, executions | plan, confirm, execute | redelivered requests, expiring locks, a guild that changes | one execution per plan; nothing deleted that was not saved |
| Spam detection (`lib/guild-spam-policy.mjs`, `lib/spam-protection.mjs`) | windows and cooldowns by member | record, prune, forget | late messages, policies that change | neither too much nor too little is reported |
| Spam policy (`lib/guild-spam-policy.mjs`, `/spamprotection`, `spam-policy/route.ts`) | one row and a cache | command, dashboard save, cached read | commands that overlap, reads that overlap saves | no change undoes another; no stale policy is cached or joined |
| Timeout incidents (`handleSpamDetection`, `lib/timeout-incidents.mjs`, `lib/timeout-discord-log.mjs`, `lib/security-v2-consent.mjs`) | immutable audit stages | detect, claim, time out, log | redelivery, crash, lost answers, consent that is withdrawn | one timeout per message, with consent, and a truthful audit |
| Runtime singleton (`lib/runtime-singleton.mjs`, `startBot` and `shutdown` of `discord-bot.mjs`) | `service_lease` row; token, proof deadline and timers of each process | acquire, renew, release, lose, stop | late answers, late statements, timers, stop during start | one owner per token, stale owners disconnect |
| Query gate (`lib/cloud-database.mjs`) | availability, backoff | execute, markOffline | one failure of any feature suppresses all queries | - |
| Worker supervisor (`lib/sync/worker-supervisor.mjs`) | PID and identity files | start, inspect, finish | two supervisors | one worker per host |
| Read routers, monitors, web application, accounts, commands, scripts | none of their own, or external databases | - | mostly sequential | - |

How they interact: the bot's repositories insert the domain row, the marks of the projection
buckets, the envelope and the provider rows in one SQLite transaction. Bot, workers and
scripts are different processes and share only the SQLite file. A worker calls the providers'
`pushEvents` and `pushSnapshots`, which are idempotent at the provider. Bot processes on
different hosts share only the lease row; within a process `startBot`, the renewal timer, the
signal handlers and every query of every feature share the coordinator and the query gate.
The dashboard shares PostgreSQL tables with the bot: jobs and requests the bot polls, settings
it reads, and the policy it caches.

`PROJECT.json` lists all components with what is left out of each, and under `hazards`
what is hard to test at its line in the code.

## 2. Modules

| Module | Models |
|---|---|
| `ProviderDelivery` | the two outbox tables and the statements on them, as operators from state to state |
| `MultiProviderSync` | the processes around the tables: bot, Multi-DB workers, single-replica worker, operators, providers |
| `ReplicatedOutbox` | the abstract promise: accept, store, complete, retire |
| `CircuitBreaker` | the breaker of one provider with the worker's calls on it, its persisted row, restarts and time |
| `ProjectionBuckets` | which projection buckets an event marks, and which read it |
| `SnapshotDelivery` | the snapshot tables and their statements, as operators |
| `ProjectionPipeline` | from a recorded event to the snapshot in the cloud; extends the two above |
| `LocalEvents` | voice, member and reaction state in SQLite, against what happens in Discord |
| `HistoryImport` | the import worker, its tables in two databases, the dashboard and the gateway |
| `GuildReset` | plans, requests, locks, executions and the guild they delete from |
| `SpamTracker` | the windows and cooldowns of one member |
| `SpamPolicy` | the stored policy of one guild, its commands, the dashboard and the cache |
| `TimeoutIncidents` | detections handled side by side, the audit, the consent and Discord |
| `SpamProtection` | the three parts above together |
| `ServiceLease` | the lease row and its three statements, as operators |
| `RuntimeSingleton` | bot processes with their boot, renewal and stop activities, the query gate, the database and time |
| `MC...` | instances for TLC: policies and symmetry |
| `...Proofs` | theorems and proofs about the module of the same name |

`MultiProviderSync` uses the operators of `ProviderDelivery`, `ProjectionPipeline` those of
`ProjectionBuckets` and `SnapshotDelivery`, `RuntimeSingleton` those of `ServiceLease`.
`ReplicatedOutbox` is instantiated by `MultiProviderSync` with a refinement mapping.
`SpamProtection` composes the three modules of the spam protection. They share no variable: a
tracker reports, the cache supplies its policy, and an incident begins with any message, so
that each is checked over everything the other two could do. A behaviour follows one of the
parts, chosen at its start, while the other two stand still.

### 2.1 The sync pipeline

`outbox[e]` is `sync_outbox.status` ("absent": no row; "processing" and "retry", which only
the single-replica worker writes, count as "pending"). `delivery[e][p]` is the provider row.
`replica[p]` is what the provider's `replica_event` table holds. `worker` and `pushes` are
the memory of the worker processes: `todo` are the providers the round has not claimed for,
a push lives from the claim to its settlement.

One action is one SQLite transaction or one piece of JavaScript between two awaits:

| Action | Code |
|---|---|
| `Enqueue` | `enqueue` with `ensureForEvent` |
| `RestartBot` | opening the store: `applyPolicy` with the environment's providers |
| `Backfill`, `RequeueDeadLetter` | `scripts/backfill-provider.mjs`, `scripts/repair-sync-queue.mjs` |
| `StartWorker`, `StartRound`, `StopWorker` | `run`, `processOnce` with `#maintenance`, the end of `run` |
| `Claim`, `ClaimNothing`, `CircuitOpen`, `ClaimThrows` | the synchronous part of `#processProvider` |
| `ProviderStores` | the provider commits, in part or in full, before, after or without an answer |
| `PushReturns` | the await in `#pushEvents` ends |
| `SettleFailure`, `SettleSuccess`, `SettleThrows` | the rest of `#pushEvents`; `markSynced` and `updateCloudCompletion` are one transaction |
| `LegacySettle`, `LegacyRetire` | the single-replica worker's effect on the envelope |
| `CrashWorker` | the process dies |

Abstractions. Time is a choice: a row in "retry" may be due or not, a lock may have expired
or not (`expired`), an envelope may be past its retention or not (`old`); a row in
"pending" is always due. Payloads, checksums and metrics are left out. The providers may
commit any part of a batch although PostgreSQL commits all or nothing. Snapshot pushes are in
`ProjectionPipeline`. The stop flag takes effect at the end of a round. `rejected` rounds are
`broken`: pushes of other providers stay in `pushes` with `awaited = FALSE`. `stuck` are the
providers whose circuit an SQLite error left half-open with a reserved probe (`probe` in
`ClaimThrows`, `SettleSuccess` and `SettleThrows`); only the end of the process clears it.
`MayStick` are the providers a run admits that of.

### 2.2 The circuit breaker

`breaker` is the `SyncCircuitBreaker` in the worker's memory, `stored` its row in
`sync_metadata`, `push` what the worker awaits from this provider, by slot. `left` is
`openUntil` minus now.

| Action | Code |
|---|---|
| `Push`, `NothingDue`, `AttemptThrows`, `ClaimThrows` | the synchronous part of `#processProvider` with `canAttempt` and `cancelAttempt` |
| `RoundRejected` | another provider rejects `Promise.all` |
| `PushSucceeds`, `PushFails` | `recordSuccess`, `recordFailure` at the end of `#pushEvents` and `#pushSnapshots` |
| `SnapshotsOmitted` | `cancelAttempt` after snapshots the provider left out |
| `SuccessNotSaved`, `SettleThrows` | an SQLite error before, between or after these calls |
| `Start`, `Exit`, `Tick` | the constructor with `#restore`, the end of the process, the clock |

Abstractions. The kinds of `classifySyncError` are three: those that open the circuit at
once, other ones that count, and those that do not affect it. Failures count up to the
threshold. `openedAt`, `openCount` and the other timestamps decide nothing and are left out.
`flaky`, chosen once for a behaviour, says whether SQLite may throw in it. Nothing bounds how
long a push takes (`registry.mjs:143` gives the Turso client no timeout, and
`multi-config.mjs:82,94` admits an open period shorter than a query timeout): its `age` counts up
to `OpenTime`, and the ghost `late` says that a push has been under way that long since there was
none. Opening the circuit and the persisted row are exact; which provider rows a push settles is in
`MultiProviderSync`, where the breaker is the choice to skip a provider (`CircuitOpen`).

### 2.3 The projection pipeline

`log` are the raw events, `mark` the rows of `analytics_projection_dirty`, `snapshot` and
`delivery` the snapshot tables, `cloud` what the providers hold, `refresh` the local variables
of `refreshDue`. The content of a snapshot is the set of events it was computed from, so that
"the event's share is in the projection" can be said at all; the sums themselves, and the
payload contract, are left out, and so are two figures of the guild's current state that no
event's share depends on: the sessions that are open (`openVoiceSessions`) and the number of
members. A rebuild reads the four tables one by one, and the bot records between any two of its
statements.

| Action | Code |
|---|---|
| `RecordMessage`, `RecordGateway` | the repositories' transactions with `markMessageEvent`, `markReactionEvent`, `markVoiceEvent`, `markMemberEvent` |
| `RestartBot`, `StartWorker`, `Backfill`, `Tick` | opening a store with its policy, `scripts/backfill-provider.mjs`, the clock |
| `Bootstrap` | `bootstrap`, `markExistingDataDirty`, and the note that it is complete |
| `ListDue`, `StartBuild`, `ReadTable`, `StoreSnapshot`, `MarkAggregated`, `EndRefresh`, `RefreshThrows` | `refreshDue` statement by statement |
| `Claim`, `SkipProvider`, `ClaimThrows`, `RoundRejected` | `#processProvider` up to the push, `Promise.all` |
| `ProviderRuns`, `PushSucceeds`, `PushFails`, `SettlingThrows` | the request at the provider, the rest of `#pushSnapshots` |

Sequences keep their two units (`occurredAt` for messages and imports, `occurredAt * 1000`
for gateway events): `Scale` is the ratio. `overtaken` records which events were marked with a
sequence their bucket had already aggregated; that is the exemption of `CleanMeansComplete`
and the content of the finding in section 4. Old events (from before the projections existed)
are owed once the bootstrap is complete.

### 2.4 Local events

`channel`, `roles` and `reacted` are Discord, `session`, `member`, `count` and `reaction` the
tables. `link` says whether the bot is down, connected, or cut off (a gateway session that
could not be resumed). `unseen` and `unsure` are ghosts: users, by table, whose last change the
bot was not told or could not record. `RowsAreReal` exempts exactly those, so that it says what
recovery restores: sessions after a restart, whatever was missed; members after a baseline
that finds them or a live event; the reaction with its next event. A member whose leave was
missed stays present: nothing in the code corrects that. The durations of sessions are left
out.

### 2.5 History import

`posted` and `gateway` are Discord; `log`, `count`, `receipts`, `checkpoint`, `removals` are in
SQLite; `jobs`, `progress`, `deletions` in PostgreSQL; `worker.at` is where the worker is. An
action is one statement or one fetch. The dashboard's actions (`pause`, `resume`, `cancel`,
`reset`, `retry`, `skip`) are the `WHERE` and `SET` clauses of `route.ts`. A request to delete is
two actions, `requestDeletion` and `insertDeletionRequest`: its `SELECT ... FOR UPDATE` locks
nothing when no job is active, so that jobs can be started and claimed before the insert
(`asking` counts the requests between the two). The channel the worker has claimed and the job's
note of it (`setCurrentChannel`) are two updates. Messages of a channel are numbered by age.
`top`, `gone`, `later`, `passed` and `done` are ghosts.
Left out: figures of progress and retries, edits and deletions in Discord, the rate limit, and
what SQLite keeps of a job's status, which nothing reads.

What the properties had to leave out is as telling as what they say. When a walk is begun
again after a crash, the receipt of its first page also stands for messages that came while
the bot was down: those are never recorded (`CompletedWithoutGap` asks for the messages up to
the newest of the first recorded page only). A deletion takes messages imported since it was
asked for if the worker was past its look for requests when it was inserted, be it between the
two queries of a poll or on a job that was started while the request was being made (`passed`),
and if it is attempted again after it was begun and not carried out (`again`). What
`DeletionTakesOlderImports` leaves is that it takes no live message, that it takes once, that in
all other cases it takes nothing newer, and that nothing older is left when it is answered.

### 2.6 Guild reset

`plans`, `requests`, `locks`, `rows` are the tables, `contents`, `elevated`, `protected` the
guild and its settings, `running` the executions in the bot (one of a command, one of a
polled request). `elevated` has the roles the bot may not delete for what they are, which the
plan's hash sees, and those it may not for its own rank, which the hash does not see. An execution
is eight steps between awaits, and the bot may die, a lock
expire or the guild change between any two. Confirmation codes are part of the confirmation:
a code is used once, but a new one is issued as long as the plan is usable. Left out: who may
use the feature, the default channels an execution creates, the items' results, what the
pages show.

### 2.7 Spam protection

`TimeoutIncidents`. `audit[i]` is the row of each stage, written with `INSERT OR IGNORE`;
`handler` the invocations of `handleSpamDetection` that are awaiting something; `calls` the
requests to Discord under way, which outlive a bot that dies (`orphan`); `timedOut` and `posted`
what took effect. The Discord library repeats a request whose answer was not definite
(`Attempt`). Ghosts: `requests`, `doubtful` (repeated although it had taken effect) and
`granted` (the consent was in force since the handler asked for the second time). `Restart`
keeps any part of the calls under way and may change the process's own emergency stop.

`SpamPolicy`. `row` and `version` are the stored policy, `command` the `/spamprotection`
commands being handled, `statements` the `SAVE_SPAM_POLICY_COMMAND_SQL` under way (a snapshot,
then the wait for the lock, then the commit), `entry`, `load`, `inFlight` the cache. A field
stands for the columns one command writes together (`level` writes a dozen). The check that the
table exists and the eviction at 5000 guilds are left out. What a read found it keeps (`load[l]`, in
state "read") as long as messages and commands wait for it, also when it was invalidated: they use
it all the same.

`SpamTracker`. Two trackers, for guilds with and without a policy, and of the five modules
one that counts messages and one that compares contents. `heard` is a ghost: all messages
since a tracker began anew, from which the properties compute what should be reported. The
policies of the run switch either module off and on again. A window
and `heard` are sets of entries numbered by arrival.

### 2.8 The runtime singleton

`lease` is the row, with the time left instead of an expiry date, because the database's
clock decides. `proc[i]` is a bot process: `boot` is where `startBot` is, `stop` where
`shutdown` or the handling of a lost lease is, `proof` is `leaseProofDeadline` minus now,
`timer` the renewal interval, `fails` and `backoff` the query gate. `calls` are the lease
statements under way: the database executes a statement at any time after it was sent
(`Execute`), also after the client has given up on it (`live = FALSE`) or died.

| Action | Code |
|---|---|
| `Launch`, `Acquired`, `AcquisitionFails` | `startBot` up to the acquisition; exits 20 and 23 |
| `Started`, `LoginSucceeds`, `LoginFails` | the end of `RuntimeCoordinator.start`, `client.login` |
| `RenewTimer`, `Renewed`, `RenewalRejected`, `RenewalFails` | `renewOnce` with `handleLeaseLost` up to its await |
| `LossReported`, `Signal`, `StopBegins`, `ReleaseBegins`, `Released`, `ReleaseFails`, `ShutdownEnds` | `shutdown` and `RuntimeCoordinator.stop`, await by await |
| `OtherQuerySucceeds`, `OtherQueryFails` | any other query of the process through `execute` |
| `Execute`, `Tick`, `Crash` | database, clocks, death of a process |

Abstractions. A process acquires once; a restart by the host's runner is a further member of
`Instance`. Heartbeat writes appear only as the time they may take (`HeartbeatWait` for a
write and its turn in the queue). Clocks run at one rate. `client.destroy` cancels a login
that is under way. With `Prompt = TRUE` a due timer, timeout or callback is served before
time goes on; with `Prompt = FALSE` the event loop may stall for any time. The runs are
prompt. The theorems about types, tokens and valid leases cover both; the two about a process's
proof of its ownership assume `Prompt`, without which they are false.

## 3. What the runs check

| Run | Instance | Shows |
|---|---|---|
| `SyncTwoWorkers` | 1 event, 1 provider, 2 workers, 2 attempts, fairness; Multi-DB definitions come and go in the bot, the single-replica worker runs too | `NothingAcknowledgedUnstored`, `AcknowledgementsAreFinal`: a stale worker against the one that took over; `EventuallySettled`: rows locked by a dead worker, or inserted late, are settled |
| `SyncBatches` | 2 events, 2 required providers, 1 worker, last attempts; the bot lacks one provider's definition | `CompleteMeansReplicated`, `NoMissedCompletion`, `ImplementsReplicatedOutbox`: batches that partly fail, rejected rounds, late answers, retention |
| `CircuitRecovery` | 3 pushes at once, threshold 2, fairness; SQLite may throw, or never does | `ProbeIsThePush`, `CrashForgetsNothing`, `ProviderIsTriedAgain` |
| `ProjectionPipeline` | the day bucket of a channel, a message and a session over midnight, 1 provider switched on and off, 1 worker process at a time, fairness | `CleanMeansComplete`, `SyncedMeansCurrentInCloud`, `CloudNeverGoesBack`, `EventReachesCloud` |
| `LocalEvents` | 2 users, 2 channels, 2 roles, 3 changes | `RowsAreReal`: what restart, reconnection and baseline restore; `RefusedOnlyNearBaseline`: when a live event is dropped |
| `HistoryImport` | 1 channel, pages of 2, up to 5 messages, 3 requests of the dashboard, 2 faults, 1 deletion, fairness | `CompletedWithoutGap`, `DeletionTakesOlderImports`, `WorkingJobEnds` |
| `GuildReset` | 1 guild, 2 plans, 1 request, times 1 and 2 | `PlanPerformedOnce`, `DeletedWasSaved`, `RespectsCooldown` |
| `SpamProtection` | 2 messages, 2 handlers, 5 inputs; 2 fields, 2 commands, 2 loads; 2 texts, 3 messages | `EffectsHappenOnce`, `ResultsAreTrue`, `NoTimeoutWithoutConsent`; `SavedChangesStay`, `FreshPolicy`; `DetectionsAreJust` |
| `SingletonProof` | 2 prompt processes, times of section 3.1 | `OneTokenPerOwner`, `OwnerIsUndisturbed`; `ProofIsSound`: what the safety margin must cover; `OverlapIsBounded`: how long it may be missed |
| `SingletonLiveness` | 2 prompt processes, fairness | `StaleOwnerDisconnects`, `ShutdownTerminates` |

Each run also checks the type invariant of its module, but for `SyncBatches` (as in
`SyncTwoWorkers`), `CircuitRecovery` (proved) and `SingletonLiveness` (as in `SingletonProof`).
The two runs whose names end in `Violation` are in section 4.

### 3.1 Bounds

*Sync.* What one event does to another it does through batches, and what one provider does to
another through completion and rejected rounds: `SyncBatches` has two of each. What workers do
to each other they do through one row, so `SyncTwoWorkers` needs one event and one provider.
`MaxAttempts` 1 makes every attempt the last one, 2 tells the last from an earlier one;
`MaxPushes = 2` admits an abandoned push beside an awaited one. `MayStick` has the provider of
`SyncTwoWorkers`, where it matters to liveness, and is empty in `SyncBatches`, which checks safety,
of which `stuck` is no part. 17 314 states in 68 s and 1 028 133 in 72 s.

*Circuit breaker.* Three slots let two unattended pushes meet an awaited one. In `OpenTime` 3 a
push may end before, at or after the end of the open period it began in. 119 950 states, 40 s.

*Projections.* Buckets do not affect each other but in a batch of snapshots, so one bucket is
kept, of a kind that reads two tables, messages and voice sessions (the latter across
midnight, which is how one event comes to lie in buckets of two days). `Scale` is 1000 in the
code; 2 keeps that a number in one unit is below its double in the other. Two workers side by
side are beyond the run: a second one exists as the late requests of a dead one, which is
what can reach the cloud out of order. 354 665 states, 198 s.

*Local events.* Users interact only through the sequence counter; two suffice, and two of
channels and roles make a move and a change of roles. Symmetric in all three.

*History import.* Pages of two and a channel of up to five messages give a first, a middle and
a last page; one message is older than the cutoff, one is posted during the import. Two faults
let a page fail after it was stored in one database and its repetition fail again. 438 814
states, 36 s.

*Guild reset.* Two plans compete for one guild's locks and cooldowns; the lock is shorter than
the clock's end, so that it expires under an execution. Two inputs change the guild or its
settings, or withdraw them.

*Spam protection.* Two handlers meet over one message or over two; `MaxTries = 2` is a request
with one repetition; five inputs cover detection, redelivery, restart and a consent that
changes. Two commands may overlap with each other and with a save of the dashboard, two loads
with either. Three ticks and windows of at most two make a message that is in a window, at its
edge, and out of it; the third message reaches the limit of three, the second that of two.
1 080 167 states, 90 s.

*Runtime singleton.* Two processes are enough for every property, which all speak of at most
two. The configuration check of the code asks for an order of the times (`WindowAssumption`),
and what matters is which of them can pass in between: `SingletonStartupStopViolation` has the
defaults of the code in ticks of 5 s (TTL 9, renewal 3, safety 1, timeout 1, backoff 6),
`SingletonProof` shrinks these to 5/2/1/1/3, `SingletonLiveness` to the smallest values in that
order. `MaxFails = 1` suffices: only whether the gate is closed matters. `Grace` cuts the
countdown off below where `OverlapIsBounded` looks; the bound, a renewal interval and the
report of the loss (25 s at the defaults), is tight: `SingletonProof` violates it for a tick
less. Stalls of the event loop (`Prompt = FALSE`) are covered by theorems only.

`CHECK_DEADLOCK FALSE` stands where a bounded number of inputs ends the behaviour: `LocalEvents`,
`HistoryImport`, `GuildReset`, `SpamProtection`. Symmetry is used in runs without liveness only.

### 3.2 Fairness

* `WorkerFairness` of `MultiProviderSync`: the loop of a running worker starts rounds and takes
  its turns (weak); what recurs is not unlucky for ever (strong): an expired lock is noticed by
  some claim, a push returns, an SQLite transaction succeeds in the end. A claim is among them
  because every open period of a circuit ends in a new attempt, which `CircuitRecovery` shows
  where SQLite does not throw (`ProviderIsTriedAgain`). Where it throws during the probe of a
  half-open circuit, the circuit stays stuck until the process ends: nothing is assumed of a
  claim for a provider in `stuck`, and `EventuallySettled` promises nothing of a worker as long
  as the provider is (`Serves`). PostgreSQL calls have a timeout; of the Turso client, which is
  given none, it is an assumption that its pushes end. `EventuallySettled` assumes in addition
  that in the end one worker keeps running alone with the provider enabled.
* `WorkerFairness` of `ProjectionPipeline`: the same, with the same exemption, and refreshes are
  not made to throw for ever. Neither makes a push succeed: a dead letter is an end, in
  `EventReachesCloud` also one that an older snapshot brought about.
* `FairSpec` of `CircuitBreaker`: time passes and pushes end at some time, however late.
* `FairSpec` of `HistoryImport`: the bot is started again and its worker goes on (weak); among
  the polls there is in the end one that looks for stale jobs (strong), which the interval timer
  of the worker justifies. Nothing makes a query or a page succeed.
* `ProcFairness` of `RuntimeSingleton`: every await of a living process ends, which the gate's
  query timeout guarantees, and timers fire. Nothing makes a query or a login succeed.

## 4. Where code and documentation differ

Two runs check a statement of the documentation and find it violated.

* `SingletonStartupStopViolation`: a stop signal during the start releases the lease and lets
  the login go on (`ReleasedWhenDisconnected`; docs/distributed-runtime.md:60).
* `ProjectionLateViolation`: an event recorded while its bucket is rebuilt keeps its mark, but
  not if the bucket has seen a gateway event, whose sequence is a thousand times larger
  (`CleanIncludesLateEvents`; docs/worker-recovery-phase1.md:43).

Others were met while modelling. The properties state what holds instead, and name the exemption.

* A Multi-DB worker that starts over envelopes settled by the single-replica worker retires
  them before any provider has them (outbox.mjs:439; docs/multi-db-sync-v1.md:35-37 promises
  that enabling it leaves them). `NothingAcknowledgedUnstored` does not speak of them.
* After an SQLite error between the reservation of the probe and its settlement the circuit
  stays half-open and the provider is skipped until the worker restarts (circuit-breaker.mjs:75;
  docs/worker-recovery-phase1.md:44). `ProviderIsTriedAgain` assumes that SQLite does not throw;
  `EventuallySettled` and `EventReachesCloud` exempt a provider this has happened to.
* A push that a rejected round left unattended may be under way for longer than an open period
  (circuit-breaker.mjs:79, 93 do not ask whose result they record): it then settles the fate of
  the probe beside it, and the next turn probes too. `OneProbe` exempts it (`late`).
* The late failure of an older version of a snapshot backs off or dead-letters the newer one
  (sync-snapshots.mjs:356, while markSynced compares versions). `EventReachesCloud` counts it as
  an end.
* A request to delete the imported history may be inserted after a job was started and claimed
  that its look at the jobs did not see (api/history-import/route.ts:493-511): it is carried out
  after that job, on what the job imported too.
* A failure between the claim of a channel and the job's note of it
  (message-history-import-worker.mjs:259) fails the job and leaves the channel's row running.
* Message counts go on while their module is off (guild-spam-policy.mjs:391-414), so that what
  was observed meanwhile can trigger it right after it is enabled again;
  tests/guild-spam-protection-controls.test.mjs:109 is named "events observed while a module is
  OFF cannot trigger it immediately after re-enable", and tests duplicates. `DetectionsAreJust`
  asks it of duplicates only.
* A message that is waiting for a read of the policy when a command saves is judged by what the
  read finds, also after the command was answered (guild-spam-policy.mjs:335, 339).
  `FreshPolicy` bounds how old that is.
* `CompleteMeansReplicated` holds if every bot process lists all providers: an event that was
  enqueued without rows and is backfilled for one provider counts as complete without the others.
* The lease does not keep two hosts from being connected at once: the deadline is compared only
  when a renewal fails, and the query gate rejects renewals for a while after any failed query.
  `OverlapIsBounded` says for how long.
* A voice session that was open while the bot was down ends when the bot is back, so that the
  downtime counts (docs/event-local-first-expansion-v1.md:67-69 says otherwise).
* A member who leaves unseen stays present for ever (analytics-events.mjs:655).
* The receipts of an import protect against pages, not messages, counted twice
  (docs/message-history-import-v2.md:84); after a crash the first page's receipt also stands for
  messages posted while the bot was down.
* A job that is cancelled while it is queued stays so until the worker looks at it, and no
  request is accepted for it meanwhile (api/history-import/route.ts:381).
* `/spamprotection` propagates within the cache's lifetime and the duration of a query, not the
  30 s of docs/guild-spam-policy.md; the audit does store new values (`changes`).
* The dashboard's form saves every field it shows, as it was when the page was opened
  (spam-policy/route.ts:105). `SavedChangesStay` speaks of the fields a command changed; a form
  is a save of all of them. Two first saves, of a command and the dashboard, take different
  locks: the exemption in that property.

Not modelled, but noticed on the way: the runtime snapshot is read and written back outside a
transaction by two processes (sync/snapshots.mjs:68); snapshot versions restart with a new
SQLite file while the provider keeps the higher one (sync-snapshots.mjs:107); a clock that is
set back makes live events older than the rows (analytics-events.mjs:359); two codes of one
plan can be issued by requests side by side (guild-reset-service.mjs:505); a reset request
answered after a crash says that its plan was already used, although it was this request that
used it (guild-reset-service.mjs:1062).

## 5. What is proved

Every invariant and every action property that a passing run checks is also a theorem: for all
values of the constants, where the run has a small instance. The invariants below were checked
with TLC before they were proved. The assumptions are those the modules declare for their
constants, and what is named here.

`MultiProviderSyncProofs`, for every set of events, providers and workers and every bound (the
lemmas about the statements of `ProviderDelivery` stand at its head):

* `TypeCorrect`.
* `AcknowledgedIsStored` and `AcknowledgementsStay`. `NothingAcknowledgedUnstored` is not
  inductive: a push carries what the answer confirmed until it is settled. The invariant
  `Acknowledged` adds that the `ok` items of every push are stored.
* `RowsForEveryProvider`, `CloudCompleteIsReplicated` and `Implementation`, assuming
  `MultiDbEverywhere` (every bot process runs with all providers listed, and the
  single-replica worker does not run). Without the assumption they are false. The refinement is
  step by step: each action maps to `Accept`, `Store`, `Complete`, `Retire` or a stutter of
  `ReplicatedOutbox`.
* `CompletionIsNotMissed`, in every deployment, also with the single-replica worker beside.
  `NoMissedCompletion` speaks of pending envelopes. A dead letter of the single-replica worker may
  become one again (`RequeueDeadLetter`), so the invariant `Incomplete` says of both that a
  required row is not synced, and of a dead letter that its rows are locked by nobody but workers
  that are gone: no push can settle the last one before it is requeued.

`CircuitBreakerProofs`, for every threshold, all times and every number of pushes:

* `TypeCorrect`, and `ClosedMeansFewFailures` with the same bound on the row (`FewFailures`),
  from which a new process takes its failures.
* `ProbeIsAlone`, without an assumption on how long a push takes. `OneProbe` is not inductive;
  `ProbeInv` adds that in an open circuit the age of a push and what is left of the open period
  make a whole one, so that a push of the time before is `late` when the circuit is half-open;
  that, where none is late, a push under way in a half-open circuit holds the reservation; and
  that a stopped worker has no pushes.
* `ReservationIsKept` and `NothingIsForgotten`, which exempt behaviours in which SQLite throws.
  `RowInv` says how the row and the breaker agree: they do, but for the half-open state of a
  worker that died. `ProbeAndPushAgree` puts the reservation and the probe together.

`ProjectionPipelineProofs`, for any shapes of events and buckets, any units of time and any
number of providers and workers. The invariant `IInv` has two halves, which need the types of
`TypeCorrect` and little of each other:

* `CleanBucketsAreComplete`. `CleanMeansComplete` speaks of clean buckets; while one is rebuilt
  the rebuild holds a list made earlier and tables read in part. `Listing` says that a listed
  bucket stays dirty until its own build ends, `Reading` and `Stored` that whatever an event owes
  to the bucket is found by the build or has raised its source since it was listed, in which case
  `markAggregated` leaves the mark.
* `SyncedRowsAreCurrent` and `CloudKeepsEvents`. All copies of a bucket's snapshot, stored, on
  their way or in the cloud, form a chain: a newer version has at least the events of an older
  one (`Chain`), the stored one is the newest (`Newest`), and an answer "stored" means that the
  provider has the pushed version or a newer one (`PushOK`).

`LocalEventsProofs`, for every guild of finitely many members (`UserAssumption`), and any
channels and roles:

* `TypeCorrect`.
* `TablesAreReal` and `RefusalsAreNearBaseline`. `RowsAreReal` is inductive for voice sessions
  and members. The reaction and the refusals need `Ordered`: a sequence in the tables is below
  the next one a live event can take (`Floor`), or one the last baseline may have given. It holds
  over restarts, although the counter starts again, because a process that ends does not begin
  again within the same millisecond.

`HistoryImportProofs`, for every set of channels, any number of messages, jobs and any page size:

* `TypeCorrect`, with what the worker's place in its loop says about the page in hand
  (`PlaceOK`, `FlagsOK`).
* `EachMessageIsCountedOnce` and `StoppedJobsDoNotComplete`, which no run lists.
* `CompletedChannelsHaveNoGap`. `CompletedWithoutGap` speaks of channels that are finished; the
  invariant says of every channel how far its walk has come: between the cursor in PostgreSQL
  and the newest message of the first page everything is recorded or was deleted (`WalkInv`),
  where SQLite may be a page ahead of the cursor (`RowInv`).
* `DeletionsTakeOlderImports`. `DeletionOK` says that a request that waits, and was not inserted
  behind the worker's look for requests, keeps the worker from every job; and that nothing is
  imported between its begin and its end, unless the worker died or failed on it. That a request
  waits means that some request is the first that can be claimed (`LeastClaimable`). `CarriedOut` says
  that the receipt of SQLite (`removals`) is what a second attempt finds, so that what was carried out is
  not carried out again, and that what is left from then on was imported since.

`GuildResetProofs`, for every set of guilds, developers, plans and requests, and all times:

* `TypeCorrect`.
* `PlansArePerformedOnce`: `Counted` relates the status of a plan with the executions past
  the compare-and-set that makes it `EXECUTING`, over every stage of every execution.
* `DeletionsAreSaved`: `Saved` says that an execution that deletes has a backup of what the
  plan names, and that the plan's contents are those it verified (`Referring`).
* `CooldownsAreRespected`: `Holding` says that an execution past its checks still holds both
  locks or is one the property exempts.

`SpamProtectionProofs`, for every set of messages, handlers, fields, commands, loads and texts,
and any limits. `Composition`: a behaviour of `SpamProtection` is one of each part, so what is
proved of a part holds of it; `TypesCorrect` puts the types of all three together.

* Incidents: `TypeCorrect`; `TimeoutsHappenOnce`, `AuditIsTrue` and `TimeoutsHaveConsent`, from
  one invariant (`IInv`). The properties speak of the audit and of Discord; what relates them is
  in a handler's memory or under way. `WorkOK` says where a handler can be with respect to the
  rows and requests of its incident, `CallOK` what a request under way stands for (a result that
  is not written yet, and either a handler that waits for it or nobody), `SoleOK` and `CallsApart`
  that an incident is in one pair of hands. A handler's step is "local" (`LocalKeeps`): it shows
  its own incident to be in order, and the others follow.
* Policy: `PolicyTypeCorrect`; `SavesStay`, for which `Statements` says what a save under way
  carries: the field its command meant, and that a row its snapshot saw still exists;
  `PoliciesAreFresh`, where `FreshInv` says of the cache's entry and of every read under way what
  it may have missed: a read that no save invalidated is the one other commands join, and what
  it read was superseded no longer ago than it has been on its way. The bound holds of invalidated
  reads too, which those who were waiting use.
* Tracker: `TrackerTypeCorrect`; `WhatIsReportedIsSpam`. A window never counts what was not
  heard, nor compares what came while duplicates were off (`WindowOK`), so what is reported is spam;
  as long as messages come in
  order under one policy it counts all that can still matter (`SteadyOK`), so that none is missed.

`RuntimeSingletonProofs`, for every number of processes and all times the configuration
check admits:

* `TypeCorrect`, with and without stalls.
* `TokensHaveOneOwner`, likewise. `OneTokenPerOwner` is not inductive: a token is granted when the
  database executes the acquisition and known when the answer arrives. `TokenInv` adds that
  an instance sends one acquisition (`OneAcquisition`), that it has no token and does not own
  the row before (`AcquiringHasNoToken`), that tokens on their way are unique and belong to
  their owner (`GrantedTokens`), and that no token exceeds the row's (`HeldTokens`). Most
  steps are "quiet" (`QuietStep`): they touch nothing the invariant looks at; the three that
  are not, `Launch`, `Acquired` and `Execute`, are proved one by one.
* `ValidLeaseIsUndisturbed`, from the same invariant.
* `ProofsAreSound`, assuming `Prompt`: the row is extended when the database executes the
  statement, the proof when the answer arrives. `CoverInv` says that the row lasts at least as
  long as the proof less a query timeout (`ProofCovered`); the same of the proof that an answer
  under way is going to give, by what is left of its timeout (`AnswerCovered`); and that a release
  is under way only from a process that stops or has ended (`ReleasedLate`).
* `OverlapIsShort`, assuming `Prompt` and `Margins`: `Timely` bounds what each phase of a
  process still needs, from the last proof to the report of the loss. `Margins` says that the
  safety margin covers a query timeout, and that two waits for a heartbeat and three timeouts fit
  into the time to live and a renewal interval. The defaults of the code satisfy it (45, 15 and
  5 s, a timeout of 5 s and a heartbeat wait of 10 s), `validateRuntimeConfig` asks for neither,
  and both are needed: with the first or the second exceeded by a tick TLC finds a longer overlap.

Theorems without a "property" in `PROJECT.json` state definitions that no run lists, as TLC has
shown a stronger one or they were checked before they were proved.

Only model-checked is liveness: `EventuallySettled`, `ProviderIsTriedAgain`, `EventReachesCloud`,
`WorkingJobEnds`, `StaleOwnerDisconnects` and `ShutdownTerminates`. Each needs fairness, and with
it ENABLED, which the proof system does not reason about. The two runs of section 4 that end
in a violation show that something is not so, and leave nothing to prove.

## 6. Not modelled, and what is left

The larger part of the repository is not a matter for a model checker: about half of
`discord-bot.mjs` answers commands and translates, `src/app` is pages and request handlers that
read an external database and format it, and the read routers, monitors and reports write
nothing. They have no state that two actors share, and a model of them would be a
transliteration. What they write that others rely on is in the models: the jobs, requests,
policies and audit rows of the dashboard's routes, the settings and confirmations of a reset.
The following is left out for other reasons:

* *Worker supervisor*: PID and identity files around one child process. What can go wrong, two
  supervisors that each spawn a worker (worker-supervisor.mjs:112), is two workers on one SQLite
  file, which `SyncTwoWorkers` allows.
* *Host scripts* (PowerShell and shell): their wait loops and menus. A restart by one is a
  further `Instance` of the singleton.
* *Heartbeat table* (`bot_instance_heartbeat`): reported, never read for a decision about the lease.
* *Single-replica worker*: as the outcome of its batches (`LegacySettle`, `LegacyRetire`). Its
  locks and retries follow those of the provider rows.
* *Metrics, adaptive batch size, payload contracts*: data that no modelled decision reads.
* *Backups and retention scripts*: sequential batch jobs over external files.
* *Progress of reset requests*: that a request is answered in the end is not checked: a bot
  that dies in each execution repeats the request for ever.

What is left, most useful first: an abstract promise of the reset and of the incidents, as
`ReplicatedOutbox` is one of the pipeline, with a proof of its refinement; two workers in
`ProjectionPipeline`, for which the settled pushes need an abstraction that keeps the state space
small; `SingleReplicaWorker`, shown to implement `LegacySettle`; the heartbeat table.
