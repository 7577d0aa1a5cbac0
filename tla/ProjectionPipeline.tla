--------------------------- MODULE ProjectionPipeline ---------------------------
(***************************************************************************)
(* From a recorded event to the analytics snapshot in the cloud, for one   *)
(* guild: the bot records events and marks their projection buckets dirty  *)
(* (one transaction); the Multi-DB worker rebuilds dirty buckets in its    *)
(* maintenance step (lib/sync/analytics-compaction.mjs), stores changed    *)
(* ones as new snapshot versions, and pushes snapshots to the providers    *)
(* (multi-worker.mjs).                                                     *)
(*                                                                         *)
(* The statements of a rebuild are separate transactions: the bot records  *)
(* between any two of them.  A rebuild reads the tables of messages,       *)
(* reactions, sessions and members in that order, one step per table.      *)
(*                                                                         *)
(* Which dirty buckets are past their refresh boundary is left open.       *)
(***************************************************************************)
EXTENDS ProjectionBuckets, SnapshotDelivery, Sequences

CONSTANTS
  Policies,    \* the sets of enabled providers a process may start with
  Shapes,      \* what may happen: events without their time, each once
  Scale,       \* gateway events are stamped in units of 1/Scale ms (1000 in the code)
  MaxMs,       \* bound: the clock stops here
  BatchSize,   \* snapshotBatchSize and the LIMIT of listDue
  MaxPushes    \* bound: pushSnapshots calls that may still reach a provider

ASSUME PoliciesAssumption == Policies \subseteq SUBSET Provider
ASSUME BoundsAssumption ==
  /\ Scale \in Nat \ {0} /\ MaxMs \in Nat \ {0}
  /\ BatchSize \in Nat \ {0} /\ MaxPushes \in Nat \ {0}

Tables == <<"message", "reaction", "voice", "member">>

Kinds == {"message", "reaction", "voice", "member", "activity"}

ASSUME ShapesAssumption == \A s \in Shapes : s.kind \in Kinds /\ s.length \in Nat

(* The kinds of buckets that marks are set for. *)
IsBucket(b) ==
  \/ b = GuildCurrent
  \/ /\ b.day \in Nat \ {NoDate}
     /\ \/ b = GuildDaily(b.day)
        \/ b.channel # None /\ b = ChannelDaily(b.channel, b.day)
        \/ b.user # None /\ b = UserDaily(b.user, b.day)

ASSUME BucketAssumption == Bucket # {} /\ \A b \in Bucket : IsBucket(b)

(* Nothing is recorded with the time 0 once the bot marks what it records. *)
Old(e) == e.at = 0

(* A shape tells how long the session that ends was open. *)
At(s, ms) == [kind |-> s.kind, user |-> s.user, channel |-> s.channel, previous |-> s.previous,
              startedAt |-> IF ms >= s.length THEN ms - s.length ELSE 0, at |-> ms]

Events == {At(s, ms) : s \in Shapes, ms \in 0..MaxMs}

VARIABLES
  clock,      \* milliseconds
  log,        \* the raw events in SQLite
  stamp,      \* lastSourceSequence of the running bot process
  mark,       \* analytics_projection_dirty, by bucket
  overtaken,  \* by bucket, the events marked with a sequence the bucket already had
  boot,       \* sync_metadata says the bootstrap is complete
  snapshot,   \* sync_snapshot
  delivery,   \* sync_provider_snapshot_delivery
  cloud,      \* the snapshots each provider has stored
  worker,     \* worker processes by identity
  refresh,    \* refreshDue of the running worker
  pushes      \* pushSnapshots calls that have not been settled or lost

local  == <<log, mark, overtaken, boot>>
queue  == <<snapshot, delivery>>
remote == <<cloud, pushes>>
vars == <<clock, stamp, local, queue, remote, worker, refresh>>

Listed == [bucket : Bucket, source : Nat]

(* left: the buckets still to build.  job: the one being built.  unread: the
   tables its material has not been read from.  found: what was read. *)
Refresh == [stage : {"off", "list", "read", "aggregate"}, left : SUBSET Listed,
            job : Listed, unread : {SubSeq(Tables, i, 4) : i \in 1..5}, found : SUBSET Events]

Unmarked == [source |-> 0, dirty |-> FALSE]

NoJob == [bucket |-> CHOOSE b \in Bucket : TRUE, source |-> 0]

Off == [stage |-> "off", left |-> {}, job |-> NoJob, unread |-> <<>>, found |-> {}]

(* todo: providers the round has not claimed for yet.  stuck: providers whose
   circuit a throw may have left half-open with its probe reserved. *)
WorkerState == [phase : {"new", "running", "gone"}, enabled : SUBSET Provider,
                bootstrapped : BOOLEAN, todo : SUBSET Provider, stuck : SUBSET Provider]

Item == [bucket : Bucket, version : Nat, content : SUBSET Events, final : BOOLEAN]

(* answer: "none" until the provider has run the statement. *)
Push == [worker : WorkerId, provider : Provider, awaited : BOOLEAN, items : SUBSET Item,
         answer : {"none", "stored", "conflict"}]

PushesOf(w) == {x \in pushes : x.worker = w}

TypeOK ==
  /\ clock \in 1..MaxMs
  /\ log \subseteq Events
  /\ stamp \in Nat
  /\ mark \in [Bucket -> [source : Nat, dirty : BOOLEAN]]
  /\ overtaken \in [Bucket -> SUBSET Events]
  /\ boot \in BOOLEAN
  /\ snapshot \in [Bucket -> [version : Nat, content : SUBSET Events]]
  /\ delivery \in [Bucket -> [Provider -> SnapshotRow]]
  /\ cloud \in [Provider -> [Bucket -> [version : Nat, content : SUBSET Events]]]
  /\ worker \in [WorkerId -> WorkerState]
  /\ refresh \in Refresh
  /\ pushes \subseteq Push

(* Some messages were recorded before the projections existed. *)
Init ==
  /\ clock = 1
  /\ log \in SUBSET {At(s, 0) : s \in {t \in Shapes : t.kind = "message"}}
  /\ stamp = 0
  /\ mark = [b \in Bucket |-> Unmarked]
  /\ overtaken = [b \in Bucket |-> {}]
  /\ boot = FALSE
  /\ snapshot = [b \in Bucket |-> NoSnapshot]
  /\ delivery = [b \in Bucket |-> [p \in Provider |-> NoSnapshotRow]]
  /\ cloud = [p \in Provider |-> [b \in Bucket |-> NoSnapshot]]
  /\ worker = [w \in WorkerId |-> [phase |-> "new", enabled |-> {},
                                   bootstrapped |-> FALSE, todo |-> {}, stuck |-> {}]]
  /\ refresh = Off
  /\ pushes = {}
-----------------------------------------------------------------------------
(* The bot process *)

(* markDirty *)
MarkDirty(row, source) ==
  [source |-> IF source > row.source THEN source ELSE row.source, dirty |-> TRUE]

(* The event is inserted and its buckets are marked with "source". *)
Record(e, source) ==
  /\ log' = log \cup {e}
  /\ mark' = [b \in Bucket |-> IF b \in Marks(e) THEN MarkDirty(mark[b], source) ELSE mark[b]]
  /\ overtaken' = [b \in Bucket |-> IF b \in Marks(e) /\ source <= mark[b].source
                                      THEN overtaken[b] \cup {e} ELSE overtaken[b]]

Recorded(s) == \E e \in log : \E ms \in 0..MaxMs : e = At(s, ms)

(* Messages and active members are stamped with the millisecond they are
   from; Discord delivers them late and out of order, and the history import
   records old ones. *)
RecordMessage(s, ms) ==
  /\ s.kind \in {"message", "activity"} /\ ~Recorded(s)
  /\ ms <= clock
  /\ Record(At(s, ms), ms)
  /\ UNCHANGED <<clock, stamp, boot, queue, remote, worker, refresh>>

NextSourceSequence == IF clock * Scale > stamp THEN clock * Scale ELSE stamp + 1

(* Reactions, voice and member events from the gateway. *)
RecordGateway(s) ==
  /\ s.kind \in {"reaction", "voice", "member"} /\ ~Recorded(s)
  /\ stamp' = NextSourceSequence
  /\ Record(At(s, clock), NextSourceSequence)
  /\ UNCHANGED <<clock, boot, queue, remote, worker, refresh>>

(* createLocalStorage applies the policy; the sequence counter starts again. *)
RestartBot(enabled) ==
  /\ stamp' = 0
  /\ delivery' = AppliedSnapshotPolicy(snapshot, delivery, enabled)
  /\ UNCHANGED <<clock, local, snapshot, remote, worker, refresh>>

Tick ==
  /\ clock < MaxMs
  /\ clock' = clock + 1
  /\ UNCHANGED <<stamp, local, queue, remote, worker, refresh>>
-----------------------------------------------------------------------------
(* The worker process: start, and the maintenance of a round *)

(* The lease of the runtime singleton: one worker at a time. *)
StartWorker(w, enabled, expired) ==
  /\ \A v \in WorkerId : worker[v].phase # "running"
  /\ worker[w].phase = "new"
  /\ worker' = [worker EXCEPT ![w].phase = "running", ![w].enabled = enabled]
  /\ delivery' = ReleasedExpiredSnapshots(
                   AppliedSnapshotPolicy(snapshot, delivery, enabled), enabled, expired)
  /\ UNCHANGED <<clock, stamp, local, snapshot, remote, refresh>>

RoundOver(w) ==
  /\ worker[w].phase = "running"
  /\ refresh.stage = "off" /\ worker[w].todo = {}
  /\ \A x \in PushesOf(w) : ~x.awaited

BootSource(b) == {e.at : e \in {f \in log : b \in BootBuckets(f)}}

BootMarks ==
  [b \in Bucket |-> IF BootSource(b) = {} THEN mark[b]
     ELSE MarkDirty(mark[b], CHOOSE m \in BootSource(b) : \A n \in BootSource(b) : n <= m)]

(* backfill-analytics-projection-v2.mjs plans the buckets of a time range and
   marks them in batches: the operator's remedy for buckets that are stale. *)
Backfill(candidates) ==
  /\ candidates # {}
  /\ mark' = [b \in Bucket |-> IF b \in candidates THEN BootMarks[b] ELSE mark[b]]
  /\ UNCHANGED <<clock, log, stamp, overtaken, boot, queue, remote, worker, refresh>>

(* bootstrap, once per process: it marks what exists, then notes that in the
   metadata.  If either throws, this process does not try again. *)
Bootstrap(w, marked, noted) ==
  /\ RoundOver(w) /\ ~worker[w].bootstrapped
  /\ boot => (marked /\ noted)
  /\ noted => marked
  /\ worker' = [worker EXCEPT ![w].bootstrapped = TRUE]
  /\ mark' = IF marked /\ ~boot THEN BootMarks ELSE mark
  /\ boot' = noted
  /\ UNCHANGED <<clock, stamp, log, overtaken, queue, remote, refresh>>

(* listDue.  Earlier unattended pushes stay so. *)
ListDue(w, due) ==
  /\ RoundOver(w) /\ worker[w].bootstrapped
  /\ Cardinality(due) <= BatchSize
  /\ \A b \in due : mark[b].dirty
  /\ refresh' = [Off EXCEPT !.stage = "list",
                            !.left = {[bucket |-> b, source |-> mark[b].source] : b \in due}]
  /\ UNCHANGED <<clock, stamp, local, queue, remote, worker>>

StartBuild(w, job) ==
  /\ worker[w].phase = "running" /\ refresh.stage = "list"
  /\ job \in refresh.left
  /\ refresh' = [refresh EXCEPT !.stage = "read", !.left = @ \ {job}, !.job = job,
                                !.unread = Tables, !.found = {}]
  /\ UNCHANGED <<clock, stamp, local, queue, remote, worker>>

(* buildMaterial, one table *)
ReadTable(w) ==
  /\ worker[w].phase = "running" /\ refresh.stage = "read" /\ refresh.unread # <<>>
  /\ refresh' = [refresh EXCEPT !.unread = Tail(@),
       !.found = @ \cup {e \in log : e.kind = Head(refresh.unread) /\ Reads(refresh.job.bucket, e)}]
  /\ UNCHANGED <<clock, stamp, local, queue, remote, worker>>

StoreSnapshot(w) ==
  /\ worker[w].phase = "running" /\ refresh.stage = "read" /\ refresh.unread = <<>>
  /\ snapshot' = UpsertedSnapshot(snapshot, refresh.job.bucket, refresh.found)
  /\ delivery' = UpsertedRows(snapshot, delivery, refresh.job.bucket, refresh.found,
                              worker[w].enabled)
  /\ refresh' = [refresh EXCEPT !.stage = "aggregate", !.found = {}]
  /\ UNCHANGED <<clock, stamp, local, remote, worker>>

(* Mutant: the sequence is read again when the build is over. *)
Aggregated_Unconditional(row, source) == [row EXCEPT !.dirty = FALSE]

(* markAggregated: the bucket stays dirty if it was marked since listDue. *)
Aggregated(row, source) == [row EXCEPT !.dirty = row.source > source]

(* stop: the time budget is used up, and the rest of the list is dropped. *)
MarkAggregated(w, stop) ==
  /\ worker[w].phase = "running" /\ refresh.stage = "aggregate"
  /\ mark' = [mark EXCEPT ![refresh.job.bucket] = Aggregated(@, refresh.job.source)]
  /\ refresh' = [Off EXCEPT !.stage = "list", !.left = IF stop THEN {} ELSE refresh.left]
  /\ UNCHANGED <<clock, stamp, log, overtaken, boot, queue, remote, worker>>

(* A statement of the refresh threw: the round is rejected. *)
RefreshThrows(w) ==
  /\ worker[w].phase = "running" /\ refresh.stage # "off"
  /\ refresh' = Off
  /\ UNCHANGED <<clock, stamp, local, queue, remote, worker>>

(* Maintenance is over, and every enabled provider gets its turn. *)
EndRefresh(w) ==
  /\ worker[w].phase = "running" /\ refresh.stage = "list" /\ refresh.left = {}
  /\ refresh' = Off
  /\ worker' = [worker EXCEPT ![w].todo = worker[w].enabled]
  /\ UNCHANGED <<clock, stamp, local, queue, remote>>
-----------------------------------------------------------------------------
(* The worker process: the snapshots of a round *)

(* Found: what a claim may select.  A row that is not in its backoff is due. *)
Found(p, expired) == ClaimableSnapshots(ReleasedExpiredSnapshots(delivery, {p}, expired), p)

CertainlyDue(p, expired) == {b \in Found(p, expired) : delivery[b][p].status # "retry"}

ClaimedItems(p, claimed, batch) ==
  {[bucket |-> b, version |-> snapshot[b].version, content |-> snapshot[b].content,
    final |-> claimed[b][p].attempts >= MaxAttempts] : b \in batch}

Claim(w, p, expired, batch) ==
  LET claimed == ClaimedSnapshots(ReleasedExpiredSnapshots(delivery, {p}, expired), p, w, batch)
  IN /\ worker[w].phase = "running" /\ p \in worker[w].todo
     /\ Cardinality(pushes) < MaxPushes
     /\ batch # {} /\ batch \subseteq Found(p, expired)
     /\ Cardinality(batch) <= BatchSize
     /\ Cardinality(batch) = BatchSize \/ CertainlyDue(p, expired) \subseteq batch
     /\ delivery' = claimed
     /\ worker' = [worker EXCEPT ![w].todo = @ \ {p}]
     /\ pushes' = pushes \cup {[worker |-> w, provider |-> p, awaited |-> TRUE,
                                items |-> ClaimedItems(p, claimed, batch), answer |-> "none"]}
     /\ UNCHANGED <<clock, stamp, local, snapshot, cloud, refresh>>

(* Nothing was due, the circuit was open, or an event of this provider failed
   in this round.  The claim transaction may have released locks. *)
SkipProvider(w, p, expired) ==
  /\ worker[w].phase = "running" /\ p \in worker[w].todo
  /\ delivery' = ReleasedExpiredSnapshots(delivery, {p}, expired)
  /\ worker' = [worker EXCEPT ![w].todo = @ \ {p}]
  /\ UNCHANGED <<clock, stamp, local, snapshot, remote, refresh>>

Unattended(w) == {IF x.worker = w THEN [x EXCEPT !.awaited = FALSE] ELSE x : x \in pushes}

StuckAfter(w, p, probe) == IF probe THEN worker[w].stuck \cup {p} ELSE worker[w].stuck

(* A claim for p, of events or of snapshots, or the settling of its events
   threw, and the round is rejected.  probe: the attempt was the probe of a
   half-open circuit, which nothing gives back. *)
ClaimThrows(w, p, probe) ==
  /\ worker[w].phase = "running" /\ p \in worker[w].todo
  /\ worker' = [worker EXCEPT ![w].todo = {}, ![w].stuck = StuckAfter(w, p, probe)]
  /\ pushes' = Unattended(w)
  /\ UNCHANGED <<clock, stamp, local, queue, cloud, refresh>>

(* Another part of the round threw: what this round still waits for goes on
   unattended. *)
RoundRejected(w) ==
  /\ worker[w].phase = "running" /\ refresh.stage = "off"
  /\ \E x \in PushesOf(w) : x.awaited
  /\ worker' = [worker EXCEPT ![w].todo = {}]
  /\ pushes' = Unattended(w)
  /\ UNCHANGED <<clock, stamp, local, queue, cloud, refresh>>

(* The provider runs the statement: its answer shows what it stored then. *)
ProviderRuns(x) ==
  /\ x.answer = "none"
  /\ LET stored == ProviderUpsert(cloud[x.provider], x.items)
     IN /\ cloud' = [cloud EXCEPT ![x.provider] = stored]
        /\ pushes' = (pushes \ {x}) \cup
             {[x EXCEPT !.answer = IF Conflicts(stored, x.items) THEN "conflict" ELSE "stored"]}
  /\ UNCHANGED <<clock, stamp, local, queue, worker, refresh>>

(* A refresh and a claim are stretches of JavaScript no answer interrupts. *)
Listens(w) == worker[w].phase = "running" /\ refresh.stage = "off" /\ worker[w].todo = {}

PushSucceeds(x) ==
  /\ Listens(x.worker) /\ x.answer = "stored"
  /\ delivery' = MarkedSynced(delivery, x.provider, x.worker, x.items)
  /\ pushes' = pushes \ {x}
  /\ UNCHANGED <<clock, stamp, local, snapshot, cloud, worker, refresh>>

(* An error, a timeout or a lost answer, whatever the provider did; a
   conflict is permanent.  Also a local error after a successful push. *)
PushFails(x, permanent) ==
  /\ Listens(x.worker)
  /\ x.answer = "conflict" => permanent
  /\ delivery' = MarkedFailed(delivery, x.provider, x.worker, x.items, permanent)
  /\ pushes' = pushes \ {x}
  /\ UNCHANGED <<clock, stamp, local, snapshot, cloud, worker, refresh>>

(* SQLite threw while the failure was noted: some rows stay locked. *)
SettlingThrows(x, noted, probe) ==
  /\ Listens(x.worker)
  /\ noted \subseteq x.items
  /\ delivery' = MarkedFailed(delivery, x.provider, x.worker, noted, FALSE)
  /\ pushes' = pushes \ {x}
  /\ worker' = [worker EXCEPT ![x.worker].stuck = StuckAfter(x.worker, x.provider, probe)]
  /\ UNCHANGED <<clock, stamp, local, snapshot, cloud, refresh>>

StopWorker(w) ==
  /\ RoundOver(w)
  /\ worker' = [worker EXCEPT ![w].phase = "gone", ![w].stuck = {}]
  /\ delivery' = ReleasedSnapshotLocks(delivery, worker[w].enabled, w)
  /\ UNCHANGED <<clock, stamp, local, snapshot, remote, refresh>>

(* The process dies; requests it has sent may still reach their provider. *)
CrashWorker(w) ==
  /\ worker[w].phase = "running"
  /\ worker' = [worker EXCEPT ![w].phase = "gone", ![w].todo = {}, ![w].stuck = {}]
  /\ refresh' = Off
  /\ UNCHANGED <<clock, stamp, local, queue, remote>>

(* The request of a dead process never arrives, or nobody reads its answer. *)
RequestLost(x) ==
  /\ worker[x.worker].phase = "gone"
  /\ pushes' = pushes \ {x}
  /\ UNCHANGED <<clock, stamp, local, queue, cloud, worker, refresh>>
-----------------------------------------------------------------------------
OperatorStep == \E candidates \in SUBSET Bucket : Backfill(candidates)

BotStep ==
  \/ \E s \in Shapes, ms \in 1..MaxMs : RecordMessage(s, ms)
  \/ \E s \in Shapes : RecordGateway(s)
  \/ \E enabled \in Policies : RestartBot(enabled)
  \/ Tick

RefreshStep(w) ==
  \/ \E marked, noted \in BOOLEAN : Bootstrap(w, marked, noted)
  \/ \E due \in SUBSET Bucket : ListDue(w, due)
  \/ \E job \in refresh.left : StartBuild(w, job)
  \/ ReadTable(w)
  \/ StoreSnapshot(w)
  \/ \E stop \in BOOLEAN : MarkAggregated(w, stop)
  \/ RefreshThrows(w)
  \/ EndRefresh(w)

WorkerStep(w) ==
  \/ \E enabled \in Policies, expired \in SUBSET Bucket : StartWorker(w, enabled, expired)
  \/ RefreshStep(w)
  \/ \E p \in Provider, expired \in SUBSET Bucket :
       \/ \E batch \in SUBSET Bucket : Claim(w, p, expired, batch)
       \/ SkipProvider(w, p, expired)
  \/ \E p \in Provider, probe \in BOOLEAN : ClaimThrows(w, p, probe)
  \/ RoundRejected(w)
  \/ StopWorker(w)
  \/ CrashWorker(w)

PushStep(x) ==
  \/ ProviderRuns(x)
  \/ PushSucceeds(x)
  \/ \E permanent \in BOOLEAN : PushFails(x, permanent)
  \/ \E noted \in SUBSET x.items, probe \in BOOLEAN : SettlingThrows(x, noted, probe)
  \/ RequestLost(x)

Next == BotStep \/ OperatorStep \/ (\E w \in WorkerId : WorkerStep(w)) \/ (\E x \in pushes : PushStep(x))

Spec == Init /\ [][Next]_vars

Settles(x) == PushSucceeds(x) \/ \E permanent \in BOOLEAN : PushFails(x, permanent)

RefreshAdvances(w) ==
  \/ \E job \in refresh.left : StartBuild(w, job)
  \/ ReadTable(w)
  \/ StoreSnapshot(w)
  \/ MarkAggregated(w, FALSE)
  \/ EndRefresh(w)

(* A worker that keeps running goes round its loop, and its calls settle; the
   disk does not fail refreshes for ever, and what recurs (a refresh boundary,
   a circuit whose open periods end in an attempt, a backoff that ends, a push
   that settles before its lock times out) is not unlucky for ever.  Nothing is
   assumed of claims for a provider whose circuit is stuck. *)
WorkerFairness(w) ==
  /\ WF_vars(\E marked, noted \in BOOLEAN : Bootstrap(w, marked, noted))
  /\ WF_vars(\E due \in SUBSET Bucket : ListDue(w, due))
  /\ WF_vars(RefreshAdvances(w))
  /\ <>[][~RefreshThrows(w)]_vars
  /\ \A b \in Bucket :
       /\ SF_vars(\E due \in SUBSET Bucket : b \in due /\ ListDue(w, due))
       /\ SF_vars(\E job \in refresh.left : job.bucket = b /\ StartBuild(w, job))
  /\ \A p \in Provider :
       /\ WF_vars(SkipProvider(w, p, {}) \/ \E batch \in SUBSET Bucket : Claim(w, p, {}, batch))
       /\ SF_vars(\E x \in PushesOf(w) : x.provider = p /\ Settles(x))
       /\ \A b \in Bucket :
            /\ SF_vars(/\ p \notin worker[w].stuck
                       /\ \E batch \in SUBSET Bucket : b \in batch /\ Claim(w, p, Bucket, batch))
            /\ SF_vars(LockedBy(delivery[b][p], w) /\ \E x \in PushesOf(w) :
                         x.provider = p /\ (\E i \in x.items : i.bucket = b) /\ Settles(x))

FairSpec == Spec /\ \A w \in WorkerId : WorkerFairness(w)
-----------------------------------------------------------------------------
(* The bucket b is known to owe event e to its readers: e was recorded and
   marked there in time, or it is older and the bootstrap has marked it. *)
Owed(b, e) ==
  /\ e \in log /\ Reads(b, e)
  /\ IF Old(e) THEN boot /\ b \in BootBuckets(e) ELSE e \notin overtaken[b]

(* A bucket that is not dirty has every event it owes in its snapshot,
   wherever the events fell between listDue, the reads and markAggregated,
   and wherever the worker died: no mark is lost to a rebuild that did not
   see its event, unless the event was marked with an old sequence. *)
CleanMeansComplete ==
  \A b \in Bucket, e \in log : Owed(b, e) => mark[b].dirty \/ e \in snapshot[b].content

(* What the documents say of late events: the same without the exception. *)
CleanIncludesLateEvents ==
  \A b \in Bucket, e \in log :
    Reads(b, e) /\ ~Old(e) => mark[b].dirty \/ e \in snapshot[b].content

(* A row marked synced is at the current version, and its provider has that
   version with that content: no answer of an older, unattended or repeated
   push confirms a newer snapshot. *)
SyncedMeansCurrentInCloud ==
  \A b \in Bucket, p \in Provider :
    delivery[b][p].status = "synced" => cloud[p][b] = snapshot[b]

(* What a provider shows of a bucket never loses an event, though requests
   of dead workers and of abandoned rounds arrive late. *)
CloudNeverGoesBack ==
  [][\A b \in Bucket, p \in Provider :
       cloud[p][b].content \subseteq cloud'[p][b].content]_vars

(* If in the end one worker keeps running with p enabled, the cloud catches up
   with every event owed to a bucket, again and again, however often refreshes
   and pushes fail: its bucket comes up again after each round that was cut
   short, and its snapshot after each push.  It ends where the row of the
   bucket is dead-lettered, be it for an older snapshot, or p is switched off,
   and where a throw leaves p's circuit stuck with a reserved probe: then only
   the next process serves p. *)
Serves(w, p) ==
  worker[w].phase = "running" /\ p \in worker[w].enabled \ worker[w].stuck

Arrived(b, p, e) ==
  e \in cloud[p][b].content \/ delivery[b][p].status \in {"dead_letter", "disabled"}

EventReachesCloud ==
  \A p \in Provider :
    (\E w \in WorkerId : <>[]Serves(w, p))
    => []<>(\A b \in Bucket, e \in log : Owed(b, e) => Arrived(b, p, e))
=============================================================================
