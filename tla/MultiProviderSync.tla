------------------------- MODULE MultiProviderSync -------------------------
(***************************************************************************)
(* The Multi-DB sync pipeline: the bot process enqueues events, worker     *)
(* processes (lib/sync/multi-worker.mjs) push them to the cloud providers  *)
(* and settle the provider rows, operators run the repair and backfill     *)
(* scripts, and everybody shares the SQLite tables of ProviderDelivery.    *)
(*                                                                         *)
(* A worker works in rounds (processOnce): maintenance, then one claim per *)
(* provider, then it awaits all pushes with Promise.all.  A provider that  *)
(* throws ends the round early and the pushes of the others go on          *)
(* unattended: they are the pushes with awaited = FALSE.  JavaScript runs  *)
(* one piece of a worker at a time, but SQLite transactions of other       *)
(* processes fall between any two steps, and a process may die there.      *)
(***************************************************************************)
EXTENDS ProviderDelivery

CONSTANTS
  BotPolicies,      \* provider definitions the bot process may start with
  WorkerPolicies,   \* provider definitions a worker process may start with
  MayStick,         \* providers whose circuit a throw may leave half-open and reserved
  LegacyWorker,     \* may the single-replica worker run while no Multi-DB worker does?
  BatchLimit,       \* the batcher's current size
  MaxPushes         \* bound: unsettled pushEvents calls at any time

ASSUME PoliciesAssumption ==
  /\ BotPolicies \subseteq Policy /\ BotPolicies # {}
  /\ WorkerPolicies \subseteq {PolicyOn(E) : E \in SUBSET Provider}
  /\ LegacyWorker \in BOOLEAN
  /\ MayStick \subseteq Provider
ASSUME BoundsAssumption == BatchLimit \in Nat \ {0} /\ MaxPushes \in Nat \ {0}

VARIABLES
  outbox,     \* sync_outbox.status by event
  delivery,   \* sync_provider_delivery rows by event and provider
  replica,    \* events stored in replica_event of each provider
  botPolicy,  \* providerDefinitions of the running bot process
  worker,     \* worker processes by identity
  pushes      \* pushEvents calls that have not been settled

vars == <<outbox, delivery, replica, botPolicy, worker, pushes>>

(* todo: providers the current round has not claimed for yet.
   broken: some provider of the round threw.
   stuck: providers whose circuit a throw may have left half-open with its
   probe reserved.  Such a circuit lets nobody claim until the process ends,
   unless an older push of the provider still settles. *)
WorkerState == [phase  : {"new", "running", "gone"},
                policy : Policy,
                todo   : SUBSET Provider,
                broken : BOOLEAN,
                stuck  : SUBSET Provider]

(* items: events of the batch not settled yet.  final: those of them whose
   failure is final, at the claim because it was their last attempt, after
   the answer also because the error is permanent.  ok: the items the answer
   reports as stored; the other items of a returned push failed. *)
Push == [worker : WorkerId, provider : Provider, awaited : BOOLEAN,
         items : SUBSET Event, final : SUBSET Event,
         returned : BOOLEAN, ok : SUBSET Event]

PushesOf(w) == {x \in pushes : x.worker = w}

(* A synchronous stretch of JavaScript of w is under way: the claims of a
   round, or the settling of a response. *)
Busy(w) == worker[w].todo # {} \/ \E x \in PushesOf(w) : x.returned

RoundOver(w) ==
  /\ ~Busy(w)
  /\ worker[w].broken \/ \A x \in PushesOf(w) : ~x.awaited

TypeOK ==
  /\ outbox \in [Event -> OutboxStatus]
  /\ delivery \in [Event -> [Provider -> Row]]
  /\ replica \in [Provider -> SUBSET Event]
  /\ botPolicy \in Policy
  /\ worker \in [WorkerId -> WorkerState]
  /\ pushes \subseteq Push

Init ==
  /\ outbox = [e \in Event |-> "absent"]
  /\ delivery = [e \in Event |-> [p \in Provider |-> NoRow]]
  /\ replica = [p \in Provider |-> {}]
  /\ botPolicy \in BotPolicies
  /\ worker = [w \in WorkerId |-> [phase |-> "new", policy |-> PolicyOff,
                                   todo |-> {}, broken |-> FALSE,
                                   stuck |-> {}]]
  /\ pushes = {}
-----------------------------------------------------------------------------
(* The bot process and the operators *)

(* A stable event id may be enqueued again: gateway replay, history import. *)
Enqueue(e) ==
  /\ outbox' = EnqueueOutbox(outbox, e)
  /\ delivery' = EnsureForEvent(delivery, e, botPolicy)
  /\ UNCHANGED <<replica, botPolicy, worker, pushes>>

RestartBot(policy) ==
  /\ botPolicy' = policy
  /\ delivery' = AppliedPolicy(outbox, delivery, policy)
  /\ UNCHANGED <<outbox, replica, worker, pushes>>

Backfill(p, events) ==
  /\ events # {}
  /\ events \subseteq BackfillCandidates(outbox, delivery, p)
  /\ delivery' = Backfilled(delivery, p, events)
  /\ UNCHANGED <<outbox, replica, botPolicy, worker, pushes>>

(* repair-sync-queue.mjs opens the store, which applies the policy of its
   environment, and then requeues. *)
RequeueDeadLetter(e, policy) ==
  /\ outbox[e] = "dead_letter"
  /\ outbox' = RequeuedOutbox(outbox, e)
  /\ delivery' = AppliedPolicy(outbox, delivery, policy)
  /\ UNCHANGED <<replica, botPolicy, worker, pushes>>

(* The single-replica worker, before Multi-DB is switched on or after the
   documented rollback: it settles envelopes and retires them, and never
   looks at the provider rows or writes to replica_event. *)
LegacyMayRun == LegacyWorker /\ \A w \in WorkerId : worker[w].phase # "running"

LegacySettle(e, status) ==
  /\ LegacyMayRun
  /\ outbox[e] = "pending"
  /\ outbox' = [outbox EXCEPT ![e] = status]
  /\ UNCHANGED <<delivery, replica, botPolicy, worker, pushes>>

LegacyRetire(old) ==
  /\ LegacyMayRun
  /\ outbox' = PurgedOutbox(outbox, old)
  /\ delivery' = PurgedDelivery(outbox, delivery, old)
  /\ UNCHANGED <<replica, botPolicy, worker, pushes>>
-----------------------------------------------------------------------------
(* The worker process *)

(* run() up to its loop: applyPolicy, then releaseExpiredLocks per context. *)
StartWorker(w, policy, expired) ==
  /\ worker[w].phase = "new"
  /\ worker' = [worker EXCEPT ![w] = [@ EXCEPT !.phase = "running", !.policy = policy]]
  /\ delivery' = ReleasedExpired(AppliedPolicy(outbox, delivery, policy), policy.enabled, expired)
  /\ UNCHANGED <<outbox, replica, botPolicy, pushes>>

(* processOnce: #maintenance purges what is past retention, then every
   enabled provider gets its turn.  Earlier unattended pushes stay so. *)
StartRound(w, old) ==
  /\ worker[w].phase = "running"
  /\ RoundOver(w)
  /\ outbox' = PurgedOutbox(outbox, old)
  /\ delivery' = PurgedDelivery(outbox, delivery, old)
  /\ worker' = [worker EXCEPT ![w].todo = worker[w].policy.enabled, ![w].broken = FALSE]
  /\ pushes' = {IF x.worker = w THEN [x EXCEPT !.awaited = FALSE] ELSE x : x \in pushes}
  /\ UNCHANGED <<replica, botPolicy>>

ClaimedDelivery(w, p, expired, batch) ==
  Claimed(ReleasedExpired(delivery, {p}, expired), p, w, batch)

(* The rows a claim would find, and those of them that no backoff can hide:
   fresh rows and rows whose lock was just released. *)
Found(p, expired) == Claimable(outbox, ReleasedExpired(delivery, {p}, expired), p)

CertainlyDue(p, expired) == {e \in Found(p, expired) : delivery[e][p].status # "retry"}

NewPush(w, p, claimed, batch) ==
  [worker |-> w, provider |-> p, awaited |-> TRUE, items |-> batch,
   final |-> {e \in batch : claimed[e][p].attempts >= MaxAttempts},
   returned |-> FALSE, ok |-> {}]

(* claimBatch found a batch, and pushEvents is called with it.  Only the
   limit keeps a row that is due out of the batch. *)
Claim(w, p, expired, batch) ==
  LET claimed == Claimed(ReleasedExpired(delivery, {p}, expired), p, w, batch)
  IN /\ p \in worker[w].todo
     /\ Cardinality(pushes) < MaxPushes
     /\ batch # {} /\ Cardinality(batch) <= BatchLimit
     /\ batch \subseteq Found(p, expired)
     /\ Cardinality(batch) = BatchLimit \/ CertainlyDue(p, expired) \subseteq batch
     /\ delivery' = claimed
     /\ worker' = [worker EXCEPT ![w].todo = @ \ {p}]
     /\ pushes' = pushes \cup {NewPush(w, p, claimed, batch)}
     /\ UNCHANGED <<outbox, replica, botPolicy>>

(* Nothing was due: only retries still in their backoff are left. *)
ClaimNothing(w, p, expired) ==
  /\ p \in worker[w].todo
  /\ CertainlyDue(p, expired) = {}
  /\ delivery' = ReleasedExpired(delivery, {p}, expired)
  /\ worker' = [worker EXCEPT ![w].todo = @ \ {p}]
  /\ UNCHANGED <<outbox, replica, botPolicy, pushes>>

(* The circuit breaker refused the attempt. *)
CircuitOpen(w, p) ==
  /\ p \in worker[w].todo
  /\ worker' = [worker EXCEPT ![w].todo = @ \ {p}]
  /\ UNCHANGED <<outbox, delivery, replica, botPolicy, pushes>>

StuckAfter(stuck, p, probe) == IF probe THEN stuck \cup {p} ELSE stuck

(* The claim transaction threw (SQLITE_BUSY): it left no trace, and the
   round is rejected.  probe: the attempt was the probe of a half-open
   circuit, which nothing gives back. *)
ClaimThrows(w, p, probe) ==
  /\ p \in worker[w].todo
  /\ probe => p \in MayStick
  /\ worker' = [worker EXCEPT ![w] =
       [@ EXCEPT !.todo = worker[w].todo \ {p}, !.broken = TRUE,
                 !.stuck = StuckAfter(worker[w].stuck, p, probe)]]
  /\ UNCHANGED <<outbox, delivery, replica, botPolicy, pushes>>

(* The provider commits some of the batch (its INSERTs ignore what is
   already there). *)
ProviderStores(x, stored) ==
  /\ ~x.returned
  /\ stored # {} /\ stored \subseteq x.items
  /\ replica' = [replica EXCEPT ![x.provider] = @ \cup stored]
  /\ UNCHANGED <<outbox, delivery, botPolicy, worker, pushes>>

(* Mutant: the provider reports the whole batch, whatever it committed. *)
Confirmable_WholeBatch(x) == x.items

(* The items an answer of the provider can report as stored. *)
Confirmable(x) == x.items \cap replica[x.provider]

(* pushEvents settles.  A rejection (timeout, lost answer, error, or a local
   error in recordAttempt after the push) fails the whole batch: ok = {}. *)
PushReturns(x, ok, permanent) ==
  /\ permanent \subseteq x.items
  /\ ~Busy(x.worker)
  /\ ~x.returned
  /\ ok \subseteq Confirmable(x)
  /\ pushes' = (pushes \ {x}) \cup
       {[x EXCEPT !.returned = TRUE, !.ok = ok,
                  !.final = (@ \cup permanent) \ ok]}
  /\ UNCHANGED <<outbox, delivery, replica, botPolicy, worker>>

(* #handleEventFailure for one item. *)
SettleFailure(x, e) ==
  /\ x.returned
  /\ e \in x.items \ x.ok
  /\ delivery' = IF e \in x.final
       THEN MarkedDeadLetter(delivery, x.provider, x.worker, e)
       ELSE MarkedRetry(delivery, x.provider, x.worker, e)
  /\ pushes' = (pushes \ {x}) \cup {[x EXCEPT !.items = @ \ {e}, !.final = @ \ {e}]}
  /\ UNCHANGED <<outbox, replica, botPolicy, worker>>

(* Only rows the worker still held count as completed. *)
Completed(x) == {e \in x.ok : HeldBy(delivery, e, x.provider, x.worker)}

(* Mutant: completion is evaluated before the rows are marked. *)
CompletedOutbox_BeforeMarking(x) == UpdatedCompletion(outbox, delivery, Completed(x))

CompletedOutbox(x) ==
  UpdatedCompletion(outbox, MarkedSynced(delivery, x.provider, x.worker, x.ok), Completed(x))

(* The worker after an SQLite error in the settling of x. *)
AfterThrow(x, probe) ==
  [worker EXCEPT ![x.worker] =
     [@ EXCEPT !.broken = worker[x.worker].broken \/ x.awaited,
               !.stuck = StuckAfter(worker[x.worker].stuck, x.provider, probe)]]

(* markSynced and updateCloudCompletion share a transaction.  throws:
   recordResult or setCircuitState, after it, hit an SQLite error; probe: the
   first of them, so that the circuit never hears of its probe. *)
SettleSuccess(x, throws, probe) ==
  /\ x.returned
  /\ probe => throws /\ x.provider \in MayStick
  /\ x.items = x.ok
  /\ delivery' = MarkedSynced(delivery, x.provider, x.worker, x.ok)
  /\ outbox' = CompletedOutbox(x)
  /\ pushes' = pushes \ {x}
  /\ worker' = IF throws THEN AfterThrow(x, probe) ELSE worker
  /\ UNCHANGED <<replica, botPolicy>>

(* SQLite threw while settling: the rows not settled yet stay locked until
   the lock times out, and the round, if it awaits this push, is rejected. *)
SettleThrows(x, probe) ==
  /\ x.returned
  /\ probe => x.provider \in MayStick
  /\ pushes' = pushes \ {x}
  /\ worker' = AfterThrow(x, probe)
  /\ UNCHANGED <<outbox, delivery, replica, botPolicy>>

(* stop(): the loop of run() ends after its round and releases what is still
   locked; pushes left unattended lose the store that is closed under them. *)
StopWorker(w) ==
  /\ worker[w].phase = "running"
  /\ RoundOver(w)
  /\ worker' = [worker EXCEPT ![w] = [@ EXCEPT !.phase = "gone", !.broken = FALSE, !.stuck = {}]]
  /\ delivery' = ReleasedWorkerLocks(delivery, worker[w].policy.enabled, w)
  /\ pushes' = pushes \ PushesOf(w)
  /\ UNCHANGED <<outbox, replica, botPolicy>>

(* The process dies: its locks stay, what it had in memory is gone. *)
CrashWorker(w) ==
  /\ worker[w].phase = "running"
  /\ worker' = [worker EXCEPT ![w] = [@ EXCEPT !.phase = "gone", !.todo = {}, !.broken = FALSE, !.stuck = {}]]
  /\ pushes' = pushes \ PushesOf(w)
  /\ UNCHANGED <<outbox, delivery, replica, botPolicy>>
-----------------------------------------------------------------------------
BotStep ==
  \/ \E e \in Event : Enqueue(e)
  \/ \E policy \in BotPolicies : RestartBot(policy)

OperatorStep ==
  \/ \E p \in Provider, events \in SUBSET Event : Backfill(p, events)
  \/ \E e \in Event, policy \in BotPolicies : RequeueDeadLetter(e, policy)

LegacyStep ==
  \/ \E e \in Event, status \in {"synced", "dead_letter"} : LegacySettle(e, status)
  \/ \E old \in SUBSET Event : LegacyRetire(old)

WorkerStep(w) ==
  \/ \E policy \in WorkerPolicies, expired \in SUBSET Event : StartWorker(w, policy, expired)
  \/ \E old \in SUBSET Event : StartRound(w, old)
  \/ \E p \in Provider :
       \/ \E expired, batch \in SUBSET Event : Claim(w, p, expired, batch)
       \/ \E expired \in SUBSET Event : ClaimNothing(w, p, expired)
       \/ CircuitOpen(w, p)
       \/ \E probe \in BOOLEAN : ClaimThrows(w, p, probe)
  \/ StopWorker(w)
  \/ CrashWorker(w)

PushStep(x) ==
  \/ \E stored \in SUBSET Event : ProviderStores(x, stored)
  \/ \E ok, permanent \in SUBSET Event : PushReturns(x, ok, permanent)
  \/ \E e \in Event : SettleFailure(x, e)
  \/ \E throws, probe \in BOOLEAN : SettleSuccess(x, throws, probe)
  \/ \E probe \in BOOLEAN : SettleThrows(x, probe)

Next ==
  \/ BotStep
  \/ OperatorStep
  \/ LegacyStep
  \/ \E w \in WorkerId : WorkerStep(w)
  \/ \E x \in pushes : PushStep(x)

Spec == Init /\ [][Next]_vars

(* What the code's scheduling guarantees of a worker that keeps running: its
   loop goes round, an awaited push settles, and what recurs (a circuit whose
   open periods end in an attempt, a backoff that ends, a lock that times out,
   a transaction that is not SQLITE_BUSY) is not unlucky for ever.  Nothing is
   assumed of claims for a provider whose circuit is stuck. *)
WorkerFairness(w) ==
  /\ WF_vars(\E old \in SUBSET Event : StartRound(w, old))
  /\ \A p \in Provider :
       /\ WF_vars(\/ ClaimNothing(w, p, {}) \/ CircuitOpen(w, p)
                  \/ \E probe \in BOOLEAN : ClaimThrows(w, p, probe)
                  \/ \E batch \in SUBSET Event : Claim(w, p, {}, batch))
       /\ \A e \in Event :
            /\ SF_vars(/\ p \notin worker[w].stuck
                       /\ \E batch \in SUBSET Event : e \in batch /\ Claim(w, p, Event, batch))
            /\ SF_vars(\E x \in PushesOf(w) : x.provider = p /\ SettleFailure(x, e))
       /\ SF_vars(\E x \in PushesOf(w) : x.provider = p /\
                    \E ok, permanent \in SUBSET Event : PushReturns(x, ok, permanent))
       /\ SF_vars(\E x \in PushesOf(w) : x.provider = p /\ SettleSuccess(x, FALSE, FALSE))

FairSpec == Spec /\ \A w \in WorkerId : WorkerFairness(w)
-----------------------------------------------------------------------------
(* Multi-DB mode is on from the first event, in every process. *)
MultiDbEverywhere ==
  /\ ~LegacyWorker
  /\ \A policy \in BotPolicies : policy.listed = Provider

(* A provider row is marked synced only if that provider has committed the
   event: no answer of a stale, duplicated or partly failed push is taken for
   another one (markSynced, #pushEvents). *)
NothingAcknowledgedUnstored ==
  \A e \in Event, p \in Provider : delivery[e][p].status = "synced" => e \in replica[p]

(* While an event has an envelope, every provider has a row for it, whatever
   restarts, policy changes and retention interleave (ensureForEvent,
   applyPolicy, purgeSynced). *)
EveryProviderHasARow ==
  \A e \in Event, p \in Provider :
    (outbox[e] = "absent") <=> (delivery[e][p].status = "missing")

(* An event counts as Cloud Complete only while every required provider has
   acknowledged it (updateCloudCompletion). *)
CompleteMeansReplicated ==
  \A e \in Event : outbox[e] = "synced" =>
    \A p \in Required : delivery[e][p].status = "synced"

(* No event whose required rows are all synced is left incomplete: whichever
   provider and worker settles last completes it (markSynced). *)
NoMissedCompletion ==
  \A e \in Event : outbox[e] = "pending" =>
    \E p \in Required : delivery[e][p].status # "synced"

(* An acknowledgement is never taken back and Cloud Complete never undone,
   until retention removes the event altogether: not by a late failure of
   another push, a policy change, an expired lock or a backfill. *)
AcknowledgementsAreFinal ==
  [][\A e \in Event :
       /\ \A p \in Provider : delivery[e][p].status = "synced" =>
            delivery'[e][p].status = "synced" \/ outbox'[e] = "absent"
       /\ outbox[e] = "synced" => outbox'[e] \in {"synced", "absent"}]_vars

(* If in the end one worker process keeps running with p enabled, no event
   stays undecided at p: a row that is due, in backoff, or locked by a dead
   worker or an abandoned push ends up acknowledged, dead-lettered, disabled
   or purged, however often rounds are rejected and claims or settlements
   throw, as long as no throw leaves p's circuit stuck with a reserved probe:
   then only the next process serves p.  (No claim looks at an event whose
   envelope the single-replica worker gave up, until it is requeued.) *)
Undecided(e, p) ==
  /\ outbox[e] \in {"pending", "synced"}
  /\ delivery[e][p].status \in {"pending", "processing", "retry"}

Serves(w, p) ==
  /\ worker[w].phase = "running" /\ p \in worker[w].policy.enabled \ worker[w].stuck
  /\ \A v \in WorkerId \ {w} : worker[v].phase # "running"

EventuallySettled ==
  \A p \in Provider :
    (\E w \in WorkerId : <>[]Serves(w, p))
    => \A e \in Event : Undecided(e, p) ~> ~Undecided(e, p)

(* The pipeline implements the abstract promise. *)
Envelope ==
  [e \in Event |-> CASE outbox[e] = "absent" -> "none"
                     [] outbox[e] = "synced" -> "complete"
                     [] OTHER -> "accepted"]

Abstract == INSTANCE ReplicatedOutbox WITH envelope <- Envelope, stored <- replica

ImplementsReplicatedOutbox == Abstract!Spec
=============================================================================
