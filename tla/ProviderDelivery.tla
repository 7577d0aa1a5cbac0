-------------------------- MODULE ProviderDelivery --------------------------
(***************************************************************************)
(* The local SQLite queue of the Multi-DB sync: table sync_outbox (one row *)
(* per event) and table sync_provider_delivery (one row per event and      *)
(* provider).  Each operator is one statement or one transaction of        *)
(* lib/storage/repositories/provider-delivery.mjs or lib/sync/outbox.mjs:  *)
(* it takes the tables and returns the new contents of the table it        *)
(* changes, so that the processes that share the file (the bot, the sync   *)
(* worker, the operator scripts) can be composed from them.                *)
(*                                                                         *)
(* Time is abstracted: which locks have timed out, which retries are due   *)
(* and which synced events are past retention is chosen by the caller.     *)
(* attempts saturates at MaxAttempts, which is all the code compares it    *)
(* with.  provider_required is the constant Required: the policies of      *)
(* lib/sync/providers/contract.mjs fix it per provider.                    *)
(***************************************************************************)
EXTENDS Naturals, FiniteSets

CONSTANTS
  Event,        \* event ids
  Provider,     \* SYNC_PROVIDER_ID_LIST
  Required,     \* SYNC_REQUIRED_PROVIDER_IDS
  WorkerId,     \* one identity per worker process ever started
  NoWorker,     \* locked_by IS NULL
  MaxAttempts   \* config.maxAttempts

ASSUME RequiredAssumption == Required \subseteq Provider /\ Required # {}
ASSUME NoWorkerAssumption == NoWorker \notin WorkerId
ASSUME MaxAttemptsAssumption == MaxAttempts \in Nat \ {0}

(* The statuses of sync_outbox that Multi-DB mode can meet.  "absent" is no
   row; "processing" and "retry" are written only by the single-replica
   worker, which never runs together with the Multi-DB one. *)
OutboxStatus == {"absent", "pending", "synced", "dead_letter"}

(* The statuses of sync_provider_delivery; "missing" is no row. *)
DeliveryStatus ==
  {"missing", "pending", "processing", "retry", "synced", "dead_letter", "disabled"}

(* A row is locked exactly while it is being processed. *)
Row == {row \in [status   : DeliveryStatus,
                 attempts : 0..MaxAttempts,
                 lockedBy : WorkerId \cup {NoWorker}] :
          (row.status = "processing") <=> (row.lockedBy # NoWorker)}

NewRow(status) == [status |-> status, attempts |-> 0, lockedBy |-> NoWorker]

NoRow == NewRow("missing")

(* providerDefinitions: empty when MULTI_DB_SYNC_ENABLED is off, otherwise
   every provider with its enabled flag. *)
Policy == [listed : SUBSET Provider, enabled : SUBSET Provider]

PolicyOn(enabled) == [listed |-> Provider, enabled |-> enabled]

PolicyOff == [listed |-> {}, enabled |-> {}]

(* The row INSERT OR IGNORE leaves for a listed provider. *)
InsertOrIgnore(row, p, policy) ==
  IF row.status = "missing" /\ p \in policy.listed
    THEN NewRow(IF p \in policy.enabled THEN "pending" ELSE "disabled")
    ELSE row

(* enqueue: the outbox row and its provider rows commit together. *)
EnqueueOutbox(outbox, e) ==
  IF outbox[e] = "absent" THEN [outbox EXCEPT ![e] = "pending"] ELSE outbox

EnsureForEvent(delivery, e, policy) ==
  [delivery EXCEPT ![e] = [p \in Provider |-> InsertOrIgnore(delivery[e][p], p, policy)]]

(* The UPDATE of applyPolicy on one existing row. *)
PolicyUpdate(row, enabled) ==
  IF enabled
    THEN IF row.status = "disabled" THEN [row EXCEPT !.status = "pending"] ELSE row
    ELSE IF row.status \in {"pending", "processing", "retry"}
           THEN [row EXCEPT !.status = "disabled", !.lockedBy = NoWorker]
           ELSE [row EXCEPT !.lockedBy = NoWorker]

AppliedPolicy(outbox, delivery, policy) ==
  [e \in Event |-> [p \in Provider |->
     LET row == IF outbox[e] \in {"pending", "synced"}
                  THEN InsertOrIgnore(delivery[e][p], p, policy)
                  ELSE delivery[e][p]
     IN IF p \in policy.listed /\ row.status # "missing"
          THEN PolicyUpdate(row, p \in policy.enabled)
          ELSE row]]

(* Mutant: locked_by is not reset. *)
Release_KeepsOwner(row) == [row EXCEPT !.status = "retry"]

Release(row) == [row EXCEPT !.status = "retry", !.lockedBy = NoWorker]

(* Mutant: the locks of dead workers are never released. *)
ReleasedExpired_Never(delivery, ps, expired) == delivery

(* releaseExpiredLocks, for each provider of ps: "expired" holds the events
   whose locked_at is older than the lock timeout. *)
ReleasedExpired(delivery, ps, expired) ==
  [e \in Event |-> [p \in Provider |->
     IF p \in ps /\ e \in expired /\ delivery[e][p].status = "processing"
       THEN Release(delivery[e][p]) ELSE delivery[e][p]]]

ReleasedWorkerLocks(delivery, ps, w) ==
  [e \in Event |-> [p \in Provider |->
     IF p \in ps /\ delivery[e][p].status = "processing" /\ delivery[e][p].lockedBy = w
       THEN Release(delivery[e][p]) ELSE delivery[e][p]]]

(* The rows claimBatch may select, before available_at and LIMIT. *)
Claimable(outbox, delivery, p) ==
  {e \in Event : /\ outbox[e] \in {"pending", "synced"}
                 /\ delivery[e][p].status \in {"pending", "retry"}}

NextAttempt(n) == IF n < MaxAttempts THEN n + 1 ELSE MaxAttempts

Claimed(delivery, p, w, batch) ==
  [e \in Event |-> IF e \in batch
     THEN [delivery[e] EXCEPT ![p] =
             [status   |-> "processing",
              attempts |-> NextAttempt(delivery[e][p].attempts),
              lockedBy |-> w]]
     ELSE delivery[e]]

(* Mutant: a late worker settles the row whoever holds it. *)
HeldBy_Unguarded(delivery, e, p, w) == delivery[e][p].status # "missing"

(* The guard of markSynced, markRetry and markDeadLetter. *)
HeldBy(delivery, e, p, w) ==
  delivery[e][p].status = "processing" /\ delivery[e][p].lockedBy = w

Settle(delivery, p, w, events, status) ==
  [e \in Event |-> IF e \in events /\ HeldBy(delivery, e, p, w)
     THEN [delivery[e] EXCEPT ![p].status = status, ![p].lockedBy = NoWorker]
     ELSE delivery[e]]

MarkedSynced(delivery, p, w, events) == Settle(delivery, p, w, events, "synced")

MarkedRetry(delivery, p, w, e) == Settle(delivery, p, w, {e}, "retry")

MarkedDeadLetter(delivery, p, w, e) == Settle(delivery, p, w, {e}, "dead_letter")

(* Mutant: one required provider is enough. *)
RequiredRowsSynced_Any(rows) == \E p \in Required : rows[p].status = "synced"

(* EXISTS a required row AND NOT EXISTS an incomplete one. *)
RequiredRowsSynced(rows) ==
  /\ \E p \in Required : rows[p].status # "missing"
  /\ \A p \in Required : rows[p].status \in {"missing", "synced"}

UpdatedCompletion(outbox, delivery, events) ==
  [e \in Event |->
     IF e \in events /\ outbox[e] = "pending" /\ RequiredRowsSynced(delivery[e])
       THEN "synced" ELSE outbox[e]]

(* Mutant: retention looks at the age only. *)
Purgeable_AnyStatus(outbox) == {e \in Event : outbox[e] # "absent"}

(* purgeSynced deletes the rows of "old" that are synced; the foreign key
   deletes their provider rows with them. *)
Purgeable(outbox) == {e \in Event : outbox[e] = "synced"}

PurgedOutbox(outbox, old) ==
  [e \in Event |-> IF e \in old \cap Purgeable(outbox) THEN "absent" ELSE outbox[e]]

PurgedDelivery(outbox, delivery, old) ==
  [e \in Event |-> IF e \in old \cap Purgeable(outbox)
     THEN [p \in Provider |-> NoRow] ELSE delivery[e]]

(* executeBackfill re-queues the events whose row for p is missing or
   disabled, with a fresh attempt counter. *)
BackfillCandidates(outbox, delivery, p) ==
  {e \in Event : /\ outbox[e] \in {"pending", "synced"}
                 /\ delivery[e][p].status \in {"missing", "disabled"}}

Backfilled(delivery, p, events) ==
  [e \in Event |-> IF e \in events
     THEN [delivery[e] EXCEPT ![p] = NewRow("pending")] ELSE delivery[e]]

(* requeueDeadLetter touches the outbox row only. *)
RequeuedOutbox(outbox, e) ==
  IF outbox[e] = "dead_letter" THEN [outbox EXCEPT ![e] = "pending"] ELSE outbox
=============================================================================
