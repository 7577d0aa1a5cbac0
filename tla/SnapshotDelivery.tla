---------------------------- MODULE SnapshotDelivery ----------------------------
(***************************************************************************)
(* The versioned snapshots of lib/storage/repositories/sync-snapshots.mjs: *)
(* table sync_snapshot (one row per aggregate) and table                   *)
(* sync_provider_snapshot_delivery (one row per aggregate and provider).   *)
(* Each operator is one statement or transaction: it takes the tables and  *)
(* returns the new contents of the one it changes.                         *)
(*                                                                         *)
(* The checksum of a snapshot is its content: equal payloads and only      *)
(* those have equal checksums.  A delivery row repeats the version and     *)
(* checksum of the snapshot; the version is kept, and identifies both.     *)
(* Which locks have timed out and which retries are due is the caller's    *)
(* choice; attempts saturates at MaxAttempts.                              *)
(***************************************************************************)
EXTENDS Naturals, FiniteSets

CONSTANTS
  Bucket,       \* aggregate ids
  Provider,     \* the providers of providerDefinitions
  WorkerId,     \* one identity per worker process ever started
  NoWorker,     \* locked_by IS NULL
  MaxAttempts   \* config.maxAttempts

ASSUME NoWorkerAssumption == NoWorker \notin WorkerId
ASSUME MaxAttemptsAssumption == MaxAttempts \in Nat \ {0}

SnapshotStatus ==
  {"missing", "pending", "processing", "retry", "synced", "dead_letter", "disabled"}

(* A row is locked exactly while it is being processed. *)
SnapshotRow == {row \in [status : SnapshotStatus, version : Nat, attempts : 0..MaxAttempts,
                         lockedBy : WorkerId \cup {NoWorker}] :
                  (row.status = "processing") <=> (row.lockedBy # NoWorker)}

NoSnapshot == [version |-> 0, content |-> {}]

NewSnapshotRow(status, version) ==
  [status |-> status, version |-> version, attempts |-> 0, lockedBy |-> NoWorker]

NoSnapshotRow == NewSnapshotRow("missing", 0)

InitialStatus(p, enabled) == IF p \in enabled THEN "pending" ELSE "disabled"

(* upsert: the same checksum changes nothing. *)
Changed(snapshot, b, content) ==
  snapshot[b].version = 0 \/ snapshot[b].content # content

UpsertedSnapshot(snapshot, b, content) ==
  IF Changed(snapshot, b, content)
    THEN [snapshot EXCEPT ![b] = [version |-> @.version + 1, content |-> content]]
    ELSE snapshot

UpsertedRows(snapshot, delivery, b, content, enabled) ==
  IF Changed(snapshot, b, content)
    THEN [delivery EXCEPT ![b] = [p \in Provider |->
            NewSnapshotRow(InitialStatus(p, enabled), snapshot[b].version + 1)]]
    ELSE delivery

(* applyPolicy *)
PolicyRow(row, p, enabled) ==
  IF p \in enabled
    THEN IF row.status = "disabled" THEN [row EXCEPT !.status = "pending"] ELSE row
    ELSE [row EXCEPT !.lockedBy = NoWorker,
                     !.status = IF @ \in {"pending", "processing", "retry"}
                                  THEN "disabled" ELSE @]

AppliedSnapshotPolicy(snapshot, delivery, enabled) ==
  [b \in Bucket |-> [p \in Provider |->
     IF snapshot[b].version = 0 THEN delivery[b][p]
     ELSE IF delivery[b][p].status = "missing"
            THEN NewSnapshotRow(InitialStatus(p, enabled), snapshot[b].version)
            ELSE PolicyRow(delivery[b][p], p, enabled)]]

(* Mutant: locked_by is not reset. *)
ReleasedRow_KeepsOwner(row) == [row EXCEPT !.status = "retry"]

ReleasedRow(row) == [row EXCEPT !.status = "retry", !.lockedBy = NoWorker]

ReleasedExpiredSnapshots(delivery, ps, expired) ==
  [b \in Bucket |-> [p \in Provider |->
     IF p \in ps /\ b \in expired /\ delivery[b][p].status = "processing"
       THEN ReleasedRow(delivery[b][p]) ELSE delivery[b][p]]]

ReleasedSnapshotLocks(delivery, ps, w) ==
  [b \in Bucket |-> [p \in Provider |->
     IF p \in ps /\ delivery[b][p].status = "processing" /\ delivery[b][p].lockedBy = w
       THEN ReleasedRow(delivery[b][p]) ELSE delivery[b][p]]]

ClaimableSnapshots(delivery, p) ==
  {b \in Bucket : delivery[b][p].status \in {"pending", "retry"}}

ClaimedSnapshots(delivery, p, w, batch) ==
  [b \in Bucket |-> IF b \in batch
     THEN [delivery[b] EXCEPT ![p].status = "processing", ![p].lockedBy = w,
             ![p].attempts = IF @ < MaxAttempts THEN @ + 1 ELSE MaxAttempts]
     ELSE delivery[b]]

LockedBy(row, w) == row.status = "processing" /\ row.lockedBy = w

Settled(row, status) == [row EXCEPT !.status = status, !.lockedBy = NoWorker]

(* Mutant: whatever version the row has by now counts as pushed. *)
MarkedSynced_AnyVersion(delivery, p, w, items) ==
  [b \in Bucket |->
     IF LockedBy(delivery[b][p], w) /\ \E i \in items : i.bucket = b
       THEN [delivery[b] EXCEPT ![p] = Settled(@, "synced")] ELSE delivery[b]]

(* markSynced compares the version and checksum that were pushed. *)
MarkedSynced(delivery, p, w, items) ==
  [b \in Bucket |->
     IF /\ LockedBy(delivery[b][p], w)
        /\ \E i \in items : i.bucket = b /\ i.version = delivery[b][p].version
       THEN [delivery[b] EXCEPT ![p] = Settled(@, "synced")] ELSE delivery[b]]

(* markRetry and markDeadLetter compare the lock only.  attempts is the one
   the claim returned. *)
MarkedFailed(delivery, p, w, items, permanent) ==
  [b \in Bucket |->
     IF LockedBy(delivery[b][p], w) /\ \E i \in items : i.bucket = b
       THEN LET final == permanent \/ \E i \in items : i.bucket = b /\ i.final
            IN [delivery[b] EXCEPT ![p] = Settled(@, IF final THEN "dead_letter" ELSE "retry")]
       ELSE delivery[b]]

-----------------------------------------------------------------------------
(* Mutant: the provider overwrites whatever it has. *)
ProviderUpsert_Overwrites(stored, items) ==
  [b \in Bucket |->
     IF \E i \in items : i.bucket = b
       THEN LET i == CHOOSE j \in items : j.bucket = b
            IN [version |-> i.version, content |-> i.content]
       ELSE stored[b]]

(* snapshotBatchSql: a snapshot is overwritten by a newer version only. *)
ProviderUpsert(stored, items) ==
  [b \in Bucket |->
     IF \E i \in items : i.bucket = b /\ i.version > stored[b].version
       THEN LET i == CHOOSE j \in items : j.bucket = b
            IN [version |-> i.version, content |-> i.content]
       ELSE stored[b]]

(* ProviderConflictError: some item is not what the provider has now. *)
Conflicts(stored, items) ==
  \E i \in items : stored[i.bucket] # [version |-> i.version, content |-> i.content]
=============================================================================
