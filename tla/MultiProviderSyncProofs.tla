---------------------- MODULE MultiProviderSyncProofs ----------------------
(***************************************************************************)
(* Safety of the Multi-DB sync pipeline for every set of events, providers *)
(* and workers, every policy and every bound.                              *)
(***************************************************************************)
EXTENDS MultiProviderSync, TLAPS

(* What the statements of ProviderDelivery return: they keep the tables
   well-formed, they never take back an acknowledgement, and they keep a row
   for every provider. *)

Outbox == [Event -> OutboxStatus]

Delivery == [Event -> [Provider -> Row]]

(* The rows that the statements produce are rows of the table. *)
LEMMA RowTypes ==
  /\ \A status \in DeliveryStatus \ {"processing"} : NewRow(status) \in Row
  /\ \A row \in Row : Release(row) \in Row
  /\ \A row \in Row, p \in Provider, policy \in Policy : InsertOrIgnore(row, p, policy) \in Row
  /\ \A row \in Row, enabled \in BOOLEAN : PolicyUpdate(row, enabled) \in Row
<1>1. \A status \in DeliveryStatus \ {"processing"} : NewRow(status) \in Row
  BY MaxAttemptsAssumption DEF NewRow, Row, DeliveryStatus
<1>2. \A row \in Row : Release(row) \in Row
  BY DEF Release, Row, DeliveryStatus
<1>3. \A row \in Row, p \in Provider, policy \in Policy : InsertOrIgnore(row, p, policy) \in Row
  BY <1>1 DEF InsertOrIgnore, DeliveryStatus
<1>4. \A row \in Row, enabled \in BOOLEAN : PolicyUpdate(row, enabled) \in Row
  BY DEF PolicyUpdate, Row, DeliveryStatus
<1>5. QED
  BY <1>1, <1>2, <1>3, <1>4

(* enqueue, applyPolicy, the releases, the purge and the backfill keep the
   table of provider rows well-formed. *)
LEMMA DeliveryTypes ==
  ASSUME NEW rows \in Delivery, NEW statuses \in Outbox, NEW policy \in Policy
  PROVE  /\ \A e \in Event : EnsureForEvent(rows, e, policy) \in Delivery
         /\ AppliedPolicy(statuses, rows, policy) \in Delivery
         /\ \A ps, expired : ReleasedExpired(rows, ps, expired) \in Delivery
         /\ \A ps, w : ReleasedWorkerLocks(rows, ps, w) \in Delivery
         /\ \A old : PurgedDelivery(statuses, rows, old) \in Delivery
         /\ \A p \in Provider : \A events : Backfilled(rows, p, events) \in Delivery
<1>1. \A e \in Event : EnsureForEvent(rows, e, policy) \in Delivery
  BY RowTypes DEF EnsureForEvent, Delivery
<1>2. AppliedPolicy(statuses, rows, policy) \in Delivery
  <2> SUFFICES ASSUME NEW e \in Event, NEW p \in Provider
               PROVE  AppliedPolicy(statuses, rows, policy)[e][p] \in Row
    BY DEF AppliedPolicy, Delivery
  <2> DEFINE row == IF statuses[e] \in {"pending", "synced"}
                      THEN InsertOrIgnore(rows[e][p], p, policy) ELSE rows[e][p]
  <2>1. row \in Row
    BY RowTypes DEF Delivery
  <2>2. PolicyUpdate(row, p \in policy.enabled) \in Row
    BY <2>1, RowTypes, (p \in policy.enabled) \in BOOLEAN
  <2>3. QED
    BY <2>1, <2>2 DEF AppliedPolicy
<1>3. \A ps, expired : ReleasedExpired(rows, ps, expired) \in Delivery
  BY RowTypes DEF ReleasedExpired, Delivery
<1>4. \A ps, w : ReleasedWorkerLocks(rows, ps, w) \in Delivery
  BY RowTypes DEF ReleasedWorkerLocks, Delivery
<1>5. \A old : PurgedDelivery(statuses, rows, old) \in Delivery
  BY RowTypes DEF PurgedDelivery, NoRow, Delivery, DeliveryStatus
<1>6. \A p \in Provider : \A events : Backfilled(rows, p, events) \in Delivery
  BY RowTypes DEF Backfilled, Delivery, DeliveryStatus
<1>7. QED
  BY <1>1, <1>2, <1>3, <1>4, <1>5, <1>6

(* claimBatch and the settling statements keep it well-formed. *)
LEMMA LockTypes ==
  ASSUME NEW rows \in Delivery, NEW p \in Provider, NEW w \in WorkerId
  PROVE  /\ \A batch : Claimed(rows, p, w, batch) \in Delivery
         /\ \A events : \A status \in DeliveryStatus \ {"processing"} :
              Settle(rows, p, w, events, status) \in Delivery
<1>1. ASSUME NEW batch PROVE Claimed(rows, p, w, batch) \in Delivery
  BY MaxAttemptsAssumption, NoWorkerAssumption
     DEF Claimed, NextAttempt, Delivery, Row, DeliveryStatus
<1>2. ASSUME NEW events, NEW status \in DeliveryStatus \ {"processing"}
      PROVE Settle(rows, p, w, events, status) \in Delivery
  BY DEF Settle, Delivery, Row, DeliveryStatus
<1>3. QED
  BY <1>1, <1>2

(* The statements on sync_outbox keep its statuses. *)
LEMMA OutboxTypes ==
  ASSUME NEW rows, NEW statuses \in Outbox
  PROVE  /\ \A e \in Event : EnqueueOutbox(statuses, e) \in Outbox
         /\ \A e \in Event : RequeuedOutbox(statuses, e) \in Outbox
         /\ \A old : PurgedOutbox(statuses, old) \in Outbox
         /\ \A events : UpdatedCompletion(statuses, rows, events) \in Outbox
BY DEF Outbox, OutboxStatus, EnqueueOutbox, RequeuedOutbox, PurgedOutbox, UpdatedCompletion

(* Two tables that agree on which rows have the status. *)
Agree(before, after, status) ==
  \A e \in Event, p \in Provider :
    (before[e][p].status = status) <=> (after[e][p].status = status)

(* No statement but markSynced makes an acknowledgement, and none but the
   purge takes one back. *)
LEMMA KeepsAcknowledgements ==
  ASSUME NEW rows \in Delivery, NEW statuses \in Outbox, NEW policy \in Policy
  PROVE  /\ \A e \in Event : Agree(rows, EnsureForEvent(rows, e, policy), "synced")
         /\ Agree(rows, AppliedPolicy(statuses, rows, policy), "synced")
         /\ \A ps, expired : Agree(rows, ReleasedExpired(rows, ps, expired), "synced")
         /\ \A ps, w : Agree(rows, ReleasedWorkerLocks(rows, ps, w), "synced")
         /\ \A p \in Provider : \A events \in SUBSET BackfillCandidates(statuses, rows, p) :
              Agree(rows, Backfilled(rows, p, events), "synced")
         /\ \A p \in Provider, w \in WorkerId :
              \A batch \in SUBSET Claimable(statuses, rows, p) :
                Agree(rows, Claimed(rows, p, w, batch), "synced")
         /\ \A p \in Provider, w \in WorkerId : \A events, status :
              status # "synced" => Agree(rows, Settle(rows, p, w, events, status), "synced")
<1>1. \A e \in Event : Agree(rows, EnsureForEvent(rows, e, policy), "synced")
  BY DEF Agree, EnsureForEvent, InsertOrIgnore, NewRow, Delivery
<1>2. Agree(rows, AppliedPolicy(statuses, rows, policy), "synced")
  <2> SUFFICES ASSUME NEW e \in Event, NEW p \in Provider
               PROVE  (rows[e][p].status = "synced")
                        <=> (AppliedPolicy(statuses, rows, policy)[e][p].status = "synced")
    BY DEF Agree
  <2>1. rows[e][p] \in Row
    BY DEF Delivery
  <2>2. QED
    BY <2>1 DEF AppliedPolicy, InsertOrIgnore, NewRow, PolicyUpdate, Row
<1>3. \A ps, expired : Agree(rows, ReleasedExpired(rows, ps, expired), "synced")
  BY DEF Agree, ReleasedExpired, Release, Delivery, Row
<1>4. \A ps, w : Agree(rows, ReleasedWorkerLocks(rows, ps, w), "synced")
  BY DEF Agree, ReleasedWorkerLocks, Release, Delivery, Row
<1>5. \A p \in Provider : \A events \in SUBSET BackfillCandidates(statuses, rows, p) :
        Agree(rows, Backfilled(rows, p, events), "synced")
  BY DEF Agree, BackfillCandidates, Backfilled, NewRow, Delivery, Row
<1>6. \A p \in Provider, w \in WorkerId : \A batch \in SUBSET Claimable(statuses, rows, p) :
        Agree(rows, Claimed(rows, p, w, batch), "synced")
  BY DEF Agree, Claimable, Claimed, Delivery, Row
<1>7. \A p \in Provider, w \in WorkerId : \A events, status :
        status # "synced" => Agree(rows, Settle(rows, p, w, events, status), "synced")
  BY DEF Agree, Settle, HeldBy, Delivery, Row
<1>8. QED
  BY <1>1, <1>2, <1>3, <1>4, <1>5, <1>6, <1>7

(* Only enqueue and applyPolicy insert rows, and only the purge deletes any. *)
LEMMA KeepsRows ==
  ASSUME NEW rows \in Delivery, NEW statuses \in Outbox
  PROVE  /\ \A ps, expired : Agree(rows, ReleasedExpired(rows, ps, expired), "missing")
         /\ \A ps, w : Agree(rows, ReleasedWorkerLocks(rows, ps, w), "missing")
         /\ \A p \in Provider, w \in WorkerId :
              \A batch \in SUBSET Claimable(statuses, rows, p) :
                Agree(rows, Claimed(rows, p, w, batch), "missing")
         /\ \A p \in Provider, w \in WorkerId : \A events, status :
              status # "missing" => Agree(rows, Settle(rows, p, w, events, status), "missing")
<1>1. \A ps, expired : Agree(rows, ReleasedExpired(rows, ps, expired), "missing")
  BY DEF Agree, ReleasedExpired, Release, Delivery, Row
<1>2. \A ps, w : Agree(rows, ReleasedWorkerLocks(rows, ps, w), "missing")
  BY DEF Agree, ReleasedWorkerLocks, Release, Delivery, Row
<1>3. \A p \in Provider, w \in WorkerId : \A batch \in SUBSET Claimable(statuses, rows, p) :
        Agree(rows, Claimed(rows, p, w, batch), "missing")
  BY DEF Agree, Claimable, Claimed, Delivery, Row
<1>4. \A p \in Provider, w \in WorkerId : \A events, status :
        status # "missing" => Agree(rows, Settle(rows, p, w, events, status), "missing")
  BY DEF Agree, Settle, HeldBy, Delivery, Row
<1>5. QED
  BY <1>1, <1>2, <1>3, <1>4

(* markSynced acknowledges exactly the given rows that the worker holds. *)
LEMMA MarkedSyncedRows ==
  ASSUME NEW rows \in Delivery, NEW p \in Provider, NEW w \in WorkerId, NEW events,
         NEW e \in Event, NEW q \in Provider
  PROVE  MarkedSynced(rows, p, w, events)[e][q].status = "synced"
           <=> \/ rows[e][q].status = "synced"
               \/ q = p /\ e \in events /\ HeldBy(rows, e, p, w)
BY DEF MarkedSynced, Settle, HeldBy, Delivery, Row

(* A row that is locked after a statement was locked by the same worker
   before it: only claimBatch locks rows. *)
SameLocks(before, after) ==
  \A e \in Event, p \in Provider :
    after[e][p].status = "processing" => after[e][p] = before[e][p]

LEMMA KeepsLocks ==
  ASSUME NEW rows \in Delivery, NEW statuses \in Outbox, NEW policy \in Policy
  PROVE  /\ \A e \in Event : SameLocks(rows, EnsureForEvent(rows, e, policy))
         /\ SameLocks(rows, AppliedPolicy(statuses, rows, policy))
         /\ \A ps, expired : SameLocks(rows, ReleasedExpired(rows, ps, expired))
         /\ \A ps, w : SameLocks(rows, ReleasedWorkerLocks(rows, ps, w))
         /\ \A old : SameLocks(rows, PurgedDelivery(statuses, rows, old))
         /\ \A p \in Provider : \A events : SameLocks(rows, Backfilled(rows, p, events))
         /\ \A p \in Provider, w \in WorkerId : \A events, status :
              status # "processing" => SameLocks(rows, Settle(rows, p, w, events, status))
<1>1. \A e \in Event : SameLocks(rows, EnsureForEvent(rows, e, policy))
  BY DEF SameLocks, EnsureForEvent, InsertOrIgnore, NewRow, Delivery
<1>2. SameLocks(rows, AppliedPolicy(statuses, rows, policy))
  <2> SUFFICES ASSUME NEW e \in Event, NEW p \in Provider,
                      AppliedPolicy(statuses, rows, policy)[e][p].status = "processing"
               PROVE  AppliedPolicy(statuses, rows, policy)[e][p] = rows[e][p]
    BY DEF SameLocks
  <2> DEFINE row == IF statuses[e] \in {"pending", "synced"}
                      THEN InsertOrIgnore(rows[e][p], p, policy) ELSE rows[e][p]
  <2>1. row \in Row
    BY RowTypes DEF Delivery
  <2>2. row.status = "processing" => row = rows[e][p]
    BY DEF InsertOrIgnore, NewRow
  <2>3. AppliedPolicy(statuses, rows, policy)[e][p] =
          IF p \in policy.listed /\ row.status # "missing"
            THEN PolicyUpdate(row, p \in policy.enabled) ELSE row
    BY DEF AppliedPolicy
  <2> HIDE DEF row
  <2>4. \A enabled \in BOOLEAN : PolicyUpdate(row, enabled).status = "processing" =>
          PolicyUpdate(row, enabled) = row
    BY <2>1 DEF PolicyUpdate, Row
  <2>5. QED
    BY <2>2, <2>3, <2>4, (p \in policy.enabled) \in BOOLEAN
<1>3. \A ps, expired : SameLocks(rows, ReleasedExpired(rows, ps, expired))
  BY DEF SameLocks, ReleasedExpired, Release, Delivery, Row
<1>4. \A ps, w : SameLocks(rows, ReleasedWorkerLocks(rows, ps, w))
  BY DEF SameLocks, ReleasedWorkerLocks, Release, Delivery, Row
<1>5. \A old : SameLocks(rows, PurgedDelivery(statuses, rows, old))
  BY DEF SameLocks, PurgedDelivery, NoRow, NewRow, Delivery
<1>6. \A p \in Provider : \A events : SameLocks(rows, Backfilled(rows, p, events))
  BY DEF SameLocks, Backfilled, NewRow, Delivery
<1>7. \A p \in Provider, w \in WorkerId : \A events, status :
        status # "processing" => SameLocks(rows, Settle(rows, p, w, events, status))
  BY DEF SameLocks, Settle, HeldBy, Delivery, Row
<1>8. QED
  BY <1>1, <1>2, <1>3, <1>4, <1>5, <1>6, <1>7

(* Rows hang on an envelope: every statement that inserts rows does so for
   envelopes that are there, and deleting an envelope deletes its rows. *)
NoOrphans(statuses, rows) ==
  \A e \in Event : statuses[e] = "absent" => \A p \in Provider : rows[e][p].status = "missing"

LEMMA KeepsNoOrphans ==
  ASSUME NEW rows \in Delivery, NEW statuses \in Outbox, NEW policy \in Policy,
         NoOrphans(statuses, rows)
  PROVE  /\ \A e \in Event :
              NoOrphans(EnqueueOutbox(statuses, e), EnsureForEvent(rows, e, policy))
         /\ NoOrphans(statuses, AppliedPolicy(statuses, rows, policy))
         /\ \A old : NoOrphans(PurgedOutbox(statuses, old), PurgedDelivery(statuses, rows, old))
         /\ \A p \in Provider : \A events \in SUBSET BackfillCandidates(statuses, rows, p) :
              NoOrphans(statuses, Backfilled(rows, p, events))
         /\ \A p \in Provider, w \in WorkerId :
              \A batch \in SUBSET Claimable(statuses, rows, p) :
                NoOrphans(statuses, Claimed(rows, p, w, batch))
<1>1. \A e \in Event : NoOrphans(EnqueueOutbox(statuses, e), EnsureForEvent(rows, e, policy))
  BY DEF NoOrphans, EnqueueOutbox, EnsureForEvent, Outbox, Delivery
<1>2. NoOrphans(statuses, AppliedPolicy(statuses, rows, policy))
  BY DEF NoOrphans, AppliedPolicy
<1>3. \A old : NoOrphans(PurgedOutbox(statuses, old), PurgedDelivery(statuses, rows, old))
  BY DEF NoOrphans, PurgedOutbox, PurgedDelivery, NoRow, NewRow
<1>4. \A p \in Provider : \A events \in SUBSET BackfillCandidates(statuses, rows, p) :
        NoOrphans(statuses, Backfilled(rows, p, events))
  BY DEF NoOrphans, BackfillCandidates, Backfilled
<1>5. \A p \in Provider, w \in WorkerId : \A batch \in SUBSET Claimable(statuses, rows, p) :
        NoOrphans(statuses, Claimed(rows, p, w, batch))
  BY DEF NoOrphans, Claimable, Claimed
<1>6. QED
  BY <1>1, <1>2, <1>3, <1>4, <1>5
-----------------------------------------------------------------------------
(* The pipeline *)

(* The policies of the constants are policies. *)
LEMMA PolicyTypes ==
  BotPolicies \subseteq Policy /\ WorkerPolicies \subseteq Policy /\ PolicyOff \in Policy
BY PoliciesAssumption DEF Policy, PolicyOn, PolicyOff

(* What happens to a pushEvents call leaves it a pushEvents call. *)
LEMMA PushTypes ==
  ASSUME NEW x \in Push
  PROVE  /\ [x EXCEPT !.awaited = FALSE] \in Push
         /\ \A e \in Event : [x EXCEPT !.items = @ \ {e}, !.final = @ \ {e}] \in Push
         /\ \A ok, final \in SUBSET Event :
              [x EXCEPT !.returned = TRUE, !.ok = ok, !.final = final] \in Push
BY DEF Push

(* A local error breaks the round and may leave a circuit stuck; the worker
   goes on otherwise. *)
LEMMA ThrowTypes ==
  ASSUME worker \in [WorkerId -> WorkerState], NEW probe \in BOOLEAN
  PROVE  /\ \A w \in WorkerId, p \in Provider : ClaimThrows(w, p, probe) =>
              /\ worker' \in [WorkerId -> WorkerState]
              /\ \A v \in WorkerId : /\ worker'[v].phase = worker[v].phase
                                     /\ worker'[v].todo \subseteq worker[v].todo
         /\ \A x \in Push :
              /\ AfterThrow(x, probe) \in [WorkerId -> WorkerState]
              /\ \A v \in WorkerId : /\ AfterThrow(x, probe)[v].phase = worker[v].phase
                                     /\ AfterThrow(x, probe)[v].todo = worker[v].todo
<1>0. \A w \in WorkerId, p \in Provider :
        StuckAfter(worker[w].stuck, p, probe) \in SUBSET Provider
  BY DEF StuckAfter, WorkerState
<1>1. ASSUME NEW w \in WorkerId, NEW p \in Provider, ClaimThrows(w, p, probe)
      PROVE  /\ worker' \in [WorkerId -> WorkerState]
             /\ \A v \in WorkerId : /\ worker'[v].phase = worker[v].phase
                                    /\ worker'[v].todo \subseteq worker[v].todo
  <2> DEFINE stuck == StuckAfter(worker[w].stuck, p, probe)
             after == [worker[w] EXCEPT !.todo = worker[w].todo \ {p}, !.broken = TRUE,
                                        !.stuck = stuck]
  <2>1. worker' = [worker EXCEPT ![w] = after]
    BY <1>1, Zenon DEF ClaimThrows
  <2>2. stuck \in SUBSET Provider
    BY <1>0
  <2> HIDE DEF stuck
  <2>3. /\ after \in WorkerState
        /\ after.phase = worker[w].phase /\ after.todo \subseteq worker[w].todo
    BY <2>2 DEF WorkerState
  <2> HIDE DEF after
  <2>4. QED
    BY <2>1, <2>3
<1>2. ASSUME NEW x \in Push
      PROVE  /\ AfterThrow(x, probe) \in [WorkerId -> WorkerState]
             /\ \A v \in WorkerId : /\ AfterThrow(x, probe)[v].phase = worker[v].phase
                                    /\ AfterThrow(x, probe)[v].todo = worker[v].todo
  <2>1. /\ x.worker \in WorkerId /\ x.provider \in Provider /\ x.awaited \in BOOLEAN
    BY <1>2 DEF Push
  <2> DEFINE broken == worker[x.worker].broken \/ x.awaited
             stuck == StuckAfter(worker[x.worker].stuck, x.provider, probe)
  <2>2. broken \in BOOLEAN
    BY <2>1 DEF WorkerState
  <2>3. stuck \in SUBSET Provider
    BY <1>0, <2>1
  <2>4. AfterThrow(x, probe) =
          [worker EXCEPT ![x.worker] =
             [worker[x.worker] EXCEPT !.broken = broken, !.stuck = stuck]]
    BY Zenon DEF AfterThrow
  <2> DEFINE after == [worker[x.worker] EXCEPT !.broken = broken, !.stuck = stuck]
  <2> HIDE DEF broken, stuck
  <2>5. /\ after \in WorkerState
        /\ after.phase = worker[x.worker].phase /\ after.todo = worker[x.worker].todo
    BY <2>1, <2>2, <2>3 DEF WorkerState
  <2>6. AfterThrow(x, probe) = [worker EXCEPT ![x.worker] = after]
    BY <2>4
  <2> HIDE DEF after
  <2>7. QED
    BY <2>1, <2>5, <2>6
<1>3. QED
  BY <1>1, <1>2

(* Every reachable state is well-typed; in particular a provider row is
   locked exactly while it is being processed. *)
THEOREM TypeCorrect == Spec => []TypeOK
<1>1. Init => TypeOK
  <2> SUFFICES ASSUME Init PROVE TypeOK
    OBVIOUS
  <2>1. outbox \in Outbox /\ delivery \in Delivery /\ replica \in [Provider -> SUBSET Event]
    BY RowTypes DEF Init, NoRow, Outbox, OutboxStatus, Delivery, DeliveryStatus
  <2>2. botPolicy \in Policy /\ worker \in [WorkerId -> WorkerState] /\ pushes \subseteq Push
    BY PolicyTypes DEF Init, WorkerState
  <2>3. QED
    BY <2>1, <2>2 DEF TypeOK, Outbox, Delivery
<1>2. TypeOK /\ [Next]_vars => TypeOK'
  <2> SUFFICES ASSUME TypeOK, [Next]_vars PROVE TypeOK'
    OBVIOUS
  <2>0. /\ outbox \in Outbox /\ delivery \in Delivery
        /\ replica \in [Provider -> SUBSET Event] /\ botPolicy \in Policy
        /\ worker \in [WorkerId -> WorkerState] /\ pushes \subseteq Push
    BY DEF TypeOK, Outbox, Delivery
  <2> DEFINE Typed == /\ outbox' \in Outbox /\ delivery' \in Delivery
                      /\ replica' \in [Provider -> SUBSET Event] /\ botPolicy' \in Policy
                      /\ worker' \in [WorkerId -> WorkerState] /\ pushes' \subseteq Push
  <2> SUFFICES Typed
    BY DEF TypeOK, Outbox, Delivery
  <2>1. ASSUME NEW e \in Event, Enqueue(e) PROVE Typed
    BY <2>0, <2>1, DeliveryTypes, OutboxTypes DEF Enqueue
  <2>2. ASSUME NEW policy \in BotPolicies, RestartBot(policy) PROVE Typed
    BY <2>0, <2>2, DeliveryTypes, PolicyTypes DEF RestartBot
  <2>3. ASSUME NEW p \in Provider, NEW events \in SUBSET Event, Backfill(p, events) PROVE Typed
    BY <2>0, <2>3, DeliveryTypes DEF Backfill
  <2>4. ASSUME NEW e \in Event, NEW policy \in BotPolicies, RequeueDeadLetter(e, policy)
        PROVE  Typed
    BY <2>0, <2>4, DeliveryTypes, OutboxTypes, PolicyTypes DEF RequeueDeadLetter
  <2>5. ASSUME NEW e \in Event, NEW status \in {"synced", "dead_letter"}, LegacySettle(e, status)
        PROVE  Typed
    BY <2>0, <2>5 DEF LegacySettle, Outbox, OutboxStatus
  <2>6. ASSUME NEW old \in SUBSET Event, LegacyRetire(old) PROVE Typed
    BY <2>0, <2>6, DeliveryTypes, OutboxTypes DEF LegacyRetire
  <2>7. ASSUME NEW w \in WorkerId, NEW policy \in WorkerPolicies, NEW expired \in SUBSET Event,
               StartWorker(w, policy, expired)
        PROVE  Typed
    <3>1. delivery' \in Delivery
      BY <2>0, <2>7, DeliveryTypes, PolicyTypes DEF StartWorker
    <3>2. worker' \in [WorkerId -> WorkerState]
      BY <2>0, <2>7, PolicyTypes DEF StartWorker, WorkerState
    <3>3. QED
      BY <2>0, <2>7, <3>1, <3>2 DEF StartWorker
  <2>8. ASSUME NEW w \in WorkerId, NEW old \in SUBSET Event, StartRound(w, old) PROVE Typed
    <3>1. outbox' \in Outbox /\ delivery' \in Delivery
      BY <2>0, <2>8, DeliveryTypes, OutboxTypes DEF StartRound
    <3>2. worker' \in [WorkerId -> WorkerState]
      <4>1. worker[w] \in WorkerState
        BY <2>0
      <4>2. worker[w].policy.enabled \in SUBSET Provider
        BY <4>1 DEF WorkerState, Policy
      <4>3. [worker[w] EXCEPT !.todo = worker[w].policy.enabled, !.broken = FALSE] \in WorkerState
        BY <4>1, <4>2 DEF WorkerState
      <4>4. worker' = [worker EXCEPT ![w] = [worker[w] EXCEPT !.todo = worker[w].policy.enabled,
                                                             !.broken = FALSE]]
        BY <2>0, <2>8 DEF StartRound
      <4>5. QED
        BY <2>0, <4>3, <4>4
    <3>3. pushes' \subseteq Push
      BY <2>0, <2>8, PushTypes DEF StartRound
    <3>4. QED
      BY <2>0, <2>8, <3>1, <3>2, <3>3 DEF StartRound
  <2>9. ASSUME NEW w \in WorkerId, NEW p \in Provider,
               NEW expired \in SUBSET Event, NEW batch \in SUBSET Event,
               Claim(w, p, expired, batch)
        PROVE  Typed
    <3>1. delivery' \in Delivery
      BY <2>0, <2>9, DeliveryTypes, LockTypes DEF Claim
    <3>2. worker' \in [WorkerId -> WorkerState]
      BY <2>0, <2>9 DEF Claim, WorkerState
    <3>3. pushes' \subseteq Push
      <4> DEFINE claimed == Claimed(ReleasedExpired(delivery, {p}, expired), p, w, batch)
      <4>1. NewPush(w, p, claimed, batch) \in Push
        BY DEF NewPush, Push
      <4>2. QED
        BY <2>0, <2>9, <4>1 DEF Claim
    <3>4. QED
      BY <2>0, <2>9, <3>1, <3>2, <3>3 DEF Claim
  <2>10. ASSUME NEW w \in WorkerId, NEW p \in Provider, NEW expired \in SUBSET Event,
                ClaimNothing(w, p, expired)
         PROVE  Typed
    <3>1. delivery' \in Delivery
      BY <2>0, <2>10, DeliveryTypes DEF ClaimNothing
    <3>2. worker' \in [WorkerId -> WorkerState]
      BY <2>0, <2>10 DEF ClaimNothing, WorkerState
    <3>3. QED
      BY <2>0, <2>10, <3>1, <3>2 DEF ClaimNothing
  <2>11. ASSUME NEW w \in WorkerId, NEW p \in Provider, CircuitOpen(w, p) PROVE Typed
    BY <2>0, <2>11 DEF CircuitOpen, WorkerState
  <2>12. ASSUME NEW w \in WorkerId, NEW p \in Provider, NEW probe \in BOOLEAN,
                ClaimThrows(w, p, probe)
         PROVE  Typed
    BY <2>0, <2>12, ThrowTypes DEF ClaimThrows
  <2>13. ASSUME NEW w \in WorkerId, StopWorker(w) PROVE Typed
    <3>1. delivery' \in Delivery
      BY <2>0, <2>13, DeliveryTypes DEF StopWorker
    <3>2. worker' \in [WorkerId -> WorkerState] /\ pushes' \subseteq Push
      <4>1. [worker[w] EXCEPT !.phase = "gone", !.broken = FALSE, !.stuck = {}] \in WorkerState
        BY <2>0 DEF WorkerState
      <4>2. QED
        BY <2>0, <2>13, <4>1 DEF StopWorker
    <3>3. QED
      BY <2>0, <2>13, <3>1, <3>2 DEF StopWorker
  <2>14. ASSUME NEW w \in WorkerId, CrashWorker(w) PROVE Typed
    BY <2>0, <2>14 DEF CrashWorker, WorkerState
  <2>15. ASSUME NEW x \in pushes, NEW stored \in SUBSET Event, ProviderStores(x, stored)
         PROVE  Typed
    BY <2>0, <2>15 DEF ProviderStores
  <2>16. ASSUME NEW x \in pushes, NEW ok \in SUBSET Event, NEW permanent \in SUBSET Event,
                PushReturns(x, ok, permanent)
         PROVE  Typed
    <3>1. x \in Push
      BY <2>0
    <3>2. (x.final \cup permanent) \ ok \in SUBSET Event
      BY <3>1 DEF Push
    <3>3. [x EXCEPT !.returned = TRUE, !.ok = ok,
                    !.final = (@ \cup permanent) \ ok] \in Push
      BY <3>1, <3>2, PushTypes
    <3>4. QED
      BY <2>0, <2>16, <3>3 DEF PushReturns
  <2>17. ASSUME NEW x \in pushes, NEW e \in Event, SettleFailure(x, e) PROVE Typed
    <3>1. x.provider \in Provider /\ x.worker \in WorkerId
      BY <2>0 DEF Push
    <3>2. delivery' \in Delivery
      BY <2>0, <2>17, <3>1, LockTypes
         DEF SettleFailure, MarkedDeadLetter, MarkedRetry, DeliveryStatus
    <3>3. pushes' \subseteq Push
      BY <2>0, <2>17, PushTypes DEF SettleFailure
    <3>4. QED
      BY <2>0, <2>17, <3>2, <3>3 DEF SettleFailure
  <2>18. ASSUME NEW x \in pushes, NEW throws \in BOOLEAN, NEW probe \in BOOLEAN,
                SettleSuccess(x, throws, probe)
         PROVE  Typed
    <3>1. x.provider \in Provider /\ x.worker \in WorkerId
      BY <2>0 DEF Push
    <3>2. delivery' \in Delivery /\ outbox' \in Outbox
      BY <2>0, <2>18, <3>1, LockTypes, OutboxTypes
         DEF SettleSuccess, CompletedOutbox, MarkedSynced, DeliveryStatus
    <3>3. worker' \in [WorkerId -> WorkerState]
      BY <2>0, <2>18, ThrowTypes DEF SettleSuccess
    <3>4. QED
      BY <2>0, <2>18, <3>2, <3>3 DEF SettleSuccess
  <2>19. ASSUME NEW x \in pushes, NEW probe \in BOOLEAN, SettleThrows(x, probe) PROVE Typed
    <3>1. x.worker \in WorkerId
      BY <2>0 DEF Push
    <3>2. worker' \in [WorkerId -> WorkerState]
      BY <2>0, <2>19, ThrowTypes DEF SettleThrows
    <3>3. QED
      BY <2>0, <2>19, <3>2 DEF SettleThrows
  <2>20. CASE UNCHANGED vars
    BY <2>0, <2>20 DEF vars
  <2>21. QED
    BY <2>1, <2>2, <2>3, <2>4, <2>5, <2>6, <2>7, <2>8, <2>9, <2>10, <2>11, <2>12, <2>13,
       <2>14, <2>15, <2>16, <2>17, <2>18, <2>19, <2>20
       DEF Next, BotStep, OperatorStep, LegacyStep, WorkerStep, PushStep
<1>3. QED
  BY <1>1, <1>2, PTL DEF Spec
-----------------------------------------------------------------------------
(* How acknowledgements come and go in one step: markSynced makes them from
   the answer of a push, for rows its worker holds, and then looks whether
   the events are complete; only the purge of the envelope takes them back. *)
Acknowledges ==
  \A e \in Event, p \in Provider :
    /\ delivery'[e][p].status = "synced" =>
         \/ delivery[e][p].status = "synced"
         \/ \E x \in pushes : /\ x.provider = p /\ e \in x.ok
                           /\ HeldBy(delivery, e, p, x.worker)
                           /\ outbox' = CompletedOutbox(x)
                           /\ delivery' = MarkedSynced(delivery, p, x.worker, x.ok)
    /\ delivery[e][p].status = "synced" =>
         delivery'[e][p].status = "synced" \/ outbox'[e] = "absent"

LEMMA AcknowledgingSteps ==
  ASSUME TypeOK, [Next]_vars
  PROVE  Acknowledges
<1>0. /\ outbox \in Outbox /\ delivery \in Delivery /\ botPolicy \in Policy
      /\ worker \in [WorkerId -> WorkerState] /\ pushes \subseteq Push
  BY DEF TypeOK, Outbox, Delivery
<1>1. Agree(delivery, delivery', "synced") => Acknowledges
  BY DEF Agree, Acknowledges
<1>2. ASSUME NEW e \in Event, Enqueue(e) PROVE Acknowledges
  BY <1>0, <1>1, <1>2, KeepsAcknowledgements DEF Enqueue
<1>3. ASSUME NEW policy \in BotPolicies,
             RestartBot(policy) \/ \E e \in Event : RequeueDeadLetter(e, policy)
      PROVE  Acknowledges
  BY <1>0, <1>1, <1>3, KeepsAcknowledgements, PolicyTypes DEF RestartBot, RequeueDeadLetter
<1>4. ASSUME NEW p \in Provider, NEW events \in SUBSET Event, Backfill(p, events)
      PROVE  Acknowledges
  BY <1>0, <1>1, <1>4, KeepsAcknowledgements DEF Backfill
<1>5. ASSUME NEW old \in SUBSET Event,
             LegacyRetire(old) \/ \E w \in WorkerId : StartRound(w, old)
      PROVE  Acknowledges
  <2>1. outbox' = PurgedOutbox(outbox, old) /\ delivery' = PurgedDelivery(outbox, delivery, old)
    BY <1>5 DEF LegacyRetire, StartRound
  <2>2. ASSUME NEW e \in Event, NEW p \in Provider
        PROVE  IF e \in old \cap Purgeable(outbox)
                 THEN outbox'[e] = "absent" /\ delivery'[e][p].status = "missing"
                 ELSE delivery'[e][p].status = delivery[e][p].status
    BY <2>1 DEF PurgedOutbox, PurgedDelivery, NoRow, NewRow
  <2>3. QED
    BY <2>2 DEF Acknowledges
<1>6. ASSUME NEW w \in WorkerId, NEW policy \in WorkerPolicies, NEW expired \in SUBSET Event,
             StartWorker(w, policy, expired)
      PROVE  Acknowledges
  <2> DEFINE applied == AppliedPolicy(outbox, delivery, policy)
  <2>1. applied \in Delivery /\ Agree(delivery, applied, "synced")
    BY <1>0, DeliveryTypes, KeepsAcknowledgements, PolicyTypes
  <2>2. delivery' = ReleasedExpired(applied, policy.enabled, expired)
    BY <1>6 DEF StartWorker
  <2> HIDE DEF applied
  <2>3. Agree(applied, delivery', "synced")
    BY <1>0, <2>1, <2>2, KeepsAcknowledgements
  <2>4. QED
    BY <1>1, <2>1, <2>3 DEF Agree
<1>7. ASSUME NEW w \in WorkerId, NEW p \in Provider,
             NEW expired \in SUBSET Event, NEW batch \in SUBSET Event,
             Claim(w, p, expired, batch)
      PROVE  Acknowledges
  <2> DEFINE released == ReleasedExpired(delivery, {p}, expired)
  <2>1. released \in Delivery /\ Agree(delivery, released, "synced")
    BY <1>0, DeliveryTypes, KeepsAcknowledgements
  <2>2. delivery' = Claimed(released, p, w, batch) /\ batch \subseteq Claimable(outbox, released, p)
    BY <1>7 DEF Claim, Found
  <2> HIDE DEF released
  <2>3. Agree(released, delivery', "synced")
    BY <1>0, <2>1, <2>2, KeepsAcknowledgements
  <2>4. QED
    BY <1>1, <2>1, <2>3 DEF Agree
<1>8. ASSUME NEW w \in WorkerId, NEW p \in Provider, NEW expired \in SUBSET Event,
             ClaimNothing(w, p, expired)
      PROVE  Acknowledges
  BY <1>0, <1>1, <1>8, KeepsAcknowledgements DEF ClaimNothing
<1>9. ASSUME NEW w \in WorkerId, StopWorker(w) PROVE Acknowledges
  BY <1>0, <1>1, <1>9, KeepsAcknowledgements DEF StopWorker
<1>10. ASSUME NEW x \in pushes, NEW e \in Event, SettleFailure(x, e) PROVE Acknowledges
  <2>1. x.provider \in Provider /\ x.worker \in WorkerId
    BY <1>0 DEF Push
  <2>2. QED
    BY <1>0, <1>1, <1>10, <2>1, KeepsAcknowledgements
       DEF SettleFailure, MarkedDeadLetter, MarkedRetry
<1>11. ASSUME NEW x \in pushes, NEW throws \in BOOLEAN, NEW probe \in BOOLEAN,
             SettleSuccess(x, throws, probe)
       PROVE  Acknowledges
  <2>1. x.provider \in Provider /\ x.worker \in WorkerId
    BY <1>0 DEF Push
  <2>2. /\ delivery' = MarkedSynced(delivery, x.provider, x.worker, x.ok)
        /\ outbox' = CompletedOutbox(x)
    BY <1>11 DEF SettleSuccess
  <2>3. QED
    BY <1>0, <2>1, <2>2, MarkedSyncedRows DEF Acknowledges
<1>12. ASSUME delivery' = delivery PROVE Acknowledges
  BY <1>12 DEF Acknowledges
<1>13. QED
  BY <1>2, <1>3, <1>4, <1>5, <1>6, <1>7, <1>8, <1>9, <1>10, <1>11, <1>12
     DEF Next, BotStep, OperatorStep, LegacyStep, WorkerStep, PushStep, vars,
         LegacySettle, CircuitOpen, ClaimThrows, CrashWorker, ProviderStores, PushReturns,
         SettleThrows

(* What a step does to the envelopes. *)
LEMMA OutboxSteps ==
  ASSUME [Next]_vars
  PROVE  \/ outbox' = outbox
         \/ \E e \in Event : Enqueue(e) /\ outbox' = EnqueueOutbox(outbox, e)
         \/ \E e \in Event : outbox' = RequeuedOutbox(outbox, e)
         \/ \E e \in Event, status \in {"synced", "dead_letter"} :
              /\ LegacyWorker /\ outbox[e] = "pending"
              /\ LegacySettle(e, status) /\ outbox' = [outbox EXCEPT ![e] = status]
         \/ \E old \in SUBSET Event : /\ outbox' = PurgedOutbox(outbox, old)
                                      /\ delivery' = PurgedDelivery(outbox, delivery, old)
         \/ \E x \in pushes, throws, probe \in BOOLEAN :
              SettleSuccess(x, throws, probe) /\ outbox' = CompletedOutbox(x)
<1>1. CASE BotStep
  BY <1>1 DEF BotStep, Enqueue, RestartBot
<1>2. CASE OperatorStep
  BY <1>2 DEF OperatorStep, Backfill, RequeueDeadLetter
<1>3. CASE LegacyStep
  BY <1>3 DEF LegacyStep, LegacyMayRun, LegacySettle, LegacyRetire
<1>4. ASSUME NEW w \in WorkerId, NEW old \in SUBSET Event, StartRound(w, old)
      PROVE  outbox' = PurgedOutbox(outbox, old) /\ delivery' = PurgedDelivery(outbox, delivery, old)
  BY <1>4 DEF StartRound
<1>5. ASSUME NEW w \in WorkerId, WorkerStep(w),
             ~\E old \in SUBSET Event : StartRound(w, old)
      PROVE  outbox' = outbox
  BY <1>5 DEF WorkerStep, StartWorker, Claim, ClaimNothing, CircuitOpen, ClaimThrows,
              StopWorker, CrashWorker
<1>6. ASSUME NEW x \in pushes, NEW throws \in BOOLEAN, NEW probe \in BOOLEAN,
             SettleSuccess(x, throws, probe)
      PROVE  outbox' = CompletedOutbox(x)
  BY <1>6 DEF SettleSuccess
<1>7. ASSUME NEW x \in pushes, PushStep(x), ~\E throws, probe \in BOOLEAN : SettleSuccess(x, throws, probe)
      PROVE  outbox' = outbox
  BY <1>7 DEF PushStep, ProviderStores, PushReturns, SettleFailure, SettleThrows
<1>8. QED
  BY <1>1, <1>2, <1>3, <1>4, <1>5, <1>6, <1>7 DEF Next, vars

(* What providers and answers hold in one step: nothing stored is forgotten,
   and an answer reports only what its provider has stored. *)
LEMMA ReplicaSteps ==
  ASSUME TypeOK, [Next]_vars
  PROVE  /\ \A p \in Provider : replica[p] \subseteq replica'[p]
         /\ \A y \in pushes' : \/ \E x \in pushes : y.provider = x.provider /\ y.ok = x.ok
                               \/ y.ok \subseteq replica[y.provider]
<1> DEFINE Monotone == \A p \in Provider : replica[p] \subseteq replica'[p]
           Reported == \A y \in pushes' : \/ \E x \in pushes : y.provider = x.provider /\ y.ok = x.ok
                                          \/ y.ok \subseteq replica[y.provider]
<1>0. /\ replica \in [Provider -> SUBSET Event] /\ pushes \subseteq Push
  BY DEF TypeOK
<1>1. ASSUME UNCHANGED replica, pushes' \subseteq pushes PROVE Monotone /\ Reported
  BY <1>1
<1>2. ASSUME NEW w \in WorkerId, NEW old \in SUBSET Event, StartRound(w, old)
      PROVE  Monotone /\ Reported
  BY <1>0, <1>2 DEF StartRound, Push
<1>3. ASSUME NEW w \in WorkerId, NEW p \in Provider,
             NEW expired \in SUBSET Event, NEW batch \in SUBSET Event,
             Claim(w, p, expired, batch)
      PROVE  Monotone /\ Reported
  <2>1. replica' = replica
    BY <1>3 DEF Claim
  <2> DEFINE y == NewPush(w, p, Claimed(ReleasedExpired(delivery, {p}, expired), p, w, batch), batch)
  <2>2. pushes' = pushes \cup {y} /\ y.ok = {}
    <3>1. pushes' = pushes \cup {y}
      BY <1>3 DEF Claim
    <3>2. y.ok = {}
      BY DEF NewPush
    <3>3. QED
      BY <3>1, <3>2
  <2> HIDE DEF y
  <2>3. Reported
    <3> SUFFICES ASSUME NEW z \in pushes'
                 PROVE  \/ \E x \in pushes : z.provider = x.provider /\ z.ok = x.ok
                        \/ z.ok \subseteq replica[z.provider]
      OBVIOUS
    <3>1. CASE z \in pushes
      BY <3>1
    <3>2. CASE z = y
      BY <2>2, <3>2
    <3>3. QED
      BY <2>2, <3>1, <3>2
  <2>4. QED
    BY <2>1, <2>3
<1>4. ASSUME NEW x \in pushes, NEW stored \in SUBSET Event, ProviderStores(x, stored)
      PROVE  Monotone /\ Reported
  BY <1>0, <1>4 DEF ProviderStores
<1>5. ASSUME NEW x \in pushes, NEW ok \in SUBSET Event, NEW permanent \in SUBSET Event,
             PushReturns(x, ok, permanent)
      PROVE  Monotone /\ Reported
  BY <1>0, <1>5 DEF PushReturns, Confirmable, Push
<1>6. ASSUME NEW x \in pushes, NEW e \in Event, SettleFailure(x, e) PROVE Monotone /\ Reported
  BY <1>0, <1>6 DEF SettleFailure, Push
<1>7. QED
  BY <1>1, <1>2, <1>3, <1>4, <1>5, <1>6
     DEF Next, BotStep, OperatorStep, LegacyStep, WorkerStep, PushStep, vars, Enqueue,
         RestartBot, Backfill, RequeueDeadLetter, LegacySettle, LegacyRetire, StartWorker,
         ClaimNothing, CircuitOpen, ClaimThrows, StopWorker, CrashWorker, SettleSuccess,
         SettleThrows
-----------------------------------------------------------------------------
(* The inductive invariant behind it: an answer that is still to be settled
   reports stored events only, so settling it late stays right. *)
Acknowledged ==
  /\ TypeOK
  /\ NothingAcknowledgedUnstored
  /\ \A x \in pushes : x.ok \subseteq replica[x.provider]

LEMMA AcknowledgedInvariant == Spec => []Acknowledged
<1>1. Init /\ TypeOK => Acknowledged
  BY DEF Init, NoRow, NewRow, Acknowledged, NothingAcknowledgedUnstored
<1>2. Acknowledged /\ TypeOK' /\ [Next]_vars => Acknowledged'
  <2> SUFFICES ASSUME Acknowledged, TypeOK', [Next]_vars PROVE Acknowledged'
    OBVIOUS
  <2>1. Acknowledges
    BY AcknowledgingSteps DEF Acknowledged
  <2>2. /\ \A p \in Provider : replica[p] \subseteq replica'[p]
        /\ \A y \in pushes' : \/ \E x \in pushes : y.provider = x.provider /\ y.ok = x.ok
                              \/ y.ok \subseteq replica[y.provider]
    BY ReplicaSteps DEF Acknowledged
  <2>3. NothingAcknowledgedUnstored'
    BY <2>1, <2>2 DEF Acknowledged, NothingAcknowledgedUnstored, Acknowledges
  <2>4. \A y \in pushes' : y.ok \subseteq replica'[y.provider]
    <3> SUFFICES ASSUME NEW y \in pushes' PROVE y.ok \subseteq replica'[y.provider]
      OBVIOUS
    <3>1. y.provider \in Provider
      BY DEF TypeOK, Push
    <3>2. y.ok \subseteq replica[y.provider]
      BY <2>2 DEF Acknowledged
    <3>3. QED
      BY <2>2, <3>1, <3>2
  <2>5. QED
    BY <2>3, <2>4 DEF Acknowledged
<1>3. QED
  BY <1>1, <1>2, TypeCorrect, PTL DEF Spec

(* A provider row is marked synced only if the provider has the event. *)
THEOREM AcknowledgedIsStored == Spec => []NothingAcknowledgedUnstored
<1>1. Acknowledged => NothingAcknowledgedUnstored
  BY DEF Acknowledged
<1>2. QED
  BY <1>1, AcknowledgedInvariant, PTL

(* No step takes back an acknowledgement or Cloud Complete, except the purge
   that removes the event. *)
THEOREM AcknowledgementsStay == Spec => AcknowledgementsAreFinal
<1> DEFINE Final ==
      \A e \in Event :
        /\ \A p \in Provider : delivery[e][p].status = "synced" =>
             delivery'[e][p].status = "synced" \/ outbox'[e] = "absent"
        /\ outbox[e] = "synced" => outbox'[e] \in {"synced", "absent"}
<1>1. TypeOK /\ [Next]_vars => [Final]_vars
  <2> SUFFICES ASSUME TypeOK, [Next]_vars PROVE Final
    OBVIOUS
  <2>1. \A e \in Event, p \in Provider : delivery[e][p].status = "synced" =>
          delivery'[e][p].status = "synced" \/ outbox'[e] = "absent"
    BY AcknowledgingSteps DEF Acknowledges
  <2>2. \A e \in Event : outbox[e] = "synced" => outbox'[e] \in {"synced", "absent"}
    <3>1. outbox \in Outbox
      BY DEF TypeOK, Outbox
    <3>2. QED
      BY <3>1, OutboxSteps
         DEF EnqueueOutbox, RequeuedOutbox, PurgedOutbox, CompletedOutbox, UpdatedCompletion, Outbox
  <2>3. QED
    BY <2>1, <2>2
<1>2. QED
  BY <1>1, TypeCorrect, PTL DEF Spec, AcknowledgementsAreFinal
-----------------------------------------------------------------------------
(* With Multi-DB mode on everywhere, every statement that inserts rows does
   so for all providers. *)
Covered == EveryProviderHasARow /\ botPolicy \in BotPolicies

LEMMA CoveredSteps ==
  ASSUME MultiDbEverywhere, TypeOK, Covered, [Next]_vars
  PROVE  Covered'
<1>0. /\ outbox \in Outbox /\ delivery \in Delivery /\ botPolicy \in Policy
      /\ worker \in [WorkerId -> WorkerState] /\ pushes \subseteq Push
  BY DEF TypeOK, Outbox, Delivery
<1>1. ASSUME Agree(delivery, delivery', "missing"),
             \A e \in Event : (outbox[e] = "absent") <=> (outbox'[e] = "absent"),
             botPolicy' \in BotPolicies
      PROVE  Covered'
  BY <1>1 DEF Covered, EveryProviderHasARow, Agree
<1>2. \A policy \in BotPolicies \cup WorkerPolicies :
        policy.listed = Provider /\ policy \in Policy
  BY PolicyTypes, PoliciesAssumption DEF MultiDbEverywhere, PolicyOn
<1>3. \A policy \in BotPolicies \cup WorkerPolicies :
        Agree(delivery, AppliedPolicy(outbox, delivery, policy), "missing")
  <2> SUFFICES ASSUME NEW policy \in BotPolicies \cup WorkerPolicies,
                      NEW e \in Event, NEW p \in Provider
               PROVE  (delivery[e][p].status = "missing")
                        <=> (AppliedPolicy(outbox, delivery, policy)[e][p].status = "missing")
    BY DEF Agree
  <2>1. delivery[e][p] \in Row
    BY <1>0 DEF Delivery
  <2>2. CASE outbox[e] = "absent"
    BY <2>2 DEF Covered, EveryProviderHasARow, AppliedPolicy
  <2>3. CASE outbox[e] # "absent"
    <3>1. delivery[e][p].status # "missing"
      BY <2>3 DEF Covered, EveryProviderHasARow
    <3>2. AppliedPolicy(outbox, delivery, policy)[e][p].status # "missing"
      BY <2>1, <3>1 DEF AppliedPolicy, InsertOrIgnore, PolicyUpdate, Row
    <3>3. QED
      BY <3>1, <3>2
  <2>4. QED
    BY <2>2, <2>3
<1>4. ASSUME NEW e \in Event, Enqueue(e) PROVE Covered'
  <2>0. botPolicy.listed = Provider
    BY <1>2 DEF Covered
  <2>1. \A p \in Provider : delivery'[e][p].status # "missing"
    BY <1>0, <1>4, <2>0 DEF Enqueue, EnsureForEvent, InsertOrIgnore, NewRow, Delivery
  <2>2. \A f \in Event \ {e} : delivery'[f] = delivery[f] /\ outbox'[f] = outbox[f]
    BY <1>0, <1>4 DEF Enqueue, EnsureForEvent, EnqueueOutbox, Delivery, Outbox
  <2>3. outbox'[e] # "absent" /\ botPolicy' = botPolicy
    BY <1>0, <1>4 DEF Enqueue, EnqueueOutbox, Outbox
  <2>4. QED
    BY <2>1, <2>2, <2>3 DEF Covered, EveryProviderHasARow
<1>5. ASSUME NEW policy \in BotPolicies,
             RestartBot(policy) \/ \E e \in Event : RequeueDeadLetter(e, policy)
      PROVE  Covered'
  <2>1. Agree(delivery, delivery', "missing") /\ botPolicy' \in BotPolicies
    BY <1>3, <1>5 DEF RestartBot, RequeueDeadLetter, Covered
  <2>2. \A e \in Event : (outbox[e] = "absent") <=> (outbox'[e] = "absent")
    BY <1>0, <1>5 DEF RestartBot, RequeueDeadLetter, RequeuedOutbox, Outbox
  <2>3. QED
    BY <1>1, <2>1, <2>2
<1>6. ASSUME NEW p \in Provider, NEW events \in SUBSET Event, Backfill(p, events)
      PROVE  Covered'
  <2>1. Agree(delivery, delivery', "missing")
    BY <1>0, <1>6 DEF Backfill, BackfillCandidates, Backfilled, NewRow, Agree, Delivery,
                      Covered, EveryProviderHasARow
  <2>2. QED
    BY <1>1, <1>6, <2>1 DEF Backfill, Covered
<1>7. ASSUME NEW e \in Event, NEW status \in {"synced", "dead_letter"}, LegacySettle(e, status)
      PROVE  FALSE
  BY <1>7 DEF LegacySettle, LegacyMayRun, MultiDbEverywhere
<1>8. ASSUME NEW old \in SUBSET Event,
             LegacyRetire(old) \/ \E w \in WorkerId : StartRound(w, old)
      PROVE  Covered'
  <2>1. outbox' = PurgedOutbox(outbox, old) /\ delivery' = PurgedDelivery(outbox, delivery, old)
        /\ botPolicy' = botPolicy
    BY <1>8 DEF LegacyRetire, StartRound
  <2>2. ASSUME NEW e \in Event, NEW p \in Provider
        PROVE  IF e \in old \cap Purgeable(outbox)
                 THEN outbox'[e] = "absent" /\ delivery'[e][p].status = "missing"
                 ELSE outbox'[e] = outbox[e] /\ delivery'[e][p].status = delivery[e][p].status
    BY <2>1 DEF PurgedOutbox, PurgedDelivery, NoRow, NewRow
  <2>3. QED
    BY <2>1, <2>2 DEF Covered, EveryProviderHasARow
<1>9. ASSUME NEW w \in WorkerId, NEW policy \in WorkerPolicies, NEW expired \in SUBSET Event,
             StartWorker(w, policy, expired)
      PROVE  Covered'
  <2> DEFINE applied == AppliedPolicy(outbox, delivery, policy)
  <2>1. applied \in Delivery /\ Agree(delivery, applied, "missing")
    BY <1>0, <1>2, <1>3, DeliveryTypes
  <2>2. delivery' = ReleasedExpired(applied, policy.enabled, expired)
    BY <1>9 DEF StartWorker
  <2> HIDE DEF applied
  <2>3. Agree(delivery, delivery', "missing")
    BY <1>0, <2>1, <2>2, KeepsRows DEF Agree
  <2>4. QED
    BY <1>1, <1>9, <2>3 DEF StartWorker, Covered
<1>10. ASSUME NEW w \in WorkerId, NEW p \in Provider,
              NEW expired \in SUBSET Event, NEW batch \in SUBSET Event,
              Claim(w, p, expired, batch)
       PROVE  Covered'
  <2> DEFINE released == ReleasedExpired(delivery, {p}, expired)
  <2>1. released \in Delivery /\ Agree(delivery, released, "missing")
    BY <1>0, DeliveryTypes, KeepsRows
  <2>2. delivery' = Claimed(released, p, w, batch) /\ batch \subseteq Claimable(outbox, released, p)
    BY <1>10 DEF Claim, Found
  <2> HIDE DEF released
  <2>3. Agree(delivery, delivery', "missing")
    BY <1>0, <2>1, <2>2, KeepsRows DEF Agree
  <2>4. QED
    BY <1>1, <1>10, <2>3 DEF Claim, Covered
<1>11. ASSUME NEW w \in WorkerId, NEW p \in Provider, NEW expired \in SUBSET Event,
              ClaimNothing(w, p, expired)
       PROVE  Covered'
  BY <1>0, <1>1, <1>11, KeepsRows DEF ClaimNothing, Covered
<1>12. ASSUME NEW x \in pushes, NEW e \in Event, SettleFailure(x, e) PROVE Covered'
  <2>1. x.provider \in Provider /\ x.worker \in WorkerId
    BY <1>0 DEF Push
  <2>2. Agree(delivery, delivery', "missing")
    BY <1>0, <1>12, <2>1, KeepsRows DEF SettleFailure, MarkedDeadLetter, MarkedRetry
  <2>3. QED
    BY <1>1, <1>12, <2>2 DEF SettleFailure, Covered
<1>13. ASSUME NEW x \in pushes, NEW throws \in BOOLEAN, NEW probe \in BOOLEAN,
             SettleSuccess(x, throws, probe)
       PROVE  Covered'
  <2>1. x.provider \in Provider /\ x.worker \in WorkerId
    BY <1>0 DEF Push
  <2>2. Agree(delivery, delivery', "missing")
    BY <1>0, <1>13, <2>1, KeepsRows DEF SettleSuccess, MarkedSynced
  <2>3. \A e \in Event : (outbox[e] = "absent") <=> (outbox'[e] = "absent")
    BY <1>0, <1>13 DEF SettleSuccess, CompletedOutbox, UpdatedCompletion, Outbox
  <2>4. QED
    BY <1>1, <1>13, <2>2, <2>3 DEF SettleSuccess, Covered
<1>14. ASSUME UNCHANGED <<outbox, delivery, botPolicy>> PROVE Covered'
  BY <1>14 DEF Covered, EveryProviderHasARow
<1>15. ASSUME NEW w \in WorkerId, StopWorker(w) PROVE Covered'
  BY <1>0, <1>1, <1>15, KeepsRows DEF StopWorker, Covered
<1>16. QED
  BY <1>4, <1>5, <1>6, <1>7, <1>8, <1>9, <1>10, <1>11, <1>12, <1>13, <1>14, <1>15
     DEF Next, BotStep, OperatorStep, LegacyStep, WorkerStep, PushStep, vars,
         CircuitOpen, ClaimThrows, CrashWorker, ProviderStores, PushReturns, SettleThrows

(* An event becomes Cloud Complete only in markSynced, which has then seen
   every required row synced. *)
LEMMA CompletingSteps ==
  ASSUME MultiDbEverywhere, TypeOK, Covered, Covered', [Next]_vars,
         NEW e \in Event, outbox[e] # "synced", outbox'[e] = "synced"
  PROVE  /\ outbox[e] = "pending"
         /\ \A p \in Required : delivery'[e][p].status = "synced"
<1>0. outbox \in Outbox
  BY DEF TypeOK, Outbox
<1>1. PICK x \in pushes, throws \in BOOLEAN, probe \in BOOLEAN :
        SettleSuccess(x, throws, probe) /\ outbox' = CompletedOutbox(x)
  BY <1>0, OutboxSteps DEF EnqueueOutbox, RequeuedOutbox, PurgedOutbox, MultiDbEverywhere, Outbox
<1>2. outbox[e] = "pending" /\ RequiredRowsSynced(delivery'[e])
  BY <1>0, <1>1 DEF SettleSuccess, CompletedOutbox, UpdatedCompletion, Outbox
<1>3. \A p \in Required : delivery'[e][p].status # "missing"
  BY RequiredAssumption DEF Covered, EveryProviderHasARow
<1>4. QED
  BY <1>2, <1>3 DEF RequiredRowsSynced

(* The inductive invariant of Cloud Complete.  Covered is what makes it
   inductive: a required provider without a row would not be asked for. *)
Complete ==
  /\ Acknowledged
  /\ Covered
  /\ CompleteMeansReplicated

LEMMA CompleteInvariant ==
  ASSUME MultiDbEverywhere
  PROVE  Spec => []Complete
<1>1. Init /\ Acknowledged => Complete
  BY DEF Init, NoRow, NewRow, Complete, Covered, EveryProviderHasARow, CompleteMeansReplicated
<1>2. Complete /\ Acknowledged' /\ [Next]_vars => Complete'
  <2> SUFFICES ASSUME Complete, Acknowledged', [Next]_vars PROVE Complete'
    OBVIOUS
  <2>1. TypeOK /\ Covered /\ Acknowledges
    BY AcknowledgingSteps DEF Complete, Acknowledged
  <2>2. Covered'
    BY <2>1, CoveredSteps
  <2>3. ASSUME NEW e \in Event, outbox'[e] = "synced", NEW p \in Required
        PROVE  delivery'[e][p].status = "synced"
    <3>1. CASE outbox[e] = "synced"
      <4>1. delivery[e][p].status = "synced" /\ p \in Provider
        BY <3>1, RequiredAssumption DEF Complete, CompleteMeansReplicated
      <4>2. QED
        BY <2>1, <2>3, <4>1 DEF Acknowledges
    <3>2. CASE outbox[e] # "synced"
      BY <2>1, <2>2, <2>3, <3>2, CompletingSteps
    <3>3. QED
      BY <3>1, <3>2
  <2>4. QED
    BY <2>2, <2>3 DEF Complete, CompleteMeansReplicated
<1>3. QED
  BY <1>1, <1>2, AcknowledgedInvariant, PTL DEF Spec

(* Cloud Complete means that every required provider acknowledged. *)
THEOREM CloudCompleteIsReplicated ==
  ASSUME MultiDbEverywhere
  PROVE  Spec => []CompleteMeansReplicated
<1>1. Complete => CompleteMeansReplicated
  BY DEF Complete
<1>2. QED
  BY <1>1, CompleteInvariant, PTL

(* Every provider has a row for every event that has an envelope. *)
THEOREM RowsForEveryProvider ==
  ASSUME MultiDbEverywhere
  PROVE  Spec => []EveryProviderHasARow
<1>1. Complete => EveryProviderHasARow
  BY DEF Complete, Covered
<1>2. QED
  BY <1>1, CompleteInvariant, PTL
-----------------------------------------------------------------------------
(* Providers store in ProviderStores only, and no step that stores anything
   touches an envelope. *)
LEMMA StoringSteps ==
  ASSUME TypeOK, [Next]_vars
  PROVE  \/ replica' = replica
         \/ outbox' = outbox /\ \E p \in Provider, events \in SUBSET Event :
              replica' = [replica EXCEPT ![p] = @ \cup events]
<1>1. ASSUME NEW x \in pushes, NEW stored \in SUBSET Event, ProviderStores(x, stored)
      PROVE  /\ outbox' = outbox /\ x.provider \in Provider
             /\ replica' = [replica EXCEPT ![x.provider] = @ \cup stored]
  BY <1>1 DEF ProviderStores, TypeOK, Push
<1>2. ASSUME NEW x \in pushes, PushStep(x),
             ~\E stored \in SUBSET Event : ProviderStores(x, stored)
      PROVE  replica' = replica
  BY <1>2 DEF PushStep, PushReturns, SettleFailure, SettleSuccess, SettleThrows
<1>3. ASSUME NEW w \in WorkerId, WorkerStep(w) PROVE replica' = replica
  BY <1>3 DEF WorkerStep, StartWorker, StartRound, Claim, ClaimNothing, CircuitOpen,
              ClaimThrows, StopWorker, CrashWorker
<1>4. CASE BotStep \/ OperatorStep \/ LegacyStep
  BY <1>4 DEF BotStep, OperatorStep, LegacyStep, Enqueue, RestartBot, Backfill,
              RequeueDeadLetter, LegacySettle, LegacyRetire
<1>5. QED
  BY <1>1, <1>2, <1>3, <1>4 DEF Next, vars

(* The pipeline implements the abstract outbox: what it reports complete and
   what it retires is what all required providers have stored. *)
THEOREM Implementation ==
  ASSUME MultiDbEverywhere
  PROVE  Spec => ImplementsReplicatedOutbox
<1>1. Init => Abstract!Init
  BY DEF Init, Abstract!Init, Envelope
<1>2. Complete /\ Complete' /\ [Next]_vars => [Abstract!Next]_<<Envelope, replica>>
  <2> SUFFICES ASSUME Complete, Complete', [Next]_vars
               PROVE  [Abstract!Next]_<<Envelope, replica>>
    OBVIOUS
  <2>0. /\ TypeOK /\ Covered /\ Covered' /\ NothingAcknowledgedUnstored'
        /\ outbox \in Outbox /\ outbox' \in Outbox
    BY DEF Complete, Acknowledged, TypeOK, Outbox
  <2>1. CASE replica' # replica
    <3>1. PICK p \in Provider, events \in SUBSET Event :
            outbox' = outbox /\ replica' = [replica EXCEPT ![p] = @ \cup events]
      BY <2>0, <2>1, StoringSteps
    <3>2. Abstract!Store(p, events)
      BY <3>1 DEF Abstract!Store, Envelope
    <3>3. QED
      BY <3>2 DEF Abstract!Next
  <2>2. ASSUME replica' = replica, NEW e \in Event, outbox' = EnqueueOutbox(outbox, e)
        PROVE  [Abstract!Next]_<<Envelope, replica>>
    <3>1. CASE outbox[e] = "absent"
      <4>1. Abstract!Accept(e)
        BY <2>0, <2>2, <3>1 DEF EnqueueOutbox, Abstract!Accept, Envelope, Outbox
      <4>2. QED
        BY <4>1 DEF Abstract!Next
    <3>2. CASE outbox[e] # "absent"
      BY <2>2, <3>2 DEF EnqueueOutbox, Envelope
    <3>3. QED
      BY <3>1, <3>2
  <2>3. ASSUME replica' = replica, NEW e \in Event, outbox' = RequeuedOutbox(outbox, e)
        PROVE  UNCHANGED <<Envelope, replica>>
    BY <2>0, <2>3 DEF RequeuedOutbox, Envelope, Outbox
  <2>4. ASSUME replica' = replica, NEW old \in SUBSET Event, outbox' = PurgedOutbox(outbox, old)
        PROVE  [Abstract!Next]_<<Envelope, replica>>
    <3>1. Abstract!Retire(old \cap Purgeable(outbox))
      BY <2>0, <2>4 DEF PurgedOutbox, Purgeable, Abstract!Retire, Envelope, Outbox
    <3>2. QED
      BY <3>1 DEF Abstract!Next
  <2>5. ASSUME replica' = replica, NEW x \in pushes, outbox' = CompletedOutbox(x)
        PROVE  [Abstract!Next]_<<Envelope, replica>>
    <3> DEFINE done == {e \in Event : outbox[e] # "synced" /\ outbox'[e] = "synced"}
    <3>1. \A e \in done : outbox[e] = "pending" /\ \A p \in Required : e \in replica[p]
      BY <2>0, <2>5, CompletingSteps, RequiredAssumption DEF NothingAcknowledgedUnstored
    <3>2. \A e \in Event : outbox'[e] = IF e \in done THEN "synced" ELSE outbox[e]
      BY <2>0, <2>5 DEF CompletedOutbox, UpdatedCompletion, Outbox
    <3>3. Abstract!Complete(done)
      <4> HIDE DEF done
      <4>1. done \subseteq Event
        BY DEF done
      <4>2. QED
        BY <2>0, <2>5, <3>1, <3>2, <4>1 DEF Abstract!Complete, Envelope, Outbox
    <3>4. QED
      BY <3>3 DEF Abstract!Next
  <2>6. CASE outbox' = outbox /\ replica' = replica
    BY <2>6 DEF Envelope
  <2>7. QED
    BY <2>1, <2>2, <2>3, <2>4, <2>5, <2>6, OutboxSteps DEF MultiDbEverywhere
<1>3. QED
  BY <1>1, <1>2, CompleteInvariant, PTL DEF Spec, ImplementsReplicatedOutbox, Abstract!Spec
-----------------------------------------------------------------------------
(* Only running workers claim and push; a row stays locked when its worker
   dies or is superseded, but never carries the lock of a worker that has
   not started. *)
Attended ==
  /\ \A w \in WorkerId : worker[w].todo # {} => worker[w].phase = "running"
  /\ \A x \in pushes : worker[x.worker].phase = "running"
  /\ \A e \in Event, p \in Provider : delivery[e][p].status = "processing" =>
       worker[delivery[e][p].lockedBy].phase # "new"

(* A worker process starts once and ends once. *)
PhaseSteps ==
  \A w \in WorkerId : \/ worker'[w].phase = worker[w].phase
                      \/ worker[w].phase = "new" /\ worker'[w].phase = "running"
                      \/ worker[w].phase = "running" /\ worker'[w].phase = "gone"

(* Only a running worker locks rows, and not those of an envelope that the
   single-replica worker gave up. *)
LockSteps ==
  \A e \in Event, p \in Provider : delivery'[e][p].status = "processing" =>
    \/ delivery'[e][p] = delivery[e][p]
    \/ /\ outbox[e] \in {"pending", "synced"} /\ outbox' = outbox
       /\ worker[delivery'[e][p].lockedBy].phase = "running"
       /\ worker'[delivery'[e][p].lockedBy].phase = "running"

LEMMA PhasesOfWorkers ==
  ASSUME TypeOK, [Next]_vars
  PROVE  PhaseSteps
<1>0. worker \in [WorkerId -> WorkerState] /\ pushes \subseteq Push
  BY DEF TypeOK
<1>1. ASSUME UNCHANGED worker PROVE PhaseSteps
  BY <1>1 DEF PhaseSteps
<1>2. ASSUME NEW w \in WorkerId, WorkerStep(w) PROVE PhaseSteps
  <2>1. CASE \E policy \in WorkerPolicies, expired \in SUBSET Event : StartWorker(w, policy, expired)
    BY <1>0, <2>1 DEF PhaseSteps, StartWorker, WorkerState
  <2>2. CASE \E old \in SUBSET Event : StartRound(w, old)
    BY <1>0, <2>2 DEF PhaseSteps, StartRound, WorkerState
  <2>3. ASSUME NEW p \in Provider, NEW expired \in SUBSET Event, NEW batch \in SUBSET Event,
               Claim(w, p, expired, batch)
        PROVE  PhaseSteps
    BY <1>0, <2>3 DEF PhaseSteps, Claim, WorkerState
  <2>4. ASSUME NEW p \in Provider,
               \/ \E expired \in SUBSET Event : ClaimNothing(w, p, expired)
               \/ CircuitOpen(w, p) \/ \E probe \in BOOLEAN : ClaimThrows(w, p, probe)
        PROVE  PhaseSteps
    <3>1. CASE \E probe \in BOOLEAN : ClaimThrows(w, p, probe)
      BY <1>0, <3>1, ThrowTypes DEF PhaseSteps
    <3>2. QED
      BY <1>0, <2>4, <3>1 DEF PhaseSteps, ClaimNothing, CircuitOpen, WorkerState
  <2>5. CASE StopWorker(w) \/ CrashWorker(w)
    BY <1>0, <2>5 DEF PhaseSteps, StopWorker, CrashWorker, WorkerState
  <2>6. QED
    BY <1>2, <2>1, <2>2, <2>3, <2>4, <2>5 DEF WorkerStep
<1>3. ASSUME NEW x \in pushes, PushStep(x) PROVE PhaseSteps
  <2>1. \/ worker' = worker
        \/ \E probe \in BOOLEAN : worker' = AfterThrow(x, probe)
    <3>1. CASE \E throws, probe \in BOOLEAN : SettleSuccess(x, throws, probe)
      BY <3>1 DEF SettleSuccess
    <3>2. CASE \E probe \in BOOLEAN : SettleThrows(x, probe)
      BY <3>2 DEF SettleThrows
    <3>3. QED
      BY <1>3, <3>1, <3>2 DEF PushStep, ProviderStores, PushReturns, SettleFailure
  <2>2. \A w \in WorkerId : worker'[w].phase = worker[w].phase
    BY <1>0, <2>1, ThrowTypes
  <2>3. QED
    BY <2>2 DEF PhaseSteps
<1>4. QED
  BY <1>1, <1>2, <1>3
     DEF Next, BotStep, OperatorStep, LegacyStep, vars, Enqueue, RestartBot, Backfill,
         RequeueDeadLetter, LegacySettle, LegacyRetire

LEMMA LocksOfRows ==
  ASSUME TypeOK, Attended, [Next]_vars
  PROVE  LockSteps
<1>0. /\ outbox \in Outbox /\ delivery \in Delivery /\ botPolicy \in Policy
      /\ worker \in [WorkerId -> WorkerState] /\ pushes \subseteq Push
  BY DEF TypeOK, Outbox, Delivery
<1>1. SameLocks(delivery, delivery') => LockSteps
  BY DEF SameLocks, LockSteps
<1>2. ASSUME NEW e \in Event, Enqueue(e) PROVE LockSteps
  BY <1>0, <1>1, <1>2, KeepsLocks DEF Enqueue
<1>3. ASSUME NEW policy \in BotPolicies,
             RestartBot(policy) \/ \E e \in Event : RequeueDeadLetter(e, policy)
      PROVE  LockSteps
  BY <1>0, <1>1, <1>3, KeepsLocks, PolicyTypes DEF RestartBot, RequeueDeadLetter
<1>4. ASSUME NEW p \in Provider, NEW events \in SUBSET Event, Backfill(p, events)
      PROVE  LockSteps
  BY <1>0, <1>1, <1>4, KeepsLocks DEF Backfill
<1>5. ASSUME NEW old \in SUBSET Event,
             LegacyRetire(old) \/ \E w \in WorkerId : StartRound(w, old)
      PROVE  LockSteps
  <2>1. delivery' = PurgedDelivery(outbox, delivery, old)
    BY <1>5 DEF LegacyRetire, StartRound
  <2>2. QED
    BY <1>0, <1>1, <2>1, KeepsLocks
<1>6. ASSUME NEW w \in WorkerId, NEW policy \in WorkerPolicies, NEW expired \in SUBSET Event,
             StartWorker(w, policy, expired)
      PROVE  LockSteps
  <2> DEFINE applied == AppliedPolicy(outbox, delivery, policy)
  <2>1. applied \in Delivery /\ SameLocks(delivery, applied)
    BY <1>0, DeliveryTypes, KeepsLocks, PolicyTypes
  <2>2. delivery' = ReleasedExpired(applied, policy.enabled, expired)
    BY <1>6 DEF StartWorker
  <2> HIDE DEF applied
  <2>3. SameLocks(applied, delivery')
    BY <1>0, <2>1, <2>2, KeepsLocks
  <2>4. QED
    BY <1>1, <2>1, <2>3 DEF SameLocks
<1>7. ASSUME NEW w \in WorkerId, NEW p \in Provider,
             NEW expired \in SUBSET Event, NEW batch \in SUBSET Event,
             Claim(w, p, expired, batch)
      PROVE  LockSteps
  <2> DEFINE released == ReleasedExpired(delivery, {p}, expired)
  <2>1. released \in Delivery /\ SameLocks(delivery, released)
    BY <1>0, DeliveryTypes, KeepsLocks
  <2>2. /\ delivery' = Claimed(released, p, w, batch) /\ outbox' = outbox
        /\ batch \subseteq Claimable(outbox, released, p)
        /\ worker[w].phase = "running" /\ worker'[w].phase = "running"
    BY <1>0, <1>7 DEF Claim, Found, Attended, WorkerState
  <2> HIDE DEF released
  <2>3. ASSUME NEW e \in Event, NEW q \in Provider, delivery'[e][q] # released[e][q]
        PROVE  e \in batch /\ delivery'[e][q].lockedBy = w
    BY <2>1, <2>2, <2>3 DEF Claimed, Delivery
  <2>4. QED
    BY <2>1, <2>2, <2>3 DEF LockSteps, SameLocks, Claimable
<1>8. ASSUME NEW w \in WorkerId, NEW p \in Provider, NEW expired \in SUBSET Event,
             ClaimNothing(w, p, expired)
      PROVE  LockSteps
  BY <1>0, <1>1, <1>8, KeepsLocks DEF ClaimNothing
<1>9. ASSUME NEW w \in WorkerId, StopWorker(w) PROVE LockSteps
  BY <1>0, <1>1, <1>9, KeepsLocks DEF StopWorker
<1>10. ASSUME NEW x \in pushes,
              \/ \E e \in Event : SettleFailure(x, e)
              \/ \E throws, probe \in BOOLEAN : SettleSuccess(x, throws, probe)
       PROVE  LockSteps
  <2>1. x.provider \in Provider /\ x.worker \in WorkerId
    BY <1>0 DEF Push
  <2>2. \E events, status :
          /\ status # "processing"
          /\ delivery' = Settle(delivery, x.provider, x.worker, events, status)
    BY <1>10 DEF SettleFailure, MarkedDeadLetter, MarkedRetry, SettleSuccess, MarkedSynced
  <2>3. QED
    BY <1>0, <1>1, <2>1, <2>2, KeepsLocks
<1>11. ASSUME delivery' = delivery PROVE LockSteps
  BY <1>11 DEF LockSteps
<1>12. QED
  BY <1>2, <1>3, <1>4, <1>5, <1>6, <1>7, <1>8, <1>9, <1>10, <1>11
     DEF Next, BotStep, OperatorStep, LegacyStep, WorkerStep, PushStep, vars,
         LegacySettle, CircuitOpen, ClaimThrows, CrashWorker, ProviderStores, PushReturns,
         SettleThrows

LEMMA AttendedSteps ==
  ASSUME TypeOK, TypeOK', Attended, [Next]_vars
  PROVE  Attended'
<1>0. /\ worker \in [WorkerId -> WorkerState] /\ pushes \subseteq Push
      /\ delivery \in Delivery /\ delivery' \in Delivery
  BY DEF TypeOK, Delivery
<1> DEFINE Attending == /\ \A w \in WorkerId : worker'[w].todo # {} => worker'[w].phase = "running"
                        /\ \A x \in pushes' : worker'[x.worker].phase = "running"
<1>1. ASSUME NEW w \in WorkerId, WorkerStep(w) PROVE Attending
  <2>1. ASSUME NEW policy \in WorkerPolicies, NEW expired \in SUBSET Event,
               StartWorker(w, policy, expired)
        PROVE  Attending
    BY <1>0, <2>1 DEF StartWorker, Attended, Push, WorkerState
  <2>2. ASSUME NEW old \in SUBSET Event, StartRound(w, old) PROVE Attending
    <3>1. \A v \in WorkerId : worker'[v].phase = worker[v].phase
      BY <1>0, <2>2 DEF StartRound, WorkerState
    <3>2. \A y \in pushes' : \E x \in pushes : y.worker = x.worker
      BY <1>0, <2>2 DEF StartRound, Push
    <3>3. \A v \in WorkerId \ {w} : worker'[v].todo = worker[v].todo
      BY <1>0, <2>2 DEF StartRound, WorkerState
    <3>4. QED
      BY <1>0, <2>2, <3>1, <3>2, <3>3 DEF StartRound, Attended, Push
  <2>3. ASSUME NEW p \in Provider, NEW expired \in SUBSET Event, NEW batch \in SUBSET Event,
               Claim(w, p, expired, batch)
        PROVE  Attending
    <3>1. \A y \in pushes' : y \in pushes \/ y.worker = w
      BY <2>3 DEF Claim, NewPush
    <3>2. QED
      BY <1>0, <2>3, <3>1 DEF Claim, Attended, Push, WorkerState
  <2>4. ASSUME NEW p \in Provider,
               \/ \E expired \in SUBSET Event : ClaimNothing(w, p, expired)
               \/ CircuitOpen(w, p) \/ \E probe \in BOOLEAN : ClaimThrows(w, p, probe)
        PROVE  Attending
    <3>1. CASE \E probe \in BOOLEAN : ClaimThrows(w, p, probe)
      <4>1. /\ pushes' = pushes
            /\ \A v \in WorkerId : /\ worker'[v].phase = worker[v].phase
                                   /\ worker'[v].todo \subseteq worker[v].todo
        BY <1>0, <3>1, ThrowTypes DEF ClaimThrows
      <4>2. QED
        BY <1>0, <4>1 DEF Attended, Push
    <3>2. QED
      BY <1>0, <2>4, <3>1 DEF ClaimNothing, CircuitOpen, Attended, Push, WorkerState
  <2>5. ASSUME StopWorker(w) \/ CrashWorker(w) PROVE Attending
    <3>1. worker'[w].todo = {} /\ pushes' = pushes \ PushesOf(w)
      BY <1>0, <2>5 DEF StopWorker, CrashWorker, RoundOver, Busy, WorkerState
    <3>2. \A v \in WorkerId \ {w} : worker'[v] = worker[v]
      BY <1>0, <2>5 DEF StopWorker, CrashWorker
    <3>3. QED
      BY <1>0, <3>1, <3>2 DEF PushesOf, Attended, Push
  <2>6. QED
    BY <1>1, <2>1, <2>2, <2>3, <2>4, <2>5 DEF WorkerStep
<1>2. ASSUME NEW x \in pushes, PushStep(x) PROVE Attending
  <2>0. \/ worker' = worker
        \/ \E probe \in BOOLEAN : worker' = AfterThrow(x, probe)
    <3>1. CASE \E throws, probe \in BOOLEAN : SettleSuccess(x, throws, probe)
      BY <3>1 DEF SettleSuccess
    <3>2. CASE \E probe \in BOOLEAN : SettleThrows(x, probe)
      BY <3>2 DEF SettleThrows
    <3>3. QED
      BY <1>2, <3>1, <3>2 DEF PushStep, ProviderStores, PushReturns, SettleFailure
  <2>1. \A v \in WorkerId : worker'[v].phase = worker[v].phase /\ worker'[v].todo = worker[v].todo
    BY <1>0, <2>0, ThrowTypes
  <2>2. \A y \in pushes' : \E z \in pushes : y.worker = z.worker
    BY <1>0, <1>2
       DEF PushStep, ProviderStores, PushReturns, SettleFailure, SettleSuccess, SettleThrows, Push
  <2>3. QED
    BY <1>0, <2>1, <2>2 DEF Attended, Push
<1>3. ASSUME UNCHANGED <<worker, pushes>> PROVE Attending
  BY <1>3 DEF Attended
<1>4. Attending
  BY <1>1, <1>2, <1>3
     DEF Next, BotStep, OperatorStep, LegacyStep, vars, Enqueue, RestartBot, Backfill,
         RequeueDeadLetter, LegacySettle, LegacyRetire
<1>5. ASSUME NEW e \in Event, NEW p \in Provider, delivery'[e][p].status = "processing"
      PROVE  worker'[delivery'[e][p].lockedBy].phase # "new"
  <2>1. delivery'[e][p].lockedBy \in WorkerId
    BY <1>0, <1>5 DEF Delivery, Row
  <2>2. PhaseSteps /\ LockSteps
    BY PhasesOfWorkers, LocksOfRows
  <2>3. CASE delivery'[e][p] = delivery[e][p]
    BY <1>5, <2>1, <2>2, <2>3 DEF PhaseSteps, Attended
  <2>4. QED
    BY <1>5, <2>2, <2>3 DEF LockSteps
<1>6. QED
  BY <1>4, <1>5 DEF Attended

LEMMA OrphanSteps ==
  ASSUME TypeOK, NoOrphans(outbox, delivery), [Next]_vars
  PROVE  NoOrphans(outbox, delivery)'
<1>0. /\ outbox \in Outbox /\ delivery \in Delivery /\ botPolicy \in Policy
      /\ worker \in [WorkerId -> WorkerState] /\ pushes \subseteq Push
  BY DEF TypeOK, Outbox, Delivery
<1> DEFINE Rows == NoOrphans(outbox', delivery')
<1>1. ASSUME Agree(delivery, delivery', "missing"),
             \A e \in Event : outbox'[e] = "absent" => outbox[e] = "absent"
      PROVE  Rows
  BY <1>1 DEF NoOrphans, Agree
<1>2. ASSUME NEW e \in Event, Enqueue(e) PROVE Rows
  BY <1>0, <1>2, KeepsNoOrphans DEF Enqueue
<1>3. ASSUME NEW policy \in BotPolicies, RestartBot(policy) PROVE Rows
  BY <1>0, <1>3, KeepsNoOrphans, PolicyTypes DEF RestartBot
<1>4. ASSUME NEW e \in Event, NEW policy \in BotPolicies, RequeueDeadLetter(e, policy) PROVE Rows
  <2>1. NoOrphans(outbox, delivery')
    BY <1>0, <1>4, KeepsNoOrphans, PolicyTypes DEF RequeueDeadLetter
  <2>2. \A f \in Event : outbox'[f] = "absent" => outbox[f] = "absent"
    BY <1>0, <1>4 DEF RequeueDeadLetter, RequeuedOutbox, Outbox
  <2>3. QED
    BY <2>1, <2>2 DEF NoOrphans
<1>5. ASSUME NEW p \in Provider, NEW events \in SUBSET Event, Backfill(p, events) PROVE Rows
  BY <1>0, <1>5, KeepsNoOrphans DEF Backfill
<1>6. ASSUME NEW e \in Event, NEW status \in {"synced", "dead_letter"}, LegacySettle(e, status)
      PROVE  Rows
  BY <1>0, <1>6 DEF LegacySettle, NoOrphans, Outbox
<1>7. ASSUME NEW old \in SUBSET Event,
             LegacyRetire(old) \/ \E w \in WorkerId : StartRound(w, old)
      PROVE  Rows
  <2>1. outbox' = PurgedOutbox(outbox, old) /\ delivery' = PurgedDelivery(outbox, delivery, old)
    BY <1>7 DEF LegacyRetire, StartRound
  <2>2. QED
    BY <1>0, <2>1, KeepsNoOrphans
<1>8. ASSUME NEW w \in WorkerId, NEW policy \in WorkerPolicies, NEW expired \in SUBSET Event,
             StartWorker(w, policy, expired)
      PROVE  Rows
  <2> DEFINE applied == AppliedPolicy(outbox, delivery, policy)
  <2>1. applied \in Delivery /\ NoOrphans(outbox, applied)
    BY <1>0, DeliveryTypes, KeepsNoOrphans, PolicyTypes
  <2>2. delivery' = ReleasedExpired(applied, policy.enabled, expired) /\ outbox' = outbox
    BY <1>8 DEF StartWorker
  <2> HIDE DEF applied
  <2>3. Agree(applied, delivery', "missing")
    BY <1>0, <2>1, <2>2, KeepsRows
  <2>4. QED
    BY <2>1, <2>2, <2>3 DEF NoOrphans, Agree
<1>9. ASSUME NEW w \in WorkerId, NEW p \in Provider,
             NEW expired \in SUBSET Event, NEW batch \in SUBSET Event,
             Claim(w, p, expired, batch)
      PROVE  Rows
  <2> DEFINE released == ReleasedExpired(delivery, {p}, expired)
  <2>1. released \in Delivery /\ NoOrphans(outbox, released)
    BY <1>0, DeliveryTypes, KeepsRows DEF NoOrphans, Agree
  <2>2. /\ delivery' = Claimed(released, p, w, batch) /\ outbox' = outbox
        /\ batch \subseteq Claimable(outbox, released, p)
    BY <1>9 DEF Claim, Found
  <2> HIDE DEF released
  <2>3. QED
    BY <1>0, <2>1, <2>2, KeepsNoOrphans
<1>10. ASSUME NEW w \in WorkerId, NEW p \in Provider, NEW expired \in SUBSET Event,
              ClaimNothing(w, p, expired)
       PROVE  Rows
  BY <1>0, <1>1, <1>10, KeepsRows DEF ClaimNothing
<1>11. ASSUME NEW w \in WorkerId, StopWorker(w) PROVE Rows
  BY <1>0, <1>1, <1>11, KeepsRows DEF StopWorker
<1>12. ASSUME NEW x \in pushes, NEW e \in Event, SettleFailure(x, e) PROVE Rows
  <2>1. x.provider \in Provider /\ x.worker \in WorkerId
    BY <1>0 DEF Push
  <2>2. QED
    BY <1>0, <1>1, <1>12, <2>1, KeepsRows DEF SettleFailure, MarkedDeadLetter, MarkedRetry
<1>13. ASSUME NEW x \in pushes, NEW throws \in BOOLEAN, NEW probe \in BOOLEAN,
             SettleSuccess(x, throws, probe) PROVE Rows
  <2>1. x.provider \in Provider /\ x.worker \in WorkerId
    BY <1>0 DEF Push
  <2>2. Agree(delivery, delivery', "missing")
    BY <1>0, <1>13, <2>1, KeepsRows DEF SettleSuccess, MarkedSynced
  <2>3. \A e \in Event : outbox'[e] = "absent" => outbox[e] = "absent"
    BY <1>0, <1>13 DEF SettleSuccess, CompletedOutbox, UpdatedCompletion, Outbox
  <2>4. QED
    BY <1>1, <2>2, <2>3
<1>14. ASSUME UNCHANGED <<outbox, delivery>> PROVE Rows
  BY <1>14
<1>15. QED
  BY <1>2, <1>3, <1>4, <1>5, <1>6, <1>7, <1>8, <1>9, <1>10, <1>11, <1>12, <1>13, <1>14
     DEF Next, BotStep, OperatorStep, LegacyStep, WorkerStep, PushStep, vars,
         CircuitOpen, ClaimThrows, CrashWorker, ProviderStores, PushReturns, SettleThrows
-----------------------------------------------------------------------------
(* The inductive invariant of completion.  An envelope the single-replica
   worker gave up may be requeued, so it must not get its last required row
   synced in between: nobody claims its rows any more, and the workers that
   locked them before are gone. *)
Incomplete ==
  /\ TypeOK
  /\ Attended
  /\ NoOrphans(outbox, delivery)
  /\ \A e \in Event : outbox[e] = "dead_letter" =>
       \A p \in Provider : delivery[e][p].status = "processing" =>
         worker[delivery[e][p].lockedBy].phase = "gone"
  /\ \A e \in Event : outbox[e] \in {"pending", "dead_letter"} =>
       \E p \in Required : delivery[e][p].status # "synced"

(* Where envelopes that are not complete come from. *)
LEMMA IncompleteOutbox ==
  ASSUME TypeOK, [Next]_vars, NEW e \in Event
  PROVE  /\ outbox'[e] \in {"pending", "dead_letter"} =>
              outbox[e] \in {"absent", "pending", "dead_letter"}
         /\ outbox'[e] = "dead_letter" =>
              \/ outbox[e] = "dead_letter"
              \/ LegacySettle(e, "dead_letter")
<1>0. outbox \in Outbox
  BY DEF TypeOK, Outbox
<1>1. ASSUME NEW f \in Event, NEW status \in {"synced", "dead_letter"}, LegacySettle(f, status)
      PROVE  /\ outbox'[e] \in {"pending", "dead_letter"} => outbox[e] \in {"pending", "dead_letter"}
             /\ outbox'[e] = "dead_letter" =>
                  outbox[e] = "dead_letter" \/ LegacySettle(e, "dead_letter")
  BY <1>0, <1>1 DEF LegacySettle, Outbox, OutboxStatus
<1>2. QED
  BY <1>0, <1>1, OutboxSteps
     DEF EnqueueOutbox, RequeuedOutbox, PurgedOutbox, Purgeable, CompletedOutbox,
         UpdatedCompletion, Outbox, OutboxStatus

LEMMA IncompleteInvariant == Spec => []Incomplete
<1>1. Init /\ TypeOK => Incomplete
  BY RequiredAssumption
     DEF Init, NoRow, NewRow, Incomplete, Attended, NoOrphans
<1>2. Incomplete /\ TypeOK' /\ [Next]_vars => Incomplete'
  <2> SUFFICES ASSUME Incomplete, TypeOK', [Next]_vars PROVE Incomplete'
    OBVIOUS
  <2>0. /\ TypeOK /\ Attended /\ NoOrphans(outbox, delivery)
        /\ delivery \in Delivery /\ delivery' \in Delivery
        /\ pushes \subseteq Push /\ worker \in [WorkerId -> WorkerState]
    BY DEF Incomplete, TypeOK, Delivery
  <2>1. Attended' /\ NoOrphans(outbox, delivery)'
    BY <2>0, AttendedSteps, OrphanSteps
  <2>2. PhaseSteps /\ LockSteps /\ Acknowledges
    BY <2>0, PhasesOfWorkers, LocksOfRows, AcknowledgingSteps
  <2>3. ASSUME NEW e \in Event, outbox'[e] = "dead_letter", NEW p \in Provider,
               delivery'[e][p].status = "processing"
        PROVE  worker'[delivery'[e][p].lockedBy].phase = "gone"
    <3>1. delivery'[e][p].lockedBy \in WorkerId
      BY <2>0, <2>3 DEF Delivery, Row
    <3>2. CASE LegacySettle(e, "dead_letter")
      <4>1. /\ delivery' = delivery /\ worker' = worker
            /\ worker[delivery'[e][p].lockedBy].phase # "running"
        BY <3>1, <3>2 DEF LegacySettle, LegacyMayRun
      <4>2. worker[delivery[e][p].lockedBy].phase # "new"
        BY <2>0, <2>3, <4>1 DEF Attended
      <4>3. worker[delivery'[e][p].lockedBy].phase \in {"new", "running", "gone"}
        BY <2>0, <3>1 DEF WorkerState
      <4>4. QED
        BY <4>1, <4>2, <4>3
    <3>3. CASE outbox[e] = "dead_letter"
      <4>1. delivery'[e][p] = delivery[e][p]
        BY <2>2, <2>3, <3>3 DEF LockSteps
      <4>2. worker[delivery[e][p].lockedBy].phase = "gone"
        BY <2>3, <3>3, <4>1 DEF Incomplete
      <4>3. QED
        BY <2>2, <3>1, <4>1, <4>2 DEF PhaseSteps
    <3>4. QED
      BY <2>0, <2>3, <3>2, <3>3, IncompleteOutbox
  <2>4. ASSUME NEW e \in Event, outbox'[e] \in {"pending", "dead_letter"},
               \A p \in Required : delivery'[e][p].status = "synced"
        PROVE  FALSE
    <3>1. outbox[e] \in {"absent", "pending", "dead_letter"}
      BY <2>0, <2>4, IncompleteOutbox
    <3>2. PICK p \in Required : delivery[e][p].status # "synced"
      BY <2>0, <3>1, RequiredAssumption DEF Incomplete, NoOrphans
    <3>3. p \in Provider /\ delivery'[e][p].status = "synced"
      BY <2>4, RequiredAssumption
    <3>4. PICK x \in pushes : /\ x.provider = p /\ e \in x.ok
                              /\ HeldBy(delivery, e, p, x.worker)
                              /\ outbox' = CompletedOutbox(x)
                              /\ delivery' = MarkedSynced(delivery, p, x.worker, x.ok)
      BY <2>2, <3>2, <3>3 DEF Acknowledges
    <3>5. CASE outbox[e] = "absent"
      BY <2>0, <3>3, <3>4, <3>5 DEF NoOrphans, HeldBy
    <3>6. CASE outbox[e] = "dead_letter"
      BY <2>0, <3>3, <3>4, <3>6 DEF Incomplete, Attended, HeldBy
    <3>7. CASE outbox[e] = "pending"
      <4>1. RequiredRowsSynced(delivery'[e])
        BY <2>4, RequiredAssumption DEF RequiredRowsSynced
      <4>2. e \in Completed(x)
        BY <3>4 DEF Completed
      <4>3. outbox'[e] = "synced"
        BY <3>4, <3>7, <4>1, <4>2 DEF CompletedOutbox, UpdatedCompletion
      <4>4. QED
        BY <2>4, <4>3
    <3>8. QED
      BY <3>1, <3>5, <3>6, <3>7
  <2>5. QED
    BY <2>1, <2>3, <2>4 DEF Incomplete
<1>3. QED
  BY <1>1, <1>2, TypeCorrect, PTL DEF Spec

(* No event whose required rows are all synced is left incomplete, whichever
   provider and worker settles last, also when the single-replica worker and
   requeued dead letters come in between. *)
THEOREM CompletionIsNotMissed == Spec => []NoMissedCompletion
<1>1. Incomplete => NoMissedCompletion
  BY DEF Incomplete, NoMissedCompletion
<1>2. QED
  BY <1>1, IncompleteInvariant, PTL
=============================================================================
