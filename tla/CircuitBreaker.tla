--------------------------- MODULE CircuitBreaker ---------------------------
(***************************************************************************)
(* The circuit breaker of one provider (lib/sync/circuit-breaker.mjs) and  *)
(* the calls a sync worker makes on it in #processProvider, #pushEvents    *)
(* and #pushSnapshots (lib/sync/multi-worker.mjs).                         *)
(*                                                                         *)
(* The breaker lives in the worker's memory and is persisted in            *)
(* sync_metadata with almost every change.  Several pushes may be under    *)
(* way: when another provider rejects the round, the push of this one goes *)
(* on unattended and the next round takes its turn beside it.              *)
(***************************************************************************)
EXTENDS Naturals

CONSTANTS
  Threshold,    \* failureThreshold
  OpenTime,     \* openMs, in ticks
  Slot          \* bound: pushes under way at any time

ASSUME ThresholdAssumption == Threshold \in Nat \ {0}
ASSUME TimeAssumption == OpenTime \in Nat \ {0}

VARIABLES
  breaker,   \* the SyncCircuitBreaker of the running worker
  stored,    \* its row in sync_metadata
  running,   \* is there a worker process?
  push,      \* what the worker awaits from the provider, by slot
  flaky,     \* may SQLite throw in this behaviour?  Chosen once, for all of it.
  late       \* history: since nothing was under way, some push was for OpenTime

vars == <<breaker, stored, running, push, flaky, late>>

State == {"CLOSED", "OPEN", "HALF_OPEN"}

(* left: openUntil - now.  failures counts up to Threshold, beyond which no
   comparison distinguishes it.  probe: #probeInFlight. *)
Saved == [state : State, failures : 0..Threshold, left : 0..OpenTime]

Breaker == [state : State, failures : 0..Threshold, left : 0..OpenTime, probe : BOOLEAN]

(* age: how long the push is under way, up to OpenTime.  Nothing ends it for
   that: Turso's transport has no timeout, and a push of snapshots is several
   queries. *)
NoPush == [kind |-> "none", awaited |-> FALSE, age |-> 0]

NewPush(kind, awaited) == [kind |-> kind, awaited |-> awaited, age |-> 0]

InFlight(s) == push[s].kind # "none"

TypeOK ==
  /\ breaker \in Breaker
  /\ stored \in Saved
  /\ running \in BOOLEAN
  /\ push \in [Slot -> [kind : {"none", "events", "snapshots"},
                        awaited : BOOLEAN, age : 0..OpenTime]]
  /\ flaky \in BOOLEAN
  /\ late \in BOOLEAN

NewBreaker == [state |-> "CLOSED", failures |-> 0, left |-> 0, probe |-> FALSE]

(* Mutant: the end of the open period is not persisted. *)
Persisted_WithoutDeadline(b) == [state |-> b.state, failures |-> b.failures, left |-> 0]

Persisted(b) == [state |-> b.state, failures |-> b.failures, left |-> b.left]

(* #restore: what a new process takes from the row. *)
Restored(row) ==
  [state    |-> IF row.state = "HALF_OPEN" THEN "OPEN" ELSE row.state,
   failures |-> row.failures,
   left     |-> IF row.state = "HALF_OPEN" THEN 0 ELSE row.left,
   probe    |-> FALSE]

Init ==
  /\ breaker = NewBreaker
  /\ stored = Persisted(NewBreaker)
  /\ running = FALSE
  /\ push = [s \in Slot |-> NoPush]
  /\ flaky \in BOOLEAN
  /\ late = FALSE
-----------------------------------------------------------------------------
(* The operations of the breaker. *)

CanAttempt(b) ==
  \/ b.state = "CLOSED"
  \/ b.state = "OPEN" /\ b.left = 0
  \/ b.state = "HALF_OPEN" /\ ~b.probe

(* Mutant: the probe is not reserved. *)
Attempted_Unreserved(b) ==
  IF b.state = "CLOSED" THEN b ELSE [b EXCEPT !.state = "HALF_OPEN"]

(* canAttempt has returned true. *)
Attempted(b) ==
  IF b.state = "CLOSED" THEN b ELSE [b EXCEPT !.state = "HALF_OPEN", !.probe = TRUE]

Cancelled(b) == [b EXCEPT !.probe = FALSE]

Succeeded(b) == NewBreaker

Opened(b) == [b EXCEPT !.state = "OPEN", !.left = OpenTime]

(* kind: "opening" stands for quota, rate_limit, configuration and
   schema_unavailable, "permanent" for a failure that does not affect the
   circuit, "transient" for any other. *)
Opens(b, kind) ==
  b.state = "HALF_OPEN" \/ kind = "opening" \/ b.failures + 1 >= Threshold

(* Mutant: a failure that does not affect the circuit keeps the probe. *)
Failed_KeepsProbe(b, kind) ==
  LET counted == [b EXCEPT !.probe = FALSE,
                           !.failures = IF @ < Threshold THEN @ + 1 ELSE @]
  IN IF kind = "permanent" THEN b
     ELSE IF Opens(b, kind) THEN Opened(counted) ELSE counted

(* recordFailure *)
Failed(b, kind) ==
  LET counted == [b EXCEPT !.probe = FALSE,
                           !.failures = IF @ < Threshold THEN @ + 1 ELSE @]
  IN IF kind = "permanent" THEN Cancelled(b)
     ELSE IF Opens(b, kind) THEN Opened(counted) ELSE counted
-----------------------------------------------------------------------------
(* The worker's turn for this provider, a synchronous piece of JavaScript. *)

TurnMayBegin == running /\ \A s \in Slot : ~push[s].awaited

(* The transition to HALF_OPEN is persisted, if SQLite does not throw. *)
SavedAttempt == IF breaker.state = "OPEN" THEN Persisted(Attempted(breaker)) ELSE stored

(* A batch is found.  No events but snapshots: the attempt is cancelled and
   made again. *)
Push(s, kind) ==
  /\ TurnMayBegin /\ CanAttempt(breaker)
  /\ ~InFlight(s)
  /\ breaker' = Attempted(breaker)
  /\ stored' = SavedAttempt
  /\ push' = [push EXCEPT ![s] = NewPush(kind, TRUE)]
  /\ UNCHANGED running

NothingDue ==
  /\ TurnMayBegin /\ CanAttempt(breaker)
  /\ breaker' = Cancelled(Attempted(breaker))
  /\ stored' = SavedAttempt
  /\ UNCHANGED <<running, push>>

(* canAttempt could not persist: it throws before it reserves the probe. *)
AttemptThrows ==
  /\ flaky
  /\ TurnMayBegin /\ breaker.state = "OPEN" /\ breaker.left = 0
  /\ breaker' = Cancelled(Attempted(breaker))
  /\ UNCHANGED <<stored, running, push>>

(* A claim throws after the probe was reserved: nothing gives it back. *)
ClaimThrows ==
  /\ flaky
  /\ TurnMayBegin /\ CanAttempt(breaker)
  /\ breaker' = Attempted(breaker)
  /\ stored' = SavedAttempt
  /\ UNCHANGED <<running, push>>

(* Another provider rejects the round. *)
RoundRejected ==
  /\ \E s \in Slot : push[s].awaited
  /\ push' = [s \in Slot |-> [push[s] EXCEPT !.awaited = FALSE]]
  /\ UNCHANGED <<breaker, stored, running>>
-----------------------------------------------------------------------------
(* A push settles. *)

(* recordSuccess and recordFailure persist after they changed the breaker. *)
Record(b) ==
  /\ breaker' = b
  /\ \/ stored' = Persisted(b)
     \/ flaky /\ UNCHANGED stored

(* Every event or snapshot is stored, or some event failed for good.  After
   a batch of events without a failure the worker may go on with snapshots. *)
PushSucceeds(s) ==
  /\ InFlight(s)
  /\ Record(Succeeded(breaker))
  /\ \/ push' = [push EXCEPT ![s] = NoPush]
     \/ /\ push[s].kind = "events" /\ stored' = Persisted(breaker')
        /\ push' = [push EXCEPT ![s] = NewPush("snapshots", push[s].awaited)]
  /\ UNCHANGED running

PushFails(s, kind) ==
  /\ InFlight(s)
  /\ Record(Failed(breaker, kind))
  /\ push' = [push EXCEPT ![s] = NoPush]
  /\ UNCHANGED running

(* In #pushSnapshots an SQLite error that follows recordSuccess is caught and
   recorded like a failure of the provider. *)
SuccessNotSaved(s, kind) ==
  /\ flaky
  /\ push[s].kind = "snapshots"
  /\ breaker' = Failed(Succeeded(breaker), kind)
  /\ stored' \in {stored, Persisted(Succeeded(breaker)), Persisted(breaker')}
  /\ push' = [push EXCEPT ![s] = NoPush]
  /\ UNCHANGED running

(* The provider left out some snapshots. *)
SnapshotsOmitted(s) ==
  /\ push[s].kind = "snapshots"
  /\ breaker' = Cancelled(breaker)
  /\ push' = [push EXCEPT ![s] = NoPush]
  /\ UNCHANGED <<stored, running>>

(* recordAttempt or the settling of an item throws: the breaker never hears
   of the push. *)
SettleThrows(s) ==
  /\ flaky
  /\ InFlight(s)
  /\ push' = [push EXCEPT ![s] = NoPush]
  /\ UNCHANGED <<breaker, stored, running>>
-----------------------------------------------------------------------------
(* The process and time *)

Start ==
  /\ ~running /\ running' = TRUE
  /\ breaker' = Restored(stored)
  /\ UNCHANGED <<stored, push>>

(* Stopped or dead: its memory and what it awaited are gone. *)
Exit ==
  /\ running /\ running' = FALSE
  /\ breaker' = NewBreaker
  /\ push' = [s \in Slot |-> NoPush]
  /\ UNCHANGED stored

Less(n) == IF n > 0 THEN n - 1 ELSE n

Aged(x) == IF x.kind = "none" \/ x.age = OpenTime THEN x ELSE [x EXCEPT !.age = @ + 1]

Tick ==
  /\ breaker' = [breaker EXCEPT !.left = Less(@)]
  /\ stored' = [stored EXCEPT !.left = Less(@)]
  /\ push' = [s \in Slot |-> Aged(push[s])]
  /\ UNCHANGED running
-----------------------------------------------------------------------------
Turn ==
  \/ \E s \in Slot, kind \in {"events", "snapshots"} : Push(s, kind)
  \/ NothingDue
  \/ AttemptThrows
  \/ ClaimThrows

PushEnds(s) ==
  \/ PushSucceeds(s)
  \/ \E kind \in {"opening", "transient", "permanent"} :
       PushFails(s, kind) \/ SuccessNotSaved(s, kind)
  \/ SnapshotsOmitted(s)
  \/ SettleThrows(s)

Step ==
  \/ Turn
  \/ RoundRejected
  \/ \E s \in Slot : PushEnds(s)
  \/ Start
  \/ Exit
  \/ Tick

Noted ==
  /\ UNCHANGED flaky
  /\ late' = /\ \E s \in Slot : push'[s].kind # "none"
             /\ late \/ \E s \in Slot : push'[s].age = OpenTime

Next == Step /\ Noted

Spec == Init /\ [][Next]_vars

(* Clocks go on, and a push ends at some time, later than any open period
   perhaps: PostgreSQL's by the query timeout, Turso's, which has none, because
   its connection does.  Nothing makes it succeed. *)
FairSpec ==
  /\ Spec
  /\ WF_vars(Tick /\ Noted)
  /\ \A s \in Slot : WF_vars(PushEnds(s) /\ Noted)
-----------------------------------------------------------------------------
(* A closed circuit has seen fewer failures in a row than the threshold,
   also one that a new process restored (recordFailure, #restore). *)
ClosedBelowThreshold ==
  breaker.state = "CLOSED" => breaker.failures < Threshold

(* While the circuit is HALF_OPEN one push at most is under way, the probe,
   unless a push took as long as the circuit stays open.  Nothing forbids that
   one: it may be beside the probe and settle its fate, so that another turn
   probes too.  Without it, pushes of the time before the circuit opened are
   over when the probe begins (canAttempt, #probeInFlight). *)
OneProbe ==
  breaker.state = "HALF_OPEN" /\ ~late =>
    \A s, t \in Slot : InFlight(s) /\ InFlight(t) => s = t

(* Unless SQLite throws, while a probe is reserved a push is under way, be it
   the probe or an older one: whatever way the last of them ends, the
   reservation ends with it, so that the next turn can probe again.  (When a
   claim or the settling of a push throws, nothing gives it back.) *)
ReservationIsAPush ==
  ~flaky /\ running /\ breaker.state = "HALF_OPEN" /\ breaker.probe => \E s \in Slot : InFlight(s)

(* A reserved probe has a push under way, also beside pushes that never end;
   and where no push takes as long as the open period, it is the only one. *)
ProbeIsThePush == OneProbe /\ ReservationIsAPush

(* Unless SQLite throws, a crash forgets nothing: the process that comes next finds the failures
   and the open period of the one that died (#persist, #restore). *)
CrashForgetsNothing ==
  ~flaky /\ running =>
    LET next == Restored(stored)
    IN /\ next.failures = breaker.failures /\ next.left = breaker.left
       /\ next.state = "CLOSED" <=> breaker.state = "CLOSED"

(* docs/worker-recovery-phase1.md: the circuit recovers through timed probes:
   again and again a running worker may attempt the provider, if SQLite does
   not throw and pushes end. *)
ProviderIsTriedAgain == ~flaky => []<>(running => CanAttempt(breaker))
=============================================================================
