------------------------ MODULE CircuitBreakerProofs ------------------------
(***************************************************************************)
(* Safety of the circuit breaker for every threshold, all times and every  *)
(* number of pushes under way, with and without local errors.              *)
(***************************************************************************)
EXTENDS CircuitBreaker, TLAPS

Kind == {"opening", "transient", "permanent"}

PushRecord == [kind : {"none", "events", "snapshots"}, awaited : BOOLEAN, age : 0..OpenTime]

(* The operations of the breaker return a breaker. *)
LEMMA BreakerTypes ==
  /\ NewBreaker \in Breaker
  /\ \A b \in Breaker :
       /\ Persisted(b) \in Saved
       /\ Attempted(b) \in Breaker
       /\ Cancelled(b) \in Breaker
       /\ Succeeded(b) \in Breaker
       /\ [b EXCEPT !.left = Less(@)] \in Breaker
  /\ \A row \in Saved : Restored(row) \in Breaker /\ [row EXCEPT !.left = Less(@)] \in Saved
<1> USE ThresholdAssumption, TimeAssumption
<1>1. NewBreaker \in Breaker
  BY DEF NewBreaker, Breaker, State
<1>2. ASSUME NEW b \in Breaker
      PROVE  /\ Persisted(b) \in Saved
             /\ Attempted(b) \in Breaker
             /\ Cancelled(b) \in Breaker
             /\ Succeeded(b) \in Breaker
             /\ [b EXCEPT !.left = Less(@)] \in Breaker
  <2>1. Persisted(b) \in Saved
    BY DEF Persisted, Breaker, Saved
  <2>2. Attempted(b) \in Breaker /\ Cancelled(b) \in Breaker
    BY DEF Attempted, Cancelled, Breaker, State
  <2>3. Less(b.left) \in 0..OpenTime
    BY DEF Less, Breaker
  <2>4. QED
    BY <1>1, <2>1, <2>2, <2>3 DEF Succeeded, Breaker
<1>3. ASSUME NEW row \in Saved
      PROVE  Restored(row) \in Breaker /\ [row EXCEPT !.left = Less(@)] \in Saved
  <2>1. Less(row.left) \in 0..OpenTime
    BY DEF Less, Saved
  <2>2. QED
    BY <2>1 DEF Restored, Breaker, Saved, State
<1>4. QED
  BY <1>1, <1>2, <1>3

(* What recordFailure leaves: the state, the failures and the open period. *)
LEMMA FailedBreaker ==
  ASSUME NEW b \in Breaker, NEW kind \in Kind
  PROVE  /\ Failed(b, kind) \in Breaker
         /\ Failed(b, kind).state = "OPEN" =>
              \/ Failed(b, kind).left = OpenTime
              \/ b.state = "OPEN" /\ Failed(b, kind).left = b.left
         /\ Failed(b, kind).state = "HALF_OPEN" =>
              b.state = "HALF_OPEN" /\ Failed(b, kind).left = b.left
         /\ Failed(b, kind).state = "CLOSED" =>
              \/ b.state = "CLOSED" /\ Failed(b, kind).failures = b.failures
              \/ Failed(b, kind).failures < Threshold
<1> USE ThresholdAssumption, TimeAssumption
<1> DEFINE n == IF b.failures < Threshold THEN b.failures + 1 ELSE b.failures
           counted == [b EXCEPT !.probe = FALSE, !.failures = n]
<1>1. n \in 0..Threshold
  BY DEF Breaker
<1>2. counted \in Breaker /\ counted.state = b.state /\ counted.left = b.left
      /\ counted.failures = n
  BY <1>1 DEF Breaker
<1>3. Failed(b, kind) = IF kind = "permanent" THEN Cancelled(b)
                        ELSE IF Opens(b, kind) THEN Opened(counted) ELSE counted
  BY DEF Failed
<1> HIDE DEF counted
<1>4. CASE kind = "permanent"
  BY <1>3, <1>4 DEF Cancelled, Breaker
<1>5. CASE kind # "permanent" /\ Opens(b, kind)
  <2>1. Failed(b, kind) = [counted EXCEPT !.state = "OPEN", !.left = OpenTime]
    BY <1>3, <1>5 DEF Opened
  <2>2. OpenTime \in 0..OpenTime /\ "OPEN" \in State
    BY DEF State
  <2>3. [counted EXCEPT !.state = "OPEN", !.left = OpenTime] \in Breaker
    BY <1>2, <2>2 DEF Breaker
  <2>4. Failed(b, kind).state = "OPEN" /\ Failed(b, kind).left = OpenTime
    BY <1>2, <2>1 DEF Breaker
  <2>5. QED
    BY <2>1, <2>3, <2>4
<1>6. CASE kind # "permanent" /\ ~Opens(b, kind)
  <2>1. b.state # "HALF_OPEN" /\ ~(b.failures + 1 >= Threshold)
    BY <1>6 DEF Opens
  <2>2. n < Threshold
    BY <2>1 DEF Breaker
  <2>3. QED
    BY <1>2, <1>3, <1>6, <2>1, <2>2
<1>7. QED
  BY <1>4, <1>5, <1>6
-----------------------------------------------------------------------------
(* What a step may do to the breaker, its row and the pushes, for the type
   invariant. *)
LEMMA PushTypes ==
  ASSUME push \in [Slot -> PushRecord]
  PROVE  /\ NoPush \in PushRecord
         /\ \A kind \in {"events", "snapshots"}, awaited \in BOOLEAN :
              NewPush(kind, awaited) \in PushRecord
         /\ \A s \in Slot : [push[s] EXCEPT !.awaited = FALSE] \in PushRecord
         /\ \A s \in Slot : Aged(push[s]) \in PushRecord
         /\ \A s \in Slot, x \in PushRecord : [push EXCEPT ![s] = x] \in [Slot -> PushRecord]
<1> USE TimeAssumption
<1>2. ASSUME NEW s \in Slot
      PROVE  /\ [push[s] EXCEPT !.awaited = FALSE] \in PushRecord
             /\ Aged(push[s]) \in PushRecord
  <2>1. push[s] \in PushRecord
    OBVIOUS
  <2>2. [push[s] EXCEPT !.awaited = FALSE] \in PushRecord
    BY <2>1 DEF PushRecord
  <2>3. push[s].age # OpenTime => [push[s] EXCEPT !.age = @ + 1] \in PushRecord
    BY <2>1 DEF PushRecord
  <2>4. QED
    BY <2>1, <2>2, <2>3 DEF Aged
<1>3. NoPush \in PushRecord
  BY DEF NoPush, PushRecord
<1>4. ASSUME NEW kind \in {"events", "snapshots"}, NEW awaited \in BOOLEAN
      PROVE  NewPush(kind, awaited) \in PushRecord
  BY DEF NewPush, PushRecord
<1>5. ASSUME NEW s \in Slot, NEW x \in PushRecord
      PROVE  [push EXCEPT ![s] = x] \in [Slot -> PushRecord]
  OBVIOUS
<1>6. QED
  BY <1>2, <1>3, <1>4, <1>5
-----------------------------------------------------------------------------
LEMMA TypeInit == Init => TypeOK
<1>1. NoPush \in PushRecord
  BY TimeAssumption DEF NoPush, PushRecord
<1>2. QED
  BY <1>1, BreakerTypes DEF Init, TypeOK, PushRecord

LEMMA TypeStep == TypeOK /\ [Next]_vars => TypeOK'
<1> SUFFICES ASSUME TypeOK, [Next]_vars PROVE TypeOK'
  OBVIOUS
<1>0. /\ breaker \in Breaker /\ stored \in Saved /\ running \in BOOLEAN
      /\ push \in [Slot -> PushRecord]
  BY DEF TypeOK, PushRecord
<1>f. flaky' \in BOOLEAN /\ late' \in BOOLEAN
  BY DEF TypeOK, Next, Noted, vars
<1>a. SUFFICES /\ breaker' \in Breaker /\ stored' \in Saved /\ running' \in BOOLEAN
               /\ push' \in [Slot -> PushRecord]
  BY <1>f DEF TypeOK, PushRecord
<1>b. SavedAttempt \in Saved
  BY <1>0, BreakerTypes DEF SavedAttempt
<1>1. ASSUME NEW s \in Slot, NEW kind \in {"events", "snapshots"}, Push(s, kind)
      PROVE  TypeOK'
  BY <1>0, <1>1, <1>b, <1>f, BreakerTypes, PushTypes DEF Push, TypeOK, PushRecord
<1>2. CASE NothingDue \/ AttemptThrows \/ ClaimThrows
  BY <1>0, <1>2, <1>b, BreakerTypes DEF NothingDue, AttemptThrows, ClaimThrows
<1>3. CASE RoundRejected
  BY <1>0, <1>3, PushTypes DEF RoundRejected
<1>4. ASSUME NEW s \in Slot, PushSucceeds(s)
      PROVE  TypeOK'
  <2>1. breaker' \in Breaker /\ stored' \in Saved
    BY <1>0, <1>4, BreakerTypes DEF PushSucceeds, Record
  <2>2. push[s].awaited \in BOOLEAN
    BY <1>0 DEF PushRecord
  <2>3. QED
    BY <1>0, <1>4, <1>f, <2>1, <2>2, PushTypes DEF PushSucceeds, TypeOK, PushRecord
<1>5. ASSUME NEW s \in Slot, NEW kind \in Kind, PushFails(s, kind)
      PROVE  TypeOK'
  <2>1. breaker' \in Breaker
    BY <1>0, <1>5, FailedBreaker DEF PushFails, Record
  <2>2. stored' \in Saved
    BY <1>0, <1>5, <2>1, BreakerTypes DEF PushFails, Record
  <2>3. push' \in [Slot -> PushRecord] /\ running' \in BOOLEAN
    BY <1>0, <1>5, PushTypes DEF PushFails
  <2>4. QED
    BY <1>f, <2>1, <2>2, <2>3 DEF TypeOK, PushRecord
<1>6. ASSUME NEW s \in Slot, NEW kind \in Kind, SuccessNotSaved(s, kind)
      PROVE  TypeOK'
  <2>1. Succeeded(breaker) \in Breaker
    BY <1>0, BreakerTypes
  <2>2. breaker' \in Breaker
    BY <1>6, <2>1, FailedBreaker DEF SuccessNotSaved
  <2>3. stored' \in Saved
    BY <1>0, <1>6, <2>1, <2>2, BreakerTypes DEF SuccessNotSaved
  <2>4. QED
    BY <1>0, <1>6, <1>f, <2>2, <2>3, PushTypes DEF SuccessNotSaved, TypeOK, PushRecord
<1>7. ASSUME NEW s \in Slot, SnapshotsOmitted(s) \/ SettleThrows(s)
      PROVE  TypeOK'
  <2>1. push' \in [Slot -> PushRecord]
    BY <1>0, <1>7, PushTypes DEF SnapshotsOmitted, SettleThrows
  <2>2. breaker' \in Breaker /\ stored' \in Saved /\ running' \in BOOLEAN
    BY <1>0, <1>7, BreakerTypes DEF SnapshotsOmitted, SettleThrows
  <2>3. QED
    BY <1>f, <2>1, <2>2 DEF TypeOK, PushRecord
<1>8. CASE Start \/ Exit
  BY <1>0, <1>8, BreakerTypes, PushTypes DEF Start, Exit
<1>9. CASE Tick
  BY <1>0, <1>9, BreakerTypes, PushTypes DEF Tick
<1>10. CASE UNCHANGED vars
  BY <1>0, <1>10 DEF vars
<1>11. QED
  BY <1>0, <1>f, <1>1, <1>2, <1>3, <1>4, <1>5, <1>6, <1>7, <1>8, <1>9, <1>10
     DEF Next, Step, Turn, PushEnds, Kind, TypeOK, PushRecord

(* Every reachable state is well typed: failures and times stay within the
   bounds of the configuration (SyncCircuitBreaker, #processProvider). *)
THEOREM TypeCorrect == Spec => []TypeOK
BY TypeInit, TypeStep, PTL DEF Spec
-----------------------------------------------------------------------------
(* ClosedBelowThreshold is not inductive: a new process takes its failures
   from the row. *)
FewFailures ==
  /\ ClosedBelowThreshold
  /\ stored.state = "CLOSED" => stored.failures < Threshold

LEMMA FewFailuresInit == Init => FewFailures
BY ThresholdAssumption
   DEF Init, FewFailures, ClosedBelowThreshold, NewBreaker, Persisted

LEMMA FewFailuresStep == TypeOK /\ FewFailures /\ [Next]_vars => FewFailures'
<1> SUFFICES ASSUME TypeOK, FewFailures, [Next]_vars PROVE FewFailures'
  OBVIOUS
<1> DEFINE Few(b) == b.state = "CLOSED" => b.failures < Threshold
<1>0. breaker \in Breaker /\ stored \in Saved /\ Few(breaker) /\ Few(stored)
  BY DEF TypeOK, FewFailures, ClosedBelowThreshold
<1>a. SUFFICES Few(breaker') /\ Few(stored')
  BY DEF FewFailures, ClosedBelowThreshold
<1>b. Few(NewBreaker)
  BY ThresholdAssumption DEF NewBreaker
<1>c. ASSUME NEW b \in Breaker, Few(b)
      PROVE  /\ Few(Persisted(b)) /\ Few(Attempted(b)) /\ Few(Cancelled(b))
             /\ Few(Cancelled(Attempted(b)))
  BY <1>c DEF Persisted, Attempted, Cancelled, Breaker
<1>d. ASSUME NEW b \in Breaker, Few(b), NEW kind \in Kind
      PROVE  Few(Failed(b, kind)) /\ Few(Persisted(Failed(b, kind)))
  <2>1. Few(Failed(b, kind))
    BY <1>d, FailedBreaker
  <2>2. Failed(b, kind) \in Breaker
    BY FailedBreaker
  <2>3. QED
    BY <1>c, <2>1, <2>2
<1>e. Attempted(breaker) \in Breaker /\ Few(Attempted(breaker)) /\ Few(SavedAttempt)
  BY <1>0, <1>c, BreakerTypes DEF SavedAttempt
<1>f. NewBreaker \in Breaker /\ Few(Persisted(NewBreaker))
  BY <1>b, <1>c, BreakerTypes
<1>1. ASSUME NEW s \in Slot, NEW kind \in {"events", "snapshots"}, Push(s, kind)
      PROVE  FewFailures'
  BY <1>1, <1>e DEF Push, FewFailures, ClosedBelowThreshold
<1>2. CASE NothingDue \/ AttemptThrows \/ ClaimThrows
  BY <1>0, <1>2, <1>c, <1>e DEF NothingDue, AttemptThrows, ClaimThrows
<1>3. CASE RoundRejected
  BY <1>0, <1>3 DEF RoundRejected
<1>4. ASSUME NEW s \in Slot, PushSucceeds(s)
      PROVE  FewFailures'
  BY <1>0, <1>4, <1>b, <1>f
     DEF PushSucceeds, Record, Succeeded, FewFailures, ClosedBelowThreshold
<1>5. ASSUME NEW s \in Slot, NEW kind \in Kind, PushFails(s, kind)
      PROVE  FewFailures'
  BY <1>0, <1>5, <1>d DEF PushFails, Record, FewFailures, ClosedBelowThreshold
<1>6. ASSUME NEW s \in Slot, NEW kind \in Kind, SuccessNotSaved(s, kind)
      PROVE  FewFailures'
  <2>1. Few(breaker') /\ Few(Persisted(breaker'))
    BY <1>6, <1>b, <1>d, <1>f DEF SuccessNotSaved, Succeeded
  <2>2. Few(stored')
    BY <1>0, <1>6, <1>f, <2>1 DEF SuccessNotSaved, Succeeded
  <2>3. QED
    BY <2>1, <2>2 DEF FewFailures, ClosedBelowThreshold
<1>7. ASSUME NEW s \in Slot, SnapshotsOmitted(s) \/ SettleThrows(s)
      PROVE  FewFailures'
  BY <1>0, <1>7, <1>c DEF SnapshotsOmitted, SettleThrows, FewFailures, ClosedBelowThreshold
<1>8. CASE Start
  BY <1>0, <1>8 DEF Start, Restored
<1>9. CASE Exit
  BY <1>0, <1>9, <1>b DEF Exit
<1>10. CASE Tick
  BY <1>0, <1>10 DEF Tick, Breaker, Saved
<1>11. CASE UNCHANGED vars
  BY <1>0, <1>11 DEF vars
<1>12. QED
  BY <1>1, <1>2, <1>3, <1>4, <1>5, <1>6, <1>7, <1>8, <1>9, <1>10, <1>11
     DEF Next, Step, Turn, PushEnds, Kind, FewFailures, ClosedBelowThreshold

(* A closed circuit has counted fewer failures in a row than the threshold,
   after a restart too (recordFailure, #restore). *)
THEOREM ClosedMeansFewFailures == Spec => []ClosedBelowThreshold
<1>1. FewFailures => ClosedBelowThreshold
  BY DEF FewFailures
<1>2. QED
  BY <1>1, TypeInit, TypeStep, FewFailuresInit, FewFailuresStep, PTL DEF Spec
-----------------------------------------------------------------------------
(* OneProbe is not inductive.  A push that is under way when the circuit
   opens has been so for the whole open period when it ends, and is late then;
   a push that is under way in a half-open circuit has the reservation, if
   none is late; a new process has no pushes. *)
ProbeInv ==
  /\ OneProbe
  /\ ~late => \A s \in Slot : InFlight(s) => push[s].age < OpenTime
  /\ breaker.state = "OPEN" =>
       \A s \in Slot : InFlight(s) => push[s].age + breaker.left >= OpenTime
  /\ breaker.state = "HALF_OPEN" /\ ~late => \A s \in Slot : InFlight(s) => breaker.probe
  /\ ~running => \A s \in Slot : ~InFlight(s)

LEMMA ProbeInit == Init => ProbeInv
BY DEF Init, ProbeInv, OneProbe, InFlight, NoPush, NewBreaker

LEMMA ProbeStep ==
  ASSUME TypeOK, ProbeInv, [Next]_vars
  PROVE  ProbeInv'
<1> USE TimeAssumption
<1>0. breaker \in Breaker /\ stored \in Saved /\ push \in [Slot -> PushRecord]
  BY DEF TypeOK, PushRecord
<1>a. \A s \in Slot : push[s].age \in 0..OpenTime
  BY <1>0 DEF PushRecord
<1>l. CASE UNCHANGED vars
  BY <1>l DEF vars, ProbeInv, OneProbe, InFlight
<1> SUFFICES ASSUME Next PROVE ProbeInv'
  BY <1>l
<1>m. ASSUME ~late', NEW t \in Slot, InFlight(t)'
      PROVE  ~late /\ \A s \in Slot : push'[s].age # OpenTime
  BY <1>m DEF Next, Noted, InFlight
<1>n. ASSUME NEW s \in Slot, InFlight(s)', ~late'
      PROVE  push'[s].age < OpenTime
  <2>1. push'[s].age \in 0..OpenTime
    BY TypeStep DEF TypeOK, PushRecord
  <2>2. QED
    BY <1>m, <1>n, <2>1
<1>b. ASSUME CanAttempt(breaker), breaker.state # "CLOSED", ~late, NEW s \in Slot
      PROVE  ~InFlight(s)
  <2>1. CASE breaker.state = "OPEN"
    BY <1>a, <1>b, <1>0, <2>1 DEF CanAttempt, ProbeInv, Breaker
  <2>2. CASE breaker.state = "HALF_OPEN"
    BY <1>b, <2>2 DEF CanAttempt, ProbeInv
  <2>3. QED
    BY <1>0, <1>b, <2>1, <2>2 DEF Breaker, State
<1>c. ASSUME NEW s \in Slot, InFlight(s) PROVE running
  BY <1>c DEF ProbeInv, TypeOK
<1>d. ASSUME NEW s \in Slot, push' = [push EXCEPT ![s] = NoPush], NEW t \in Slot, InFlight(t)'
      PROVE  t # s /\ InFlight(t) /\ push'[t] = push[t]
  BY <1>0, <1>d DEF InFlight, NoPush
<1>e. ASSUME NEW s \in Slot, InFlight(s), push' = [push EXCEPT ![s] = NoPush],
             breaker.state = "HALF_OPEN", ~late, NEW t \in Slot
      PROVE  ~InFlight(t)'
  BY <1>d, <1>e DEF ProbeInv, OneProbe
<1>1. ASSUME NEW s \in Slot, NEW kind \in {"events", "snapshots"}, Push(s, kind)
      PROVE  ProbeInv'
  <2>1. CanAttempt(breaker) /\ running' /\ breaker' = Attempted(breaker)
    BY <1>1 DEF Push, TurnMayBegin
  <2>2. CASE breaker.state = "CLOSED"
    BY <1>n, <2>1, <2>2 DEF Attempted, ProbeInv, OneProbe
  <2>3. CASE breaker.state # "CLOSED"
    <3>1. breaker'.state = "HALF_OPEN" /\ breaker'.probe
      BY <1>0, <2>1, <2>3 DEF Attempted, Breaker
    <3>2. ASSUME ~late', NEW t \in Slot, InFlight(t)' PROVE t = s
      BY <1>0, <1>1, <1>b, <1>m, <2>1, <2>3, <3>2 DEF Push, InFlight
    <3>3. QED
      BY <1>n, <2>1, <3>1, <3>2 DEF ProbeInv, OneProbe
  <2>4. QED
    BY <2>2, <2>3
<1>2. CASE NothingDue \/ AttemptThrows \/ ClaimThrows
  <2>1. CanAttempt(breaker) /\ running' /\ push' = push
    BY <1>2 DEF NothingDue, AttemptThrows, ClaimThrows, TurnMayBegin, CanAttempt
  <2>2. breaker' \in {Attempted(breaker), Cancelled(Attempted(breaker))}
    BY <1>2 DEF NothingDue, AttemptThrows, ClaimThrows
  <2>3. CASE breaker.state = "CLOSED"
    <3>1. breaker'.state = "CLOSED"
      BY <1>0, <2>2, <2>3 DEF Attempted, Cancelled, Breaker
    <3>2. QED
      BY <1>n, <2>1, <3>1 DEF ProbeInv, OneProbe
  <2>4. CASE breaker.state # "CLOSED"
    <3>1. breaker'.state = "HALF_OPEN"
      BY <1>0, <2>2, <2>4 DEF Attempted, Cancelled, Breaker
    <3>2. ASSUME ~late' PROVE \A t \in Slot : ~InFlight(t)'
      BY <1>b, <1>m, <2>1, <2>4, <3>2 DEF InFlight
    <3>3. QED
      BY <1>n, <2>1, <3>1, <3>2 DEF ProbeInv, OneProbe
  <2>5. QED
    BY <2>3, <2>4
<1>3. CASE RoundRejected
  <2>1. \A t \in Slot : push'[t].kind = push[t].kind /\ push'[t].age = push[t].age
    BY <1>0, <1>3 DEF RoundRejected, PushRecord
  <2>2. \A t \in Slot : InFlight(t)' /\ ~late' => ~late
    BY <1>m
  <2>3. QED
    BY <1>3, <1>n, <2>1, <2>2 DEF RoundRejected, ProbeInv, OneProbe, InFlight
<1>4. ASSUME NEW s \in Slot, PushSucceeds(s)
      PROVE  ProbeInv'
  <2>1. running' /\ breaker'.state = "CLOSED"
    BY <1>4, <1>c DEF PushSucceeds, Record, Succeeded, NewBreaker
  <2>2. QED
    BY <1>n, <2>1 DEF ProbeInv, OneProbe
<1>5. ASSUME NEW s \in Slot, NEW kind \in Kind, PushFails(s, kind)
      PROVE  ProbeInv'
  <2>1. /\ InFlight(s) /\ running'
        /\ push' = [push EXCEPT ![s] = NoPush]
        /\ breaker' = Failed(breaker, kind)
    BY <1>5, <1>c DEF PushFails, Record
  <2>2. ASSUME breaker'.state = "OPEN", NEW t \in Slot, InFlight(t)'
        PROVE  push'[t].age + breaker'.left >= OpenTime
    <3>1. push'[t] = push[t] /\ InFlight(t)
      BY <1>d, <2>1, <2>2
    <3>2. CASE breaker'.left = OpenTime
      BY <1>a, <3>1, <3>2
    <3>3. CASE breaker.state = "OPEN" /\ breaker'.left = breaker.left
      BY <3>1, <3>3 DEF ProbeInv
    <3>4. QED
      BY <1>0, <2>1, <2>2, <3>2, <3>3, FailedBreaker
  <2>3. ASSUME breaker'.state = "HALF_OPEN", ~late', NEW t \in Slot
        PROVE  ~InFlight(t)'
    BY <1>0, <1>e, <1>m, <2>1, <2>3, FailedBreaker
  <2>4. QED
    BY <1>n, <2>1, <2>2, <2>3 DEF ProbeInv, OneProbe
<1>6. ASSUME NEW s \in Slot, NEW kind \in Kind, SuccessNotSaved(s, kind)
      PROVE  ProbeInv'
  <2>1. /\ running'
        /\ push' = [push EXCEPT ![s] = NoPush]
        /\ breaker' = Failed(NewBreaker, kind)
    BY <1>6, <1>c DEF SuccessNotSaved, Succeeded, InFlight
  <2>2. NewBreaker \in Breaker /\ NewBreaker.state = "CLOSED"
    BY BreakerTypes DEF NewBreaker
  <2>3. breaker'.state # "HALF_OPEN" /\ (breaker'.state = "OPEN" => breaker'.left = OpenTime)
    BY <2>1, <2>2, FailedBreaker
  <2>4. \A t \in Slot : InFlight(t)' => push'[t] = push[t]
    BY <1>d, <2>1
  <2>5. QED
    BY <1>a, <1>n, <2>1, <2>3, <2>4 DEF ProbeInv, OneProbe
<1>7. ASSUME NEW s \in Slot, SnapshotsOmitted(s) \/ SettleThrows(s)
      PROVE  ProbeInv'
  <2>1. /\ InFlight(s) /\ running'
        /\ push' = [push EXCEPT ![s] = NoPush]
        /\ breaker'.state = breaker.state /\ breaker'.left = breaker.left
    BY <1>0, <1>7, <1>c DEF SnapshotsOmitted, SettleThrows, InFlight, Cancelled, Breaker
  <2>2. \A t \in Slot : InFlight(t)' => InFlight(t) /\ push'[t] = push[t]
    BY <1>d, <2>1
  <2>3. breaker.state = "HALF_OPEN" /\ ~late' => \A t \in Slot : ~InFlight(t)'
    BY <1>e, <1>m, <2>1
  <2>4. QED
    BY <1>n, <2>1, <2>2, <2>3 DEF ProbeInv, OneProbe
<1>8. CASE Start \/ Exit
  <2>1. \A t \in Slot : ~InFlight(t)'
    BY <1>8 DEF Start, Exit, ProbeInv, InFlight, NoPush
  <2>2. QED
    BY <2>1 DEF ProbeInv, OneProbe
<1>9. CASE Tick
  <2>1. ASSUME NEW t \in Slot
        PROVE  /\ push'[t].kind = push[t].kind
               /\ InFlight(t) => \/ push'[t].age = push[t].age + 1
                                 \/ push'[t].age = OpenTime
    BY <1>0, <1>9, <2>1 DEF Tick, Aged, InFlight, PushRecord
  <2>2. /\ breaker'.state = breaker.state /\ breaker'.probe = breaker.probe
        /\ breaker'.left = Less(breaker.left) /\ running' = running
    BY <1>0, <1>9 DEF Tick, Breaker
  <2>3. ASSUME breaker.state = "OPEN", NEW t \in Slot, InFlight(t)
        PROVE  push'[t].age + Less(breaker.left) >= OpenTime
    <3>1. push[t].age + breaker.left >= OpenTime
      BY <2>3 DEF ProbeInv
    <3>2. breaker.left \in Nat
      BY <1>0 DEF Breaker
    <3>3. QED
      BY <1>a, <2>1, <2>3, <3>1, <3>2 DEF Less
  <2>4. \A t \in Slot : InFlight(t)' /\ ~late' => ~late
    BY <1>m
  <2>5. QED
    BY <1>n, <2>1, <2>2, <2>3, <2>4 DEF ProbeInv, OneProbe, InFlight
<1>10. QED
  BY <1>1, <1>2, <1>3, <1>4, <1>5, <1>6, <1>7, <1>8, <1>9
     DEF Next, Step, Turn, PushEnds, Kind

(* One push at most is under way while the circuit is half-open, also after
   rejected rounds and local errors, unless some push has been so for the
   whole open period: only that long a push can be beside the probe and settle
   its fate (canAttempt, recordSuccess, recordFailure). *)
THEOREM ProbeIsAlone == Spec => []OneProbe
<1>1. Init => ProbeInv
  BY ProbeInit
<1>2. TypeOK /\ ProbeInv /\ [Next]_vars => ProbeInv'
  BY ProbeStep
<1>3. ProbeInv => OneProbe
  BY DEF ProbeInv
<1>4. QED
  BY <1>1, <1>2, <1>3, TypeInit, TypeStep, PTL DEF Spec
-----------------------------------------------------------------------------
(* With a store that never throws, a reservation is a push. *)
LEMMA ReservationStep ==
  ASSUME TypeOK, ReservationIsAPush, [Next]_vars
  PROVE  ReservationIsAPush'
<1>f. flaky' = flaky
  BY DEF Next, Noted, vars
<1> SUFFICES ASSUME ~flaky PROVE ReservationIsAPush'
  <2>1. CASE flaky
    BY <1>f, <2>1 DEF ReservationIsAPush
  <2>2. QED
    BY <2>1
<1>0. breaker \in Breaker /\ stored \in Saved /\ push \in [Slot -> PushRecord]
  BY DEF TypeOK, PushRecord
<1>1. ASSUME NEW s \in Slot, NEW kind \in {"events", "snapshots"}, Push(s, kind)
      PROVE  ReservationIsAPush'
  <2>1. push'[s].kind = kind
    BY <1>0, <1>1 DEF Push, NewPush
  <2>2. QED
    BY <2>1 DEF ReservationIsAPush, InFlight
<1>2. CASE NothingDue
  BY <1>0, <1>2, BreakerTypes DEF NothingDue, Cancelled, Breaker, ReservationIsAPush
<1>3. CASE RoundRejected
  <2>1. \A t \in Slot : push'[t].kind = push[t].kind
    BY <1>0, <1>3 DEF RoundRejected, PushRecord
  <2>2. QED
    BY <1>3, <2>1 DEF RoundRejected, ReservationIsAPush, InFlight
<1>4. ASSUME NEW s \in Slot, PushSucceeds(s)
      PROVE  ReservationIsAPush'
  BY <1>4 DEF PushSucceeds, Record, Succeeded, NewBreaker, ReservationIsAPush
<1>5. ASSUME NEW s \in Slot, NEW kind \in Kind, PushFails(s, kind)
      PROVE  ReservationIsAPush'
  <2>1. breaker' = Failed(breaker, kind)
    BY <1>5 DEF PushFails, Record
  <2>2. ~Failed(breaker, kind).probe
    <3> DEFINE n == IF breaker.failures < Threshold THEN breaker.failures + 1
                    ELSE breaker.failures
               counted == [breaker EXCEPT !.probe = FALSE, !.failures = n]
    <3>1. ~counted.probe /\ ~Cancelled(breaker).probe /\ ~Opened(counted).probe
      BY <1>0 DEF Cancelled, Opened, Breaker
    <3>2. Failed(breaker, kind) \in {Cancelled(breaker), Opened(counted), counted}
      BY DEF Failed
    <3>3. QED
      BY <3>1, <3>2
  <2>3. QED
    BY <2>1, <2>2 DEF ReservationIsAPush
<1>6. ASSUME NEW s \in Slot, SnapshotsOmitted(s)
      PROVE  ReservationIsAPush'
  BY <1>0, <1>6 DEF SnapshotsOmitted, Cancelled, Breaker, ReservationIsAPush
<1>7. CASE Start
  BY <1>7 DEF Start, Restored, ReservationIsAPush
<1>8. CASE Exit
  BY <1>8 DEF Exit, ReservationIsAPush
<1>9. CASE Tick
  <2>1. \A t \in Slot : push'[t].kind = push[t].kind
    BY <1>0, <1>9 DEF Tick, Aged, PushRecord
  <2>2. /\ breaker'.state = breaker.state /\ breaker'.probe = breaker.probe
        /\ running' = running
    BY <1>0, <1>9 DEF Tick, Breaker
  <2>3. QED
    BY <2>1, <2>2 DEF ReservationIsAPush, InFlight
<1>10. CASE UNCHANGED vars
  BY <1>10 DEF vars, ReservationIsAPush, InFlight
<1>11. QED
  BY <1>1, <1>2, <1>3, <1>4, <1>5, <1>6, <1>7, <1>8, <1>9, <1>10
     DEF Next, Step, Turn, PushEnds, Kind, AttemptThrows, ClaimThrows, SuccessNotSaved, SettleThrows

(* Unless SQLite throws, while a probe is reserved a push is under way, however
   pushes end and rounds are rejected: when the last one ends, the half-open
   circuit is not stuck
   (canAttempt, cancelAttempt, recordSuccess, recordFailure). *)
THEOREM ReservationIsKept == Spec => []ReservationIsAPush
<1>1. Init => ReservationIsAPush
  BY DEF Init, ReservationIsAPush
<1>2. TypeOK /\ ReservationIsAPush /\ [Next]_vars => ReservationIsAPush'
  BY ReservationStep
<1>3. QED
  BY <1>1, <1>2, TypeInit, TypeStep, PTL DEF Spec

(* The two together, for every length of the open period and pushes of any
   length: a reserved probe has a push under way, and it is the only one unless
   some push has been so for the whole open period (canAttempt, cancelAttempt,
   recordFailure). *)
THEOREM ProbeAndPushAgree == Spec => []ProbeIsThePush
<1>1. OneProbe /\ ReservationIsAPush => ProbeIsThePush
  BY DEF ProbeIsThePush
<1>2. QED
  BY <1>1, ProbeIsAlone, ReservationIsKept, PTL
-----------------------------------------------------------------------------
(* The row of a running worker agrees with its breaker, but for the half-open
   state of a worker that died, which its successor takes for an open one
   whose period is over. *)
Agrees(row, b) ==
  /\ row.failures = b.failures /\ row.left = b.left
  /\ row.state = b.state \/ (row.state = "HALF_OPEN" /\ b.state = "OPEN")

HalfOpenIsDue(b) == b.state = "HALF_OPEN" => b.left = 0

RowInv ==
  /\ running => Agrees(stored, breaker)
  /\ HalfOpenIsDue(stored) /\ HalfOpenIsDue(breaker)

LEMMA RowInit == Init => RowInv
BY DEF Init, RowInv, HalfOpenIsDue, NewBreaker, Persisted

LEMMA RowStep ==
  ASSUME TypeOK, ~flaky => RowInv, [Next]_vars
  PROVE  (~flaky => RowInv)'
<1>f. flaky' = flaky
  BY DEF Next, Noted, vars
<1> SUFFICES ASSUME ~flaky, RowInv PROVE RowInv'
  BY <1>f
<1>0. breaker \in Breaker /\ stored \in Saved /\ push \in [Slot -> PushRecord]
  BY DEF TypeOK, PushRecord
<1>a. ASSUME NEW b \in Breaker, HalfOpenIsDue(b), stored' = Persisted(b), breaker' = b
      PROVE  RowInv'
  BY <1>a DEF RowInv, Agrees, HalfOpenIsDue, Persisted
<1>b. ASSUME CanAttempt(breaker), running, stored' = SavedAttempt,
             breaker' \in {Attempted(breaker), Cancelled(Attempted(breaker))}
      PROVE  RowInv'
  <2>1. CASE breaker.state = "CLOSED"
    <3>1. /\ breaker'.state = "CLOSED" /\ stored' = stored
          /\ breaker'.failures = breaker.failures /\ breaker'.left = breaker.left
      BY <1>0, <1>b, <2>1 DEF Attempted, Cancelled, SavedAttempt, Breaker
    <3>2. QED
      BY <1>b, <2>1, <3>1 DEF RowInv, Agrees, HalfOpenIsDue
  <2>2. CASE breaker.state = "OPEN"
    <3>1. /\ breaker'.state = "HALF_OPEN" /\ breaker.left = 0
          /\ breaker'.failures = breaker.failures /\ breaker'.left = breaker.left
      BY <1>0, <1>b, <2>2 DEF Attempted, Cancelled, CanAttempt, Breaker
    <3>2. /\ stored'.state = "HALF_OPEN"
          /\ stored'.failures = breaker.failures /\ stored'.left = breaker.left
      BY <1>0, <1>b, <2>2 DEF SavedAttempt, Attempted, Persisted, Breaker
    <3>3. QED
      BY <3>1, <3>2 DEF RowInv, Agrees, HalfOpenIsDue
  <2>3. CASE breaker.state = "HALF_OPEN"
    <3>1. /\ breaker'.state = "HALF_OPEN" /\ stored' = stored
          /\ breaker'.failures = breaker.failures /\ breaker'.left = breaker.left
      BY <1>0, <1>b, <2>3 DEF Attempted, Cancelled, SavedAttempt, Breaker
    <3>2. QED
      BY <1>b, <2>3, <3>1 DEF RowInv, Agrees, HalfOpenIsDue
  <2>4. QED
    BY <1>0, <2>1, <2>2, <2>3 DEF Breaker, State
<1>1. ASSUME NEW s \in Slot, NEW kind \in {"events", "snapshots"}, Push(s, kind)
      PROVE  RowInv'
  BY <1>1, <1>b DEF Push, TurnMayBegin
<1>2. CASE NothingDue
  BY <1>2, <1>b DEF NothingDue, TurnMayBegin
<1>3. CASE RoundRejected
  BY <1>3 DEF RoundRejected, RowInv, Agrees, HalfOpenIsDue
<1>4. ASSUME NEW s \in Slot, PushSucceeds(s)
      PROVE  RowInv'
  <2>1. breaker' = NewBreaker /\ stored' = Persisted(NewBreaker)
    BY <1>4 DEF PushSucceeds, Record, Succeeded
  <2>2. HalfOpenIsDue(NewBreaker)
    BY DEF NewBreaker, HalfOpenIsDue
  <2>3. QED
    BY <1>a, <2>1, <2>2, BreakerTypes
<1>5. ASSUME NEW s \in Slot, NEW kind \in Kind, PushFails(s, kind)
      PROVE  RowInv'
  <2>1. breaker' = Failed(breaker, kind) /\ stored' = Persisted(Failed(breaker, kind))
    BY <1>5 DEF PushFails, Record
  <2>2. Failed(breaker, kind) \in Breaker /\ HalfOpenIsDue(Failed(breaker, kind))
    BY <1>0, FailedBreaker DEF RowInv, HalfOpenIsDue
  <2>3. QED
    BY <1>a, <2>1, <2>2
<1>6. ASSUME NEW s \in Slot, SnapshotsOmitted(s)
      PROVE  RowInv'
  BY <1>0, <1>6 DEF SnapshotsOmitted, Cancelled, Breaker, RowInv, Agrees, HalfOpenIsDue
<1>7. CASE Start
  BY <1>0, <1>7 DEF Start, Restored, Saved, RowInv, Agrees, HalfOpenIsDue
<1>8. CASE Exit
  BY <1>8 DEF Exit, NewBreaker, RowInv, HalfOpenIsDue
<1>9. CASE Tick
  <2>1. /\ breaker'.state = breaker.state /\ breaker'.failures = breaker.failures
        /\ breaker'.left = Less(breaker.left)
        /\ stored'.state = stored.state /\ stored'.failures = stored.failures
        /\ stored'.left = Less(stored.left) /\ running' = running
    BY <1>0, <1>9 DEF Tick, Breaker, Saved
  <2>2. Less(0) = 0
    BY DEF Less
  <2>3. QED
    BY <2>1, <2>2 DEF RowInv, Agrees, HalfOpenIsDue
<1>10. CASE UNCHANGED vars
  BY <1>10 DEF vars, RowInv, Agrees, HalfOpenIsDue
<1>11. QED
  BY <1>1, <1>2, <1>3, <1>4, <1>5, <1>6, <1>7, <1>8, <1>9, <1>10
     DEF Next, Step, Turn, PushEnds, Kind, AttemptThrows, ClaimThrows, SuccessNotSaved, SettleThrows

(* Unless SQLite throws, a worker that dies at any moment leaves a row from
   which the next one restores the failures and the open period (#persist,
   #restore). *)
THEOREM NothingIsForgotten == Spec => []CrashForgetsNothing
<1>1. Init => (~flaky => RowInv)
  BY RowInit
<1>2. TypeOK /\ (~flaky => RowInv) /\ [Next]_vars => (~flaky => RowInv)'
  BY RowStep
<1>3. TypeOK /\ (~flaky => RowInv) => CrashForgetsNothing
  BY DEF TypeOK, RowInv, Agrees, HalfOpenIsDue, CrashForgetsNothing, Restored, Saved
<1>4. QED
  BY <1>1, <1>2, <1>3, TypeInit, TypeStep, PTL DEF Spec
=============================================================================
