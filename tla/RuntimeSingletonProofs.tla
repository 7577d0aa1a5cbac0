----------------------- MODULE RuntimeSingletonProofs -----------------------
(***************************************************************************)
(* Theorems about RuntimeSingleton for any number of instances and any     *)
(* timing constants that pass validateRuntimeConfig.  With or without      *)
(* Prompt: types, that a fencing token never has two owners, and that only *)
(* the owner and time touch a valid lease.  With Prompt: that a process    *)
(* whose proof leaves more than a query timeout owns the row, and, when    *)
(* the time to live leaves room for it (Margins), that a process stays     *)
(* connected without proof for less than a renewal interval and a report.  *)
(***************************************************************************)
EXTENDS RuntimeSingleton, TLAPS

LEMMA ConstantTypes ==
  /\ Ttl \in Nat /\ Ttl > 0
  /\ Renew \in Nat /\ Safety \in Nat /\ QueryTimeout \in Nat /\ Backoff \in Nat
  /\ HeartbeatWait \in Nat /\ Grace \in Nat
  /\ MaxFails \in Nat
  /\ 0 < Renew
  BY TtlAssumption, WindowAssumption

(* The values the countdowns and counters are set to, in their ranges. *)
LEMMA Ranges ==
  /\ 0 \in 0..MaxFails
  /\ \A n \in 0..MaxFails : (IF n < MaxFails THEN n + 1 ELSE n) \in 0..MaxFails
  /\ 0 \in 0..(2 * Backoff) /\ Backoff \in 0..(2 * Backoff) /\ 2 * Backoff \in 0..(2 * Backoff)
  /\ 0 \in (-Grace)..Ttl /\ Ttl \in (-Grace)..Ttl
  /\ Off \in Off..Renew /\ Renew \in Off..Renew
  /\ 0 \in 0..(HeartbeatWait + QueryTimeout)
  /\ QueryTimeout \in 0..(HeartbeatWait + QueryTimeout)
  /\ HeartbeatWait \in 0..(HeartbeatWait + QueryTimeout)
  /\ HeartbeatWait + QueryTimeout \in 0..(HeartbeatWait + QueryTimeout)
  /\ 0 \in 0..QueryTimeout /\ QueryTimeout \in 0..QueryTimeout
  /\ 0 \in 0..Ttl /\ Ttl \in 0..Ttl
  BY ConstantTypes DEF Off

LEMMA Countdowns ==
  /\ \A m \in Nat : \A n \in 0..m : Less(n) \in 0..m
  /\ \A n \in Off..Renew : Less(n) \in Off..Renew
  /\ \A n \in (-Grace)..Ttl : n > -Grace => n - 1 \in (-Grace)..Ttl
  /\ 2 * Backoff \in Nat /\ HeartbeatWait + QueryTimeout \in Nat
  BY ConstantTypes DEF Less, Off

LEMMA ProcTypes ==
  ASSUME NEW p \in Proc, NEW transient
  PROVE  /\ QuerySucceeded(p) \in Proc
         /\ QueryFailed(p, transient) \in Proc
         /\ Exited(p) \in Proc
         /\ Lose(p) \in Proc
         /\ RenewalFailed(p) \in Proc
         /\ Disconnected(p) \in Proc
         /\ Aged(p) \in Proc
  <1>1. QuerySucceeded(p) \in Proc
    BY Ranges DEF QuerySucceeded, Proc
  <1>2. QueryFailed(p, transient) \in Proc
    BY Ranges DEF QueryFailed, Proc, Open
  <1>3. Exited(p) \in Proc
    BY Ranges DEF Exited, NewProc, Proc
  <1>4. Lose(p) \in Proc
    BY Ranges DEF Lose, Proc
  <1>5. RenewalFailed(p) \in Proc
    BY <1>4 DEF RenewalFailed
  <1>6. Disconnected(p) \in Proc
    BY DEF Disconnected, Proc
  <1>7. Aged(p) \in Proc
    <2>1. /\ Less(p.timer) \in Off..Renew
          /\ Less(p.bootWait) \in 0..(HeartbeatWait + QueryTimeout)
          /\ Less(p.stopWait) \in 0..(HeartbeatWait + QueryTimeout)
          /\ Less(p.backoff) \in 0..(2 * Backoff)
      BY Countdowns DEF Proc
    <2>2. (IF p.token # 0 /\ p.boot # "exited" /\ p.proof > -Grace
             THEN p.proof - 1 ELSE p.proof) \in (-Grace)..Ttl
      BY Countdowns DEF Proc
    <2> QED BY <2>1, <2>2 DEF Aged, Proc
  <1> QED BY <1>1, <1>2, <1>3, <1>4, <1>5, <1>6, <1>7

(* What the steps of startBot and shutdown set. *)
LEMMA SettingTypes ==
  ASSUME NEW p \in Proc
  PROVE  /\ \A n \in {0, QueryTimeout, HeartbeatWait},
              stop \in {"no", "losing", "marking", "stopping", "releasing", "final"} :
             [p EXCEPT !.stop = stop, !.stopWait = n] \in Proc
         /\ \A timer \in {Off, Renew} :
              /\ [p EXCEPT !.timer = timer] \in Proc
              /\ [p EXCEPT !.boot = "login", !.bootWait = 0, !.timer = timer] \in Proc
         /\ \A token \in Nat :
              [p EXCEPT !.boot = "start", !.token = token, !.proof = Ttl,
                        !.bootWait = HeartbeatWait + QueryTimeout] \in Proc
         /\ [p EXCEPT !.proof = Ttl] \in Proc
  BY Ranges DEF Proc

LEMMA CallTypes ==
  ASSUME TypeOK
  PROVE  /\ \A cs \in SUBSET calls : Settled(cs) \subseteq Call
         /\ \A i \in Instance, op \in {"acquire", "renew", "release"}, token \in Nat :
              NewCall(i, op, token) \in Call
  <1>1. ASSUME NEW cs \in SUBSET calls
        PROVE  Settled(cs) \subseteq Call
    <2>1. Abandoned(cs) \subseteq Call
      <3>1. ASSUME NEW d \in Call
            PROVE  [d EXCEPT !.live = FALSE, !.left = 0] \in Call
        BY Ranges DEF Call
      <3> QED BY <3>1 DEF Abandoned, TypeOK
    <2> QED BY <2>1 DEF Settled, TypeOK
  <1>2. ASSUME NEW i \in Instance, NEW op \in {"acquire", "renew", "release"}, NEW token \in Nat
        PROVE  NewCall(i, op, token) \in Call
    BY Ranges DEF NewCall, Call
  <1> QED BY <1>1, <1>2
-----------------------------------------------------------------------------
LEMMA ExitTypes ==
  ASSUME TypeOK, NEW i \in Instance, Exit(i)
  PROVE  TypeOK'
  <1>1. Settled({c \in calls : c.inst = i}) \subseteq Call
    BY CallTypes
  <1>2. Exited(proc[i]) \in Proc
    BY ProcTypes DEF TypeOK
  <1> QED BY <1>1, <1>2 DEF Exit, TypeOK

LEMMA ExecuteTypes ==
  ASSUME TypeOK, NEW c \in calls, Execute(c)
  PROVE  TypeOK'
  <1>1. /\ c \in Call /\ c.inst \in Instance /\ c.token \in Nat
        /\ c.op \in {"acquire", "renew", "release"}
        /\ lease \in Lease
    BY DEF TypeOK, Call
  <1>2. lease' \in Lease
    <2>1. AcquiredLease(lease, c.inst) \in Lease
      BY <1>1, Ranges DEF AcquiredLease, NextToken, Lease
    <2>2. RenewedLease(lease) \in Lease
      BY <1>1, Ranges DEF RenewedLease, Lease
    <2>3. ReleasedLease(lease) \in Lease
      BY <1>1, Ranges DEF ReleasedLease, Lease
    <2>4. Effect(c) \in Lease
      BY <1>1, <2>1, <2>2, <2>3 DEF Effect
    <2> QED BY <1>1, <2>4 DEF Execute
  <1>3. [c EXCEPT !.answer = IF Allowed(c) THEN "granted" ELSE "refused",
                  !.token  = IF c.op = "acquire" /\ Allowed(c) THEN lease'.token ELSE @]
          \in Call
    <2>1. lease'.token \in Nat
      BY <1>2 DEF Lease
    <2> HIDE DEF Allowed
    <2> QED BY <1>1, <2>1 DEF Call
  <1> QED BY <1>2, <1>3 DEF Execute, TypeOK

LEMMA BootTypes ==
  ASSUME TypeOK, NEW i \in Instance, BootStep(i)
  PROVE  TypeOK'
  <1> USE DEF TypeOK
  <1>1. CASE Launch(i)
    BY <1>1, CallTypes DEF Launch, Proc
  <1>2. ASSUME NEW c \in calls, Acquired(i, c) PROVE TypeOK'
    <2>1. /\ QuerySucceeded(proc[i]) \in Proc
          /\ c.token \in Nat
      BY ProcTypes DEF Call
    <2>2. [QuerySucceeded(proc[i]) EXCEPT !.boot = "start", !.token = c.token, !.proof = Ttl,
             !.bootWait = HeartbeatWait + QueryTimeout] \in Proc
      BY <2>1, SettingTypes
    <2> QED BY <1>2, <2>2 DEF Acquired
  <1>3. ASSUME NEW c \in calls, AcquisitionFails(i, c) PROVE TypeOK'
    BY <1>3, ExitTypes DEF AcquisitionFails
  <1>4. CASE Started(i)
    <2>1. [proc[i] EXCEPT !.boot = "login", !.bootWait = 0,
             !.timer = IF Stopping(proc[i]) THEN Off ELSE Renew] \in Proc
      BY SettingTypes
    <2> QED BY <1>4, <2>1 DEF Started
  <1>5. CASE LoginSucceeds(i)
    BY <1>5 DEF LoginSucceeds, Proc
  <1>6. CASE LoginFails(i)
    <2>1. CASE Open(proc[i])
      BY <1>6, <2>1, Ranges DEF LoginFails, Proc
    <2> QED BY <1>6, <2>1, ExitTypes DEF LoginFails
  <1> QED BY <1>1, <1>2, <1>3, <1>4, <1>5, <1>6 DEF BootStep

LEMMA RenewTypes ==
  ASSUME TypeOK, NEW i \in Instance, RenewStep(i)
  PROVE  TypeOK'
  <1> USE DEF TypeOK
  <1>1. CASE RenewTimer(i)
    <2>1. [proc[i] EXCEPT !.timer = Renew] \in Proc
      BY SettingTypes
    <2>2. NewCall(i, "renew", proc[i].token) \in Call
      BY CallTypes DEF Proc
    <2>3. RenewalFailed([proc[i] EXCEPT !.timer = Renew]) \in Proc
      BY <2>1, ProcTypes
    <2> QED BY <1>1, <2>1, <2>2, <2>3 DEF RenewTimer
  <1>2. ASSUME NEW c \in calls, Renewed(i, c) PROVE TypeOK'
    BY <1>2, ProcTypes, SettingTypes DEF Renewed
  <1>3. ASSUME NEW c \in calls, RenewalRejected(i, c) PROVE TypeOK'
    BY <1>3, ProcTypes DEF RenewalRejected
  <1>4. ASSUME NEW c \in calls, NEW transient \in BOOLEAN, RenewalFails(i, c, transient)
        PROVE  TypeOK'
    BY <1>4, ProcTypes, CallTypes DEF RenewalFails
  <1> QED BY <1>1, <1>2, <1>3, <1>4 DEF RenewStep

LEMMA StopTypes ==
  ASSUME TypeOK, NEW i \in Instance, StopStep(i)
  PROVE  TypeOK'
  <1> USE DEF TypeOK
  <1>1. CASE LossReported(i)
    <2>1. [Disconnected(proc[i]) EXCEPT !.stop = "final", !.stopWait = HeartbeatWait] \in Proc
      BY ProcTypes, SettingTypes
    <2> QED BY <1>1, <2>1, ExitTypes DEF LossReported
  <1>2. CASE StopBegins(i)
    <2>1. CASE Open(proc[i])
      BY <1>2, <2>1, Ranges DEF StopBegins, Proc
    <2> QED BY <1>2, <2>1, ExitTypes DEF StopBegins
  <1>3. CASE ReleaseBegins(i)
    <2>1. NewCall(i, "release", proc[i].token) \in Call
      BY CallTypes DEF Proc
    <2>2. proc' \in [Instance -> Proc]
      <3>1. /\ [proc[i] EXCEPT !.stop = "releasing", !.stopWait = 0] \in Proc
            /\ [proc[i] EXCEPT !.stop = "final", !.stopWait = HeartbeatWait] \in Proc
        BY SettingTypes
      <3> QED BY <1>3, <3>1 DEF ReleaseBegins
    <2> QED BY <1>3, <2>1, <2>2 DEF ReleaseBegins
  <1>4. ASSUME NEW c \in calls, Released(i, c) PROVE TypeOK'
    <2>1. [QuerySucceeded(proc[i]) EXCEPT !.stop = "final", !.stopWait = HeartbeatWait] \in Proc
      BY ProcTypes, SettingTypes
    <2> QED BY <1>4, <2>1 DEF Released
  <1>5. ASSUME NEW c \in calls, NEW transient \in BOOLEAN, ReleaseFails(i, c, transient)
        PROVE  TypeOK'
    <2>1. [QueryFailed(proc[i], transient) EXCEPT !.stop = "final", !.stopWait = HeartbeatWait]
            \in Proc
      BY ProcTypes, SettingTypes
    <2> QED BY <1>5, <2>1, CallTypes DEF ReleaseFails
  <1>6. CASE ShutdownEnds(i)
    BY <1>6, ExitTypes DEF ShutdownEnds
  <1> QED BY <1>1, <1>2, <1>3, <1>4, <1>5, <1>6 DEF StopStep

LEMMA OtherTypes ==
  ASSUME TypeOK, NEW i \in Instance, OtherStep(i)
  PROVE  TypeOK'
  <1> USE DEF TypeOK
  <1>1. CASE Signal(i)
    <2>1. [Disconnected(proc[i]) EXCEPT !.stop = "marking", !.stopWait = QueryTimeout] \in Proc
      BY ProcTypes, SettingTypes
    <2> QED BY <1>1, <2>1 DEF Signal
  <1>2. CASE Crash(i)
    BY <1>2, ExitTypes DEF Crash
  <1>3. CASE OtherQuerySucceeds(i)
    BY <1>3, ProcTypes DEF OtherQuerySucceeds
  <1>4. ASSUME NEW transient \in BOOLEAN, OtherQueryFails(i, transient) PROVE TypeOK'
    BY <1>4, ProcTypes DEF OtherQueryFails
  <1> QED BY <1>1, <1>2, <1>3, <1>4 DEF OtherStep

LEMMA TickTypes ==
  ASSUME TypeOK, Tick
  PROVE  TypeOK'
  <1>1. lease' \in Lease
    BY ConstantTypes, Countdowns DEF Tick, TypeOK, Lease
  <1>2. proc' \in [Instance -> Proc]
    BY ProcTypes DEF Tick, TypeOK
  <1>3. ASSUME NEW c \in Call PROVE [c EXCEPT !.left = Less(@)] \in Call
    BY ConstantTypes, Countdowns DEF Call
  <1>4. calls' \subseteq Call
    BY <1>3 DEF Tick, TypeOK
  <1> QED BY <1>1, <1>2, <1>4 DEF TypeOK

(* Every variable keeps its type (TypeOK), for all constants. *)
THEOREM TypeCorrect == Spec => []TypeOK
  <1>1. Init => TypeOK
    BY Ranges DEF Init, TypeOK, NewProc, NoLease, Proc, Lease
  <1>2. TypeOK /\ [Next]_vars => TypeOK'
    <2> SUFFICES ASSUME TypeOK, [Next]_vars PROVE TypeOK'
      OBVIOUS
    <2>1. CASE UNCHANGED vars
      BY <2>1 DEF vars, TypeOK
    <2> QED
      BY <2>1, TickTypes, ExecuteTypes, BootTypes, RenewTypes, StopTypes, OtherTypes DEF Next
  <1> QED BY <1>1, <1>2, PTL DEF Spec
-----------------------------------------------------------------------------
(***************************************************************************)
(* OneTokenPerOwner is not inductive: an acquisition is executed before    *)
(* its answer arrives, or is given up.  The invariant therefore follows    *)
(* the tokens of answers that are still on their way, and says that an     *)
(* instance sends one acquisition only.                                    *)
(***************************************************************************)
Acquisitions == {c \in calls : c.op = "acquire"}

Granted == {c \in Acquisitions : c.answer = "granted"}

NewHasNothing ==
  \A i \in Instance : proc[i].boot = "new" =>
    /\ proc[i].token = 0
    /\ lease.owner # i
    /\ \A c \in calls : c.inst # i

OneAcquisition ==
  \A c, d \in Acquisitions : c.inst = d.inst => c = d

AcquiringHasNoToken ==
  \A c \in Acquisitions :
    /\ proc[c.inst].token = 0
    /\ c.answer = "none" => lease.owner # c.inst

GrantedTokens ==
  \A c \in Granted :
    /\ c.token # 0 /\ c.token <= lease.token
    /\ lease.owner = c.inst => c.token = lease.token
    /\ \A i \in Instance : proc[i].token # c.token
    /\ \A d \in Granted : c.token = d.token => c = d

HeldTokens == \A i \in Instance : proc[i].token <= lease.token

TokenInv ==
  /\ OneTokenPerOwner
  /\ NewHasNothing
  /\ OneAcquisition
  /\ AcquiringHasNoToken
  /\ GrantedTokens
  /\ HeldTokens

(* A step that leaves owner, token and held tokens alone, sends no
   acquisition and changes those on their way at most in what no part of the
   invariant looks at. *)
QuietStep ==
  /\ lease'.owner = lease.owner /\ lease'.token = lease.token
  /\ \A i \in Instance : /\ proc'[i].token = proc[i].token
                         /\ proc'[i].boot = "new" => proc[i].boot = "new"
  /\ \A c \in calls' :
       \/ \E d \in calls : c.inst = d.inst /\ c.op = d.op /\ c.answer = d.answer /\ c.token = d.token
       \/ c.op # "acquire" /\ proc[c.inst].boot # "new"
  /\ \A c, d \in calls' : c.op = "acquire" /\ d.op = "acquire" /\ c.inst = d.inst => c = d

LEMMA QuietSteps ==
  ASSUME TypeOK, TypeOK', TokenInv, QuietStep
  PROVE  TokenInv'
  <1> USE DEF TokenInv
  <1>0. /\ \A c \in calls : c.inst \in Instance
        /\ \A c \in calls' : c.inst \in Instance
    BY DEF TypeOK, Call
  <1>1. OneTokenPerOwner'
    BY DEF QuietStep, OneTokenPerOwner
  <1>2. NewHasNothing'
    BY <1>0 DEF QuietStep, NewHasNothing
  <1>3. OneAcquisition'
    BY DEF QuietStep, OneAcquisition, Acquisitions
  <1>4. AcquiringHasNoToken'
    BY <1>0 DEF QuietStep, AcquiringHasNoToken, Acquisitions
  <1>5. GrantedTokens'
    <2> SUFFICES ASSUME NEW c \in Granted'
                 PROVE  /\ c.token # 0 /\ c.token <= lease'.token
                        /\ lease'.owner = c.inst => c.token = lease'.token
                        /\ \A i \in Instance : proc'[i].token # c.token
                        /\ \A d \in Granted' : c.token = d.token => c = d
      BY DEF GrantedTokens
    <2>1. \A d \in Granted' : \E e \in Granted : e.inst = d.inst /\ e.token = d.token
      BY DEF QuietStep, Granted, Acquisitions
    <2>2. PICK e \in Granted : e.inst = c.inst /\ e.token = c.token
      BY <2>1
    <2>3. \A d \in Granted' : c.token = d.token => c.inst = d.inst
      BY <2>1, <2>2 DEF GrantedTokens
    <2>4. \A d \in Granted' : c.token = d.token => c = d
      BY <2>3, <1>3 DEF OneAcquisition, Granted, Acquisitions
    <2> QED BY <2>2, <2>4 DEF QuietStep, GrantedTokens
  <1>6. HeldTokens'
    BY DEF QuietStep, HeldTokens
  <1> QED BY <1>1, <1>2, <1>3, <1>4, <1>5, <1>6

(* Giving up calls, and letting time pass, are quiet about calls. *)
LEMMA SettledCalls ==
  ASSUME TypeOK, OneAcquisition, NEW cs \in SUBSET calls
  PROVE  /\ \A c \in Settled(cs) : \E d \in calls :
               c.inst = d.inst /\ c.op = d.op /\ c.answer = d.answer /\ c.token = d.token
         /\ \A c, d \in Settled(cs) :
               c.op = "acquire" /\ d.op = "acquire" /\ c.inst = d.inst => c = d
  <1> DEFINE Gone(d) == [d EXCEPT !.live = FALSE, !.left = 0]
  <1>1. \A d \in calls : /\ Gone(d).inst = d.inst /\ Gone(d).op = d.op
                         /\ Gone(d).answer = d.answer /\ Gone(d).token = d.token
    BY DEF TypeOK, Call
  <1>2. \A c \in Settled(cs) : \E d \in calls :
          \/ c = d /\ d \notin cs
          \/ c = Gone(d) /\ d \in cs
    BY DEF Settled, Abandoned
  <1>3. ASSUME NEW c \in Settled(cs), NEW d \in Settled(cs),
               c.op = "acquire", d.op = "acquire", c.inst = d.inst
        PROVE  c = d
    <2> HIDE DEF Gone
    <2>1. PICK e \in calls : (c = e /\ e \notin cs) \/ (c = Gone(e) /\ e \in cs)
      BY <1>2
    <2>2. PICK f \in calls : (d = f /\ f \notin cs) \/ (d = Gone(f) /\ f \in cs)
      BY <1>2
    <2>3. e.op = "acquire" /\ f.op = "acquire" /\ e.inst = f.inst
      BY <1>1, <1>3, <2>1, <2>2
    <2>4. e = f
      BY <2>3 DEF OneAcquisition, Acquisitions
    <2> QED BY <2>1, <2>2, <2>4
  <1>4. \A c \in Settled(cs) : \E d \in calls :
               c.inst = d.inst /\ c.op = d.op /\ c.answer = d.answer /\ c.token = d.token
    <2> HIDE DEF Gone
    <2> QED BY <1>1, <1>2
  <1> QED BY <1>3, <1>4

LEMMA ProcKeeps ==
  ASSUME NEW p \in Proc, NEW transient
  PROVE  /\ QuerySucceeded(p).token = p.token /\ QuerySucceeded(p).boot = p.boot
         /\ QueryFailed(p, transient).token = p.token /\ QueryFailed(p, transient).boot = p.boot
         /\ Exited(p).token = p.token /\ Exited(p).boot = "exited"
         /\ Lose(p).token = p.token /\ Lose(p).boot = p.boot
         /\ RenewalFailed(p).token = p.token /\ RenewalFailed(p).boot = p.boot
         /\ Disconnected(p).token = p.token
         /\ Disconnected(p).boot = "new" => p.boot = "new"
         /\ Aged(p).token = p.token /\ Aged(p).boot = p.boot
  <1>1. Lose(p).token = p.token /\ Lose(p).boot = p.boot
    BY DEF Lose, Proc
  <1>2. RenewalFailed(p).token = p.token /\ RenewalFailed(p).boot = p.boot
    BY <1>1 DEF RenewalFailed
  <1>3. QueryFailed(p, transient).token = p.token /\ QueryFailed(p, transient).boot = p.boot
    BY DEF QueryFailed, Proc
  <1> QED BY <1>1, <1>2, <1>3 DEF QuerySucceeded, Exited, NewProc, Disconnected, Aged, Proc

(* One process changes, without its token; calls are given up or not. *)
LEMMA QuietProc ==
  ASSUME TypeOK, OneAcquisition, NEW i \in Instance, NEW q, NEW cs \in SUBSET calls,
         proc' = [proc EXCEPT ![i] = q],
         q.token = proc[i].token,
         q.boot = "new" => proc[i].boot = "new",
         UNCHANGED lease,
         calls' = calls \/ calls' = calls \ cs \/ calls' = Settled(cs)
  PROVE  QuietStep
  <1>1. \A j \in Instance : /\ proc'[j].token = proc[j].token
                            /\ proc'[j].boot = "new" => proc[j].boot = "new"
    BY DEF TypeOK
  <1>2. CASE calls' = Settled(cs)
    BY <1>1, <1>2, SettledCalls DEF QuietStep
  <1>3. CASE calls' = calls \/ calls' = calls \ cs
    BY <1>1, <1>3 DEF QuietStep, OneAcquisition, Acquisitions
  <1> QED BY <1>2, <1>3

(* One process changes and sends a renewal or a release. *)
LEMMA QuietSend ==
  ASSUME TypeOK, OneAcquisition, NEW i \in Instance, NEW q, NEW op \in {"renew", "release"},
         NEW token,
         proc' = [proc EXCEPT ![i] = q],
         q.token = proc[i].token,
         q.boot = "new" => proc[i].boot = "new",
         proc[i].boot # "new",
         UNCHANGED lease,
         calls' = calls \cup {NewCall(i, op, token)}
  PROVE  QuietStep
  <1>1. \A j \in Instance : /\ proc'[j].token = proc[j].token
                            /\ proc'[j].boot = "new" => proc[j].boot = "new"
    BY DEF TypeOK
  <1>2. NewCall(i, op, token).op # "acquire" /\ NewCall(i, op, token).inst = i
    BY DEF NewCall
  <1> QED BY <1>1, <1>2 DEF QuietStep, OneAcquisition, Acquisitions

LEMMA QuietExit ==
  ASSUME TypeOK, OneAcquisition, NEW i \in Instance, Exit(i)
  PROVE  QuietStep
  <1>1. proc[i] \in Proc
    BY DEF TypeOK
  <1>2. Exited(proc[i]).token = proc[i].token /\ Exited(proc[i]).boot = "exited"
    BY <1>1, ProcKeeps
  <1>3. {c \in calls : c.inst = i} \in SUBSET calls
    OBVIOUS
  <1> QED BY <1>2, <1>3, QuietProc DEF Exit

LEMMA QuietTick ==
  ASSUME TypeOK, OneAcquisition, Tick
  PROVE  QuietStep
  <1> DEFINE Older(c) == [c EXCEPT !.left = Less(@)]
  <1>1. \A c \in calls : /\ Older(c).inst = c.inst /\ Older(c).op = c.op
                         /\ Older(c).answer = c.answer /\ Older(c).token = c.token
    BY DEF TypeOK, Call
  <1>2. \A c \in calls' : \E d \in calls : c = Older(d)
    BY DEF Tick
  <1>3. \A i \in Instance : /\ proc'[i].token = proc[i].token
                            /\ proc'[i].boot = proc[i].boot
    BY ProcKeeps DEF Tick, TypeOK
  <1>4. lease'.owner = lease.owner /\ lease'.token = lease.token
    BY DEF Tick, TypeOK, Lease
  <1> HIDE DEF Older
  <1>5. ASSUME NEW c \in calls', NEW d \in calls', c.op = "acquire", d.op = "acquire",
               c.inst = d.inst
        PROVE  c = d
    <2>1. PICK e \in calls, f \in calls : c = Older(e) /\ d = Older(f)
      BY <1>2
    <2>2. e = f
      BY <2>1, <1>1, <1>5 DEF OneAcquisition, Acquisitions
    <2> QED BY <2>1, <2>2
  <1> QED BY <1>1, <1>2, <1>3, <1>4, <1>5 DEF QuietStep

LEMMA QuietBoot ==
  ASSUME TypeOK, OneAcquisition, NEW i \in Instance, BootStep(i)
  PROVE  QuietStep \/ Launch(i) \/ \E c \in calls : Acquired(i, c)
  <1>0. proc[i] \in Proc
    BY DEF TypeOK
  <1>1. ASSUME NEW c \in calls, AcquisitionFails(i, c) PROVE QuietStep
    BY <1>1, QuietExit DEF AcquisitionFails
  <1>2. CASE Started(i)
    <2> DEFINE q == [proc[i] EXCEPT !.boot = "login", !.bootWait = 0,
                       !.timer = IF Stopping(proc[i]) THEN Off ELSE Renew]
    <2>1. proc' = [proc EXCEPT ![i] = q] /\ UNCHANGED <<lease, calls>>
      BY <1>2 DEF Started
    <2>2. q.token = proc[i].token /\ q.boot = "login"
      BY <1>0 DEF Proc
    <2> HIDE DEF q
    <2> QED BY <2>1, <2>2, QuietProc
  <1>3. CASE LoginSucceeds(i)
    <2> DEFINE q == [proc[i] EXCEPT !.boot = "ready"]
    <2>1. proc' = [proc EXCEPT ![i] = q] /\ UNCHANGED <<lease, calls>>
      BY <1>3 DEF LoginSucceeds
    <2>2. q.token = proc[i].token /\ q.boot = "ready"
      BY <1>0 DEF Proc
    <2> HIDE DEF q
    <2> QED BY <2>1, <2>2, QuietProc
  <1>4. CASE LoginFails(i) /\ Open(proc[i])
    <2> DEFINE q == [proc[i] EXCEPT !.boot = "idle",
                       !.stop = IF @ = "no" THEN "marking" ELSE @,
                       !.stopWait = IF proc[i].stop = "no" THEN HeartbeatWait ELSE @]
    <2>1. proc' = [proc EXCEPT ![i] = q] /\ UNCHANGED <<lease, calls>>
      BY <1>4 DEF LoginFails
    <2>2. q.token = proc[i].token /\ q.boot = "idle"
      BY <1>0 DEF Proc
    <2> HIDE DEF q
    <2> QED BY <2>1, <2>2, QuietProc
  <1>5. CASE LoginFails(i) /\ ~Open(proc[i])
    BY <1>5, QuietExit DEF LoginFails
  <1> QED BY <1>1, <1>2, <1>3, <1>4, <1>5 DEF BootStep

LEMMA QuietRenew ==
  ASSUME TypeOK, OneAcquisition, NEW i \in Instance, RenewStep(i)
  PROVE  QuietStep
  <1>0. proc[i] \in Proc
    BY DEF TypeOK
  <1>1. CASE RenewTimer(i)
    <2> DEFINE q == [proc[i] EXCEPT !.timer = Renew]
    <2>0. q \in Proc
      BY <1>0, SettingTypes
    <2>1. q.token = proc[i].token /\ q.boot = proc[i].boot
      BY <1>0 DEF Proc
    <2>2. RenewalFailed(q).token = q.token /\ RenewalFailed(q).boot = q.boot
      BY <2>0, ProcKeeps
    <2>3. \/ proc' = [proc EXCEPT ![i] = q] /\ UNCHANGED calls
          \/ proc' = [proc EXCEPT ![i] = q] /\ calls' = calls \cup {NewCall(i, "renew", proc[i].token)}
          \/ proc' = [proc EXCEPT ![i] = RenewalFailed(q)] /\ UNCHANGED calls
      BY <1>1 DEF RenewTimer
    <2>4. proc[i].boot # "new" /\ UNCHANGED lease
      BY <1>1 DEF RenewTimer, Running
    <2> HIDE DEF q
    <2> QED BY <2>1, <2>2, <2>3, <2>4, QuietProc, QuietSend
  <1>2. ASSUME NEW c \in calls, Renewed(i, c) PROVE QuietStep
    <2> DEFINE q == [QuerySucceeded(proc[i]) EXCEPT !.proof = Ttl]
    <2>1. proc' = [proc EXCEPT ![i] = q] /\ calls' = calls \ {c} /\ UNCHANGED lease
      BY <1>2 DEF Renewed
    <2>2. q.token = proc[i].token /\ q.boot = proc[i].boot
      BY <1>0, ProcTypes, ProcKeeps DEF Proc
    <2> HIDE DEF q
    <2> QED BY <2>1, <2>2, QuietProc
  <1>3. ASSUME NEW c \in calls, RenewalRejected(i, c) PROVE QuietStep
    <2> DEFINE q == Lose(QuerySucceeded(proc[i]))
    <2>1. proc' = [proc EXCEPT ![i] = q] /\ calls' = calls \ {c} /\ UNCHANGED lease
      BY <1>3 DEF RenewalRejected
    <2>2. QuerySucceeded(proc[i]) \in Proc
      BY <1>0, ProcTypes
    <2>3. /\ q.token = QuerySucceeded(proc[i]).token
          /\ q.boot = QuerySucceeded(proc[i]).boot
      BY <2>2, ProcKeeps
    <2>4. q.token = proc[i].token /\ q.boot = proc[i].boot
      BY <1>0, <2>3, ProcKeeps
    <2> HIDE DEF q
    <2> QED BY <2>1, <2>4, QuietProc
  <1>4. ASSUME NEW c \in calls, NEW transient \in BOOLEAN, RenewalFails(i, c, transient)
        PROVE  QuietStep
    <2> DEFINE q == RenewalFailed(QueryFailed(proc[i], transient))
    <2>1. proc' = [proc EXCEPT ![i] = q] /\ calls' = Settled({c}) /\ UNCHANGED lease
      BY <1>4 DEF RenewalFails
    <2>2. q.token = proc[i].token /\ q.boot = proc[i].boot
      BY <1>0, ProcTypes, ProcKeeps
    <2> HIDE DEF q
    <2> QED BY <2>1, <2>2, QuietProc
  <1> QED BY <1>1, <1>2, <1>3, <1>4 DEF RenewStep

LEMMA QuietStop ==
  ASSUME TypeOK, OneAcquisition, NewHasNothing, NEW i \in Instance, StopStep(i)
  PROVE  QuietStep
  <1>0. proc[i] \in Proc
    BY DEF TypeOK
  <1>1. CASE LossReported(i)
    <2> DEFINE q == [Disconnected(proc[i]) EXCEPT !.stop = "final", !.stopWait = HeartbeatWait]
    <2>1. CASE Open(proc[i])
      <3>1. proc' = [proc EXCEPT ![i] = q] /\ UNCHANGED <<lease, calls>>
        BY <1>1, <2>1 DEF LossReported
      <3>2. q.token = proc[i].token /\ (q.boot = "new" => proc[i].boot = "new")
        <4>1. Disconnected(proc[i]) \in Proc
          BY <1>0, ProcTypes
        <4>2. q.token = Disconnected(proc[i]).token /\ q.boot = Disconnected(proc[i]).boot
          BY <4>1 DEF Proc
        <4> QED BY <1>0, <4>2, ProcKeeps
      <3> HIDE DEF q
      <3> QED BY <3>1, <3>2, QuietProc
    <2> QED BY <1>1, <2>1, QuietExit DEF LossReported
  <1>2. CASE StopBegins(i)
    <2> DEFINE q == [proc[i] EXCEPT !.stop = "stopping", !.timer = Off,
                       !.stopWait = IF proc[i].lost THEN 0 ELSE HeartbeatWait]
    <2>1. CASE Open(proc[i])
      <3>1. proc' = [proc EXCEPT ![i] = q] /\ UNCHANGED <<lease, calls>>
        BY <1>2, <2>1 DEF StopBegins
      <3>2. q.token = proc[i].token /\ q.boot = proc[i].boot
        BY <1>0 DEF Proc
      <3> HIDE DEF q
      <3> QED BY <3>1, <3>2, QuietProc
    <2> QED BY <1>2, <2>1, QuietExit DEF StopBegins
  <1>3. CASE ReleaseBegins(i)
    <2> DEFINE sends == ~proc[i].lost /\ proc[i].token # 0 /\ Admits(proc[i])
               q == [proc[i] EXCEPT !.stop = IF sends THEN "releasing" ELSE "final",
                                    !.stopWait = IF sends THEN 0 ELSE HeartbeatWait]
    <2>1. /\ proc' = [proc EXCEPT ![i] = q] /\ UNCHANGED lease
          /\ \/ calls' = calls
             \/ proc[i].token # 0 /\ calls' = calls \cup {NewCall(i, "release", proc[i].token)}
      BY <1>3 DEF ReleaseBegins
    <2>2. q.token = proc[i].token /\ q.boot = proc[i].boot
      BY <1>0 DEF Proc
    <2> HIDE DEF q
    <2>3. CASE calls' = calls
      BY <2>1, <2>2, <2>3, QuietProc
    <2>4. CASE proc[i].boot # "new" /\ calls' = calls \cup {NewCall(i, "release", proc[i].token)}
      BY <2>1, <2>2, <2>4, QuietSend
    <2> QED BY <2>1, <2>3, <2>4 DEF NewHasNothing
  <1>4. ASSUME NEW c \in calls, Released(i, c) PROVE QuietStep
    <2> DEFINE q == [QuerySucceeded(proc[i]) EXCEPT !.stop = "final", !.stopWait = HeartbeatWait]
    <2>1. proc' = [proc EXCEPT ![i] = q] /\ calls' = calls \ {c} /\ UNCHANGED lease
      BY <1>4 DEF Released
    <2>2. q.token = proc[i].token /\ q.boot = proc[i].boot
      <3>1. QuerySucceeded(proc[i]) \in Proc
        BY <1>0, ProcTypes
      <3> QED BY <1>0, <3>1, ProcKeeps DEF Proc
    <2> HIDE DEF q
    <2> QED BY <2>1, <2>2, QuietProc
  <1>5. ASSUME NEW c \in calls, NEW transient \in BOOLEAN, ReleaseFails(i, c, transient)
        PROVE  QuietStep
    <2> DEFINE q == [QueryFailed(proc[i], transient) EXCEPT !.stop = "final",
                                                            !.stopWait = HeartbeatWait]
    <2>1. proc' = [proc EXCEPT ![i] = q] /\ calls' = Settled({c}) /\ UNCHANGED lease
      BY <1>5 DEF ReleaseFails
    <2>2. q.token = proc[i].token /\ q.boot = proc[i].boot
      <3>1. QueryFailed(proc[i], transient) \in Proc
        BY <1>0, ProcTypes
      <3> QED BY <1>0, <3>1, ProcKeeps DEF Proc
    <2> HIDE DEF q
    <2> QED BY <2>1, <2>2, QuietProc
  <1>6. CASE ShutdownEnds(i)
    BY <1>6, QuietExit DEF ShutdownEnds
  <1> QED BY <1>1, <1>2, <1>3, <1>4, <1>5, <1>6 DEF StopStep

LEMMA QuietOther ==
  ASSUME TypeOK, OneAcquisition, NEW i \in Instance, OtherStep(i)
  PROVE  QuietStep
  <1>0. proc[i] \in Proc
    BY DEF TypeOK
  <1>1. CASE Signal(i)
    <2> DEFINE q == [Disconnected(proc[i]) EXCEPT !.stop = "marking", !.stopWait = QueryTimeout]
    <2>1. proc' = [proc EXCEPT ![i] = q] /\ UNCHANGED <<lease, calls>>
      BY <1>1 DEF Signal
    <2>2. q.token = proc[i].token /\ (q.boot = "new" => proc[i].boot = "new")
      <3>1. Disconnected(proc[i]) \in Proc
        BY <1>0, ProcTypes
      <3>2. q.token = Disconnected(proc[i]).token /\ q.boot = Disconnected(proc[i]).boot
        BY <3>1 DEF Proc
      <3> QED BY <1>0, <3>2, ProcKeeps
    <2> HIDE DEF q
    <2> QED BY <2>1, <2>2, QuietProc
  <1>2. CASE Crash(i)
    BY <1>2, QuietExit DEF Crash
  <1>3. CASE OtherQuerySucceeds(i)
    BY <1>0, <1>3, ProcKeeps, QuietProc DEF OtherQuerySucceeds
  <1>4. ASSUME NEW transient \in BOOLEAN, OtherQueryFails(i, transient) PROVE QuietStep
    <2> DEFINE q == QueryFailed(proc[i], transient)
    <2>1. proc' = [proc EXCEPT ![i] = q] /\ UNCHANGED <<lease, calls>>
      BY <1>4 DEF OtherQueryFails
    <2>2. q.token = proc[i].token /\ q.boot = proc[i].boot
      BY <1>0, ProcKeeps
    <2> HIDE DEF q
    <2> QED BY <2>1, <2>2, QuietProc
  <1> QED BY <1>1, <1>2, <1>3, <1>4 DEF OtherStep

(* The three steps that are not quiet. *)
LEMMA LaunchTokens ==
  ASSUME TypeOK, TokenInv, NEW i \in Instance, Launch(i)
  PROVE  TokenInv'
  <1> DEFINE new == NewCall(i, "acquire", 0)
  <1> USE DEF TokenInv
  <1>1. /\ new.inst = i /\ new.op = "acquire" /\ new.answer = "none"
        /\ calls' = calls \cup {new} /\ UNCHANGED lease
    BY DEF NewCall, Launch
  <1>2. /\ \A j \in Instance : proc'[j].token = proc[j].token
        /\ \A j \in Instance : proc'[j].boot = "new" => proc[j].boot = "new" /\ j # i
    BY DEF Launch, TypeOK, Proc
  <1>3. /\ proc[i].token = 0 /\ lease.owner # i
        /\ \A c \in calls : c.inst # i
    BY DEF NewHasNothing, Launch
  <1>4. \A c \in calls : c.inst \in Instance
    BY DEF TypeOK, Call
  <1> HIDE DEF new
  <1>5. OneTokenPerOwner'
    BY <1>1, <1>2 DEF OneTokenPerOwner
  <1>6. NewHasNothing'
    BY <1>1, <1>2, <1>3 DEF NewHasNothing
  <1>7. OneAcquisition'
    BY <1>1, <1>3 DEF OneAcquisition, Acquisitions
  <1>8. AcquiringHasNoToken'
    BY <1>1, <1>2, <1>3, <1>4 DEF AcquiringHasNoToken, Acquisitions
  <1>9. GrantedTokens' /\ HeldTokens'
    <2>1. Granted' = Granted
      BY <1>1 DEF Granted, Acquisitions
    <2> QED BY <2>1, <1>1, <1>2 DEF GrantedTokens, HeldTokens
  <1> QED BY <1>5, <1>6, <1>7, <1>8, <1>9

LEMMA AcquiredTokens ==
  ASSUME TypeOK, TokenInv, NEW i \in Instance, NEW c \in calls, Acquired(i, c)
  PROVE  TokenInv'
  <1> USE DEF TokenInv
  <1>1. /\ c \in Granted /\ c.inst = i
        /\ calls' = calls \ {c} /\ UNCHANGED lease
    BY DEF Acquired, Awaited, Granted, Acquisitions
  <1>2. /\ proc'[i].token = c.token /\ proc'[i].boot = "start"
        /\ \A j \in Instance : j # i => proc'[j] = proc[j]
    <2>1. QuerySucceeded(proc[i]) \in Proc
      BY ProcTypes DEF TypeOK
    <2> QED BY <2>1 DEF Acquired, TypeOK, Proc
  <1>3. /\ c.token # 0 /\ c.token <= lease.token
        /\ lease.owner = i => c.token = lease.token
        /\ \A j \in Instance : proc[j].token # c.token
        /\ \A d \in Granted : d # c => d.token # c.token
    BY <1>1 DEF GrantedTokens
  <1>4. \A d \in calls' : d \in calls /\ (d.op = "acquire" => d.inst # i)
    BY <1>1 DEF OneAcquisition, Granted, Acquisitions
  <1>5. \A d \in calls : d.inst \in Instance
    BY DEF TypeOK, Call
  <1>6. OneTokenPerOwner'
    BY <1>1, <1>2, <1>3 DEF OneTokenPerOwner
  <1>7. NewHasNothing'
    BY <1>1, <1>2, <1>4 DEF NewHasNothing
  <1>8. OneAcquisition'
    BY <1>4 DEF OneAcquisition, Acquisitions
  <1>9. AcquiringHasNoToken'
    BY <1>1, <1>2, <1>4, <1>5 DEF AcquiringHasNoToken, Acquisitions
  <1>10. GrantedTokens'
    <2>1. \A d \in Granted' : d \in Granted /\ d # c
      BY <1>1 DEF Granted, Acquisitions
    <2> QED BY <2>1, <1>1, <1>2, <1>3 DEF GrantedTokens
  <1>11. HeldTokens'
    BY <1>1, <1>2, <1>3 DEF HeldTokens
  <1> QED BY <1>6, <1>7, <1>8, <1>9, <1>10, <1>11

(* An acquisition that is executed finds another owner than its instance: it
   takes a token that nobody holds. *)
LEMMA ExecuteTokens ==
  ASSUME TypeOK, TypeOK', TokenInv, NEW c \in calls, Execute(c)
  PROVE  TokenInv'
  <1> USE DEF TokenInv
  <1>0. /\ c \in Call /\ c.inst \in Instance /\ c.token \in Nat
        /\ lease \in Lease /\ lease.token \in Nat
        /\ \A d \in calls : d \in Call /\ d.inst \in Instance
        /\ \A i \in Instance : proc[i].token \in Nat
    BY DEF TypeOK, Call, Lease, Proc
  <1> DEFINE a == [c EXCEPT !.answer = IF Allowed(c) THEN "granted" ELSE "refused",
                            !.token  = IF c.op = "acquire" /\ Allowed(c) THEN lease'.token ELSE @]
  <1>1. /\ UNCHANGED proc
        /\ \A d \in calls' : d = a \/ (d \in calls /\ d # c)
    BY DEF Execute
  <1>2. /\ a.inst = c.inst /\ a.op = c.op
        /\ a.answer = "granted" <=> Allowed(c)
        /\ a.token = IF c.op = "acquire" /\ Allowed(c) THEN lease'.token ELSE c.token
    BY <1>0 DEF Call
  <1> HIDE DEF a
  <1>3. NewHasNothing /\ proc[c.inst].boot # "new"
    BY <1>0 DEF NewHasNothing
  <1>4. OneAcquisition'
    BY <1>1, <1>2 DEF OneAcquisition, Acquisitions
  <1>5. CASE c.op = "acquire" /\ Allowed(c)
    <2>1. lease.owner # c.inst /\ proc[c.inst].token = 0
      <3>1. c.answer = "none"
        BY DEF Execute
      <3> QED BY <3>1, <1>5 DEF AcquiringHasNoToken, Acquisitions
    <2>2. lease'.owner = c.inst /\ lease'.token = lease.token + 1
      BY <1>5, <2>1 DEF Execute, Effect, AcquiredLease, NextToken
    <2>3. lease'.token \in Nat /\ lease'.token > lease.token /\ lease'.token # 0
      BY <1>0, <2>2
    <2>4. a.token = lease'.token
      BY <1>2, <1>5
    <2>5. \A d \in Granted' : d = a \/ (d \in Granted /\ d.inst # c.inst)
      BY <1>1, <1>5 DEF Granted, Acquisitions, OneAcquisition
    <2>6. \A d \in Granted : d.token \in Nat /\ d.token <= lease.token
      BY <1>0 DEF GrantedTokens, Granted, Acquisitions, Call
    <2>7. \A d \in Granted : d.token < lease'.token
      BY <1>0, <2>3, <2>6
    <2>8. \A i \in Instance : proc[i].token < lease'.token
      BY <1>0, <2>2 DEF HeldTokens
    <2>9. OneTokenPerOwner'
      BY <1>0, <1>1, <2>1, <2>2 DEF OneTokenPerOwner
    <2>10. NewHasNothing'
      BY <1>0, <1>1, <1>2, <1>3, <2>2 DEF NewHasNothing
    <2>11. AcquiringHasNoToken'
      <3> SUFFICES ASSUME NEW d \in Acquisitions'
                   PROVE  /\ proc[d.inst].token = 0
                          /\ d.answer = "none" => lease'.owner # d.inst
        BY <1>1 DEF AcquiringHasNoToken
      <3>1. CASE d = a
        BY <3>1, <1>2, <1>5, <2>1
      <3>2. CASE d \in calls /\ d # c
        <4>1. d.op = "acquire" /\ d \in Acquisitions /\ c \in Acquisitions
          BY <3>2, <1>5 DEF Acquisitions
        <4>2. d.inst # c.inst
          BY <3>2, <4>1 DEF OneAcquisition
        <4> QED BY <4>1, <4>2, <2>2 DEF AcquiringHasNoToken
      <3> QED BY <3>1, <3>2, <1>1 DEF Acquisitions
    <2>12. GrantedTokens'
      <3>1. ASSUME NEW d \in Granted', NEW e \in Granted', d.token = e.token PROVE d = e
        <4>1. CASE d \in Granted /\ e \in Granted
          BY <4>1, <3>1 DEF GrantedTokens
        <4>2. CASE d = a /\ e \in Granted
          BY <1>0, <2>3, <2>4, <2>6, <2>7, <3>1, <4>2
        <4>3. CASE d \in Granted /\ e = a
          BY <1>0, <2>3, <2>4, <2>6, <2>7, <3>1, <4>3
        <4> QED BY <4>1, <4>2, <4>3, <2>5
      <3>2. ASSUME NEW d \in Granted'
            PROVE  /\ d.token # 0 /\ d.token <= lease'.token
                   /\ lease'.owner = d.inst => d.token = lease'.token
                   /\ \A i \in Instance : proc'[i].token # d.token
        <4>1. CASE d \in Granted /\ d.inst # c.inst
          <5>1. d.token # 0 /\ \A i \in Instance : proc[i].token # d.token
            BY <4>1 DEF GrantedTokens
          <5>2. d.token <= lease'.token
            BY <4>1, <2>3, <2>6, <2>7
          <5> QED BY <1>1, <2>2, <4>1, <5>1, <5>2
        <4>2. CASE d = a
          <5>1. d.token = lease'.token
            BY <4>2, <2>4
          <5>2. \A i \in Instance : proc[i].token # d.token
            BY <1>0, <2>3, <2>8, <5>1
          <5> QED BY <1>1, <2>3, <5>1, <5>2
        <4> QED BY <2>5, <4>1, <4>2
      <3> QED BY <3>1, <3>2 DEF GrantedTokens
    <2>13. HeldTokens'
      <3>1. \A i \in Instance : proc[i].token <= lease'.token
        BY <1>0, <2>3, <2>8
      <3> QED BY <3>1, <1>1 DEF HeldTokens
    <2> QED BY <1>4, <2>9, <2>10, <2>11, <2>12, <2>13
  <1>6. CASE ~(c.op = "acquire" /\ Allowed(c))
    <2>1. lease'.token = lease.token /\ lease'.owner \in {lease.owner, NoInstance}
      BY <1>0, <1>6 DEF Execute, Effect, RenewedLease, ReleasedLease, Lease, Call
    <2>2. \A d \in Granted' : d \in Granted
      BY <1>1, <1>2, <1>6 DEF Granted, Acquisitions
    <2>3. NoInstance \notin Instance
      BY NoInstanceAssumption
    <2>4. OneTokenPerOwner'
      BY <1>1, <2>1, <2>3 DEF OneTokenPerOwner
    <2>5. NewHasNothing'
      BY <1>0, <1>1, <1>2, <1>3, <2>1, <2>3 DEF NewHasNothing
    <2>6. AcquiringHasNoToken'
      <3> SUFFICES ASSUME NEW d \in Acquisitions'
                   PROVE  /\ proc[d.inst].token = 0
                          /\ d.answer = "none" => lease'.owner # d.inst
        BY <1>1 DEF AcquiringHasNoToken
      <3>1. PICK e \in Acquisitions : e.inst = d.inst /\ (d.answer = "none" => e.answer = "none")
        <4>1. c.answer = "none"
          BY DEF Execute
        <4> QED BY <1>1, <1>2, <4>1 DEF Acquisitions
      <3>2. d.inst \in Instance
        BY <3>1, <1>0 DEF Acquisitions
      <3> QED BY <3>1, <3>2, <2>1, <2>3 DEF AcquiringHasNoToken
    <2>7. GrantedTokens'
      <3>1. \A d \in Granted : d.inst \in Instance
        BY <1>0 DEF Granted, Acquisitions
      <3> QED BY <1>1, <2>1, <2>2, <2>3, <3>1 DEF GrantedTokens
    <2>8. HeldTokens'
      BY <1>1, <2>1 DEF HeldTokens
    <2> QED BY <1>4, <2>4, <2>5, <2>6, <2>7, <2>8
  <1> QED BY <1>5, <1>6

LEMMA TokenInvariant == Spec => [](TypeOK /\ TokenInv)
  <1>1. Init => TokenInv
    <2> SUFFICES ASSUME Init PROVE TokenInv
      OBVIOUS
    <2>1. /\ \A i \in Instance : proc[i].token = 0
          /\ lease.owner = NoInstance /\ lease.token = 0 /\ calls = {}
      BY DEF Init, NewProc, NoLease
    <2> QED BY <2>1, NoInstanceAssumption DEF TokenInv, OneTokenPerOwner, NewHasNothing,
               OneAcquisition, AcquiringHasNoToken, GrantedTokens, HeldTokens, Granted,
               Acquisitions
  <1>2. TypeOK /\ TypeOK' /\ TokenInv /\ [Next]_vars => TokenInv'
    <2> SUFFICES ASSUME TypeOK, TypeOK', TokenInv, [Next]_vars PROVE TokenInv'
      OBVIOUS
    <2>0. OneAcquisition /\ NewHasNothing
      BY DEF TokenInv
    <2>1. CASE UNCHANGED vars
      BY <2>0, <2>1, QuietSteps DEF vars, QuietStep, OneAcquisition, Acquisitions
    <2>2. CASE Tick
      BY <2>0, <2>2, QuietTick, QuietSteps
    <2>3. ASSUME NEW c \in calls, Execute(c) PROVE TokenInv'
      BY <2>3, ExecuteTokens
    <2>4. ASSUME NEW i \in Instance, BootStep(i) PROVE TokenInv'
      BY <2>0, <2>4, QuietBoot, LaunchTokens, AcquiredTokens, QuietSteps
    <2>5. ASSUME NEW i \in Instance, RenewStep(i) \/ StopStep(i) \/ OtherStep(i)
          PROVE  TokenInv'
      BY <2>0, <2>5, QuietRenew, QuietStop, QuietOther, QuietSteps
    <2> QED BY <2>1, <2>2, <2>3, <2>4, <2>5 DEF Next
  <1> QED BY <1>1, <1>2, TypeCorrect, PTL DEF Spec

(* No fencing token ever has two owners, and an owner that knows its token
   knows the current one (OneTokenPerOwner). *)
THEOREM TokensHaveOneOwner == Spec => []OneTokenPerOwner
  <1>1. TokenInv => OneTokenPerOwner
    BY DEF TokenInv
  <1> QED BY <1>1, TokenInvariant, PTL

(* Only time and the owner's own renewal or release change a lease that is
   still valid (OwnerIsUndisturbed). *)
THEOREM ValidLeaseIsUndisturbed == Spec => OwnerIsUndisturbed
  <1> DEFINE Undisturbed ==
        lease.owner # NoInstance /\ lease.ttl > 0 =>
          \/ lease' = [lease EXCEPT !.ttl = lease'.ttl] /\ lease'.ttl <= lease.ttl
          \/ \E c \in calls \ calls' : c.inst = lease.owner /\ c.op # "acquire"
  <1>1. TypeOK /\ TokenInv /\ [Next]_vars => [Undisturbed]_vars
    <2> SUFFICES ASSUME TypeOK, TokenInv, [Next]_vars PROVE Undisturbed
      OBVIOUS
    <2>0. lease \in Lease /\ lease.ttl \in Nat
      BY ConstantTypes DEF TypeOK, Lease
    <2>1. CASE UNCHANGED lease
      BY <2>0, <2>1 DEF Lease
    <2>2. CASE Tick
      BY <2>0, <2>2 DEF Tick, Less, Lease
    <2>3. ASSUME NEW c \in calls, Execute(c) PROVE Undisturbed
      <3>1. SUFFICES ASSUME lease.owner # NoInstance, lease.ttl > 0, Allowed(c)
                     PROVE  c \in calls \ calls' /\ c.inst = lease.owner /\ c.op # "acquire"
        BY <2>1, <2>3 DEF Execute
      <3>2. c \in Call
        BY DEF TypeOK
      <3>3. c.answer = "none" /\ c \notin calls'
        <4> DEFINE a == [c EXCEPT !.answer = IF Allowed(c) THEN "granted" ELSE "refused",
                            !.token  = IF c.op = "acquire" /\ Allowed(c) THEN lease'.token ELSE @]
        <4>1. c.answer = "none" /\ calls' \subseteq (calls \ {c}) \cup {a}
          BY <2>3 DEF Execute
        <4>2. a.answer # "none"
          BY <3>2 DEF Call
        <4> HIDE DEF a
        <4> QED BY <4>1, <4>2
      <3>4. c.op # "acquire"
        <4>1. SUFFICES ASSUME c.op = "acquire" PROVE FALSE
          OBVIOUS
        <4>2. lease.owner # c.inst
          BY <3>3, <4>1 DEF TokenInv, AcquiringHasNoToken, Acquisitions
        <4>3. lease.owner \in {NoInstance, c.inst} \/ lease.ttl = 0
          BY <3>1, <4>1 DEF Allowed, Acquirable
        <4> QED BY <2>0, <3>1, <4>2, <4>3
      <3>5. c.inst = lease.owner
        BY <3>1, <3>2, <3>4 DEF Allowed, Renewable, Owns, Call
      <3> QED BY <3>3, <3>4, <3>5
    <2>4. ASSUME NEW i \in Instance,
                 BootStep(i) \/ RenewStep(i) \/ StopStep(i) \/ OtherStep(i)
          PROVE  UNCHANGED lease
      BY <2>4 DEF BootStep, RenewStep, StopStep, OtherStep, Launch, Acquired, AcquisitionFails,
         Started, LoginSucceeds, LoginFails, RenewTimer, Renewed, RenewalRejected, RenewalFails,
         LossReported, StopBegins, ReleaseBegins, Released, ReleaseFails, ShutdownEnds, Signal,
         Crash, OtherQuerySucceeds, OtherQueryFails, Exit
    <2> QED BY <2>1, <2>2, <2>3, <2>4 DEF Next, vars
  <1> QED BY <1>1, TokenInvariant, PTL DEF Spec, OwnerIsUndisturbed
-----------------------------------------------------------------------------
(***************************************************************************)
(* How long a process goes on without proof of ownership.  With Prompt,    *)
(* every countdown that matters is served when it reaches zero, so the     *)
(* time left on the proof can be compared with the time the process needs  *)
(* at most until it is disconnected.                                       *)
(***************************************************************************)

(* What the configuration must leave room for.  The defaults do: in seconds,
   5 <= 5 and 2 * 10 + 3 * 5 < 45 + 15.  validateRuntimeConfig asks for
   neither. *)
Margins ==
  /\ QueryTimeout <= Safety
  /\ 2 * HeartbeatWait + 3 * QueryTimeout < Ttl + Renew

(* The countdown that OverlapIsBounded allows. *)
Late == -(Renew + HeartbeatWait)

Live(cs, i) == {c \in cs : c.inst = i /\ c.live}

Sent(live, op) == {c \in live : c.op = op}

(* A process p with the calls it awaits.  An activity awaits one call at a
   time, and only shutdown awaits a release. *)
Phases(p, live) ==
  /\ \A c, d \in live : c.op = d.op => c = d
  /\ p.boot \in {"new", "exited"} => live = {} /\ p.stop = "no"
  /\ p.boot = "exited" => p.proof = 0
  /\ p.boot = "idle" \/ p.lost => p.stop # "no"
  /\ p.stop = "losing" => p.boot \in {"login", "ready", "idle"}
  /\ p.boot \in {"new", "acquire", "start"} => p.timer = Off /\ Sent(live, "renew") = {}
  /\ p.boot \in {"login", "ready"} /\ p.stop = "no" => p.timer # Off
  /\ p.stop = "releasing" <=> Sent(live, "release") # {}

Waits(p) ==
  /\ p.stop \in {"losing", "stopping", "final"} => p.stopWait <= HeartbeatWait
  /\ p.stop = "marking" /\ p.boot # "idle" => p.stopWait <= QueryTimeout

(* While it renews: the next renewal that fails finds the proof used up in
   time for the report of the loss. *)
RenewsInTime(p, live) ==
  /\ p.boot = "start" /\ p.stop = "no" =>
       p.proof >= Ttl - (HeartbeatWait + QueryTimeout) + p.bootWait
  /\ p.boot \in {"login", "ready"} /\ p.stop = "no" =>
       /\ \A c \in Sent(live, "renew") : p.proof > Late + HeartbeatWait + c.left
       /\ Sent(live, "renew") = {} => p.proof > Late + HeartbeatWait + QueryTimeout + p.timer
  /\ p.boot \in {"login", "ready"} /\ p.stop = "losing" => p.proof > Late + p.stopWait

(* While it shuts down: a startup that was interrupted may still connect, and
   ends with the process. *)
StopsInTime(p, live) ==
  p.boot \in {"start", "login", "ready"} =>
    /\ p.stop = "marking" => p.proof > Late + 2 * HeartbeatWait + QueryTimeout + p.stopWait
    /\ p.stop = "stopping" => p.proof > Late + HeartbeatWait + QueryTimeout + p.stopWait
    /\ \A c \in Sent(live, "release") : p.proof > Late + HeartbeatWait + c.left
    /\ p.stop = "final" => p.proof > Late + p.stopWait

Timely(p, live) ==
  /\ Phases(p, live)
  /\ Waits(p)
  /\ Margins => RenewsInTime(p, live) /\ StopsInTime(p, live)

LEMMA ProcNumbers ==
  ASSUME NEW p \in Proc
  PROVE  /\ p.proof \in Int /\ p.proof <= Ttl
         /\ p.timer \in Int /\ p.timer >= -1 /\ p.timer <= Renew
         /\ p.bootWait \in Nat /\ p.bootWait <= HeartbeatWait + QueryTimeout
         /\ p.stopWait \in Nat
  BY ConstantTypes DEF Proc, Off

LEMMA CallNumbers == \A c \in Call : c.left \in Nat /\ c.left <= QueryTimeout
  BY ConstantTypes DEF Call

(* The query gate does not change what counts here. *)
SameClock(p, q) ==
  /\ p.boot = q.boot /\ p.stop = q.stop /\ p.lost = q.lost /\ p.proof = q.proof
  /\ p.timer = q.timer /\ p.bootWait = q.bootWait /\ p.stopWait = q.stopWait

LEMMA GateKeepsClock ==
  ASSUME NEW p \in Proc, NEW transient
  PROVE  /\ SameClock(p, QuerySucceeded(p))
         /\ SameClock(p, QueryFailed(p, transient))
  BY DEF SameClock, QuerySucceeded, QueryFailed, Proc

LEMMA SameClockTimely ==
  ASSUME NEW p, NEW q, NEW live, SameClock(p, q), Timely(p, live)
  PROVE  Timely(q, live)
  BY DEF SameClock, Timely, Phases, Waits, RenewsInTime, StopsInTime

(* An answer is awaited as long as its call. *)
LEMMA AnsweredTimely ==
  ASSUME NEW p, NEW live, NEW c \in live, NEW a, a.op = c.op, a.left = c.left,
         Timely(p, live)
  PROVE  Timely(p, (live \ {c}) \cup {a})
  <1> DEFINE after == (live \ {c}) \cup {a}
  <1>1. \A op : \A d \in Sent(after, op) : \E e \in Sent(live, op) : d.left = e.left
    BY DEF Sent
  <1>2. \A op : Sent(after, op) = {} <=> Sent(live, op) = {}
    BY DEF Sent
  <1>3. \A d, e \in after : d.op = e.op => d = e
    BY DEF Timely, Phases
  <1>4. live # {}
    OBVIOUS
  <1> HIDE DEF after
  <1>5. Phases(p, after)
    BY <1>2, <1>3, <1>4 DEF Timely, Phases
  <1>6. Margins => RenewsInTime(p, after) /\ StopsInTime(p, after)
    BY <1>1, <1>2 DEF Timely, RenewsInTime, StopsInTime
  <1> QED BY <1>5, <1>6 DEF Timely, after
-----------------------------------------------------------------------------
(* The calls a process awaits after a step of its own, and of another one. *)
LEMMA LiveCalls ==
  ASSUME TypeOK, NEW cs \in SUBSET calls, NEW j \in Instance
  PROVE  /\ Live(Settled(cs), j) = Live(calls, j) \ cs
         /\ Live(calls \ cs, j) = Live(calls, j) \ cs
  <1>1. \A c \in Abandoned(cs) : c.live = FALSE
    <2>1. \A d \in calls : [d EXCEPT !.live = FALSE, !.left = 0].live = FALSE
      BY DEF TypeOK, Call
    <2> QED BY <2>1 DEF Abandoned
  <1>2. Live(Settled(cs), j) = Live(calls \ cs, j)
    <2>1. \A c : c \in Settled(cs) <=> c \in calls \ cs \/ c \in Abandoned(cs)
      BY DEF Settled
    <2> QED BY <1>1, <2>1 DEF Live
  <1> QED BY <1>2 DEF Live

LEMMA SentCalls ==
  ASSUME NEW i \in Instance, NEW op, NEW token
  PROVE  LET c == NewCall(i, op, token)
         IN /\ Live(calls \cup {c}, i) = Live(calls, i) \cup {c}
            /\ \A j \in Instance \ {i} : Live(calls \cup {c}, j) = Live(calls, j)
            /\ c.op = op /\ c.left = QueryTimeout
  <1> DEFINE c == NewCall(i, op, token)
  <1>1. c.inst = i /\ c.live = TRUE /\ c.op = op /\ c.left = QueryTimeout
    BY DEF NewCall
  <1> HIDE DEF c
  <1>2. /\ Live(calls \cup {c}, i) = Live(calls, i) \cup {c}
        /\ \A j \in Instance \ {i} : Live(calls \cup {c}, j) = Live(calls, j)
    BY <1>1 DEF Live
  <1> QED BY <1>1, <1>2 DEF c

LEMMA LiveAfterExit ==
  ASSUME TypeOK, NEW i \in Instance, Exit(i)
  PROVE  /\ Live(calls', i) = {}
         /\ \A j \in Instance \ {i} : Live(calls', j) = Live(calls, j)
  <1> DEFINE cs == {c \in calls : c.inst = i}
  <1>1. \A j \in Instance : Live(calls', j) = Live(calls, j) \ cs
    BY LiveCalls DEF Exit
  <1> QED BY <1>1 DEF Live

LEMMA ExitedTimely ==
  ASSUME NEW p \in Proc
  PROVE  Timely(Exited(p), {})
  BY DEF Timely, Phases, Waits, RenewsInTime, StopsInTime, Exited, NewProc, Sent

AllTimely == \A i \in Instance : Timely(proc[i], Live(calls, i))

(* A step of one process concerns its own countdowns only. *)
LEMMA LocalStep ==
  ASSUME AllTimely, NEW i \in Instance,
         \A j \in Instance \ {i} : proc'[j] = proc[j] /\ Live(calls', j) = Live(calls, j),
         Timely(proc'[i], Live(calls', i))
  PROVE  AllTimely'
  BY DEF AllTimely

LEMMA ExitStep ==
  ASSUME TypeOK, AllTimely, NEW i \in Instance, Exit(i)
  PROVE  AllTimely'
  <1>1. Live(calls', i) = {} /\ \A j \in Instance \ {i} : Live(calls', j) = Live(calls, j)
    BY LiveAfterExit
  <1>2. proc'[i] = Exited(proc[i]) /\ \A j \in Instance \ {i} : proc'[j] = proc[j]
    BY DEF Exit, TypeOK
  <1>3. Timely(proc'[i], Live(calls', i))
    BY <1>1, <1>2, ExitedTimely DEF TypeOK
  <1> QED BY <1>1, <1>2, <1>3, LocalStep

(* Settling calls and changing the process itself, or sending one. *)
LEMMA SettleStep ==
  ASSUME TypeOK, AllTimely, NEW i \in Instance, NEW cs \in SUBSET calls, NEW q,
         \A c \in cs : c.inst = i,
         proc' = [proc EXCEPT ![i] = q],
         calls' = calls \ cs \/ calls' = Settled(cs),
         Timely(q, Live(calls, i) \ cs)
  PROVE  AllTimely'
  <1>1. \A j \in Instance : Live(calls', j) = Live(calls, j) \ cs
    BY LiveCalls
  <1>2. \A j \in Instance \ {i} : Live(calls, j) \ cs = Live(calls, j)
    BY DEF Live
  <1>3. proc'[i] = q /\ \A j \in Instance \ {i} : proc'[j] = proc[j]
    BY DEF TypeOK
  <1> QED BY <1>1, <1>2, <1>3, LocalStep

LEMMA OwnStep ==
  ASSUME TypeOK, AllTimely, NEW i \in Instance, NEW q,
         proc' = [proc EXCEPT ![i] = q], UNCHANGED calls,
         Timely(q, Live(calls, i))
  PROVE  AllTimely'
  <1>1. proc'[i] = q /\ \A j \in Instance \ {i} : proc'[j] = proc[j]
    BY DEF TypeOK
  <1> QED BY <1>1, LocalStep

LEMMA SendStep ==
  ASSUME TypeOK, AllTimely, NEW i \in Instance, NEW q, NEW op, NEW token,
         proc' = [proc EXCEPT ![i] = q],
         calls' = calls \cup {NewCall(i, op, token)},
         Timely(q, Live(calls, i) \cup {NewCall(i, op, token)})
  PROVE  AllTimely'
  <1>1. /\ Live(calls', i) = Live(calls, i) \cup {NewCall(i, op, token)}
        /\ \A j \in Instance \ {i} : Live(calls', j) = Live(calls, j)
    BY SentCalls
  <1>2. proc'[i] = q /\ \A j \in Instance \ {i} : proc'[j] = proc[j]
    BY DEF TypeOK
  <1> QED BY <1>1, <1>2, LocalStep
-----------------------------------------------------------------------------
(* The countdowns of one process, step by step.  p is the process before the
   step, live what it awaits. *)

LEMMA LaunchTimely ==
  ASSUME NEW p \in Proc, NEW live, NEW c, c.op = "acquire",
         Timely(p, live), p.boot = "new"
  PROVE  Timely([p EXCEPT !.boot = "acquire"], live \cup {c})
  <1>1. live = {} /\ p.stop = "no" /\ ~p.lost /\ p.timer = Off
    BY DEF Timely, Phases, Proc
  <1>2. Sent(live \cup {c}, "renew") = {} /\ Sent(live \cup {c}, "release") = {}
    BY <1>1 DEF Sent
  <1> QED BY <1>1, <1>2 DEF Timely, Phases, Waits, RenewsInTime, StopsInTime, Proc

LEMMA AcquiredTimely ==
  ASSUME NEW p \in Proc, NEW live \in SUBSET Call, NEW c \in live, c.op = "acquire",
         NEW token, Timely(p, live), p.boot = "acquire"
  PROVE  Timely([p EXCEPT !.boot = "start", !.token = token, !.proof = Ttl,
                          !.bootWait = HeartbeatWait + QueryTimeout], live \ {c})
  <1> DEFINE q == [p EXCEPT !.boot = "start", !.token = token, !.proof = Ttl,
                          !.bootWait = HeartbeatWait + QueryTimeout]
             rest == live \ {c}
  <1>1. /\ q.boot = "start" /\ q.proof = Ttl /\ q.bootWait = HeartbeatWait + QueryTimeout
        /\ q.stop = p.stop /\ q.lost = p.lost /\ q.timer = p.timer /\ q.stopWait = p.stopWait
    BY DEF Proc
  <1>2. \A op \in {"renew", "release"} : Sent(rest, op) = Sent(live, op)
    <2>1. \A d \in live : d.op = c.op => d = c
      BY DEF Timely, Phases
    <2> QED BY <2>1 DEF Sent
  <1>3. rest \subseteq live
    OBVIOUS
  <1> HIDE DEF q, rest
  <1>4. Phases(q, rest)
    BY <1>1, <1>2, <1>3 DEF Timely, Phases
  <1>5. Waits(q)
    BY <1>1 DEF Timely, Waits
  <1>6. ASSUME Margins PROVE RenewsInTime(q, rest) /\ StopsInTime(q, rest)
    <2>1. RenewsInTime(q, rest)
      BY <1>1, ConstantTypes DEF RenewsInTime, Timely, Phases
    <2>2. StopsInTime(q, rest)
      BY <1>1, <1>2, <1>5, <1>6, ConstantTypes, ProcNumbers, CallNumbers
         DEF StopsInTime, Waits, Margins, Late, Sent
    <2> QED BY <2>1, <2>2
  <1> QED BY <1>4, <1>5, <1>6 DEF Timely, q, rest

LEMMA StartedTimely ==
  ASSUME NEW p \in Proc, NEW live \in SUBSET Call, Timely(p, live), p.boot = "start"
  PROVE  Timely([p EXCEPT !.boot = "login", !.bootWait = 0,
                          !.timer = IF Stopping(p) THEN Off ELSE Renew], live)
  <1> DEFINE q == [p EXCEPT !.boot = "login", !.bootWait = 0,
                            !.timer = IF Stopping(p) THEN Off ELSE Renew]
  <1>1. /\ q.boot = "login" /\ q.proof = p.proof /\ q.stop = p.stop /\ q.lost = p.lost
        /\ q.timer = (IF Stopping(p) THEN Off ELSE Renew) /\ q.stopWait = p.stopWait
    BY DEF Proc
  <1> HIDE DEF q
  <1>2. Renew # Off
    BY ConstantTypes DEF Off
  <1>3. Phases(q, live)
    BY <1>1, <1>2 DEF Timely, Phases, Stopping
  <1>4. Waits(q)
    BY <1>1 DEF Timely, Waits
  <1>5. ASSUME Margins PROVE RenewsInTime(q, live) /\ StopsInTime(q, live)
    <2>1. RenewsInTime(q, live)
      <3>1. p.stop # "losing" /\ Sent(live, "renew") = {}
        BY DEF Timely, Phases
      <3>2. CASE p.stop = "no"
        <4>1. p.proof >= Ttl - (HeartbeatWait + QueryTimeout)
          BY <1>5, <3>2, ProcNumbers, ConstantTypes DEF Timely, RenewsInTime
        <4>2. q.timer = Renew
          BY <1>1, <3>2 DEF Stopping
        <4>3. Ttl > HeartbeatWait + 2 * QueryTimeout
          BY <1>5, ConstantTypes, WindowAssumption DEF Margins
        <4> QED BY <1>1, <3>1, <3>2, <4>1, <4>2, <4>3, ProcNumbers, ConstantTypes
                DEF RenewsInTime, Late
      <3> QED BY <1>1, <3>1, <3>2 DEF RenewsInTime
    <2>2. StopsInTime(q, live)
      BY <1>1, <1>5 DEF Timely, StopsInTime
    <2> QED BY <2>1, <2>2
  <1> QED BY <1>3, <1>4, <1>5 DEF Timely, q

LEMMA LoginTimely ==
  ASSUME NEW p \in Proc, NEW live, Timely(p, live), p.boot = "login"
  PROVE  Timely([p EXCEPT !.boot = "ready"], live)
  BY DEF Timely, Phases, Waits, RenewsInTime, StopsInTime, Proc

(* Leaving Discord for good, or giving up the login. *)
LEMMA IdleTimely ==
  ASSUME NEW p \in Proc, NEW live, NEW q \in Proc, Timely(p, live),
         q.boot = "idle", q.proof = p.proof, q.lost = p.lost, q.timer = p.timer,
         q.stop # "no",
         q.stop = "releasing" <=> p.stop = "releasing",
         q.stop \in {"losing", "stopping", "final"} => q.stopWait <= HeartbeatWait
  PROVE  Timely(q, live)
  <1>1. p.boot \notin {"new", "exited"} \/ live = {}
    BY DEF Timely, Phases
  <1> QED BY <1>1 DEF Timely, Phases, Waits, RenewsInTime, StopsInTime

LEMMA LoginFailedTimely ==
  ASSUME NEW p \in Proc, NEW live, Timely(p, live), p.boot = "login"
  PROVE  Timely([p EXCEPT !.boot = "idle",
                   !.stop = IF @ = "no" THEN "marking" ELSE @,
                   !.stopWait = IF p.stop = "no" THEN HeartbeatWait ELSE @], live)
  <1> DEFINE q == [p EXCEPT !.boot = "idle",
                   !.stop = IF @ = "no" THEN "marking" ELSE @,
                   !.stopWait = IF p.stop = "no" THEN HeartbeatWait ELSE @]
  <1>1. /\ q.boot = "idle" /\ q.proof = p.proof /\ q.lost = p.lost /\ q.timer = p.timer
        /\ q.stop = (IF p.stop = "no" THEN "marking" ELSE p.stop)
        /\ q.stopWait = (IF p.stop = "no" THEN HeartbeatWait ELSE p.stopWait)
    BY DEF Proc
  <1>2. q \in Proc
    BY Ranges DEF Proc
  <1> HIDE DEF q
  <1>3. Timely(q, live)
    <2>1. q.stop # "no" /\ (q.stop = "releasing" <=> p.stop = "releasing")
      BY <1>1
    <2>2. q.stop \in {"losing", "stopping", "final"} => q.stopWait <= HeartbeatWait
      BY <1>1 DEF Timely, Waits
    <2> QED BY <1>1, <1>2, <2>1, <2>2, IdleTimely
  <1> QED BY <1>3 DEF q
-----------------------------------------------------------------------------
(* renewOnce and handleLeaseLost *)

(* The calls that remain when a renewal is settled, and when none is. *)
LEMMA LoseTimely ==
  ASSUME NEW p \in Proc, NEW live, NEW rest \in SUBSET live, Timely(p, live),
         p.boot \in {"login", "ready", "idle"},
         Sent(rest, "release") = Sent(live, "release"),
         Margins => p.stop # "no" \/ p.boot = "idle" \/ p.proof > Late + HeartbeatWait
  PROVE  Timely(Lose(p), rest)
  <1>1. \A c, d \in rest : c.op = d.op => c = d
    BY DEF Timely, Phases
  <1>2. CASE p.lost \/ Stopping(p)
    <2>1. Lose(p) = p /\ p.stop # "no"
      BY <1>2 DEF Lose, Stopping, Timely, Phases
    <2>2. Sent(rest, "renew") \subseteq Sent(live, "renew")
      BY DEF Sent
    <2>3. Phases(p, rest)
      BY <1>1, <2>1 DEF Timely, Phases
    <2>4. Margins => RenewsInTime(p, rest) /\ StopsInTime(p, rest)
      BY <2>1 DEF Timely, RenewsInTime, StopsInTime
    <2> QED BY <2>1, <2>3, <2>4 DEF Timely
  <1>3. CASE ~(p.lost \/ Stopping(p))
    <2> DEFINE q == Lose(p)
    <2>1. /\ q.boot = p.boot /\ q.lost = TRUE /\ q.timer = Off /\ q.proof = p.proof
          /\ q.stop = (IF p.stop = "no" THEN "losing" ELSE p.stop)
          /\ q.stopWait = (IF p.stop = "no" THEN HeartbeatWait ELSE p.stopWait)
      BY <1>3 DEF Lose, Proc
    <2> HIDE DEF q
    <2>2. Phases(q, rest)
      BY <1>1, <2>1 DEF Timely, Phases
    <2>3. Waits(q)
      BY <2>1, ConstantTypes DEF Timely, Waits
    <2>4. Margins => RenewsInTime(q, rest) /\ StopsInTime(q, rest)
      BY <2>1 DEF Timely, RenewsInTime, StopsInTime
    <2> QED BY <2>2, <2>3, <2>4 DEF Timely, q
  <1> QED BY <1>2, <1>3

(* A renewal in time, or one that failed while the proof still holds. *)
LEMMA RenewalDoneTimely ==
  ASSUME NEW p \in Proc, NEW q \in Proc, NEW live \in SUBSET Call, NEW c \in live, c.op = "renew",
         Timely(p, live),
         q.boot = p.boot, q.stop = p.stop, q.lost = p.lost, q.timer = p.timer,
         q.stopWait = p.stopWait, q.bootWait = p.bootWait,
         \/ q.proof = Ttl
         \/ q.proof = p.proof /\ q.proof > Safety
  PROVE  Timely(q, live \ {c})
  <1> DEFINE rest == live \ {c}
  <1>1. Sent(rest, "renew") = {} /\ Sent(rest, "release") = Sent(live, "release")
    <2>1. \A d \in live : d.op = c.op => d = c
      BY DEF Timely, Phases
    <2> QED BY <2>1 DEF Sent
  <1>2. p.boot \notin {"new", "exited", "acquire", "start"}
    BY DEF Timely, Phases, Sent
  <1>3. \A d, e \in rest : d.op = e.op => d = e
    BY DEF Timely, Phases
  <1> HIDE DEF rest
  <1>4. Phases(q, rest) /\ Waits(q)
    BY <1>1, <1>2, <1>3 DEF Timely, Phases, Waits
  <1>5. ASSUME Margins PROVE RenewsInTime(q, rest) /\ StopsInTime(q, rest)
    <2>1. q.proof > Safety
      BY ConstantTypes, WindowAssumption
    <2>2. RenewsInTime(q, rest)
      <3>1. q.proof > Late + HeartbeatWait + QueryTimeout + q.timer
        BY <2>1, <1>5, ProcNumbers, ConstantTypes DEF Margins, Late
      <3>2. q.stop = "losing" => q.proof > Late + q.stopWait
        BY <2>1, <1>4, ProcNumbers, ConstantTypes DEF Waits, Late
      <3> QED BY <1>1, <1>2, <3>1, <3>2 DEF RenewsInTime
    <2>3. StopsInTime(q, rest)
      <3>1. CASE q.proof = Ttl
        BY <3>1, <1>1, <1>4, <1>5, ConstantTypes, ProcNumbers, CallNumbers
           DEF StopsInTime, Waits, Margins, Late, Sent
      <3>2. CASE q.proof = p.proof
        BY <3>2, <1>1, <1>5 DEF Timely, StopsInTime
      <3> QED BY <3>1, <3>2
    <2> QED BY <2>2, <2>3
  <1> QED BY <1>4, <1>5 DEF Timely, rest

LEMMA RenewalFailedTimely ==
  ASSUME NEW p \in Proc, NEW live \in SUBSET Call, NEW c \in live, c.op = "renew",
         Timely(p, live)
  PROVE  /\ Timely(Lose(p), live \ {c})
         /\ Timely(RenewalFailed(p), live \ {c})
  <1>1. Sent(live \ {c}, "release") = Sent(live, "release")
    <2>1. \A d \in live : d.op = c.op => d = c
      BY DEF Timely, Phases
    <2> QED BY <2>1 DEF Sent
  <1>2. p.boot \in {"login", "ready", "idle"}
    BY DEF Timely, Phases, Sent, Proc
  <1>3. Margins => p.stop # "no" \/ p.boot = "idle" \/ p.proof > Late + HeartbeatWait
    <2>1. c.left \in Nat /\ c \in Sent(live, "renew")
      BY CallNumbers DEF Sent
    <2>2. ASSUME Margins, p.stop = "no", p.boot \in {"login", "ready"}
          PROVE  p.proof > Late + HeartbeatWait
      <3>1. p.proof > Late + HeartbeatWait + c.left
        BY <2>1, <2>2 DEF Timely, RenewsInTime
      <3> QED BY <2>1, <3>1, ProcNumbers, ConstantTypes DEF Late
    <2> QED BY <1>2, <2>2
  <1>4. Timely(Lose(p), live \ {c})
    BY <1>1, <1>2, <1>3, LoseTimely
  <1>5. CASE p.proof > Safety
    <2>1. Timely(p, live \ {c})
      BY <1>5, RenewalDoneTimely
    <2> QED BY <1>4, <1>5, <2>1, ProcNumbers, ConstantTypes DEF RenewalFailed
  <1>6. CASE ~(p.proof > Safety)
    BY <1>4, <1>6, ProcNumbers, ConstantTypes DEF RenewalFailed
  <1> QED BY <1>5, <1>6

(* The renewal timer fires. *)
LEMMA TimerTimely ==
  ASSUME NEW p \in Proc, NEW live \in SUBSET Call, Timely(p, live), p.timer = 0,
         p.boot \notin {"new", "exited"}
  PROVE  LET q == [p EXCEPT !.timer = Renew]
         IN /\ Sent(live, "renew") # {} => Timely(q, live)
            /\ Sent(live, "renew") = {} =>
                 /\ \A c : c.op = "renew" /\ c.left = QueryTimeout => Timely(q, live \cup {c})
                 /\ Timely(RenewalFailed(q), live)
  <1> DEFINE q == [p EXCEPT !.timer = Renew]
  <1>1. /\ q.boot = p.boot /\ q.stop = p.stop /\ q.lost = p.lost /\ q.timer = Renew
        /\ q.proof = p.proof /\ q.bootWait = p.bootWait /\ q.stopWait = p.stopWait
        /\ q \in Proc
    BY Ranges DEF Proc
  <1> HIDE DEF q
  <1>2. p.boot \in {"login", "ready", "idle"} /\ Renew # Off
    BY ConstantTypes DEF Timely, Phases, Proc, Off
  <1>3. ASSUME Sent(live, "renew") # {} PROVE Timely(q, live)
    <2>1. Phases(q, live) /\ Waits(q)
      BY <1>1, <1>2 DEF Timely, Phases, Waits
    <2>2. Margins => RenewsInTime(q, live) /\ StopsInTime(q, live)
      BY <1>1, <1>2, <1>3 DEF Timely, RenewsInTime, StopsInTime
    <2> QED BY <2>1, <2>2 DEF Timely
  <1>4. ASSUME Sent(live, "renew") = {}, Margins, p.stop = "no", p.boot \in {"login", "ready"}
        PROVE  p.proof > Late + HeartbeatWait + QueryTimeout
    <2>1. p.proof > Late + HeartbeatWait + QueryTimeout + p.timer
      BY <1>4 DEF Timely, RenewsInTime
    <2> QED BY <2>1, ProcNumbers, ConstantTypes DEF Late
  <1>5. ASSUME Sent(live, "renew") = {}, NEW c, c.op = "renew", c.left = QueryTimeout
        PROVE  Timely(q, live \cup {c})
    <2>1. /\ Sent(live \cup {c}, "renew") = {c}
          /\ Sent(live \cup {c}, "release") = Sent(live, "release")
      BY <1>5 DEF Sent
    <2>2. \A d, e \in live \cup {c} : d.op = e.op => d = e
      BY <1>5 DEF Timely, Phases, Sent
    <2>3. Phases(q, live \cup {c}) /\ Waits(q)
      BY <1>1, <1>2, <2>1, <2>2 DEF Timely, Phases, Waits
    <2>4. Margins => RenewsInTime(q, live \cup {c}) /\ StopsInTime(q, live \cup {c})
      BY <1>1, <1>2, <1>4, <1>5, <2>1 DEF Timely, RenewsInTime, StopsInTime
    <2> QED BY <2>3, <2>4 DEF Timely
  <1>6. ASSUME Sent(live, "renew") = {} PROVE Timely(RenewalFailed(q), live)
    <2>1. CASE q.proof > Safety
      <3>1. Phases(q, live) /\ Waits(q)
        BY <1>1, <1>2 DEF Timely, Phases, Waits
      <3>2. ASSUME Margins PROVE RenewsInTime(q, live) /\ StopsInTime(q, live)
        <4>1. q.proof > Late + HeartbeatWait + QueryTimeout + q.timer
          BY <1>1, <2>1, <3>2, ProcNumbers, ConstantTypes DEF Margins, Late
        <4> QED BY <1>1, <1>2, <1>6, <3>2, <4>1 DEF Timely, RenewsInTime, StopsInTime
      <3>3. RenewalFailed(q) = q
        BY <1>1, <2>1, ProcNumbers, ConstantTypes DEF RenewalFailed
      <3> QED BY <3>1, <3>2, <3>3 DEF Timely
    <2>2. CASE ~(q.proof > Safety)
      <3>1. RenewalFailed(q) = Lose(q)
        BY <1>1, <2>2, ProcNumbers, ConstantTypes DEF RenewalFailed
      <3>2. Lose(q) = Lose(p) \/ Lose(q) = q
        BY <1>1 DEF Lose, q, Proc, Stopping
      <3>3. Margins => p.stop # "no" \/ p.boot = "idle" \/ p.proof > Late + HeartbeatWait
        BY <1>2, <1>4, <1>6, ProcNumbers, ConstantTypes DEF Late
      <3>4. Timely(Lose(p), live)
        BY <1>2, <3>3, LoseTimely
      <3>5. ASSUME Lose(q) = q, Lose(q) # Lose(p) PROVE Timely(q, live)
        <4>1. p.stop # "no"
          <5>1. q.lost \/ Stopping(q)
            <6>1. ~(q.lost \/ Stopping(q)) => Lose(q).timer = Off
              BY <1>1 DEF Lose, Proc
            <6> QED BY <1>1, <1>2, <3>5, <6>1
          <5> QED BY <1>1, <5>1 DEF Timely, Phases, Stopping
        <4>2. Phases(q, live) /\ Waits(q)
          BY <1>1, <1>2 DEF Timely, Phases, Waits
        <4>3. Margins => RenewsInTime(q, live) /\ StopsInTime(q, live)
          BY <1>1, <1>2, <4>1 DEF Timely, RenewsInTime, StopsInTime
        <4> QED BY <4>2, <4>3 DEF Timely
      <3> QED BY <3>1, <3>2, <3>4, <3>5
    <2> QED BY <2>1, <2>2
  <1> QED BY <1>3, <1>5, <1>6 DEF q
-----------------------------------------------------------------------------
(* shutdown and RuntimeCoordinator.stop *)

LEMMA SignalTimely ==
  ASSUME NEW p \in Proc, NEW live \in SUBSET Call, Timely(p, live),
         p.boot \notin {"new", "exited"}, p.stop \in {"no", "losing"}
  PROVE  Timely([Disconnected(p) EXCEPT !.stop = "marking", !.stopWait = QueryTimeout], live)
  <1> DEFINE q == [Disconnected(p) EXCEPT !.stop = "marking", !.stopWait = QueryTimeout]
  <1>1. /\ q.boot = (IF p.boot \in {"login", "ready"} THEN "idle" ELSE p.boot)
        /\ q.stop = "marking" /\ q.stopWait = QueryTimeout
        /\ q.lost = p.lost /\ q.timer = p.timer /\ q.proof = p.proof
    BY DEF Disconnected, Proc
  <1> HIDE DEF q
  <1>2. Phases(q, live) /\ Waits(q)
    BY <1>1, ConstantTypes DEF Timely, Phases, Waits
  <1>3. ASSUME Margins PROVE RenewsInTime(q, live) /\ StopsInTime(q, live)
    <2>1. RenewsInTime(q, live)
      BY <1>1 DEF RenewsInTime
    <2>2. CASE p.boot = "start"
      <3>1. Sent(live, "release") = {} /\ p.stop = "no"
        BY <2>2 DEF Timely, Phases
      <3>2. p.proof >= Ttl - (HeartbeatWait + QueryTimeout)
        BY <1>3, <2>2, <3>1, ProcNumbers, ConstantTypes DEF Timely, RenewsInTime
      <3>3. p.proof > Late + 2 * HeartbeatWait + QueryTimeout + QueryTimeout
        BY <1>3, <3>2, ProcNumbers, ConstantTypes DEF Margins, Late
      <3> QED BY <1>1, <2>1, <3>1, <3>3 DEF StopsInTime
    <2>3. CASE p.boot # "start"
      BY <1>1, <2>1, <2>3 DEF StopsInTime
    <2> QED BY <2>2, <2>3
  <1> QED BY <1>2, <1>3 DEF Timely, q

LEMMA LossReportedTimely ==
  ASSUME NEW p \in Proc, NEW live, Timely(p, live), p.stop = "losing"
  PROVE  Timely([Disconnected(p) EXCEPT !.stop = "final", !.stopWait = HeartbeatWait], live)
  <1> DEFINE q == [Disconnected(p) EXCEPT !.stop = "final", !.stopWait = HeartbeatWait]
  <1>1. q \in Proc
    BY ProcTypes, SettingTypes
  <1>2. p.boot \in {"login", "ready", "idle"}
    BY DEF Timely, Phases
  <1>3. /\ q.boot = "idle" /\ q.stop = "final" /\ q.stopWait = HeartbeatWait
        /\ q.lost = p.lost /\ q.timer = p.timer /\ q.proof = p.proof
    BY <1>2 DEF Disconnected, Proc
  <1> HIDE DEF q
  <1>4. Timely(q, live)
    BY <1>1, <1>3, ConstantTypes, IdleTimely
  <1> QED BY <1>4 DEF q

LEMMA StopBeginsTimely ==
  ASSUME NEW p \in Proc, NEW live, Timely(p, live), p.stop = "marking"
  PROVE  Timely([p EXCEPT !.stop = "stopping", !.timer = Off,
                          !.stopWait = IF p.lost THEN 0 ELSE HeartbeatWait], live)
  <1> DEFINE q == [p EXCEPT !.stop = "stopping", !.timer = Off,
                            !.stopWait = IF p.lost THEN 0 ELSE HeartbeatWait]
  <1>1. /\ q.boot = p.boot /\ q.stop = "stopping" /\ q.timer = Off /\ q.lost = p.lost
        /\ q.proof = p.proof /\ q.stopWait = (IF p.lost THEN 0 ELSE HeartbeatWait)
    BY DEF Proc
  <1> HIDE DEF q
  <1>2. Phases(q, live) /\ Waits(q)
    BY <1>1, ConstantTypes DEF Timely, Phases, Waits
  <1>3. ASSUME Margins PROVE RenewsInTime(q, live) /\ StopsInTime(q, live)
    <2>1. ASSUME p.boot \in {"start", "login", "ready"}
          PROVE  q.proof > Late + HeartbeatWait + QueryTimeout + q.stopWait
      <3>1. p.proof > Late + 2 * HeartbeatWait + QueryTimeout + p.stopWait
        BY <1>3, <2>1 DEF Timely, StopsInTime
      <3> QED BY <1>1, <3>1, ProcNumbers, ConstantTypes DEF Late
    <2> QED BY <1>1, <1>3, <2>1 DEF Timely, StopsInTime, RenewsInTime
  <1> QED BY <1>2, <1>3 DEF Timely, q

LEMMA ReleaseBeginsTimely ==
  ASSUME NEW p \in Proc, NEW live, Timely(p, live), p.stop = "stopping"
  PROVE  /\ Timely([p EXCEPT !.stop = "final", !.stopWait = HeartbeatWait], live)
         /\ \A c : c.op = "release" /\ c.left = QueryTimeout =>
              Timely([p EXCEPT !.stop = "releasing", !.stopWait = 0], live \cup {c})
  <1>1. ASSUME Margins, p.boot \in {"start", "login", "ready"}
        PROVE  p.proof > Late + HeartbeatWait + QueryTimeout
    <2>1. p.proof > Late + HeartbeatWait + QueryTimeout + p.stopWait
      BY <1>1 DEF Timely, StopsInTime
    <2> QED BY <2>1, ProcNumbers, ConstantTypes DEF Late
  <1>2. Sent(live, "release") = {} /\ p.boot \notin {"new", "exited"}
    BY DEF Timely, Phases
  <1>3. Timely([p EXCEPT !.stop = "final", !.stopWait = HeartbeatWait], live)
    <2> DEFINE q == [p EXCEPT !.stop = "final", !.stopWait = HeartbeatWait]
    <2>1. /\ q.boot = p.boot /\ q.stop = "final" /\ q.timer = p.timer /\ q.lost = p.lost
          /\ q.proof = p.proof /\ q.stopWait = HeartbeatWait
      BY DEF Proc
    <2> HIDE DEF q
    <2>2. Phases(q, live) /\ Waits(q)
      BY <1>2, <2>1, ConstantTypes DEF Timely, Phases, Waits
    <2>3. ASSUME Margins, p.boot \in {"start", "login", "ready"}
          PROVE  p.proof > Late + HeartbeatWait
      BY <1>1, <2>3, ProcNumbers, ConstantTypes DEF Late
    <2>4. Margins => RenewsInTime(q, live) /\ StopsInTime(q, live)
      BY <1>2, <2>1, <2>3 DEF StopsInTime, RenewsInTime
    <2> QED BY <2>2, <2>4 DEF Timely, q
  <1>4. ASSUME NEW c, c.op = "release", c.left = QueryTimeout
        PROVE  Timely([p EXCEPT !.stop = "releasing", !.stopWait = 0], live \cup {c})
    <2> DEFINE q == [p EXCEPT !.stop = "releasing", !.stopWait = 0]
               after == live \cup {c}
    <2>1. /\ q.boot = p.boot /\ q.stop = "releasing" /\ q.timer = p.timer /\ q.lost = p.lost
          /\ q.proof = p.proof
      BY DEF Proc
    <2>2. Sent(after, "release") = {c} /\ Sent(after, "renew") = Sent(live, "renew")
      BY <1>2, <1>4 DEF Sent
    <2>3. \A d, e \in after : d.op = e.op => d = e
      BY <1>2, <1>4 DEF Timely, Phases, Sent
    <2> HIDE DEF q, after
    <2>4. Phases(q, after) /\ Waits(q)
      BY <1>2, <2>1, <2>2, <2>3 DEF Timely, Phases, Waits
    <2>5. Margins => RenewsInTime(q, after) /\ StopsInTime(q, after)
      BY <1>1, <1>4, <2>1, <2>2 DEF StopsInTime, RenewsInTime
    <2> QED BY <2>4, <2>5 DEF Timely, q, after
  <1> QED BY <1>3, <1>4

LEMMA ReleaseEndsTimely ==
  ASSUME NEW p \in Proc, NEW live \in SUBSET Call, NEW c \in live, c.op = "release",
         Timely(p, live)
  PROVE  Timely([p EXCEPT !.stop = "final", !.stopWait = HeartbeatWait], live \ {c})
  <1> DEFINE q == [p EXCEPT !.stop = "final", !.stopWait = HeartbeatWait]
             rest == live \ {c}
  <1>1. /\ q.boot = p.boot /\ q.stop = "final" /\ q.timer = p.timer /\ q.lost = p.lost
        /\ q.proof = p.proof /\ q.stopWait = HeartbeatWait
    BY DEF Proc
  <1>2. p.stop = "releasing" /\ p.boot \notin {"new", "exited"} /\ c \in Sent(live, "release")
    BY DEF Timely, Phases, Sent
  <1>3. Sent(rest, "release") = {} /\ Sent(rest, "renew") = Sent(live, "renew")
    <2>1. \A d \in live : d.op = c.op => d = c
      BY DEF Timely, Phases
    <2> QED BY <2>1 DEF Sent
  <1>4. \A d, e \in rest : d.op = e.op => d = e
    BY DEF Timely, Phases
  <1> HIDE DEF q, rest
  <1>5. Phases(q, rest) /\ Waits(q)
    BY <1>1, <1>2, <1>3, <1>4, ConstantTypes DEF Timely, Phases, Waits
  <1>6. ASSUME Margins, p.boot \in {"start", "login", "ready"}
        PROVE  p.proof > Late + HeartbeatWait
    <2>1. p.proof > Late + HeartbeatWait + c.left
      BY <1>2, <1>6 DEF Timely, StopsInTime
    <2>2. c.left \in Nat
      BY CallNumbers
    <2> QED BY <2>1, <2>2, ProcNumbers, ConstantTypes DEF Late
  <1>7. Margins => RenewsInTime(q, rest) /\ StopsInTime(q, rest)
    BY <1>1, <1>3, <1>6 DEF StopsInTime, RenewsInTime
  <1> QED BY <1>5, <1>7 DEF Timely, q, rest
-----------------------------------------------------------------------------
(* Time goes on for a process none of whose countdowns is due. *)
AgedCall(c) == [c EXCEPT !.left = Less(@)]

LEMMA AgedTimely ==
  ASSUME NEW p \in Proc, NEW live \in SUBSET Call, Timely(p, live),
         p.timer # 0,
         p.boot = "start" => p.bootWait # 0,
         p.stop \in {"losing", "marking", "stopping", "final"} => p.stopWait # 0,
         \A c \in live : c.left # 0
  PROVE  Timely(Aged(p), {AgedCall(c) : c \in live})
  <1> DEFINE q == Aged(p)
             after == {AgedCall(c) : c \in live}
  <1>1. /\ q.boot = p.boot /\ q.stop = p.stop /\ q.lost = p.lost
        /\ q.timer = Less(p.timer) /\ q.bootWait = Less(p.bootWait) /\ q.stopWait = Less(p.stopWait)
        /\ q.proof \in {p.proof, p.proof - 1}
        /\ p.boot = "exited" => q.proof = p.proof
    BY DEF Aged, Proc
  <1>2. /\ q.proof \in Int /\ q.proof >= p.proof - 1
        /\ p.timer # Off => q.timer = p.timer - 1 /\ q.timer # Off
        /\ p.timer = Off => q.timer = Off
        /\ q.stopWait \in Nat /\ q.stopWait <= p.stopWait
        /\ p.stop \in {"losing", "marking", "stopping", "final"} => q.stopWait = p.stopWait - 1
        /\ p.boot = "start" => q.bootWait = p.bootWait - 1
    BY <1>1, ProcNumbers DEF Less, Off
  <1>3. /\ \A c \in live : AgedCall(c).op = c.op /\ AgedCall(c).left = c.left - 1
        /\ \A c \in live : AgedCall(c).left \in Nat /\ c.left \in Nat
    <2>1. \A c \in Call : c.left \in Nat /\ AgedCall(c).op = c.op /\ AgedCall(c).left = Less(c.left)
      BY CallNumbers DEF AgedCall, Call
    <2> QED BY <2>1 DEF Less
  <1> HIDE DEF q
  <1>4. /\ \A d \in after : \E c \in live : d = AgedCall(c)
        /\ \A c \in live : AgedCall(c) \in after
    OBVIOUS
  <1> HIDE DEF after
  <1>5. \A d, e \in after : d.op = e.op => d = e
    BY <1>3, <1>4 DEF Timely, Phases
  <1>6. \A op : Sent(after, op) = {} <=> Sent(live, op) = {}
    BY <1>3, <1>4 DEF Sent
  <1>7. after = {} <=> live = {}
    BY <1>4
  <1>8. Phases(q, after)
    BY <1>1, <1>2, <1>5, <1>6, <1>7 DEF Timely, Phases
  <1>9. Waits(q)
    BY <1>1, <1>2, ProcNumbers, ConstantTypes DEF Timely, Waits
  <1>10. ASSUME NEW op, NEW d \in Sent(after, op)
         PROVE  \E c \in Sent(live, op) : c.left \in Nat /\ d.left = c.left - 1
    BY <1>3, <1>4, <1>10 DEF Sent
  <1>11. Late \in Int /\ HeartbeatWait \in Nat /\ QueryTimeout \in Nat /\ Ttl \in Nat /\ p.proof \in Int
    BY ConstantTypes, ProcNumbers DEF Late
  <1>12. ASSUME Margins PROVE RenewsInTime(q, after)
    <2>1. RenewsInTime(p, live)
      BY <1>12 DEF Timely
    <2>2. ASSUME q.boot = "start", q.stop = "no"
          PROVE  q.proof >= Ttl - (HeartbeatWait + QueryTimeout) + q.bootWait
      BY <1>1, <1>2, <1>11, <2>1, <2>2, ProcNumbers DEF RenewsInTime
    <2>3. ASSUME q.boot \in {"login", "ready"}, q.stop = "no", NEW d \in Sent(after, "renew")
          PROVE  q.proof > Late + HeartbeatWait + d.left
      BY <1>1, <1>2, <1>10, <1>11, <2>1, <2>3 DEF RenewsInTime
    <2>4. ASSUME q.boot \in {"login", "ready"}, q.stop = "no", Sent(after, "renew") = {}
          PROVE  q.proof > Late + HeartbeatWait + QueryTimeout + q.timer
      <3>1. p.timer # Off /\ p.proof > Late + HeartbeatWait + QueryTimeout + p.timer
        BY <1>1, <1>6, <2>1, <2>4 DEF RenewsInTime, Timely, Phases
      <3> QED BY <1>2, <1>11, <3>1, ProcNumbers
    <2>5. ASSUME q.boot \in {"login", "ready"}, q.stop = "losing"
          PROVE  q.proof > Late + q.stopWait
      BY <1>1, <1>2, <1>11, <2>1, <2>5, ProcNumbers DEF RenewsInTime
    <2> QED BY <2>2, <2>3, <2>4, <2>5 DEF RenewsInTime
  <1>13. ASSUME Margins, q.boot \in {"start", "login", "ready"} PROVE StopsInTime(q, after)
    <2>1. StopsInTime(p, live)
      BY <1>13 DEF Timely
    <2>2. ASSUME q.stop = "marking"
          PROVE  q.proof > Late + 2 * HeartbeatWait + QueryTimeout + q.stopWait
      BY <1>1, <1>2, <1>11, <1>13, <2>1, <2>2, ProcNumbers DEF StopsInTime
    <2>3. ASSUME q.stop = "stopping"
          PROVE  q.proof > Late + HeartbeatWait + QueryTimeout + q.stopWait
      BY <1>1, <1>2, <1>11, <1>13, <2>1, <2>3, ProcNumbers DEF StopsInTime
    <2>4. ASSUME NEW d \in Sent(after, "release")
          PROVE  q.proof > Late + HeartbeatWait + d.left
      BY <1>1, <1>2, <1>10, <1>11, <1>13, <2>1 DEF StopsInTime
    <2>5. ASSUME q.stop = "final" PROVE q.proof > Late + q.stopWait
      BY <1>1, <1>2, <1>11, <1>13, <2>1, <2>5, ProcNumbers DEF StopsInTime
    <2> QED BY <2>2, <2>3, <2>4, <2>5 DEF StopsInTime
  <1>14. Margins => StopsInTime(q, after)
    BY <1>13 DEF StopsInTime
  <1> QED BY <1>8, <1>9, <1>12, <1>14 DEF Timely, q, after
-----------------------------------------------------------------------------
LEMMA CallsOf ==
  ASSUME TypeOK, NEW i \in Instance, NEW op
  PROVE  /\ proc[i] \in Proc
         /\ Live(calls, i) \in SUBSET Call
         /\ Awaited(i, op) = Sent(Live(calls, i), op)
         /\ \A c \in Awaited(i, op) :
              c \in Live(calls, i) /\ c \in Call /\ c.op = op /\ c.inst = i /\ {c} \in SUBSET calls
  BY DEF TypeOK, Live, Sent, Awaited

LEMMA ExecuteInTime ==
  ASSUME TypeOK, AllTimely, NEW c \in calls, Execute(c)
  PROVE  AllTimely'
  <1> DEFINE a == [c EXCEPT !.answer = IF Allowed(c) THEN "granted" ELSE "refused",
                            !.token  = IF c.op = "acquire" /\ Allowed(c) THEN lease'.token ELSE @]
  <1>1. /\ calls' = (calls \ {c}) \cup (IF c.live THEN {a} ELSE {})
        /\ proc' = proc
    BY DEF Execute
  <1>2. a.op = c.op /\ a.left = c.left /\ a.inst = c.inst /\ a.live = c.live
    BY DEF TypeOK, Call
  <1> HIDE DEF a
  <1>3. ASSUME NEW j \in Instance PROVE Timely(proc[j], Live(calls', j))
    <2>1. CASE c.live /\ c.inst = j
      <3>1. Live(calls', j) = (Live(calls, j) \ {c}) \cup {a} /\ c \in Live(calls, j)
        BY <1>1, <1>2, <2>1 DEF Live
      <3>2. Timely(proc[j], Live(calls, j))
        BY DEF AllTimely
      <3>3. Timely(proc[j], (Live(calls, j) \ {c}) \cup {a})
        BY <1>2, <3>1, <3>2, AnsweredTimely
      <3> QED BY <3>1, <3>3
    <2>2. CASE ~(c.live /\ c.inst = j)
      <3>1. Live(calls', j) = Live(calls, j)
        BY <1>1, <1>2, <2>2 DEF Live
      <3> QED BY <3>1 DEF AllTimely
    <2> QED BY <2>1, <2>2
  <1> QED BY <1>1, <1>3 DEF AllTimely

LEMMA TickInTime ==
  ASSUME Prompt, TypeOK, AllTimely, Tick
  PROVE  AllTimely'
  <1> SUFFICES ASSUME NEW i \in Instance
               PROVE  Timely(proc'[i], Live(calls', i))
    BY DEF AllTimely
  <1>1. ~Due(i)
    BY DEF Tick
  <1>2. proc'[i] = Aged(proc[i])
    BY DEF Tick
  <1>3. Live(calls', i) = {AgedCall(c) : c \in Live(calls, i)}
    <2>1. \A c \in calls : AgedCall(c).inst = c.inst /\ AgedCall(c).live = c.live
      BY DEF TypeOK, Call, AgedCall
    <2>2. calls' = {AgedCall(c) : c \in calls}
      BY DEF Tick, AgedCall
    <2>3. /\ \A d \in calls' : \E c \in calls : d = AgedCall(c)
          /\ \A c \in calls : AgedCall(c) \in calls'
      BY <2>2
    <2> HIDE DEF AgedCall
    <2> QED BY <2>1, <2>3 DEF Live
  <1>4. \A c \in Live(calls, i) : c.left # 0
    BY <1>1 DEF Due, Live
  <1>5. Timely(proc[i], Live(calls, i)) /\ proc[i] \in Proc /\ Live(calls, i) \in SUBSET Call
    BY CallsOf DEF AllTimely
  <1>6. Timely(Aged(proc[i]), {AgedCall(c) : c \in Live(calls, i)})
    BY <1>1, <1>4, <1>5, AgedTimely DEF Due
  <1> QED BY <1>2, <1>3, <1>6

LEMMA BootInTime ==
  ASSUME TypeOK, AllTimely, NEW i \in Instance, BootStep(i)
  PROVE  AllTimely'
  <1>0. Timely(proc[i], Live(calls, i)) /\ proc[i] \in Proc /\ Live(calls, i) \in SUBSET Call
    BY CallsOf DEF AllTimely
  <1>1. CASE Launch(i)
    <2>1. NewCall(i, "acquire", 0).op = "acquire"
      BY SentCalls
    <2>2. Timely([proc[i] EXCEPT !.boot = "acquire"], Live(calls, i) \cup {NewCall(i, "acquire", 0)})
      BY <1>0, <1>1, <2>1, LaunchTimely DEF Launch
    <2>3. /\ proc' = [proc EXCEPT ![i] = [proc[i] EXCEPT !.boot = "acquire"]]
          /\ calls' = calls \cup {NewCall(i, "acquire", 0)}
      BY <1>1 DEF Launch
    <2> QED BY <2>2, <2>3, SendStep
  <1>2. ASSUME NEW c \in calls, Acquired(i, c) PROVE AllTimely'
    <2> DEFINE p == QuerySucceeded(proc[i])
               q == [p EXCEPT !.boot = "start", !.token = c.token, !.proof = Ttl,
                              !.bootWait = HeartbeatWait + QueryTimeout]
    <2>1. /\ proc[i].boot = "acquire" /\ c \in Awaited(i, "acquire")
          /\ proc' = [proc EXCEPT ![i] = q] /\ calls' = calls \ {c}
      BY <1>2 DEF Acquired
    <2>2. c \in Live(calls, i) /\ c.op = "acquire" /\ c.inst = i /\ {c} \in SUBSET calls
      BY <2>1, CallsOf
    <2>3. p \in Proc /\ SameClock(proc[i], p)
      BY <1>0, ProcTypes, GateKeepsClock
    <2> HIDE DEF p
    <2>4. Timely(p, Live(calls, i)) /\ p.boot = "acquire"
      BY <1>0, <2>1, <2>3, SameClockTimely DEF SameClock
    <2>5. Timely(q, Live(calls, i) \ {c})
      BY <1>0, <2>2, <2>3, <2>4, AcquiredTimely
    <2> HIDE DEF q
    <2> QED BY <2>1, <2>2, <2>5, SettleStep
  <1>3. ASSUME NEW c \in calls, AcquisitionFails(i, c) PROVE AllTimely'
    BY <1>3, ExitStep DEF AcquisitionFails
  <1>4. CASE Started(i)
    <2> DEFINE q == [proc[i] EXCEPT !.boot = "login", !.bootWait = 0,
                                    !.timer = IF Stopping(proc[i]) THEN Off ELSE Renew]
    <2>1. proc' = [proc EXCEPT ![i] = q] /\ UNCHANGED calls
      BY <1>4 DEF Started
    <2>2. Timely(q, Live(calls, i))
      BY <1>0, <1>4, StartedTimely DEF Started
    <2> HIDE DEF q
    <2> QED BY <2>1, <2>2, OwnStep
  <1>5. CASE LoginSucceeds(i)
    <2>1. proc' = [proc EXCEPT ![i] = [proc[i] EXCEPT !.boot = "ready"]] /\ UNCHANGED calls
      BY <1>5 DEF LoginSucceeds
    <2>2. Timely([proc[i] EXCEPT !.boot = "ready"], Live(calls, i))
      BY <1>0, <1>5, LoginTimely DEF LoginSucceeds
    <2> QED BY <2>1, <2>2, OwnStep
  <1>6. CASE LoginFails(i)
    <2>1. CASE Open(proc[i])
      <3> DEFINE q == [proc[i] EXCEPT !.boot = "idle",
                         !.stop = IF @ = "no" THEN "marking" ELSE @,
                         !.stopWait = IF proc[i].stop = "no" THEN HeartbeatWait ELSE @]
      <3>1. proc' = [proc EXCEPT ![i] = q] /\ UNCHANGED calls
        BY <1>6, <2>1 DEF LoginFails
      <3>2. Timely(q, Live(calls, i))
        BY <1>0, <1>6, LoginFailedTimely DEF LoginFails
      <3> HIDE DEF q
      <3> QED BY <3>1, <3>2, OwnStep
    <2> QED BY <1>6, <2>1, ExitStep DEF LoginFails
  <1> QED BY <1>1, <1>2, <1>3, <1>4, <1>5, <1>6 DEF BootStep

LEMMA RenewInTime ==
  ASSUME TypeOK, AllTimely, NEW i \in Instance, RenewStep(i)
  PROVE  AllTimely'
  <1> DEFINE live == Live(calls, i)
             p == proc[i]
  <1>0. /\ Timely(p, live) /\ p \in Proc /\ live \in SUBSET Call
        /\ Awaited(i, "renew") = Sent(live, "renew")
        /\ \A c \in Awaited(i, "renew") :
              c \in live /\ c \in Call /\ c.op = "renew" /\ c.inst = i /\ {c} \in SUBSET calls
    BY CallsOf DEF AllTimely
  <1>1. CASE RenewTimer(i)
    <2> DEFINE q == [p EXCEPT !.timer = Renew]
    <2>1. p.timer = 0 /\ p.boot \notin {"new", "exited"}
      BY <1>1 DEF RenewTimer, Running
    <2>2. /\ Sent(live, "renew") # {} => Timely(q, live)
          /\ Sent(live, "renew") = {} =>
               /\ \A c : c.op = "renew" /\ c.left = QueryTimeout => Timely(q, live \cup {c})
               /\ Timely(RenewalFailed(q), live)
      BY <1>0, <2>1, TimerTimely
    <2>3. \/ /\ Sent(live, "renew") # {} /\ proc' = [proc EXCEPT ![i] = q] /\ UNCHANGED calls
          \/ /\ Sent(live, "renew") = {} /\ proc' = [proc EXCEPT ![i] = q]
             /\ calls' = calls \cup {NewCall(i, "renew", proc[i].token)}
          \/ /\ Sent(live, "renew") = {} /\ proc' = [proc EXCEPT ![i] = RenewalFailed(q)]
             /\ UNCHANGED calls
      BY <1>0, <1>1 DEF RenewTimer
    <2> HIDE DEF q, live, p
    <2>4. CASE Sent(live, "renew") # {} /\ proc' = [proc EXCEPT ![i] = q] /\ UNCHANGED calls
      BY <2>2, <2>4, OwnStep DEF live
    <2>5. CASE /\ Sent(live, "renew") = {} /\ proc' = [proc EXCEPT ![i] = q]
               /\ calls' = calls \cup {NewCall(i, "renew", proc[i].token)}
      <3>1. /\ NewCall(i, "renew", proc[i].token).op = "renew"
            /\ NewCall(i, "renew", proc[i].token).left = QueryTimeout
        BY DEF NewCall
      <3>2. Timely(q, live \cup {NewCall(i, "renew", proc[i].token)})
        BY <2>2, <2>5, <3>1
      <3> QED BY <2>5, <3>2, SendStep DEF live
    <2>6. CASE /\ Sent(live, "renew") = {} /\ proc' = [proc EXCEPT ![i] = RenewalFailed(q)]
               /\ UNCHANGED calls
      BY <2>2, <2>6, OwnStep DEF live
    <2> QED BY <2>3, <2>4, <2>5, <2>6
  <1>2. ASSUME NEW c \in calls, Renewed(i, c) PROVE AllTimely'
    <2> DEFINE q == [QuerySucceeded(proc[i]) EXCEPT !.proof = Ttl]
    <2>1. c \in Awaited(i, "renew") /\ proc' = [proc EXCEPT ![i] = q] /\ calls' = calls \ {c}
      BY <1>2 DEF Renewed
    <2>2. /\ q \in Proc /\ q.proof = Ttl
          /\ q.boot = p.boot /\ q.stop = p.stop /\ q.lost = p.lost /\ q.timer = p.timer
          /\ q.stopWait = p.stopWait /\ q.bootWait = p.bootWait
      BY <1>0, Ranges DEF QuerySucceeded, Proc
    <2> HIDE DEF q
    <2>3. Timely(q, live \ {c})
      BY <1>0, <2>1, <2>2, RenewalDoneTimely
    <2> QED BY <1>0, <2>1, <2>3, SettleStep
  <1>3. ASSUME NEW c \in calls, RenewalRejected(i, c) PROVE AllTimely'
    <2> DEFINE r == QuerySucceeded(proc[i])
    <2>1. c \in Awaited(i, "renew") /\ proc' = [proc EXCEPT ![i] = Lose(r)] /\ calls' = calls \ {c}
      BY <1>3 DEF RenewalRejected
    <2>2. r \in Proc /\ Timely(r, live)
      BY <1>0, ProcTypes, GateKeepsClock, SameClockTimely
    <2> HIDE DEF r
    <2>3. Timely(Lose(r), live \ {c})
      BY <1>0, <2>1, <2>2, RenewalFailedTimely
    <2> QED BY <1>0, <2>1, <2>3, SettleStep
  <1>4. ASSUME NEW c \in calls, NEW transient \in BOOLEAN, RenewalFails(i, c, transient)
        PROVE  AllTimely'
    <2> DEFINE r == QueryFailed(proc[i], transient)
    <2>1. /\ c \in Awaited(i, "renew") /\ proc' = [proc EXCEPT ![i] = RenewalFailed(r)]
          /\ calls' = Settled({c})
      BY <1>4 DEF RenewalFails
    <2>2. r \in Proc /\ Timely(r, live)
      BY <1>0, ProcTypes, GateKeepsClock, SameClockTimely
    <2> HIDE DEF r
    <2>3. Timely(RenewalFailed(r), live \ {c})
      BY <1>0, <2>1, <2>2, RenewalFailedTimely
    <2> QED BY <1>0, <2>1, <2>3, SettleStep
  <1> QED BY <1>1, <1>2, <1>3, <1>4 DEF RenewStep

LEMMA StopInTime ==
  ASSUME TypeOK, AllTimely, NEW i \in Instance, StopStep(i)
  PROVE  AllTimely'
  <1> DEFINE live == Live(calls, i)
             p == proc[i]
  <1>0. /\ Timely(p, live) /\ p \in Proc /\ live \in SUBSET Call
        /\ \A c \in Awaited(i, "release") :
              c \in live /\ c \in Call /\ c.op = "release" /\ c.inst = i /\ {c} \in SUBSET calls
    BY CallsOf DEF AllTimely
  <1>1. CASE LossReported(i)
    <2>1. CASE Open(proc[i])
      <3> DEFINE q == [Disconnected(p) EXCEPT !.stop = "final", !.stopWait = HeartbeatWait]
      <3>1. proc' = [proc EXCEPT ![i] = q] /\ UNCHANGED calls
        BY <1>1, <2>1 DEF LossReported
      <3>2. Timely(q, live)
        BY <1>0, <1>1, LossReportedTimely DEF LossReported
      <3> HIDE DEF q
      <3> QED BY <3>1, <3>2, OwnStep
    <2> QED BY <1>1, <2>1, ExitStep DEF LossReported
  <1>2. CASE StopBegins(i)
    <2>1. CASE Open(proc[i])
      <3> DEFINE q == [p EXCEPT !.stop = "stopping", !.timer = Off,
                                !.stopWait = IF p.lost THEN 0 ELSE HeartbeatWait]
      <3>1. proc' = [proc EXCEPT ![i] = q] /\ UNCHANGED calls
        BY <1>2, <2>1 DEF StopBegins
      <3>2. Timely(q, live)
        BY <1>0, <1>2, StopBeginsTimely DEF StopBegins
      <3> HIDE DEF q
      <3> QED BY <3>1, <3>2, OwnStep
    <2> QED BY <1>2, <2>1, ExitStep DEF StopBegins
  <1>3. CASE ReleaseBegins(i)
    <2>1. /\ Timely([p EXCEPT !.stop = "final", !.stopWait = HeartbeatWait], live)
          /\ \A c : c.op = "release" /\ c.left = QueryTimeout =>
               Timely([p EXCEPT !.stop = "releasing", !.stopWait = 0], live \cup {c})
      BY <1>0, <1>3, ReleaseBeginsTimely DEF ReleaseBegins
    <2>2. \/ /\ proc' = [proc EXCEPT ![i] = [p EXCEPT !.stop = "releasing", !.stopWait = 0]]
             /\ calls' = calls \cup {NewCall(i, "release", proc[i].token)}
          \/ /\ proc' = [proc EXCEPT ![i] = [p EXCEPT !.stop = "final", !.stopWait = HeartbeatWait]]
             /\ UNCHANGED calls
      BY <1>3 DEF ReleaseBegins
    <2>3. /\ NewCall(i, "release", proc[i].token).op = "release"
          /\ NewCall(i, "release", proc[i].token).left = QueryTimeout
      BY DEF NewCall
    <2>4. Timely([p EXCEPT !.stop = "releasing", !.stopWait = 0],
                 live \cup {NewCall(i, "release", proc[i].token)})
      BY <2>1, <2>3
    <2> QED BY <2>1, <2>2, <2>4, OwnStep, SendStep
  <1>4. ASSUME NEW c \in calls, NEW r \in Proc, SameClock(proc[i], r),
               c \in Awaited(i, "release"),
               proc' = [proc EXCEPT ![i] = [r EXCEPT !.stop = "final", !.stopWait = HeartbeatWait]],
               calls' = calls \ {c} \/ calls' = Settled({c})
        PROVE  AllTimely'
    <2>1. Timely(r, live)
      BY <1>0, <1>4, SameClockTimely
    <2>2. Timely([r EXCEPT !.stop = "final", !.stopWait = HeartbeatWait], live \ {c})
      BY <1>0, <1>4, <2>1, ReleaseEndsTimely
    <2> QED BY <1>0, <1>4, <2>2, SettleStep
  <1>5. ASSUME NEW c \in calls, Released(i, c) PROVE AllTimely'
    BY <1>0, <1>4, <1>5, ProcTypes, GateKeepsClock DEF Released
  <1>6. ASSUME NEW c \in calls, NEW transient \in BOOLEAN, ReleaseFails(i, c, transient)
        PROVE  AllTimely'
    BY <1>0, <1>4, <1>6, ProcTypes, GateKeepsClock DEF ReleaseFails
  <1>7. CASE ShutdownEnds(i)
    BY <1>7, ExitStep DEF ShutdownEnds
  <1> QED BY <1>1, <1>2, <1>3, <1>5, <1>6, <1>7 DEF StopStep

LEMMA OtherInTime ==
  ASSUME TypeOK, AllTimely, NEW i \in Instance, OtherStep(i)
  PROVE  AllTimely'
  <1>0. Timely(proc[i], Live(calls, i)) /\ proc[i] \in Proc /\ Live(calls, i) \in SUBSET Call
    BY CallsOf DEF AllTimely
  <1>1. CASE Signal(i)
    <2> DEFINE q == [Disconnected(proc[i]) EXCEPT !.stop = "marking", !.stopWait = QueryTimeout]
    <2>1. proc' = [proc EXCEPT ![i] = q] /\ UNCHANGED calls
      BY <1>1 DEF Signal
    <2>2. Timely(q, Live(calls, i))
      BY <1>0, <1>1, SignalTimely DEF Signal, Running
    <2> HIDE DEF q
    <2> QED BY <2>1, <2>2, OwnStep
  <1>2. CASE Crash(i)
    BY <1>2, ExitStep DEF Crash
  <1>3. CASE OtherQuerySucceeds(i)
    BY <1>0, <1>3, OwnStep, GateKeepsClock, SameClockTimely DEF OtherQuerySucceeds
  <1>4. ASSUME NEW transient \in BOOLEAN, OtherQueryFails(i, transient) PROVE AllTimely'
    BY <1>0, <1>4, OwnStep, GateKeepsClock, SameClockTimely DEF OtherQueryFails
  <1> QED BY <1>1, <1>2, <1>3, <1>4 DEF OtherStep

(* With Prompt, every process has the time it needs. *)
LEMMA InTime ==
  ASSUME Prompt
  PROVE  Spec => [](TypeOK /\ AllTimely)
  <1>1. Init => AllTimely
    <2> SUFFICES ASSUME Init, NEW i \in Instance PROVE Timely(proc[i], Live(calls, i))
      BY DEF AllTimely
    <2>1. proc[i] = NewProc /\ Live(calls, i) = {}
      BY DEF Init, Live
    <2> QED BY <2>1 DEF Timely, Phases, Waits, RenewsInTime, StopsInTime, NewProc, Sent
  <1>2. TypeOK /\ AllTimely /\ [Next]_vars => AllTimely'
    <2> SUFFICES ASSUME TypeOK, AllTimely, [Next]_vars PROVE AllTimely'
      OBVIOUS
    <2>1. CASE UNCHANGED vars
      BY <2>1 DEF vars, AllTimely
    <2> QED
      BY <2>1, TickInTime, ExecuteInTime, BootInTime, RenewInTime, StopInTime, OtherInTime DEF Next
  <1> QED BY <1>1, <1>2, TypeCorrect, PTL DEF Spec

(* A process stays connected without proof of ownership for less than a
   renewal interval and a report (OverlapIsBounded), when timers and timeouts
   are served on time and the time to live leaves room for two reports and
   three query timeouts (renewOnce, handleLeaseLost). *)
THEOREM OverlapIsShort ==
  ASSUME Prompt, Margins
  PROVE  Spec => []OverlapIsBounded
  <1>1. TypeOK /\ AllTimely => OverlapIsBounded
    <2> SUFFICES ASSUME TypeOK, AllTimely, NEW i \in Instance, proc[i].boot = "ready"
                 PROVE  proc[i].proof > Late
      BY DEF OverlapIsBounded, Connected, Late
    <2> DEFINE p == proc[i]
               live == Live(calls, i)
    <2>1. p \in Proc /\ live \in SUBSET Call /\ Timely(p, live)
      BY CallsOf DEF AllTimely
    <2> HIDE DEF p, live
    <2>2. p.boot = "ready" /\ Phases(p, live) /\ RenewsInTime(p, live) /\ StopsInTime(p, live)
      BY <2>1 DEF Timely, p
    <2>3. /\ Late \in Int /\ HeartbeatWait \in Nat /\ QueryTimeout \in Nat
          /\ p.proof \in Int /\ p.stopWait \in Nat /\ p.timer \in Int /\ p.timer >= -1
          /\ \A c \in live : c.left \in Nat
      BY <2>1, ConstantTypes, ProcNumbers, CallNumbers DEF Late
    <2>4. CASE p.stop = "no"
      <3>1. CASE Sent(live, "renew") = {}
        <4>1. p.timer >= 0
          BY <2>2, <2>3, <2>4 DEF Phases, Off
        <4> QED BY <2>2, <2>3, <2>4, <3>1, <4>1 DEF RenewsInTime, p
      <3>2. CASE Sent(live, "renew") # {}
        <4>1. PICK c \in Sent(live, "renew") : TRUE
          BY <3>2
        <4>2. p.proof > Late + HeartbeatWait + c.left /\ c.left \in Nat
          BY <2>2, <2>3, <2>4, <4>1 DEF RenewsInTime, Sent
        <4> QED BY <2>3, <4>2 DEF p
      <3> QED BY <3>1, <3>2
    <2>5. CASE p.stop = "releasing"
      <3>1. PICK c \in Sent(live, "release") : TRUE
        BY <2>2, <2>5 DEF Phases
      <3>2. p.proof > Late + HeartbeatWait + c.left /\ c.left \in Nat
        BY <2>2, <2>3, <3>1 DEF StopsInTime, Sent
      <3> QED BY <2>3, <3>2 DEF p
    <2>6. CASE p.stop \in {"losing", "marking", "stopping", "final"}
      BY <2>2, <2>3, <2>6 DEF RenewsInTime, StopsInTime, p
    <2>7. p.stop \in {"no", "losing", "marking", "stopping", "releasing", "final"}
      BY <2>1 DEF Proc
    <2> QED BY <2>4, <2>5, <2>6, <2>7
  <1> QED BY <1>1, InTime, PTL
-----------------------------------------------------------------------------
(***************************************************************************)
(* What a process believes is true of the row.  The lease lasts at least   *)
(* as long as the proof less one query timeout, and so it does when the    *)
(* answer to an acquisition or a renewal is still on its way: the answer   *)
(* has that much time less what is left of its timeout.                    *)
(***************************************************************************)
Covered(row, i, n) == n > 0 => row.owner = i /\ row.ttl >= n

ReleasedLate ==
  \A c \in calls : c.op = "release" =>
    Stopping(proc[c.inst]) \/ proc[c.inst].boot = "exited"

ProofCovered ==
  \A i \in Instance :
    proc[i].token # 0 /\ ~Stopping(proc[i]) => Covered(lease, i, proc[i].proof - QueryTimeout)

AnswerCovered ==
  \A c \in calls :
    c.live /\ c.answer = "granted" /\ c.op # "release" /\ ~Stopping(proc[c.inst]) =>
      Covered(lease, c.inst, Ttl - QueryTimeout + c.left)

CoverInv == ReleasedLate /\ ProofCovered /\ AnswerCovered

(* What a step of a process on the same lease may change. *)
Follows(p, q) ==
  /\ Stopping(p) => Stopping(q)
  /\ p.boot = "exited" => q.boot = "exited"
  /\ q.token = p.token /\ q.proof = p.proof

CoverStep ==
  /\ UNCHANGED lease
  /\ \A j \in Instance :
       \/ /\ proc'[j].boot = "exited" /\ proc'[j].proof = 0
          /\ \A c \in calls' : c.inst = j => ~c.live
       \/ Follows(proc[j], proc'[j])
       \/ /\ proc'[j].stop = proc[j].stop /\ proc[j].boot # "exited"
          /\ proc'[j].proof = Ttl
          /\ ~Stopping(proc[j]) => Covered(lease, j, Ttl - QueryTimeout)
  /\ \A c \in calls' :
       /\ \/ \E d \in calls : c.op = d.op /\ c.inst = d.inst
          \/ c.op # "release" \/ Stopping(proc'[c.inst])
       /\ c.live /\ c.answer = "granted" => c \in calls

LEMMA CoverSteps ==
  ASSUME TypeOK, TypeOK', CoverInv, CoverStep
  PROVE  CoverInv'
  <1>0. /\ \A c \in calls : c.inst \in Instance
        /\ \A c \in calls' : c.inst \in Instance
    BY DEF TypeOK, Call
  <1>1. \A j \in Instance :
          Stopping(proc[j]) => Stopping(proc'[j]) \/ proc'[j].boot = "exited"
    BY DEF CoverStep, Follows, Stopping
  <1>2. ReleasedLate'
    <2> SUFFICES ASSUME NEW c \in calls', c.op = "release"
                 PROVE  Stopping(proc'[c.inst]) \/ proc'[c.inst].boot = "exited"
      BY DEF ReleasedLate, Stopping
    <2>1. CASE Stopping(proc'[c.inst])
      BY <2>1
    <2>2. CASE ~Stopping(proc'[c.inst])
      <3>1. PICK d \in calls : c.op = d.op /\ c.inst = d.inst
        BY <2>2 DEF CoverStep
      <3>2. Stopping(proc[c.inst]) \/ proc[c.inst].boot = "exited"
        BY <3>1 DEF CoverInv, ReleasedLate
      <3>3. proc[c.inst].boot = "exited" => proc'[c.inst].boot = "exited"
        BY <1>0 DEF CoverStep, Follows
      <3> QED BY <1>0, <1>1, <3>2, <3>3
    <2> QED BY <2>1, <2>2
  <1>3. ProofCovered'
    <2> SUFFICES ASSUME NEW j \in Instance, proc'[j].token # 0, ~Stopping(proc'[j])
                 PROVE  Covered(lease', j, proc'[j].proof - QueryTimeout)
      BY DEF ProofCovered, Stopping
    <2>0. UNCHANGED lease
      BY DEF CoverStep
    <2>1. CASE proc'[j].proof = 0
      BY <2>1, ConstantTypes DEF Covered
    <2>2. CASE Follows(proc[j], proc'[j])
      BY <2>0, <2>2 DEF Follows, Covered, CoverInv, ProofCovered
    <2>3. CASE /\ proc'[j].stop = proc[j].stop /\ proc'[j].proof = Ttl
               /\ ~Stopping(proc[j]) => Covered(lease, j, Ttl - QueryTimeout)
      BY <2>0, <2>3 DEF Stopping, Covered
    <2> QED BY <2>1, <2>2, <2>3 DEF CoverStep
  <1>4. AnswerCovered'
    <2> SUFFICES ASSUME NEW c \in calls', c.live, c.answer = "granted", c.op # "release",
                        ~Stopping(proc'[c.inst])
                 PROVE  Covered(lease', c.inst, Ttl - QueryTimeout + c.left)
      BY DEF AnswerCovered, Stopping
    <2>1. c \in calls /\ UNCHANGED lease
      BY DEF CoverStep
    <2>2. ~Stopping(proc[c.inst])
      BY <1>0 DEF CoverStep, Follows, Stopping
    <2> QED BY <2>1, <2>2 DEF CoverInv, AnswerCovered, Covered
  <1> QED BY <1>2, <1>3, <1>4 DEF CoverInv

(* The calls that are left when some are settled or given up. *)
LEMMA CallsLeft ==
  ASSUME TypeOK, NEW cs \in SUBSET calls, calls' \in {calls, calls \ cs, Settled(cs)}
  PROVE  \A c \in calls' :
           /\ \E d \in calls : c.op = d.op /\ c.inst = d.inst
           /\ c.live /\ c.answer = "granted" => c \in calls
  <1>1. ASSUME NEW d \in calls
        PROVE  LET c == [d EXCEPT !.live = FALSE, !.left = 0]
               IN c.op = d.op /\ c.inst = d.inst /\ ~c.live
    BY DEF TypeOK, Call
  <1>2. \A c \in Settled(cs) :
          c \in calls \/ \E d \in calls : c.op = d.op /\ c.inst = d.inst /\ ~c.live
    BY <1>1 DEF Settled, Abandoned
  <1> QED BY <1>2

LEMMA CoverLocal ==
  ASSUME TypeOK, NEW i \in Instance, NEW q, NEW cs \in SUBSET calls,
         UNCHANGED lease, proc' = [proc EXCEPT ![i] = q],
         calls' \in {calls, calls \ cs, Settled(cs)},
         \/ Follows(proc[i], q)
         \/ /\ q.stop = proc[i].stop /\ proc[i].boot # "exited" /\ q.proof = Ttl
            /\ ~Stopping(proc[i]) => Covered(lease, i, Ttl - QueryTimeout)
  PROVE  CoverStep
  <1>1. proc'[i] = q /\ \A j \in Instance \ {i} : Follows(proc[j], proc'[j])
    BY DEF TypeOK, Follows
  <1>2. \A c \in calls' :
           /\ \E d \in calls : c.op = d.op /\ c.inst = d.inst
           /\ c.live /\ c.answer = "granted" => c \in calls
    BY CallsLeft
  <1> QED BY <1>1, <1>2 DEF CoverStep

LEMMA CoverSend ==
  ASSUME TypeOK, NEW i \in Instance, NEW q, NEW c,
         UNCHANGED lease, proc' = [proc EXCEPT ![i] = q], calls' = calls \cup {c},
         c.inst = i, c.answer = "none", c.op # "release" \/ Stopping(q),
         Follows(proc[i], q)
  PROVE  CoverStep
  <1>1. proc'[i] = q /\ \A j \in Instance \ {i} : Follows(proc[j], proc'[j])
    BY DEF TypeOK, Follows
  <1> QED BY <1>1 DEF CoverStep

LEMMA CoverExit ==
  ASSUME TypeOK, NEW i \in Instance, Exit(i)
  PROVE  CoverStep
  <1> DEFINE cs == {c \in calls : c.inst = i}
  <1>1. /\ proc'[i] = Exited(proc[i]) /\ \A j \in Instance \ {i} : Follows(proc[j], proc'[j])
        /\ UNCHANGED lease /\ calls' = Settled(cs)
    BY DEF Exit, TypeOK, Follows
  <1>2. Exited(proc[i]).boot = "exited" /\ Exited(proc[i]).proof = 0
    BY DEF Exited, NewProc
  <1>3. \A c \in calls' :
           /\ \E d \in calls : c.op = d.op /\ c.inst = d.inst
           /\ c.live /\ c.answer = "granted" => c \in calls
    BY <1>1, CallsLeft
  <1>4. \A c \in calls' : c.inst = i => ~c.live
    <2>1. Live(calls', i) = {}
      BY LiveAfterExit
    <2> QED BY <2>1 DEF Live
  <1> QED BY <1>1, <1>2, <1>3, <1>4 DEF CoverStep

(* What the steps make of a process. *)
LEMMA ProcFollows ==
  ASSUME NEW p \in Proc, NEW transient
  PROVE  /\ Follows(p, QuerySucceeded(p)) /\ Follows(p, QueryFailed(p, transient))
         /\ Follows(p, Lose(p)) /\ Follows(p, RenewalFailed(p)) /\ Follows(p, Disconnected(p))
         /\ \A timer : Follows(p, [p EXCEPT !.timer = timer])
         /\ \A n : \A stop \in {"stopping", "releasing", "final"} :
              Follows(p, [p EXCEPT !.stop = stop, !.stopWait = n])
  <1>1. Follows(p, Lose(p))
    BY DEF Follows, Lose, Stopping, Proc
  <1>2. Follows(p, RenewalFailed(p))
    BY <1>1 DEF RenewalFailed, Follows
  <1>3. Follows(p, QuerySucceeded(p)) /\ Follows(p, QueryFailed(p, transient))
    BY DEF Follows, QuerySucceeded, QueryFailed, Stopping, Proc
  <1>4. Follows(p, Disconnected(p)) /\ \A timer : Follows(p, [p EXCEPT !.timer = timer])
    BY DEF Follows, Disconnected, Stopping, Proc
  <1>5. \A n : \A stop \in {"stopping", "releasing", "final"} :
          Follows(p, [p EXCEPT !.stop = stop, !.stopWait = n])
    BY DEF Follows, Stopping, Proc
  <1> QED BY <1>1, <1>2, <1>3, <1>4, <1>5

LEMMA FollowsTwice ==
  ASSUME NEW p, NEW q, NEW r, Follows(p, q), Follows(q, r)
  PROVE  Follows(p, r)
  BY DEF Follows
-----------------------------------------------------------------------------
LEMMA ExecuteCovered ==
  ASSUME TypeOK, TokenInv, AllTimely, CoverInv, NEW c \in calls, Execute(c)
  PROVE  CoverInv'
  <1> DEFINE a == [c EXCEPT !.answer = IF Allowed(c) THEN "granted" ELSE "refused",
                            !.token  = IF c.op = "acquire" /\ Allowed(c) THEN lease'.token ELSE @]
  <1>0. /\ c \in Call /\ c.inst \in Instance /\ c.left \in Nat /\ c.left <= QueryTimeout
        /\ lease \in Lease /\ lease.ttl \in Nat /\ lease.ttl <= Ttl
        /\ Ttl \in Nat /\ QueryTimeout \in Nat
        /\ \A j \in Instance : proc[j] \in Proc
        /\ \A d \in calls : d.inst \in Instance /\ d.left \in Nat /\ d.left <= QueryTimeout
    BY ConstantTypes, CallNumbers DEF TypeOK, Call, Lease
  <1>1. /\ UNCHANGED proc /\ c.answer = "none"
        /\ \A d \in calls' : (d = a /\ c.live) \/ (d \in calls /\ d # c)
        /\ lease' = IF Allowed(c) THEN Effect(c) ELSE lease
    BY DEF Execute
  <1>2. /\ a.inst = c.inst /\ a.op = c.op /\ a.left = c.left /\ a.live = c.live
        /\ a.answer = "granted" <=> Allowed(c)
    BY <1>0 DEF Call
  <1> HIDE DEF a
  <1>3. ASSUME Allowed(c), c.op # "release"
        PROVE  lease'.owner = c.inst /\ lease'.ttl = Ttl
    BY <1>0, <1>1, <1>3 DEF Allowed, Renewable, Owns, Effect, AcquiredLease, RenewedLease,
       Call, Lease
  <1>4. ASSUME Allowed(c), c.op = "release"
        PROVE  lease.owner = c.inst /\ (Stopping(proc[c.inst]) \/ proc[c.inst].boot = "exited")
    BY <1>4 DEF Allowed, Owns, CoverInv, ReleasedLate
  (* Nobody else's lease is taken away while it is covered. *)
  <1>5. ASSUME NEW i \in Instance, NEW n \in Int, n <= Ttl, Covered(lease, i, n),
               ~Stopping(proc[i]), proc[i].boot # "exited"
        PROVE  Covered(lease', i, n)
    <2> SUFFICES ASSUME n > 0 PROVE lease'.owner = i /\ lease'.ttl >= n
      BY DEF Covered
    <2>1. lease.owner = i /\ lease.ttl >= n /\ lease.ttl > 0
      BY <1>0, <1>5 DEF Covered
    <2>2. CASE ~Allowed(c)
      BY <1>1, <2>1, <2>2
    <2>3. CASE Allowed(c) /\ c.op # "release"
      <3>1. c.inst = i
        <4>1. i # NoInstance
          BY NoInstanceAssumption
        <4>2. c.op = "acquire" => Acquirable(lease, c.inst)
          BY <2>3 DEF Allowed
        <4>3. c.op = "renew" => Owns(lease, c.inst, c.token)
          BY <2>3 DEF Allowed, Renewable
        <4>4. c.op = "acquire" \/ c.op = "renew"
          BY <1>0, <2>3 DEF Call
        <4>5. lease.ttl # 0
          BY <1>0, <2>1
        <4> QED BY <2>1, <4>1, <4>2, <4>3, <4>4, <4>5 DEF Acquirable, Owns
      <3> QED BY <1>0, <1>3, <1>5, <2>3, <3>1
    <2>4. CASE Allowed(c) /\ c.op = "release"
      BY <1>4, <1>5, <2>1, <2>4
    <2> QED BY <2>2, <2>3, <2>4
  <1>6. ReleasedLate'
    BY <1>1, <1>2 DEF CoverInv, ReleasedLate, Stopping
  <1>7. ProofCovered'
    <2> SUFFICES ASSUME NEW i \in Instance, proc[i].token # 0, ~Stopping(proc[i])
                 PROVE  Covered(lease', i, proc[i].proof - QueryTimeout)
      BY <1>1 DEF ProofCovered, Stopping
    <2>1. proc[i].proof \in Int /\ proc[i].proof <= Ttl
      BY <1>0, ProcNumbers
    <2>2. CASE proc[i].boot = "exited"
      <3>1. proc[i].proof = 0
        BY <2>2 DEF AllTimely, Timely, Phases
      <3> QED BY <1>0, <1>1, <3>1 DEF Covered
    <2>3. CASE proc[i].boot # "exited"
      <3> DEFINE n == proc[i].proof - QueryTimeout
      <3>1. Covered(lease, i, n)
        BY DEF CoverInv, ProofCovered
      <3>2. n \in Int /\ n <= Ttl
        BY <1>0, <2>1
      <3> HIDE DEF n
      <3>3. Covered(lease', i, n)
        BY <1>5, <2>3, <3>1, <3>2
      <3> QED BY <3>3 DEF n
    <2> QED BY <2>2, <2>3
  <1>8. AnswerCovered'
    <2> SUFFICES ASSUME NEW d \in calls', d.live, d.answer = "granted", d.op # "release",
                        ~Stopping(proc[d.inst])
                 PROVE  Covered(lease', d.inst, Ttl - QueryTimeout + d.left)
      BY <1>1 DEF AnswerCovered, Stopping
    <2>1. CASE d = a
      <3>1. lease'.owner = d.inst /\ lease'.ttl = Ttl /\ d.left \in Nat /\ d.left <= QueryTimeout
        BY <1>0, <1>2, <1>3, <2>1
      <3> QED BY <1>0, <3>1 DEF Covered
    <2>2. CASE d \in calls
      <3> DEFINE n == Ttl - QueryTimeout + d.left
      <3>1. Covered(lease, d.inst, n)
        BY <2>2 DEF CoverInv, AnswerCovered
      <3>2. proc[d.inst].boot # "exited"
        BY <1>0, <2>2 DEF AllTimely, Timely, Phases, Live
      <3>3. n \in Int /\ n <= Ttl
        BY <1>0, <2>2
      <3> HIDE DEF n
      <3>4. Covered(lease', d.inst, n)
        BY <1>0, <1>5, <2>2, <3>1, <3>2, <3>3
      <3> QED BY <3>4 DEF n
    <2> QED BY <1>1, <2>1, <2>2
  <1> QED BY <1>6, <1>7, <1>8 DEF CoverInv

LEMMA TickCovered ==
  ASSUME Prompt, TypeOK, AllTimely, CoverInv, Tick
  PROVE  CoverInv'
  <1>0. /\ \A c \in calls : c \in Call /\ c.inst \in Instance /\ c.left \in Nat
        /\ \A i \in Instance : proc[i] \in Proc /\ proc[i].proof \in Int
        /\ Ttl \in Nat /\ QueryTimeout \in Nat /\ lease \in Lease /\ lease.ttl \in Nat
    BY ConstantTypes, CallNumbers, ProcNumbers DEF TypeOK, Call, Lease
  <1>1. ASSUME NEW i \in Instance
        PROVE  /\ Stopping(proc'[i]) <=> Stopping(proc[i])
               /\ proc'[i].boot = proc[i].boot /\ proc'[i].token = proc[i].token
               /\ \/ proc'[i].proof = proc[i].proof - 1
                  \/ proc[i].token = 0
                  \/ proc'[i].proof <= 0
    <2>1. proc'[i] = Aged(proc[i])
      BY DEF Tick
    <2>2. proc[i].boot = "exited" => proc[i].proof = 0
      BY DEF AllTimely, Timely, Phases
    <2>3. Grace \in Nat
      BY ConstantTypes
    <2> QED BY <1>0, <2>1, <2>2, <2>3 DEF Aged, Proc, Stopping
  <1>2. lease'.owner = lease.owner /\ lease'.ttl \in Nat /\ lease'.ttl >= lease.ttl - 1
    BY <1>0 DEF Tick, Less, Lease
  <1>3. ASSUME NEW i, NEW n \in Int, Covered(lease, i, n)
        PROVE  Covered(lease', i, n - 1)
    BY <1>0, <1>2, <1>3 DEF Covered
  <1>4. \A d \in calls' : \E c \in calls :
          /\ d.inst = c.inst /\ d.op = c.op /\ d.live = c.live /\ d.answer = c.answer
          /\ c.live => d.left = c.left - 1
    <2>1. ASSUME NEW c \in calls
          PROVE  /\ AgedCall(c).inst = c.inst /\ AgedCall(c).op = c.op
                 /\ AgedCall(c).live = c.live /\ AgedCall(c).answer = c.answer
                 /\ c.live => AgedCall(c).left = c.left - 1
      <3>1. c.live => c.left # 0
        BY <1>0 DEF Tick, Due
      <3> QED BY <1>0, <3>1 DEF AgedCall, Less, Call
    <2>2. calls' = {AgedCall(c) : c \in calls}
      BY DEF Tick, AgedCall
    <2>3. \A d \in calls' : \E c \in calls : d = AgedCall(c)
      BY <2>2
    <2> QED BY <2>1, <2>3
  <1>5. ReleasedLate'
    BY <1>0, <1>1, <1>4 DEF CoverInv, ReleasedLate, Stopping
  <1>6. ProofCovered'
    <2> SUFFICES ASSUME NEW i \in Instance, proc'[i].token # 0, ~Stopping(proc'[i])
                 PROVE  Covered(lease', i, proc'[i].proof - QueryTimeout)
      BY DEF ProofCovered, Stopping
    <2>1. CASE proc'[i].proof <= 0 /\ proc'[i].proof # proc[i].proof - 1
      <3>1. proc'[i].proof \in Int
        BY ProcTypes, ProcNumbers, <1>0 DEF Tick
      <3> QED BY <1>0, <2>1, <3>1 DEF Covered
    <2>2. CASE proc'[i].proof = proc[i].proof - 1
      <3> DEFINE n == proc[i].proof - QueryTimeout
      <3>1. Covered(lease, i, n) /\ n \in Int
        BY <1>0, <1>1 DEF CoverInv, ProofCovered
      <3>2. n - 1 = proc'[i].proof - QueryTimeout
        BY <1>0, <2>2
      <3> HIDE DEF n
      <3>3. Covered(lease', i, n - 1)
        BY <1>3, <3>1
      <3> QED BY <3>2, <3>3
    <2> QED BY <1>1, <2>1, <2>2
  <1>7. AnswerCovered'
    <2> SUFFICES ASSUME NEW d \in calls', d.live, d.answer = "granted", d.op # "release",
                        ~Stopping(proc'[d.inst])
                 PROVE  Covered(lease', d.inst, Ttl - QueryTimeout + d.left)
      BY DEF AnswerCovered, Stopping
    <2>1. PICK c \in calls :
            /\ d.inst = c.inst /\ d.op = c.op /\ d.live = c.live /\ d.answer = c.answer
            /\ d.left = c.left - 1
      BY <1>4
    <2>2. Covered(lease, c.inst, Ttl - QueryTimeout + c.left)
      BY <1>0, <1>1, <2>1 DEF CoverInv, AnswerCovered
    <2>3. Ttl - QueryTimeout + d.left = (Ttl - QueryTimeout + c.left) - 1
      BY <1>0, <2>1
    <2> QED BY <1>0, <1>2, <2>1, <2>2, <2>3 DEF Covered
  <1> QED BY <1>5, <1>6, <1>7 DEF CoverInv
-----------------------------------------------------------------------------
LEMMA BootCovered ==
  ASSUME TypeOK, CoverInv, NEW i \in Instance, BootStep(i)
  PROVE  CoverStep
  <1>0. proc[i] \in Proc /\ {} \in SUBSET calls
    BY DEF TypeOK
  <1>1. CASE Launch(i)
    <2> DEFINE q == [proc[i] EXCEPT !.boot = "acquire"]
    <2>1. /\ proc' = [proc EXCEPT ![i] = q] /\ UNCHANGED lease /\ proc[i].boot = "new"
          /\ calls' = calls \cup {NewCall(i, "acquire", 0)}
      BY <1>1 DEF Launch
    <2>2. Follows(proc[i], q)
      BY <1>0, <2>1 DEF Follows, Stopping, Proc
    <2> HIDE DEF q
    <2>3. /\ NewCall(i, "acquire", 0).inst = i /\ NewCall(i, "acquire", 0).answer = "none"
          /\ NewCall(i, "acquire", 0).op # "release"
      BY DEF NewCall
    <2> QED BY <2>1, <2>2, <2>3, CoverSend
  <1>2. ASSUME NEW c \in calls, Acquired(i, c) PROVE CoverStep
    <2> DEFINE p == QuerySucceeded(proc[i])
               q == [p EXCEPT !.boot = "start", !.token = c.token, !.proof = Ttl,
                              !.bootWait = HeartbeatWait + QueryTimeout]
    <2>1. /\ proc' = [proc EXCEPT ![i] = q] /\ UNCHANGED lease /\ calls' = calls \ {c}
          /\ c \in Awaited(i, "acquire") /\ c.answer = "granted" /\ proc[i].boot = "acquire"
      BY <1>2 DEF Acquired
    <2>2. q.stop = proc[i].stop /\ q.proof = Ttl
      <3>1. p \in Proc /\ p.stop = proc[i].stop
        BY <1>0, ProcTypes DEF QuerySucceeded, Proc
      <3> HIDE DEF p
      <3> QED BY <3>1 DEF Proc
    <2>3. ~Stopping(proc[i]) => Covered(lease, i, Ttl - QueryTimeout)
      <3>1. c.live /\ c.op # "release" /\ c.inst = i /\ c.left \in Nat
        BY <2>1, CallNumbers DEF Awaited, TypeOK
      <3>2. ~Stopping(proc[i]) => Covered(lease, i, Ttl - QueryTimeout + c.left)
        BY <2>1, <3>1 DEF CoverInv, AnswerCovered
      <3>3. lease.ttl \in Nat
        BY ConstantTypes DEF TypeOK, Lease
      <3> QED BY <3>1, <3>2, <3>3, ConstantTypes DEF Covered
    <2> HIDE DEF q
    <2>4. {c} \in SUBSET calls
      OBVIOUS
    <2> QED BY <2>1, <2>2, <2>3, <2>4, CoverLocal
  <1>3. ASSUME NEW c \in calls, AcquisitionFails(i, c) PROVE CoverStep
    BY <1>3, CoverExit DEF AcquisitionFails
  <1>4. CASE Started(i)
    <2> DEFINE q == [proc[i] EXCEPT !.boot = "login", !.bootWait = 0,
                                    !.timer = IF Stopping(proc[i]) THEN Off ELSE Renew]
    <2>1. proc' = [proc EXCEPT ![i] = q] /\ UNCHANGED <<lease, calls>> /\ proc[i].boot = "start"
      BY <1>4 DEF Started
    <2>2. Follows(proc[i], q)
      BY <1>0, <2>1 DEF Follows, Stopping, Proc
    <2> HIDE DEF q
    <2> QED BY <1>0, <2>1, <2>2, CoverLocal
  <1>5. CASE LoginSucceeds(i)
    <2> DEFINE q == [proc[i] EXCEPT !.boot = "ready"]
    <2>1. proc' = [proc EXCEPT ![i] = q] /\ UNCHANGED <<lease, calls>> /\ proc[i].boot = "login"
      BY <1>5 DEF LoginSucceeds
    <2>2. Follows(proc[i], q)
      BY <1>0, <2>1 DEF Follows, Stopping, Proc
    <2> HIDE DEF q
    <2> QED BY <1>0, <2>1, <2>2, CoverLocal
  <1>6. CASE LoginFails(i)
    <2>1. CASE Open(proc[i])
      <3> DEFINE q == [proc[i] EXCEPT !.boot = "idle",
                         !.stop = IF @ = "no" THEN "marking" ELSE @,
                         !.stopWait = IF proc[i].stop = "no" THEN HeartbeatWait ELSE @]
      <3>1. proc' = [proc EXCEPT ![i] = q] /\ UNCHANGED <<lease, calls>> /\ proc[i].boot = "login"
        BY <1>6, <2>1 DEF LoginFails
      <3>2. Follows(proc[i], q)
        BY <1>0, <3>1 DEF Follows, Stopping, Proc
      <3> HIDE DEF q
      <3> QED BY <1>0, <3>1, <3>2, CoverLocal
    <2> QED BY <1>6, <2>1, CoverExit DEF LoginFails
  <1> QED BY <1>1, <1>2, <1>3, <1>4, <1>5, <1>6 DEF BootStep

LEMMA RenewCovered ==
  ASSUME TypeOK, AllTimely, CoverInv, NEW i \in Instance, RenewStep(i)
  PROVE  CoverStep
  <1>0. proc[i] \in Proc /\ {} \in SUBSET calls
    BY DEF TypeOK
  <1>1. CASE RenewTimer(i)
    <2> DEFINE q == [proc[i] EXCEPT !.timer = Renew]
    <2>1. q \in Proc /\ Follows(proc[i], q)
      BY <1>0, SettingTypes, ProcFollows
    <2>2. /\ UNCHANGED lease
          /\ \/ proc' = [proc EXCEPT ![i] = q] /\ UNCHANGED calls
             \/ /\ proc' = [proc EXCEPT ![i] = q]
                /\ calls' = calls \cup {NewCall(i, "renew", proc[i].token)}
             \/ proc' = [proc EXCEPT ![i] = RenewalFailed(q)] /\ UNCHANGED calls
      BY <1>1 DEF RenewTimer
    <2> HIDE DEF q
    <2>3. Follows(proc[i], RenewalFailed(q))
      BY <2>1, ProcFollows, FollowsTwice
    <2>4. CASE proc' = [proc EXCEPT ![i] = q] /\ UNCHANGED calls
      BY <1>0, <2>1, <2>2, <2>4, CoverLocal
    <2>5. CASE /\ proc' = [proc EXCEPT ![i] = q]
               /\ calls' = calls \cup {NewCall(i, "renew", proc[i].token)}
      <3> DEFINE c == NewCall(i, "renew", proc[i].token)
      <3>1. c.inst = i /\ c.answer = "none" /\ c.op # "release"
        BY DEF NewCall
      <3> HIDE DEF c
      <3> QED BY <2>1, <2>2, <2>5, <3>1, CoverSend DEF c
    <2>6. CASE proc' = [proc EXCEPT ![i] = RenewalFailed(q)] /\ UNCHANGED calls
      BY <1>0, <2>2, <2>3, <2>6, CoverLocal
    <2> QED BY <2>2, <2>4, <2>5, <2>6
  <1>2. ASSUME NEW c \in calls, Renewed(i, c) PROVE CoverStep
    <2> DEFINE q == [QuerySucceeded(proc[i]) EXCEPT !.proof = Ttl]
    <2>1. /\ proc' = [proc EXCEPT ![i] = q] /\ UNCHANGED lease /\ calls' = calls \ {c}
          /\ c \in Awaited(i, "renew") /\ c.answer = "granted"
      BY <1>2 DEF Renewed
    <2>2. q.stop = proc[i].stop /\ q.proof = Ttl
      <3>1. QuerySucceeded(proc[i]) \in Proc /\ QuerySucceeded(proc[i]).stop = proc[i].stop
        BY <1>0, ProcTypes DEF QuerySucceeded, Proc
      <3> QED BY <3>1 DEF Proc
    <2>3. c.live /\ c.op # "release" /\ c.inst = i /\ c.left \in Nat /\ c \in Live(calls, i)
      BY <2>1, CallNumbers DEF Awaited, TypeOK, Live
    <2>4. proc[i].boot # "exited"
      BY <2>3 DEF AllTimely, Timely, Phases
    <2>5. ~Stopping(proc[i]) => Covered(lease, i, Ttl - QueryTimeout)
      <3>1. ~Stopping(proc[i]) => Covered(lease, i, Ttl - QueryTimeout + c.left)
        BY <2>1, <2>3 DEF CoverInv, AnswerCovered
      <3>2. lease.ttl \in Nat
        BY ConstantTypes DEF TypeOK, Lease
      <3> QED BY <2>3, <3>1, <3>2, ConstantTypes DEF Covered
    <2> HIDE DEF q
    <2>6. {c} \in SUBSET calls
      OBVIOUS
    <2> QED BY <2>1, <2>2, <2>4, <2>5, <2>6, CoverLocal
  <1>3. ASSUME NEW c \in calls, RenewalRejected(i, c) PROVE CoverStep
    <2> DEFINE r == QuerySucceeded(proc[i])
    <2>1. proc' = [proc EXCEPT ![i] = Lose(r)] /\ UNCHANGED lease /\ calls' = calls \ {c}
      BY <1>3 DEF RenewalRejected
    <2>2. r \in Proc /\ Follows(proc[i], r)
      BY <1>0, ProcTypes, ProcFollows
    <2> HIDE DEF r
    <2>3. Follows(proc[i], Lose(r)) /\ {c} \in SUBSET calls
      BY <2>2, ProcFollows, FollowsTwice
    <2> QED BY <2>1, <2>3, CoverLocal
  <1>4. ASSUME NEW c \in calls, NEW transient \in BOOLEAN, RenewalFails(i, c, transient)
        PROVE  CoverStep
    <2> DEFINE r == QueryFailed(proc[i], transient)
    <2>1. proc' = [proc EXCEPT ![i] = RenewalFailed(r)] /\ UNCHANGED lease /\ calls' = Settled({c})
      BY <1>4 DEF RenewalFails
    <2>2. r \in Proc /\ Follows(proc[i], r)
      BY <1>0, ProcTypes, ProcFollows
    <2> HIDE DEF r
    <2>3. Follows(proc[i], RenewalFailed(r)) /\ {c} \in SUBSET calls
      BY <2>2, ProcFollows, FollowsTwice
    <2> QED BY <2>1, <2>3, CoverLocal
  <1> QED BY <1>1, <1>2, <1>3, <1>4 DEF RenewStep

LEMMA StopCovered ==
  ASSUME TypeOK, NEW i \in Instance, StopStep(i)
  PROVE  CoverStep
  <1>0. proc[i] \in Proc /\ {} \in SUBSET calls
    BY DEF TypeOK
  <1>1. CASE LossReported(i)
    <2>1. CASE Open(proc[i])
      <3> DEFINE p == Disconnected(proc[i])
                 q == [p EXCEPT !.stop = "final", !.stopWait = HeartbeatWait]
      <3>1. proc' = [proc EXCEPT ![i] = q] /\ UNCHANGED <<lease, calls>>
        BY <1>1, <2>1 DEF LossReported
      <3>2. p \in Proc /\ Follows(proc[i], p)
        BY <1>0, ProcTypes, ProcFollows
      <3> HIDE DEF p
      <3>3. Follows(proc[i], q)
        BY <3>2, ProcFollows, FollowsTwice
      <3> HIDE DEF q
      <3> QED BY <1>0, <3>1, <3>3, CoverLocal
    <2> QED BY <1>1, <2>1, CoverExit DEF LossReported
  <1>2. CASE StopBegins(i)
    <2>1. CASE Open(proc[i])
      <3> DEFINE q == [proc[i] EXCEPT !.stop = "stopping", !.timer = Off,
                         !.stopWait = IF proc[i].lost THEN 0 ELSE HeartbeatWait]
      <3>1. proc' = [proc EXCEPT ![i] = q] /\ UNCHANGED <<lease, calls>>
        BY <1>2, <2>1 DEF StopBegins
      <3>2. Follows(proc[i], q)
        BY <1>0 DEF Follows, Stopping, Proc
      <3> HIDE DEF q
      <3> QED BY <1>0, <3>1, <3>2, CoverLocal
    <2> QED BY <1>2, <2>1, CoverExit DEF StopBegins
  <1>3. CASE ReleaseBegins(i)
    <2> DEFINE r == [proc[i] EXCEPT !.stop = "releasing", !.stopWait = 0]
               f == [proc[i] EXCEPT !.stop = "final", !.stopWait = HeartbeatWait]
    <2>1. /\ UNCHANGED lease
          /\ \/ /\ proc' = [proc EXCEPT ![i] = r]
                /\ calls' = calls \cup {NewCall(i, "release", proc[i].token)}
             \/ proc' = [proc EXCEPT ![i] = f] /\ UNCHANGED calls
      BY <1>3 DEF ReleaseBegins
    <2>2. Follows(proc[i], r) /\ Follows(proc[i], f) /\ Stopping(r)
      BY <1>0 DEF Follows, Stopping, Proc
    <2> HIDE DEF r, f
    <2>3. CASE /\ proc' = [proc EXCEPT ![i] = r]
               /\ calls' = calls \cup {NewCall(i, "release", proc[i].token)}
      <3> DEFINE c == NewCall(i, "release", proc[i].token)
      <3>1. c.inst = i /\ c.answer = "none"
        BY DEF NewCall
      <3> HIDE DEF c
      <3> QED BY <2>1, <2>2, <2>3, <3>1, CoverSend DEF c
    <2>4. CASE proc' = [proc EXCEPT ![i] = f] /\ UNCHANGED calls
      BY <1>0, <2>1, <2>2, <2>4, CoverLocal
    <2> QED BY <2>1, <2>3, <2>4
  <1>4. ASSUME NEW c \in calls, Released(i, c) PROVE CoverStep
    <2> DEFINE p == QuerySucceeded(proc[i])
               q == [p EXCEPT !.stop = "final", !.stopWait = HeartbeatWait]
    <2>1. proc' = [proc EXCEPT ![i] = q] /\ UNCHANGED lease /\ calls' = calls \ {c}
      BY <1>4 DEF Released
    <2>2. p \in Proc /\ Follows(proc[i], p)
      BY <1>0, ProcTypes, ProcFollows
    <2> HIDE DEF p
    <2>3. Follows(proc[i], q) /\ {c} \in SUBSET calls
      BY <2>2, ProcFollows, FollowsTwice
    <2> HIDE DEF q
    <2> QED BY <2>1, <2>3, CoverLocal
  <1>5. ASSUME NEW c \in calls, NEW transient \in BOOLEAN, ReleaseFails(i, c, transient)
        PROVE  CoverStep
    <2> DEFINE p == QueryFailed(proc[i], transient)
               q == [p EXCEPT !.stop = "final", !.stopWait = HeartbeatWait]
    <2>1. proc' = [proc EXCEPT ![i] = q] /\ UNCHANGED lease /\ calls' = Settled({c})
      BY <1>5 DEF ReleaseFails
    <2>2. p \in Proc /\ Follows(proc[i], p)
      BY <1>0, ProcTypes, ProcFollows
    <2> HIDE DEF p
    <2>3. Follows(proc[i], q) /\ {c} \in SUBSET calls
      BY <2>2, ProcFollows, FollowsTwice
    <2> HIDE DEF q
    <2> QED BY <2>1, <2>3, CoverLocal
  <1>6. CASE ShutdownEnds(i)
    BY <1>6, CoverExit DEF ShutdownEnds
  <1> QED BY <1>1, <1>2, <1>3, <1>4, <1>5, <1>6 DEF StopStep

LEMMA OtherCovered ==
  ASSUME TypeOK, NEW i \in Instance, OtherStep(i)
  PROVE  CoverStep
  <1>0. proc[i] \in Proc /\ {} \in SUBSET calls
    BY DEF TypeOK
  <1>1. CASE Signal(i)
    <2> DEFINE p == Disconnected(proc[i])
               q == [p EXCEPT !.stop = "marking", !.stopWait = QueryTimeout]
    <2>1. /\ proc' = [proc EXCEPT ![i] = q] /\ UNCHANGED <<lease, calls>>
          /\ proc[i].stop \in {"no", "losing"}
      BY <1>1 DEF Signal
    <2>2. p \in Proc /\ Follows(proc[i], p)
      BY <1>0, ProcTypes, ProcFollows
    <2> HIDE DEF p
    <2>3. Follows(proc[i], q)
      <3>1. q.boot = p.boot /\ q.token = p.token /\ q.proof = p.proof
        BY <2>2 DEF Proc
      <3> QED BY <2>1, <2>2, <3>1 DEF Follows, Stopping
    <2> HIDE DEF q
    <2> QED BY <1>0, <2>1, <2>3, CoverLocal
  <1>2. CASE Crash(i)
    BY <1>2, CoverExit DEF Crash
  <1>3. CASE OtherQuerySucceeds(i)
    <2> DEFINE q == QuerySucceeded(proc[i])
    <2>1. proc' = [proc EXCEPT ![i] = q] /\ UNCHANGED <<lease, calls>> /\ Follows(proc[i], q)
      BY <1>0, <1>3, ProcFollows DEF OtherQuerySucceeds
    <2> HIDE DEF q
    <2> QED BY <1>0, <2>1, CoverLocal
  <1>4. ASSUME NEW transient \in BOOLEAN, OtherQueryFails(i, transient) PROVE CoverStep
    <2> DEFINE q == QueryFailed(proc[i], transient)
    <2>1. proc' = [proc EXCEPT ![i] = q] /\ UNCHANGED <<lease, calls>> /\ Follows(proc[i], q)
      BY <1>0, <1>4, ProcFollows DEF OtherQueryFails
    <2> HIDE DEF q
    <2> QED BY <1>0, <2>1, CoverLocal
  <1> QED BY <1>1, <1>2, <1>3, <1>4 DEF OtherStep

LEMMA CoverInvariant ==
  ASSUME Prompt
  PROVE  Spec => [](TypeOK /\ CoverInv)
  <1>1. Init => CoverInv
    <2> SUFFICES ASSUME Init PROVE CoverInv
      OBVIOUS
    <2>1. calls = {} /\ \A i \in Instance : proc[i].token = 0
      BY DEF Init, NewProc
    <2> QED BY <2>1 DEF CoverInv, ReleasedLate, ProofCovered, AnswerCovered
  <1>2. /\ TypeOK /\ TokenInv /\ AllTimely /\ CoverInv /\ [Next]_vars
        /\ TypeOK'
        => CoverInv'
    <2> SUFFICES ASSUME TypeOK, TypeOK', TokenInv, AllTimely, CoverInv, [Next]_vars
                 PROVE  CoverInv'
      OBVIOUS
    <2>1. CASE UNCHANGED vars
      BY <2>1 DEF vars, CoverInv, ReleasedLate, ProofCovered, AnswerCovered, Stopping
    <2>2. CASE Tick
      BY <2>2, TickCovered
    <2>3. ASSUME NEW c \in calls, Execute(c) PROVE CoverInv'
      BY <2>3, ExecuteCovered
    <2>4. ASSUME NEW i \in Instance, BootStep(i) \/ RenewStep(i) \/ StopStep(i) \/ OtherStep(i)
          PROVE  CoverInv'
      BY <2>4, BootCovered, RenewCovered, StopCovered, OtherCovered, CoverSteps
    <2> QED BY <2>1, <2>2, <2>3, <2>4 DEF Next
  <1> QED BY <1>1, <1>2, TokenInvariant, InTime, PTL DEF Spec

(* Whatever is lost, late or executed after its timeout: a process whose own
   countdown leaves more than one query timeout, and that does not release,
   owns the unexpired row (ProofIsSound, updateProofDeadline), when timeouts
   are served on time. *)
THEOREM ProofsAreSound ==
  ASSUME Prompt
  PROVE  Spec => []ProofIsSound
  <1>1. TypeOK /\ CoverInv => ProofIsSound
    <2> SUFFICES ASSUME TypeOK, CoverInv, NEW i \in Instance, proc[i].token # 0,
                        proc[i].proof > QueryTimeout, ~Stopping(proc[i])
                 PROVE  lease.owner = i /\ lease.ttl > 0
      BY DEF ProofIsSound
    <2>1. proc[i].proof \in Int /\ QueryTimeout \in Nat /\ lease.ttl \in Nat
      BY ProcNumbers, ConstantTypes DEF TypeOK, Lease
    <2>2. Covered(lease, i, proc[i].proof - QueryTimeout)
      BY DEF CoverInv, ProofCovered
    <2> QED BY <2>1, <2>2 DEF Covered
  <1> QED BY <1>1, CoverInvariant, PTL
=============================================================================
