--------------------------- MODULE GuildResetProofs ---------------------------
(***************************************************************************)
(* Safety of the guild reset for any number of guilds, developers, plans   *)
(* and requests, and any lifetimes of plans, locks and cooldowns.          *)
(*                                                                         *)
(* The inductive invariant has four parts besides TypeOK.  Referring: no   *)
(* request, row or execution refers to a plan or a request there is not.   *)
(* Counted: a plan is marked used exactly when it was carried out.  Saved: *)
(* what an execution saved is what its plan was made from, and the plan's  *)
(* targets are part of it.  Holding: an execution whose locks have not     *)
(* expired holds the global lock, so that no other can have started since  *)
(* it checked the cooldowns.                                               *)
(***************************************************************************)
EXTENDS GuildReset, SequenceTheorems, FiniteSetTheorems, TLAPS

(* An execution has a plan until it only has to answer, and the dashboard's has
   a request. *)
RunningRefers ==
  /\ \A s \in Slot : running[s].at \notin {"idle", "answer"} => running[s].plan \in DOMAIN plans
  /\ running["dashboard"].at # "idle" => running["dashboard"].request \in DOMAIN requests

(* Requests, rows and executions refer to plans there are. *)
Referring ==
  /\ \A k \in DOMAIN requests : requests[k].plan \in DOMAIN plans
  /\ \A row \in rows : row.plan \in DOMAIN plans
  /\ RunningRefers

LEMMA Times ==
  /\ PlanTtl \in Nat /\ LockTtl \in Nat /\ Reclaim \in Nat
  /\ GuildCooldown \in Nat /\ DeveloperCooldown \in Nat
BY TimeAssumption

LEMMA Limits ==
  MaxClock \in Nat /\ MaxPlans \in Nat /\ MaxRequests \in Nat /\ MaxInputs \in Nat
BY BoundAssumption

LEMMA PlanTypes ==
  ASSUME TypeOK
  PROVE  /\ plans \in Seq(Plan) /\ Len(plans) \in 0..MaxPlans /\ DOMAIN plans = 1..Len(plans)
         /\ \A p \in DOMAIN plans : plans[p] \in Plan /\ p \in 1..MaxPlans
<1>1. plans \in Seq(Plan) /\ Len(plans) <= MaxPlans
  BY DEF TypeOK
<1>2. Len(plans) \in Nat /\ DOMAIN plans = 1..Len(plans)
  BY <1>1, LenProperties
<1>3. QED
  BY <1>1, <1>2, Limits, ElementOfSeq

LEMMA RequestTypes ==
  ASSUME TypeOK
  PROVE  /\ requests \in Seq(Request) /\ Len(requests) \in 0..MaxRequests
         /\ DOMAIN requests = 1..Len(requests)
         /\ \A k \in DOMAIN requests : requests[k] \in Request /\ k \in 1..MaxRequests
<1>1. requests \in Seq(Request) /\ Len(requests) <= MaxRequests
  BY DEF TypeOK
<1>2. Len(requests) \in Nat /\ DOMAIN requests = 1..Len(requests)
  BY <1>1, LenProperties
<1>3. QED
  BY <1>1, <1>2, Limits, ElementOfSeq

LEMMA RunningTypes ==
  ASSUME TypeOK, NEW s \in Slot
  PROVE  /\ running \in [Slot -> Execution] /\ running[s] \in Execution
         /\ running[s].plan \in 0..MaxPlans /\ running[s].request \in 0..MaxRequests
         /\ running[s].guarded \subseteq Item /\ running[s].saved \subseteq Item
         /\ running[s].todo \subseteq Item /\ running[s].until \in Nat
         /\ running[s].startedAt \in Time
<1>1. running \in [Slot -> Execution]
  BY DEF TypeOK
<1>2. running[s] \in Execution
  BY <1>1
<1>3. QED
  BY <1>1, <1>2 DEF Execution

LEMMA ResetInitTypes == Init => TypeOK /\ Referring
<1> USE Times, Limits
<1> SUFFICES ASSUME Init PROVE TypeOK /\ Referring
  OBVIOUS
<1>1. Idle \in Execution
  BY DEF Idle, Execution, Time
<1>2. Free \in Lock
  BY DEF Free, Lock
<1>3. /\ plans \in Seq(Plan) /\ Len(plans) = 0 /\ DOMAIN plans = {}
      /\ requests \in Seq(Request) /\ Len(requests) = 0 /\ DOMAIN requests = {}
  BY EmptySeq DEF Init
<1>4. \A s \in Slot : running[s].at = "idle"
  BY DEF Init, Idle
<1>5. TypeOK
  BY <1>1, <1>2, <1>3 DEF Init, TypeOK, Time
<1>6. Referring
  BY <1>3, <1>4 DEF Init, Referring, RunningRefers, Slot
<1>7. QED
  BY <1>5, <1>6

LEMMA Moved ==
  ASSUME TypeOK, NEW s \in Slot, NEW x \in Execution, Moves(s, x)
  PROVE  /\ running' \in [Slot -> Execution] /\ running'[s] = x
         /\ \A r \in Slot \ {s} : running'[r] = running[r]
BY RunningTypes DEF Moves

LEMMA AnExecution ==
  ASSUME NEW a \in {"idle", "lock", "prepare", "use", "start", "operate", "release", "answer"},
         NEW p \in 0..MaxPlans, NEW k \in 0..MaxRequests, NEW guarded \in SUBSET Item
  PROVE  [at |-> a, plan |-> p, request |-> k, guarded |-> guarded, saved |-> {},
          todo |-> {}, until |-> 0, startedAt |-> 0] \in Execution
<1>1. 0 \in Time /\ 0 \in Nat
  BY Limits DEF Time
<1>2. {} \in SUBSET Item
  OBVIOUS
<1>3. QED
  BY <1>1, <1>2 DEF Execution

LEMMA IdleTypes == Idle \in Execution /\ Idle.at = "idle"
<1>1. 0 \in 0..MaxPlans /\ 0 \in 0..MaxRequests /\ {} \in SUBSET Item
  BY Limits
<1>2. Idle \in Execution
  BY <1>1, AnExecution DEF Idle
<1>3. Idle.at = "idle"
  BY DEF Idle
<1>4. QED
  BY <1>2, <1>3

LEMMA BegunTypes ==
  ASSUME TypeOK, NEW p \in DOMAIN plans, NEW k \in 0..MaxRequests
  PROVE  /\ Begun(p, k) \in Execution /\ Begun(p, k).at = "lock" /\ Begun(p, k).plan = p
         /\ Begun(p, k).request = k
         /\ [Begun(p, k) EXCEPT !.at = "answer"] \in Execution
         /\ [Begun(p, k) EXCEPT !.at = "answer"].at = "answer"
         /\ [Begun(p, k) EXCEPT !.at = "answer"].request = k
<1>1. p \in 0..MaxPlans /\ plans[p] \in Plan
  BY Limits, PlanTypes
<1>2. plans[p].guild \in Guild
  BY <1>1 DEF Plan
<1>3. protected[plans[p].guild] \in SUBSET Item
  BY <1>2 DEF TypeOK
<1>4. k \in 0..MaxRequests /\ Idle \in Execution
  BY IdleTypes
<1> DEFINE x == Begun(p, k)
<1>5. x \in Execution
  BY <1>1, <1>3, <1>4 DEF Begun, Execution
<1>6. x.at = "lock" /\ x.plan = p /\ x.request = k
  BY <1>4 DEF Begun, Execution
<1> HIDE DEF x
<1>7. [x EXCEPT !.at = "answer"] \in Execution
  BY <1>5 DEF Execution
<1>8. [x EXCEPT !.at = "answer"].at = "answer" /\ [x EXCEPT !.at = "answer"].request = k
  BY <1>5, <1>6 DEF Execution
<1>9. QED
  BY <1>5, <1>6, <1>7, <1>8 DEF x

LEMMA ReturnedTypes ==
  ASSUME TypeOK, NEW s \in Slot
  PROVE  /\ Returned(s) \in Execution /\ Returned(s).at \in {"idle", "answer"}
         /\ s = "command" => Returned(s).at = "idle"
         /\ Returned(s).at = "answer" => Returned(s).request = running[s].request
<1> DEFINE x == [Idle EXCEPT !.at = "answer", !.request = running[s].request]
<1>1. Returned(s) = IF s = "command" THEN Idle ELSE x
  BY DEF Returned
<1>2. running[s].request \in 0..MaxRequests /\ Idle \in Execution
  BY RunningTypes, IdleTypes
<1>3. x \in Execution /\ x.at = "answer" /\ x.request = running[s].request
  BY <1>2 DEF Execution
<1> HIDE DEF x
<1>4. QED
  BY <1>1, <1>3, IdleTypes

LEMMA TargetTypes ==
  ASSUME TypeOK, NEW g \in Guild, NEW keep
  PROVE  /\ Targets(g, keep) \subseteq Item
         /\ Fingerprint(g, protected[g]) \in
              [contents : SUBSET Item, elevated : SUBSET Role, protected : SUBSET Item]
         /\ Targets(g, keep) \subseteq Fingerprint(g, protected[g]).contents
                                       \ Fingerprint(g, protected[g]).protected
BY DEF TypeOK, Targets, Fingerprint

(* A new plan changes nothing of the others. *)
LEMMA PlanAdded ==
  ASSUME TypeOK, NEW g \in Guild, NEW d \in Developer, NEW dryRun \in BOOLEAN, NEW keep,
         CreatePlan(g, d, dryRun, keep)
  PROVE  /\ plans' \in Seq(Plan) /\ Len(plans') = Len(plans) + 1 /\ Len(plans') <= MaxPlans
         /\ DOMAIN plans' = DOMAIN plans \cup {Len(plans')} /\ Len(plans') \notin DOMAIN plans
         /\ \A p \in DOMAIN plans : plans'[p] = plans[p]
         /\ plans'[Len(plans')].used = FALSE
         /\ plans'[Len(plans')].targets
              \subseteq plans'[Len(plans')].seen.contents \ plans'[Len(plans')].seen.protected
<1> USE Times, Limits
<1> DEFINE new == [guild |-> g, developer |-> d, dryRun |-> dryRun,
                   targets |-> Targets(g, keep), seen |-> Fingerprint(g, protected[g]),
                   expiresAt |-> clock + PlanTtl, used |-> FALSE]
<1>1. clock + PlanTtl \in Nat
  BY DEF TypeOK, Time
<1>2. new \in Plan
  <2>1. /\ Targets(g, keep) \in SUBSET Item
        /\ Fingerprint(g, protected[g]) \in
             [contents : SUBSET Item, elevated : SUBSET Role, protected : SUBSET Item]
    BY TargetTypes
  <2>2. QED
    BY <1>1, <2>1 DEF Plan
<1>3. plans' = Append(plans, new) /\ Len(plans) < MaxPlans
  BY DEF CreatePlan
<1>4. new.used = FALSE /\ new.targets \subseteq new.seen.contents \ new.seen.protected
  BY TargetTypes
<1> HIDE DEF new
<1>5. plans \in Seq(Plan) /\ Len(plans) \in Nat /\ DOMAIN plans = 1..Len(plans)
  BY PlanTypes
<1>6. /\ plans' \in Seq(Plan) /\ Len(plans') = Len(plans) + 1
      /\ \A p \in 1..Len(plans) : plans'[p] = plans[p]
      /\ plans'[Len(plans) + 1] = new
  BY <1>2, <1>3, <1>5, AppendProperties
<1>7. DOMAIN plans' = 1..Len(plans')
  BY <1>6, LenProperties
<1>8. QED
  BY <1>3, <1>4, <1>5, <1>6, <1>7

LEMMA PlanUsed ==
  ASSUME TypeOK, NEW p \in DOMAIN plans, plans' = [plans EXCEPT ![p].used = TRUE]
  PROVE  /\ plans' \in Seq(Plan) /\ Len(plans') = Len(plans) /\ DOMAIN plans' = DOMAIN plans
         /\ plans'[p] = [plans[p] EXCEPT !.used = TRUE]
         /\ \A q \in DOMAIN plans : q # p => plans'[q] = plans[q]
<1> DEFINE row == [plans[p] EXCEPT !.used = TRUE]
<1>1. plans \in Seq(Plan) /\ p \in 1..Len(plans) /\ plans[p] \in Plan
      /\ DOMAIN plans = 1..Len(plans)
  BY PlanTypes
<1>2. row \in Plan
  BY <1>1 DEF Plan
<1>3. plans' = [plans EXCEPT ![p] = row]
  OBVIOUS
<1> HIDE DEF row
<1>a. LET new == [plans EXCEPT ![p] = row]
      IN /\ new \in Seq(Plan) /\ Len(new) = Len(plans)
         /\ \A q \in 1..Len(plans) : new[q] = IF q = p THEN row ELSE plans[q]
  BY <1>1, <1>2, ExceptSeq
<1>4. /\ plans' \in Seq(Plan) /\ Len(plans') = Len(plans)
      /\ \A q \in 1..Len(plans) : plans'[q] = IF q = p THEN row ELSE plans[q]
  BY <1>a, <1>3
<1>5. DOMAIN plans' = 1..Len(plans')
  BY <1>4, LenProperties
<1>6. QED
  BY <1>1, <1>4, <1>5 DEF row

LEMMA RequestAdded ==
  ASSUME TypeOK, NEW p \in DOMAIN plans, Confirm(p)
  PROVE  /\ requests' \in Seq(Request) /\ Len(requests') <= MaxRequests
         /\ DOMAIN requests \subseteq DOMAIN requests'
         /\ \A k \in DOMAIN requests' :
              requests'[k].plan = p \/ (k \in DOMAIN requests /\ requests'[k] = requests[k])
<1> DEFINE new == [plan |-> p, status |-> "queued", claimedAt |-> 0]
<1>1. p \in 1..MaxPlans /\ 0 \in Time
  BY PlanTypes, Limits DEF Time
<1>2. new \in Request /\ new.plan = p
  BY <1>1 DEF Request
<1>3. requests' = Append(requests, new) /\ Len(requests) < MaxRequests
  BY DEF Confirm
<1> HIDE DEF new
<1>4. requests \in Seq(Request) /\ Len(requests) \in Nat /\ DOMAIN requests = 1..Len(requests)
  BY RequestTypes
<1>a. LET longer == Append(requests, new)
      IN /\ longer \in Seq(Request) /\ Len(longer) = Len(requests) + 1
         /\ \A k \in 1..Len(requests) : longer[k] = requests[k]
         /\ longer[Len(requests) + 1] = new
  BY <1>2, <1>4, AppendProperties
<1>5. /\ requests' \in Seq(Request) /\ Len(requests') = Len(requests) + 1
      /\ \A k \in 1..Len(requests) : requests'[k] = requests[k]
      /\ requests'[Len(requests) + 1] = new
  BY <1>3, <1>a
<1>6. DOMAIN requests' = 1..Len(requests')
  BY <1>5, LenProperties
<1>7. Len(requests) + 1 <= MaxRequests
  BY <1>3, <1>4, Limits
<1>8. DOMAIN requests' = DOMAIN requests \cup {Len(requests) + 1}
  BY <1>4, <1>5, <1>6
<1>9. QED
  BY <1>2, <1>4, <1>5, <1>7, <1>8

LEMMA RequestsRequeued ==
  ASSUME TypeOK
  PROVE  /\ Requeued \in Seq(Request) /\ Len(Requeued) = Len(requests)
         /\ DOMAIN Requeued = DOMAIN requests
         /\ \A k \in DOMAIN requests : Requeued[k].plan = requests[k].plan
<1> DEFINE row(k) == IF Abandoned(requests[k])
                       THEN [requests[k] EXCEPT !.status = "queued", !.claimedAt = 0]
                       ELSE requests[k]
<1>1. /\ DOMAIN requests = 1..Len(requests) /\ Len(requests) \in Nat
      /\ \A k \in DOMAIN requests : requests[k] \in Request
  BY RequestTypes, Limits
<1>2. 0 \in Time
  BY Limits DEF Time
<1>3. \A k \in DOMAIN requests : row(k) \in Request /\ row(k).plan = requests[k].plan
  BY <1>1, <1>2 DEF Request
<1>4. Requeued = [k \in 1..Len(requests) |-> row(k)]
  BY <1>1 DEF Requeued
<1> HIDE DEF row
<1>5. Requeued \in [1..Len(requests) -> Request]
  BY <1>1, <1>3, <1>4
<1>6. Requeued \in Seq(Request)
  BY <1>1, <1>5, SeqDef
<1>7. Len(Requeued) = Len(requests) /\ DOMAIN Requeued = DOMAIN requests
  <2>1. DOMAIN Requeued = 1..Len(requests) /\ DOMAIN Requeued = 1..Len(Requeued)
        /\ Len(Requeued) \in Nat
    BY <1>4, <1>6, LenProperties
  <2>2. QED
    BY <1>1, <2>1
<1>8. QED
  BY <1>1, <1>3, <1>4, <1>6, <1>7

(* A request that is claimed or answered keeps its plan. *)
LEMMA RequestChanged ==
  ASSUME NEW old \in Seq(Request), NEW k \in DOMAIN old, NEW row \in Request,
         row.plan = old[k].plan
  PROVE  /\ [old EXCEPT ![k] = row] \in Seq(Request)
         /\ Len([old EXCEPT ![k] = row]) = Len(old)
         /\ DOMAIN [old EXCEPT ![k] = row] = DOMAIN old
         /\ \A j \in DOMAIN old : [old EXCEPT ![k] = row][j].plan = old[j].plan
<1> DEFINE new == [old EXCEPT ![k] = row]
<1>1. DOMAIN old = 1..Len(old) /\ k \in 1..Len(old) /\ Len(old) \in Nat
  BY LenProperties
<1>2. /\ new \in Seq(Request) /\ Len(new) = Len(old)
      /\ \A i \in 1..Len(old) : new[i] = IF i = k THEN row ELSE old[i]
  BY <1>1, ExceptSeq
<1> HIDE DEF new
<1>3. DOMAIN new = 1..Len(new)
  BY <1>2, LenProperties
<1>4. QED
  BY <1>1, <1>2, <1>3 DEF new

LEMMA LockTypes ==
  ASSUME TypeOK
  PROVE  /\ locks \in [{"global"} \cup Guild -> Lock]
         /\ Live \in [{"global"} \cup Guild -> Lock]
         /\ \A who \in Slot \cup {"gone"} : \A scopes :
              Taken(who, scopes) \in [{"global"} \cup Guild -> Lock]
         /\ \A s \in Slot : Released(s) \in [{"global"} \cup Guild -> Lock]
         /\ \A slots : Orphaned(slots) \in [{"global"} \cup Guild -> Lock]
<1>1. locks \in [{"global"} \cup Guild -> Lock] /\ clock \in Nat
  BY Limits DEF TypeOK, Time
<1>2. Free \in Lock
  BY DEF Free, Lock
<1>3. Live \in [{"global"} \cup Guild -> Lock]
  BY <1>1, <1>2 DEF Live
<1>4. ASSUME NEW who \in Slot \cup {"gone"}, NEW scopes
      PROVE  Taken(who, scopes) \in [{"global"} \cup Guild -> Lock]
  <2>1. [holder |-> who, until |-> clock + LockTtl] \in Lock
    BY <1>1, Times DEF Lock
  <2>2. QED
    BY <1>1, <1>3, <2>1 DEF Taken
<1>5. \A s \in Slot : Released(s) \in [{"global"} \cup Guild -> Lock]
  BY <1>1, <1>2 DEF Released
<1>6. ASSUME NEW slots
      PROVE  Orphaned(slots) \in [{"global"} \cup Guild -> Lock]
  <2>1. \A lock \in Lock : [lock EXCEPT !.holder = "gone"] \in Lock
    BY DEF Lock
  <2>2. QED
    BY <1>1, <2>1 DEF Orphaned
<1>7. QED
  BY <1>1, <1>3, <1>4, <1>5, <1>6

(* An execution that moves keeps a plan it has, and a request. *)
LEMMA MovedRefers ==
  ASSUME TypeOK, Referring, NEW s \in Slot, NEW x \in Execution, Moves(s, x),
         DOMAIN plans \subseteq DOMAIN plans', DOMAIN requests \subseteq DOMAIN requests',
         x.at \notin {"idle", "answer"} => x.plan \in DOMAIN plans,
         s = "dashboard" /\ x.at # "idle" => x.request \in DOMAIN requests
  PROVE  running' \in [Slot -> Execution] /\ RunningRefers'
<1>1. /\ running' \in [Slot -> Execution] /\ running'[s] = x
      /\ \A r \in Slot \ {s} : running'[r] = running[r]
  BY Moved
<1>2. "dashboard" \in Slot
  BY DEF Slot
<1>3. RunningRefers'
  BY <1>1, <1>2 DEF Referring, RunningRefers
<1>4. QED
  BY <1>1, <1>3

(* A command or a request that moves on with the same plan *)
LEMMA AdvancedRefers ==
  ASSUME TypeOK, Referring, NEW s \in Slot, NEW x \in Execution, Moves(s, x),
         DOMAIN plans \subseteq DOMAIN plans', DOMAIN requests \subseteq DOMAIN requests',
         running[s].at \notin {"idle", "answer"},
         x.plan = running[s].plan, x.request = running[s].request
  PROVE  running' \in [Slot -> Execution] /\ RunningRefers'
<1>1. running[s].plan \in DOMAIN plans
  BY DEF Referring, RunningRefers
<1>2. s = "dashboard" => running[s].request \in DOMAIN requests
  BY DEF Referring, RunningRefers
<1>3. QED
  BY <1>1, <1>2, MovedRefers

LEMMA ReturnedRefers ==
  ASSUME TypeOK, Referring, NEW s \in Slot, Moves(s, Returned(s)),
         UNCHANGED <<plans, requests>>, running[s].at \notin {"idle", "answer"}
  PROVE  running' \in [Slot -> Execution] /\ RunningRefers'
<1>1. s = "dashboard" => running[s].request \in DOMAIN requests
  BY DEF Referring, RunningRefers
<1>2. s = "dashboard" /\ Returned(s).at # "idle" => Returned(s).request \in DOMAIN requests
  BY <1>1, ReturnedTypes
<1>3. Returned(s) \in Execution /\ Returned(s).at \in {"idle", "answer"}
  BY ReturnedTypes
<1>4. DOMAIN plans \subseteq DOMAIN plans' /\ DOMAIN requests \subseteq DOMAIN requests'
  OBVIOUS
<1>5. QED
  BY <1>2, <1>3, <1>4, MovedRefers
-----------------------------------------------------------------------------
(* Types, one lemma for each group of actions *)

(* From the well-founded inclusion of the intervals below the members of S *)
LEMMA LeastOf ==
  ASSUME NEW S, S \subseteq Nat, S # {}
  PROVE  Min(S) \in S
<1> DEFINE R == StrictSubsetOrdering(Nat)
           T == {0..j : j \in S}
<1>1. IsWellFoundedOn(R, FiniteSubsetsOf(Nat))
  BY FS_StrictSubsetOrderingWellFounded
<1>2. T \subseteq FiniteSubsetsOf(Nat) /\ T # {}
  <2>1. \A j \in S : 0..j \in SUBSET Nat /\ IsFiniteSet(0..j)
    BY FS_Interval
  <2>2. QED
    BY <2>1 DEF FiniteSubsetsOf
<1>3. \A i, j \in S : i < j => <<0..i, 0..j>> \in R
  <2>1. SUFFICES ASSUME NEW i \in S, NEW j \in S, i < j
                 PROVE  <<0..i, 0..j>> \in R
    OBVIOUS
  <2>2. i \in Nat /\ j \in Nat
    OBVIOUS
  <2>3. 0..i \subseteq 0..j /\ j \in 0..j /\ j \notin 0..i
    BY <2>1, <2>2
  <2>4. <<0..i, 0..j>> \in (SUBSET Nat) \X (SUBSET Nat)
    OBVIOUS
  <2>5. QED
    BY <2>3, <2>4 DEF StrictSubsetOrdering
<1> HIDE DEF R
<1>4. \E x \in T : \A y \in T : <<y, x>> \notin R
  <2> HIDE DEF T
  <2>1. QED
    BY <1>1, <1>2, WFMin
<1>5. PICK j \in S : \A i \in S : <<0..i, 0..j>> \notin R
  BY <1>4
<1>6. ASSUME NEW i \in S PROVE j =< i
  <2>1. ~(i < j)
    BY <1>3, <1>5
  <2>2. i \in Nat /\ j \in Nat
    OBVIOUS
  <2>3. QED
    BY <2>1, <2>2
<1>7. QED
  BY <1>6 DEF Min

LEMMA CreatePlanTypes ==
  ASSUME TypeOK, Referring, NEW g \in Guild, NEW d \in Developer, NEW dryRun \in BOOLEAN,
         NEW keep, CreatePlan(g, d, dryRun, keep)
  PROVE  TypeOK' /\ Referring'
<1>1. plans' \in Seq(Plan) /\ Len(plans') <= MaxPlans /\ DOMAIN plans \subseteq DOMAIN plans'
  BY PlanAdded
<1>2. UNCHANGED <<clock, changes, contents, elevated, protected, requests, locks, rows,
                  performed, running>>
  BY DEF CreatePlan, guilds
<1>3. TypeOK'
  BY <1>1, <1>2 DEF TypeOK
<1>4. Referring'
  BY <1>1, <1>2 DEF Referring, RunningRefers
<1>5. QED
  BY <1>3, <1>4

LEMMA ConfirmTypes ==
  ASSUME TypeOK, Referring, NEW p \in DOMAIN plans, Confirm(p)
  PROVE  TypeOK' /\ Referring'
<1>1. UNCHANGED <<clock, changes, contents, elevated, protected, plans, locks, rows,
                  performed, running>>
  BY DEF Confirm, guilds
<1>2. TypeOK'
  BY <1>1, RequestAdded DEF TypeOK
<1>3. Referring'
  BY <1>1, RequestAdded DEF Referring, RunningRefers
<1>4. QED
  BY <1>2, <1>3

LEMMA BeginCommandTypes ==
  ASSUME TypeOK, Referring, NEW p \in DOMAIN plans, BeginCommand(p)
  PROVE  TypeOK' /\ Referring'
<1>1. UNCHANGED <<clock, changes, contents, elevated, protected, plans, requests, locks, rows,
                  performed>>
  BY DEF BeginCommand, guilds
<1>2. 0 \in 0..MaxRequests /\ "command" \in Slot /\ "command" # "dashboard"
  BY Limits DEF Slot
<1>3. /\ Begun(p, 0) \in Execution /\ Begun(p, 0).plan = p
  BY <1>2, BegunTypes
<1>4. Moves("command", Begun(p, 0))
  BY DEF BeginCommand
<1>5. DOMAIN plans \subseteq DOMAIN plans' /\ DOMAIN requests \subseteq DOMAIN requests'
  BY <1>1
<1>6. running' \in [Slot -> Execution] /\ RunningRefers'
  BY <1>2, <1>3, <1>4, <1>5, MovedRefers
<1>7. TypeOK'
  BY <1>1, <1>6 DEF TypeOK
<1>8. Referring'
  BY <1>1, <1>6 DEF Referring
<1>9. QED
  BY <1>7, <1>8

LEMMA AnswerTypes ==
  ASSUME TypeOK, Referring, Answer
  PROVE  TypeOK' /\ Referring'
<1> DEFINE k == running["dashboard"].request
<1>1. UNCHANGED <<clock, changes, contents, elevated, protected, plans, locks, rows, performed>>
  BY DEF Answer, guilds
<1>2. k \in DOMAIN requests /\ "dashboard" \in Slot
  BY DEF Answer, At, Referring, RunningRefers, Slot
<1>3. Moves("dashboard", Idle)
  BY DEF Answer
<1>4. \/ requests' = [requests EXCEPT ![k].status = "answered", ![k].claimedAt = 0]
      \/ UNCHANGED requests
  BY DEF Answer
<1> HIDE DEF k
<1>5. requests \in Seq(Request) /\ Len(requests) <= MaxRequests /\ 0 \in Time
  BY Limits DEF TypeOK, Time
<1>6. /\ requests' \in Seq(Request) /\ Len(requests') <= MaxRequests
      /\ DOMAIN requests' = DOMAIN requests
      /\ \A j \in DOMAIN requests : requests'[j].plan = requests[j].plan
  <2>1. CASE UNCHANGED requests
    BY <1>5, <2>1
  <2>2. CASE requests' = [requests EXCEPT ![k].status = "answered", ![k].claimedAt = 0]
    <3> DEFINE row == [requests[k] EXCEPT !.status = "answered", !.claimedAt = 0]
               new == [requests EXCEPT ![k] = row]
    <3>1. requests[k] \in Request
      BY <1>2, RequestTypes
    <3>2. row \in Request /\ row.plan = requests[k].plan
      BY <1>5, <3>1 DEF Request
    <3>3. requests' = new
      BY <2>2
    <3> HIDE DEF row
    <3>4. /\ new \in Seq(Request) /\ Len(new) = Len(requests) /\ DOMAIN new = DOMAIN requests
          /\ \A j \in DOMAIN requests : new[j].plan = requests[j].plan
      BY <1>2, <1>5, <3>2, RequestChanged
    <3> HIDE DEF new
    <3>5. QED
      BY <1>5, <3>3, <3>4
  <2>3. QED
    BY <1>4, <2>1, <2>2
<1>7. running' \in [Slot -> Execution] /\ RunningRefers'
  BY <1>1, <1>2, <1>3, <1>6, IdleTypes, MovedRefers
<1>8. TypeOK'
  BY <1>1, <1>6, <1>7 DEF TypeOK
<1>9. Referring'
  BY <1>1, <1>6, <1>7 DEF Referring
<1>10. QED
  BY <1>8, <1>9

(* The request that is claimed is one there is, for a plan there is. *)
LEMMA QueuedFirst ==
  ASSUME TypeOK, Referring, Queued # {}
  PROVE  /\ Min(Queued) \in DOMAIN requests /\ Min(Queued) \in 0..MaxRequests
         /\ requests[Min(Queued)].plan \in DOMAIN plans
<1>1. Queued \subseteq DOMAIN requests /\ Queued \subseteq Nat
  BY RequestTypes, Limits DEF Queued
<1>2. Min(Queued) \in DOMAIN requests
  BY <1>1, LeastOf
<1>3. QED
  BY <1>2, RequestTypes, Limits DEF Referring

LEMMA ClaimTypes ==
  ASSUME TypeOK, Referring, ClaimDashboardRequest
  PROVE  TypeOK' /\ Referring'
<1>1. UNCHANGED <<clock, changes, contents, elevated, protected, plans, locks, rows, performed>>
  BY DEF ClaimDashboardRequest, guilds
<1>2. /\ Requeued \in Seq(Request) /\ Len(Requeued) <= MaxRequests
      /\ DOMAIN Requeued = DOMAIN requests
      /\ \A j \in DOMAIN requests : Requeued[j].plan = requests[j].plan
  BY RequestsRequeued DEF TypeOK
<1>3. CASE Queued = {}
  <2>1. requests' = Requeued /\ UNCHANGED running
    BY <1>3 DEF ClaimDashboardRequest
  <2>2. TypeOK'
    BY <1>1, <1>2, <2>1 DEF TypeOK
  <2>3. Referring'
    BY <1>1, <1>2, <2>1 DEF Referring, RunningRefers
  <2>4. QED
    BY <2>2, <2>3
<1>4. CASE Queued # {}
  <2> DEFINE k == Min(Queued)
             p == requests[k].plan
             x == IF Usable(p) THEN Begun(p, k) ELSE [Begun(p, k) EXCEPT !.at = "answer"]
  <2>1. /\ requests' = [Requeued EXCEPT ![k].status = "running", ![k].claimedAt = clock]
        /\ Moves("dashboard", x)
    BY <1>4 DEF ClaimDashboardRequest
  <2>3. k \in DOMAIN requests /\ k \in 0..MaxRequests
    BY <1>4, QueuedFirst
  <2>4. p \in DOMAIN plans
    BY <1>4, QueuedFirst
  <2> HIDE DEF k
  <2>5. x \in Execution /\ x.request = k /\ (x.at # "answer" => x.plan = p)
    BY <2>3, <2>4, BegunTypes
  <2> HIDE DEF x
  <2>6. clock \in Time
    BY DEF TypeOK
  <2>7. /\ requests' \in Seq(Request) /\ Len(requests') <= MaxRequests
        /\ DOMAIN requests' = DOMAIN requests
        /\ \A j \in DOMAIN requests : requests'[j].plan = requests[j].plan
    <3> DEFINE row == [Requeued[k] EXCEPT !.status = "running", !.claimedAt = clock]
               new == [Requeued EXCEPT ![k] = row]
    <3>1. k \in DOMAIN Requeued /\ Requeued[k] \in Request
      <4>1. DOMAIN Requeued = 1..Len(Requeued)
        BY <1>2, LenProperties
      <4>2. QED
        BY <1>2, <2>3, <4>1, ElementOfSeq
    <3>2. row \in Request /\ row.plan = Requeued[k].plan
      BY <2>6, <3>1 DEF Request
    <3>3. requests' = new
      BY <2>1
    <3> HIDE DEF row
    <3>4. /\ new \in Seq(Request) /\ Len(new) = Len(Requeued) /\ DOMAIN new = DOMAIN Requeued
          /\ \A j \in DOMAIN Requeued : new[j].plan = Requeued[j].plan
      BY <1>2, <3>1, <3>2, RequestChanged
    <3> HIDE DEF new
    <3>5. QED
      BY <1>2, <3>3, <3>4
  <2>8. running' \in [Slot -> Execution] /\ RunningRefers'
    <3>1. "dashboard" \in Slot
      BY DEF Slot
    <3>2. DOMAIN plans \subseteq DOMAIN plans' /\ DOMAIN requests \subseteq DOMAIN requests'
      BY <1>1, <2>7
    <3>3. QED
      BY <2>1, <2>3, <2>4, <2>5, <3>1, <3>2, MovedRefers
  <2>9. TypeOK'
    BY <1>1, <2>7, <2>8 DEF TypeOK
  <2>10. Referring'
    BY <1>1, <2>7, <2>8 DEF Referring
  <2>11. QED
    BY <2>9, <2>10
<1>5. QED
  BY <1>3, <1>4

LEMMA AcquireLocksTypes ==
  ASSUME TypeOK, Referring, NEW s \in Slot, AcquireLocks(s)
  PROVE  TypeOK' /\ Referring'
<1>1. UNCHANGED <<clock, changes, contents, elevated, protected, plans, requests, rows, performed>>
  BY DEF AcquireLocks, guilds
<1>2. running[s].at = "lock"
  BY DEF AcquireLocks, At
<1>3. locks' \in [{"global"} \cup Guild -> Lock]
  <2>1. "gone" \in Slot \cup {"gone"} /\ s \in Slot \cup {"gone"}
    OBVIOUS
  <2>2. QED
    BY <2>1, LockTypes DEF AcquireLocks
<1>4. running' \in [Slot -> Execution] /\ RunningRefers'
  <2>1. CASE Moves(s, Returned(s))
    BY <1>1, <1>2, <2>1, ReturnedRefers
  <2>2. CASE Moves(s, [running[s] EXCEPT !.at = "prepare", !.until = clock + LockTtl])
    <3> DEFINE x == [running[s] EXCEPT !.at = "prepare", !.until = clock + LockTtl]
    <3>1. running[s] \in Execution /\ clock + LockTtl \in Nat
      BY RunningTypes, Times, Limits DEF TypeOK, Time
    <3>2. x \in Execution /\ x.plan = running[s].plan /\ x.request = running[s].request
      BY <3>1 DEF Execution
    <3>3. Moves(s, x)
      BY <2>2
    <3> HIDE DEF x
    <3>4. DOMAIN plans \subseteq DOMAIN plans' /\ DOMAIN requests \subseteq DOMAIN requests'
      BY <1>1
    <3>5. QED
      BY <1>2, <3>2, <3>3, <3>4, AdvancedRefers
  <2>3. QED
    BY <2>1, <2>2 DEF AcquireLocks
<1>5. TypeOK'
  BY <1>1, <1>3, <1>4 DEF TypeOK
<1>6. Referring'
  BY <1>1, <1>4 DEF Referring
<1>7. QED
  BY <1>5, <1>6

LEMMA PrepareTypes ==
  ASSUME TypeOK, Referring, NEW s \in Slot, Prepare(s)
  PROVE  TypeOK' /\ Referring'
<1> DEFINE x == [running[s] EXCEPT !.at = "use", !.saved = contents[GuildOf(s)],
                                   !.startedAt = clock]
<1>1. UNCHANGED <<clock, changes, contents, elevated, protected, plans, requests, locks, rows,
                  performed>>
  BY DEF Prepare, guilds, tables
<1>2. running[s].at = "prepare" /\ Moves(s, x)
  BY DEF Prepare, At
<1>3. contents[GuildOf(s)] \in SUBSET Item
  <2>1. plans[running[s].plan] \in Plan
    BY <1>2, PlanTypes DEF Referring, RunningRefers
  <2>2. GuildOf(s) \in Guild
    BY <2>1 DEF GuildOf, PlanOf, Plan
  <2>3. QED
    BY <2>2 DEF TypeOK
<1>4. x \in Execution /\ x.plan = running[s].plan /\ x.request = running[s].request
  <2>1. running[s] \in Execution /\ clock \in Time
    BY RunningTypes DEF TypeOK
  <2>2. QED
    BY <1>3, <2>1 DEF Execution
<1> HIDE DEF x
<1>5. DOMAIN plans \subseteq DOMAIN plans' /\ DOMAIN requests \subseteq DOMAIN requests'
  BY <1>1
<1>6. running' \in [Slot -> Execution] /\ RunningRefers'
  BY <1>2, <1>4, <1>5, AdvancedRefers
<1>7. TypeOK'
  BY <1>1, <1>6 DEF TypeOK
<1>8. Referring'
  BY <1>1, <1>6 DEF Referring
<1>9. QED
  BY <1>7, <1>8

LEMMA UsePlanTypes ==
  ASSUME TypeOK, Referring, NEW s \in Slot, UsePlan(s)
  PROVE  TypeOK' /\ Referring'
<1> DEFINE x == [running[s] EXCEPT !.at = "start"]
           p == running[s].plan
<1>1. UNCHANGED <<clock, changes, contents, elevated, protected, requests, locks, rows>>
  BY DEF UsePlan, guilds
<1>2. running[s].at = "use" /\ Moves(s, x)
  BY DEF UsePlan, At
<1>3. x \in Execution /\ x.plan = running[s].plan /\ x.request = running[s].request
  <2>1. running[s] \in Execution
    BY RunningTypes
  <2>2. QED
    BY <2>1 DEF Execution
<1> HIDE DEF x
<1>4. p \in DOMAIN plans
  BY <1>2 DEF Referring, RunningRefers
<1>5. p \in 1..MaxPlans
  BY <1>4, PlanTypes
<1>6. plans' = [plans EXCEPT ![p].used = TRUE] /\ performed' = [performed EXCEPT ![p] = @ + 1]
  BY DEF UsePlan
<1> HIDE DEF p
<1>7. plans' \in Seq(Plan) /\ Len(plans') = Len(plans) /\ DOMAIN plans' = DOMAIN plans
  BY <1>4, <1>6, PlanUsed
<1>8. performed' \in [1..MaxPlans -> Nat]
  BY <1>5, <1>6 DEF TypeOK
<1>9. running' \in [Slot -> Execution] /\ RunningRefers'
  <2>1. DOMAIN plans \subseteq DOMAIN plans' /\ DOMAIN requests \subseteq DOMAIN requests'
    BY <1>1, <1>7
  <2>2. QED
    BY <1>2, <1>3, <2>1, AdvancedRefers
<1>10. TypeOK'
  BY <1>1, <1>7, <1>8, <1>9 DEF TypeOK
<1>11. Referring'
  BY <1>1, <1>7, <1>9 DEF Referring
<1>12. QED
  BY <1>10, <1>11

LEMMA StartOperationsTypes ==
  ASSUME TypeOK, Referring, NEW s \in Slot, StartOperations(s)
  PROVE  TypeOK' /\ Referring'
<1> DEFINE x == [running[s] EXCEPT !.at = "operate"]
           y == [running[s] EXCEPT !.at = "operate", !.todo = PlanOf(s).targets]
           row == [plan |-> running[s].plan, startedAt |-> running[s].startedAt,
                   late |-> clock >= running[s].until, lost |-> {}]
<1>1. UNCHANGED <<clock, changes, contents, elevated, protected, plans, requests, locks,
                  performed>>
  BY DEF StartOperations, guilds
<1>2. running[s].at = "start"
  BY DEF StartOperations, At
<1>3. running[s] \in Execution /\ running[s].plan \in DOMAIN plans
  BY <1>2, RunningTypes DEF Referring, RunningRefers
<1>4. PlanOf(s).targets \in SUBSET Item
  <2>1. plans[running[s].plan] \in Plan
    BY <1>3, PlanTypes
  <2>2. QED
    BY <2>1 DEF PlanOf, Plan
<1>5. x \in Execution /\ x.plan = running[s].plan /\ x.request = running[s].request
  BY <1>3 DEF Execution
<1>6. y \in Execution /\ y.plan = running[s].plan /\ y.request = running[s].request
  BY <1>3, <1>4 DEF Execution
<1>7. row \in Row /\ row.plan \in DOMAIN plans
  <2>1. running[s].plan \in 1..MaxPlans /\ running[s].startedAt \in Time
    BY <1>3, PlanTypes, RunningTypes
  <2>2. (clock >= running[s].until) \in BOOLEAN
    OBVIOUS
  <2>3. {} \in SUBSET Item
    OBVIOUS
  <2>4. row \in Row
    BY <2>1, <2>2, <2>3 DEF Row
  <2>5. QED
    BY <1>3, <2>4
<1>8. (Moves(s, x) /\ UNCHANGED rows) \/ (Moves(s, y) /\ rows' = rows \cup {row})
  BY DEF StartOperations
<1> HIDE DEF x, y, row
<1>9. rows' \subseteq Row /\ \A r \in rows' : r.plan \in DOMAIN plans
  BY <1>7, <1>8 DEF TypeOK, Referring
<1>10. running' \in [Slot -> Execution] /\ RunningRefers'
  <2>1. DOMAIN plans \subseteq DOMAIN plans' /\ DOMAIN requests \subseteq DOMAIN requests'
    BY <1>1
  <2>2. QED
    BY <1>2, <1>5, <1>6, <1>8, <2>1, AdvancedRefers
<1>11. TypeOK'
  BY <1>1, <1>9, <1>10 DEF TypeOK
<1>12. Referring'
  BY <1>1, <1>9, <1>10 DEF Referring
<1>13. QED
  BY <1>11, <1>12

LEMMA DeleteTargetTypes ==
  ASSUME TypeOK, Referring, NEW s \in Slot, NEW i \in Item, DeleteTarget(s, i)
  PROVE  TypeOK' /\ Referring'
<1> DEFINE x == [running[s] EXCEPT !.todo = @ \ {i}]
<1>1. UNCHANGED <<clock, changes, elevated, protected, plans, requests, locks, performed>>
  BY DEF DeleteTarget
<1>2. running[s].at = "operate" /\ Moves(s, x)
  BY DEF DeleteTarget, At
<1>3. running[s] \in Execution /\ running[s].plan \in DOMAIN plans
  BY <1>2, RunningTypes DEF Referring, RunningRefers
<1>4. x \in Execution /\ x.plan = running[s].plan /\ x.request = running[s].request
  BY <1>3 DEF Execution
<1> HIDE DEF x
<1>5. GuildOf(s) \in Guild
  <2>1. plans[running[s].plan] \in Plan
    BY <1>3, PlanTypes
  <2>2. QED
    BY <2>1 DEF GuildOf, PlanOf, Plan
<1>6. contents' \in [Guild -> SUBSET Item]
  BY <1>5 DEF DeleteTarget, Deleted, TypeOK
<1>7. rows' \subseteq Row /\ \A r \in rows' : r.plan \in DOMAIN plans
  <2>1. CASE UNCHANGED rows
    BY <2>1 DEF TypeOK, Referring
  <2>2. CASE rows' = RowsAfter(s, i)
    <3>1. SUFFICES ASSUME NEW old \in rows,
                          NEW new, new = IF old.plan = running[s].plan
                                              /\ old.startedAt = running[s].startedAt
                            THEN [old EXCEPT !.lost = @ \cup ({i} \ (running[s].saved
                                                                      \ running[s].guarded))]
                            ELSE old
                   PROVE  new \in Row /\ new.plan \in DOMAIN plans
      BY <2>2 DEF RowsAfter
    <3>2. old \in Row /\ old.plan \in DOMAIN plans
      BY DEF TypeOK, Referring
    <3>3. QED
      BY <3>1, <3>2 DEF Row
  <2>3. QED
    BY <2>1, <2>2 DEF DeleteTarget
<1>8. running' \in [Slot -> Execution] /\ RunningRefers'
  <2>1. DOMAIN plans \subseteq DOMAIN plans' /\ DOMAIN requests \subseteq DOMAIN requests'
    BY <1>1
  <2>2. QED
    BY <1>2, <1>4, <2>1, AdvancedRefers
<1>9. TypeOK'
  BY <1>1, <1>6, <1>7, <1>8 DEF TypeOK
<1>10. Referring'
  BY <1>1, <1>7, <1>8 DEF Referring
<1>11. QED
  BY <1>9, <1>10

LEMMA EndExecutionTypes ==
  ASSUME TypeOK, Referring, NEW s \in Slot, EndExecution(s)
  PROVE  TypeOK' /\ Referring'
<1> DEFINE x == [running[s] EXCEPT !.at = "release", !.todo = {}]
<1>1. UNCHANGED <<clock, changes, contents, elevated, protected, plans, requests, locks, rows,
                  performed>>
  BY DEF EndExecution, guilds, tables
<1>2. running[s].at \notin {"idle", "answer"} /\ Moves(s, x)
  BY DEF EndExecution
<1>3. x \in Execution /\ x.plan = running[s].plan /\ x.request = running[s].request
  <2>1. running[s] \in Execution /\ {} \in SUBSET Item
    BY RunningTypes
  <2>2. QED
    BY <2>1 DEF Execution
<1> HIDE DEF x
<1>4. running' \in [Slot -> Execution] /\ RunningRefers'
  <2>1. DOMAIN plans \subseteq DOMAIN plans' /\ DOMAIN requests \subseteq DOMAIN requests'
    BY <1>1
  <2>2. QED
    BY <1>2, <1>3, <2>1, AdvancedRefers
<1>5. TypeOK'
  BY <1>1, <1>4 DEF TypeOK
<1>6. Referring'
  BY <1>1, <1>4 DEF Referring
<1>7. QED
  BY <1>5, <1>6

LEMMA ReleaseLocksTypes ==
  ASSUME TypeOK, Referring, NEW s \in Slot, ReleaseLocks(s)
  PROVE  TypeOK' /\ Referring'
<1>1. UNCHANGED <<clock, changes, contents, elevated, protected, plans, requests, rows, performed>>
  BY DEF ReleaseLocks, guilds
<1>2. running[s].at = "release" /\ Moves(s, Returned(s))
  BY DEF ReleaseLocks, At
<1>3. locks' \in [{"global"} \cup Guild -> Lock]
  BY LockTypes DEF ReleaseLocks
<1>4. running' \in [Slot -> Execution] /\ RunningRefers'
  BY <1>1, <1>2, ReturnedRefers
<1>5. TypeOK'
  BY <1>1, <1>3, <1>4 DEF TypeOK
<1>6. Referring'
  BY <1>1, <1>4 DEF Referring
<1>7. QED
  BY <1>5, <1>6

LEMMA RestartTypes ==
  ASSUME TypeOK, Referring, Restart
  PROVE  TypeOK' /\ Referring'
<1>1. UNCHANGED <<clock, changes, contents, elevated, protected, plans, requests, rows, performed>>
  BY DEF Restart, guilds
<1>2. running' = [s \in Slot |-> Idle] /\ locks' \in [{"global"} \cup Guild -> Lock]
  BY LockTypes DEF Restart
<1>3. TypeOK'
  BY <1>1, <1>2, IdleTypes DEF TypeOK
<1>4. \A s \in Slot : running'[s].at = "idle"
  BY <1>2, IdleTypes
<1>5. Referring'
  BY <1>1, <1>4 DEF Referring, RunningRefers, Slot
<1>6. QED
  BY <1>3, <1>5

LEMMA TickTypes ==
  ASSUME TypeOK, Referring, Tick
  PROVE  TypeOK' /\ Referring'
<1>1. UNCHANGED <<changes, contents, elevated, protected, plans, requests, locks, rows,
                  performed, running>>
  BY DEF Tick, guilds, tables
<1>2. clock' \in Time
  BY Limits DEF Tick, TypeOK, Time
<1>3. TypeOK' /\ Referring'
  BY <1>1, <1>2 DEF TypeOK, Referring, RunningRefers
<1>4. QED
  BY <1>3

LEMMA ChangeTypes ==
  ASSUME TypeOK, Referring, NEW g \in Guild,
         GuildChanges(g) \/ \E i \in Channel \cup Role : SettingsChange(g, {i})
  PROVE  TypeOK' /\ Referring'
<1>1. /\ UNCHANGED <<clock, plans, requests, locks, rows, performed, running>>
      /\ Change
  BY DEF GuildChanges, SettingsChange, tables
<1>2. changes' \in 0..MaxInputs
  <2>1. Len(plans) \in Nat /\ changes \in Nat
    BY PlanTypes, Limits DEF TypeOK
  <2>2. QED
    BY <1>1, <2>1, Limits DEF Change
<1> DEFINE Ranks == [own : SUBSET Role, bot : SUBSET Role]
<1>3. contents' \in [Guild -> SUBSET Item]
  BY DEF GuildChanges, SettingsChange, TypeOK
<1>4. elevated' \in [Guild -> Ranks]
  <2>1. elevated \in [Guild -> Ranks] /\ elevated[g] \in Ranks
    BY DEF TypeOK
  <2>2. \A r \in Role, kind \in {"own", "bot"} : Raised(elevated[g], kind, r) \in Ranks
    BY <2>1 DEF Raised
  <2>3. \/ elevated' = elevated
        \/ \E r \in Role, kind \in {"own", "bot"} :
             elevated' = [elevated EXCEPT ![g] = Raised(elevated[g], kind, r)]
    BY DEF GuildChanges, SettingsChange
  <2> HIDE DEF Ranks
  <2>4. QED
    BY <2>1, <2>2, <2>3
<1>5. protected' \in [Guild -> SUBSET Item]
  BY DEF GuildChanges, SettingsChange, TypeOK, Item
<1>6. TypeOK'
  BY <1>1, <1>2, <1>3, <1>4, <1>5 DEF TypeOK
<1>7. Referring'
  BY <1>1 DEF Referring, RunningRefers
<1>8. QED
  BY <1>6, <1>7

LEMMA StepTypes == TypeOK /\ Referring /\ [Next]_vars => TypeOK' /\ Referring'
<1> SUFFICES ASSUME TypeOK, Referring, [Next]_vars PROVE TypeOK' /\ Referring'
  OBVIOUS
<1>1. ASSUME NEW g \in Guild, NEW d \in Developer, NEW dryRun \in BOOLEAN, NEW keep \in Keep,
             CreatePlan(g, d, dryRun, keep)
      PROVE  TypeOK' /\ Referring'
  BY <1>1, CreatePlanTypes
<1>2. ASSUME NEW p \in DOMAIN plans, Confirm(p) \/ BeginCommand(p)
      PROVE  TypeOK' /\ Referring'
  BY <1>2, ConfirmTypes, BeginCommandTypes
<1>3. CASE ClaimDashboardRequest \/ Answer
  BY <1>3, ClaimTypes, AnswerTypes
<1>4. ASSUME NEW s \in Slot, Step(s)
      PROVE  TypeOK' /\ Referring'
  BY <1>4, AcquireLocksTypes, PrepareTypes, UsePlanTypes, StartOperationsTypes,
     DeleteTargetTypes, EndExecutionTypes, ReleaseLocksTypes DEF Step
<1>5. CASE Tick \/ Restart
  BY <1>5, TickTypes, RestartTypes
<1>6. ASSUME NEW g \in Guild,
             GuildChanges(g) \/ \E i \in Channel \cup Role : SettingsChange(g, {i})
      PROVE  TypeOK' /\ Referring'
  BY <1>6, ChangeTypes
<1>7. CASE UNCHANGED vars
  <2>1. UNCHANGED <<clock, changes, contents, elevated, protected, plans, requests, locks, rows,
                    performed, running>>
    BY <1>7 DEF vars, guilds, tables
  <2>2. QED
    BY <2>1 DEF TypeOK, Referring, RunningRefers
<1>8. QED
  BY <1>1, <1>2, <1>3, <1>4, <1>5, <1>6, <1>7 DEF Next

(* Every reachable state has the types the tables and the executions are given
   (TypeOK), for any number of guilds, plans and requests. *)
THEOREM TypeCorrect == Spec => []TypeOK
<1>1. Init => TypeOK /\ Referring
  BY ResetInitTypes
<1>2. TypeOK /\ Referring /\ [Next]_vars => TypeOK' /\ Referring'
  BY StepTypes
<1>3. QED
  BY <1>1, <1>2, PTL DEF Spec
-----------------------------------------------------------------------------
(* A plan is used exactly when it was carried out *)

Counted ==
  \A p \in 1..MaxPlans :
    performed[p] = IF p \in DOMAIN plans THEN IF plans[p].used THEN 1 ELSE 0 ELSE 0

LEMMA CountedStep == TypeOK /\ Referring /\ Counted /\ [Next]_vars => Counted'
<1> SUFFICES ASSUME TypeOK, Referring, Counted, [Next]_vars PROVE Counted'
  OBVIOUS
<1>1. ASSUME NEW g \in Guild, NEW d \in Developer, NEW dryRun \in BOOLEAN, NEW keep \in Keep,
             CreatePlan(g, d, dryRun, keep)
      PROVE  Counted'
  <2>1. UNCHANGED performed
    BY <1>1 DEF CreatePlan
  <2>2. /\ DOMAIN plans' = DOMAIN plans \cup {Len(plans')} /\ Len(plans') \notin DOMAIN plans
        /\ \A p \in DOMAIN plans : plans'[p] = plans[p]
        /\ plans'[Len(plans')].used = FALSE
    BY <1>1, PlanAdded
  <2>3. QED
    BY <2>1, <2>2 DEF Counted
<1>2. ASSUME NEW s \in Slot, UsePlan(s)
      PROVE  Counted'
  <2> DEFINE q == running[s].plan
  <2>1. q \in DOMAIN plans /\ plans[q].used # TRUE
    BY <1>2 DEF UsePlan, At, Referring, RunningRefers, Unused, PlanOf
  <2>2. plans' = [plans EXCEPT ![q].used = TRUE] /\ performed' = [performed EXCEPT ![q] = @ + 1]
    BY <1>2 DEF UsePlan
  <2> HIDE DEF q
  <2>3. /\ DOMAIN plans' = DOMAIN plans
        /\ plans'[q] = [plans[q] EXCEPT !.used = TRUE]
        /\ \A p \in DOMAIN plans : p # q => plans'[p] = plans[p]
    BY <2>1, <2>2, PlanUsed
  <2>4. q \in 1..MaxPlans /\ plans[q] \in Plan
    BY <2>1, PlanTypes
  <2>5. plans'[q].used = TRUE /\ performed[q] = 0
    BY <2>1, <2>3, <2>4 DEF Counted, Plan
  <2>6. performed'[q] = 1 /\ \A p \in 1..MaxPlans : p # q => performed'[p] = performed[p]
    BY <2>2, <2>4, <2>5 DEF TypeOK
  <2>7. QED
    BY <2>1, <2>3, <2>5, <2>6 DEF Counted
<1>3. CASE UNCHANGED <<plans, performed>>
  BY <1>3 DEF Counted
<1>4. ASSUME NEW s \in Slot, Step(s)
      PROVE  Counted'
  BY <1>2, <1>3, <1>4 DEF Step, AcquireLocks, Prepare, StartOperations, DeleteTarget, EndExecution,
     ReleaseLocks, tables
<1>5. ASSUME NEW p \in DOMAIN plans, Confirm(p) \/ BeginCommand(p)
      PROVE  Counted'
  BY <1>3, <1>5 DEF Confirm, BeginCommand
<1>6. CASE ClaimDashboardRequest \/ Answer \/ Tick \/ Restart \/ UNCHANGED vars
  BY <1>3, <1>6 DEF ClaimDashboardRequest, Answer, Tick, Restart, vars, tables
<1>7. ASSUME NEW g \in Guild,
             GuildChanges(g) \/ \E i \in Channel \cup Role : SettingsChange(g, {i})
      PROVE  Counted'
  BY <1>3, <1>7 DEF GuildChanges, SettingsChange, tables
<1>8. QED
  BY <1>1, <1>4, <1>5, <1>6, <1>7 DEF Next

(* However often a plan is confirmed, by commands and requests, and however
   often the bot dies, one execution at most carries it out. *)
THEOREM PlansArePerformedOnce == Spec => []PlanPerformedOnce
<1>1. Init => TypeOK /\ Referring /\ Counted
  <2>1. Init => Counted
    BY DEF Init, Counted
  <2>2. QED
    BY <2>1, ResetInitTypes
<1>2. TypeOK /\ Referring /\ Counted /\ [Next]_vars => TypeOK' /\ Referring' /\ Counted'
  BY StepTypes, CountedStep
<1>3. Counted => PlanPerformedOnce
  BY DEF Counted, PlanPerformedOnce
<1>4. QED
  BY <1>1, <1>2, <1>3, PTL DEF Spec
-----------------------------------------------------------------------------
(* What is deleted was saved *)

(* What a plan says of what to delete, and when. *)
SamePlans ==
  /\ DOMAIN plans \subseteq DOMAIN plans'
  /\ \A p \in DOMAIN plans :
       /\ plans'[p].guild = plans[p].guild /\ plans'[p].developer = plans[p].developer
       /\ plans'[p].dryRun = plans[p].dryRun /\ plans'[p].targets = plans[p].targets
       /\ plans'[p].seen = plans[p].seen

LEMMA PlansStay == TypeOK /\ Referring /\ [Next]_vars => SamePlans
<1> SUFFICES ASSUME TypeOK, Referring, [Next]_vars PROVE SamePlans
  OBVIOUS
<1>1. ASSUME NEW g \in Guild, NEW d \in Developer, NEW dryRun \in BOOLEAN, NEW keep \in Keep,
             CreatePlan(g, d, dryRun, keep)
      PROVE  SamePlans
  BY <1>1, PlanAdded DEF SamePlans
<1>2. ASSUME NEW s \in Slot, UsePlan(s)
      PROVE  SamePlans
  <2> DEFINE q == running[s].plan
  <2>1. q \in DOMAIN plans /\ plans' = [plans EXCEPT ![q].used = TRUE]
    BY <1>2 DEF UsePlan, At, Referring, RunningRefers
  <2> HIDE DEF q
  <2>2. /\ DOMAIN plans' = DOMAIN plans
        /\ plans'[q] = [plans[q] EXCEPT !.used = TRUE]
        /\ \A p \in DOMAIN plans : p # q => plans'[p] = plans[p]
    BY <2>1, PlanUsed
  <2>3. plans[q] \in Plan
    BY <2>1, PlanTypes
  <2>4. QED
    BY <2>1, <2>2, <2>3 DEF SamePlans, Plan
<1>3. CASE UNCHANGED plans
  BY <1>3 DEF SamePlans
<1>4. ASSUME NEW s \in Slot, Step(s)
      PROVE  SamePlans
  BY <1>2, <1>3, <1>4 DEF Step, AcquireLocks, Prepare, StartOperations, DeleteTarget, EndExecution,
     ReleaseLocks, tables
<1>5. ASSUME NEW p \in DOMAIN plans, Confirm(p) \/ BeginCommand(p)
      PROVE  SamePlans
  BY <1>3, <1>5 DEF Confirm, BeginCommand
<1>6. CASE ClaimDashboardRequest \/ Answer \/ Tick \/ Restart \/ UNCHANGED vars
  BY <1>3, <1>6 DEF ClaimDashboardRequest, Answer, Tick, Restart, vars, tables
<1>7. ASSUME NEW g \in Guild,
             GuildChanges(g) \/ \E i \in Channel \cup Role : SettingsChange(g, {i})
      PROVE  SamePlans
  BY <1>3, <1>7 DEF GuildChanges, SettingsChange, tables
<1>8. QED
  BY <1>1, <1>4, <1>5, <1>6, <1>7 DEF Next

(* What an execution saved, and what it was authorised with, is what the plan
   was made from, and it only has targets of the plan left. *)
Backed(s) ==
  /\ running[s].at \in {"use", "start", "operate"} =>
       /\ running[s].saved = PlanOf(s).seen.contents
       /\ running[s].guarded = PlanOf(s).seen.protected
  /\ running[s].at = "operate" => running[s].todo \subseteq PlanOf(s).targets
  /\ running[s].at # "operate" => running[s].todo = {}

Saved ==
  /\ \A p \in DOMAIN plans :
       plans[p].targets \subseteq plans[p].seen.contents \ plans[p].seen.protected
  /\ \A s \in Slot : Backed(s)
  /\ DeletedWasSaved

(* An execution that stands still keeps what it has. *)
LEMMA BackedStays ==
  ASSUME TypeOK, Referring, Saved, SamePlans, NEW s \in Slot, running'[s] = running[s]
  PROVE  Backed(s)'
<1>1. running[s].at \notin {"idle", "answer"} => running[s].plan \in DOMAIN plans
  BY DEF Referring, RunningRefers
<1>2. Backed(s)
  BY DEF Saved
<1>3. running[s].at \notin {"idle", "answer"} =>
        /\ PlanOf(s)'.seen = PlanOf(s).seen /\ PlanOf(s)'.targets = PlanOf(s).targets
  BY <1>1 DEF SamePlans, PlanOf
<1>4. QED
  BY <1>2, <1>3 DEF Backed

(* One that moves has to be looked at. *)
LEMMA BackedMoves ==
  ASSUME TypeOK, Referring, Saved, SamePlans, NEW s \in Slot, NEW x \in Execution, Moves(s, x),
         Backed(s)'
  PROVE  \A r \in Slot : Backed(r)'
<1>1. \A r \in Slot \ {s} : running'[r] = running[r]
  BY Moved
<1>2. QED
  BY <1>1, BackedStays

LEMMA BackedPlain ==
  ASSUME TypeOK, Referring, Saved, SamePlans, NEW s \in Slot, NEW x \in Execution, Moves(s, x),
         x.at \notin {"use", "start", "operate"}, x.todo = {}
  PROVE  \A r \in Slot : Backed(r)'
<1>1. running'[s] = x
  BY Moved
<1>2. Backed(s)'
  BY <1>1 DEF Backed
<1>3. QED
  BY <1>2, BackedMoves

(* Nothing is left to do for one that is starting, or that has returned. *)
LEMMA NothingToDo ==
  /\ Idle.todo = {} /\ \A s \in Slot : Returned(s).todo = {}
  /\ \A p, k : Begun(p, k).todo = {} /\ [Begun(p, k) EXCEPT !.at = "answer"].todo = {}
<1>1. Idle \in Execution /\ Idle.todo = {}
  BY IdleTypes DEF Idle
<1>2. \A s \in Slot : Returned(s).todo = {}
  BY <1>1 DEF Returned, Execution
<1>3. \A p, k : Begun(p, k).todo = {} /\ [Begun(p, k) EXCEPT !.at = "answer"].todo = {}
  BY <1>1 DEF Begun, Execution
<1>4. QED
  BY <1>1, <1>2, <1>3

(* What an execution deletes leaves its row as it is. *)
LEMMA RowsStay ==
  ASSUME TypeOK, Referring, Saved, NEW s \in Slot, NEW i \in Item, DeleteTarget(s, i)
  PROVE  rows' = rows
<1>1. CASE UNCHANGED rows
  BY <1>1
<1>2. CASE rows' = RowsAfter(s, i)
  <2>1. running[s].at = "operate" /\ i \in NextTargets(running[s].todo)
    BY DEF DeleteTarget, At
  <2>2. i \in running[s].todo
    BY <2>1 DEF NextTargets
  <2>3. running[s].plan \in DOMAIN plans
    BY <2>1 DEF Referring, RunningRefers
  <2>4. i \in running[s].saved \ running[s].guarded
    BY <2>1, <2>2, <2>3 DEF Saved, Backed, PlanOf
  <2>5. {i} \ (running[s].saved \ running[s].guarded) = {}
    BY <2>4
  <2>6. \A row \in rows : row.lost = {} /\ row \in Row
    BY DEF Saved, DeletedWasSaved, TypeOK
  <2>7. \A row \in rows : [row EXCEPT !.lost = @ \cup {}] = row
    <3>1. SUFFICES ASSUME NEW row \in rows PROVE [row EXCEPT !.lost = @ \cup {}] = row
      OBVIOUS
    <3>2. row.lost \cup {} = row.lost
      OBVIOUS
    <3>3. row \in Row
      BY <2>6
    <3>4. [row EXCEPT !.lost = row.lost] = row
      BY <3>3 DEF Row
    <3>5. QED
      BY <3>2, <3>4
  <2>8. RowsAfter(s, i) = {row : row \in rows}
    BY <2>5, <2>7 DEF RowsAfter
  <2>9. QED
    BY <1>2, <2>8
<1>3. QED
  BY <1>1, <1>2 DEF DeleteTarget

LEMMA SavedStepOfSlot ==
  ASSUME TypeOK, Referring, Saved, SamePlans, NEW s \in Slot, Step(s)
  PROVE  \A r \in Slot : Backed(r)'
<1> DEFINE p == running[s].plan
<1>a. running[s] \in Execution
  BY RunningTypes
<1>b. running[s].at \notin {"idle", "answer"} =>
        /\ p \in DOMAIN plans /\ plans'[p].seen = plans[p].seen
        /\ plans'[p].targets = plans[p].targets
  BY DEF Referring, RunningRefers, SamePlans
<1>c. Backed(s)
  BY DEF Saved
<1>1. CASE AcquireLocks(s)
  <2>1. CASE Moves(s, Returned(s))
    <3>1. Returned(s) \in Execution /\ Returned(s).at \in {"idle", "answer"}
      BY ReturnedTypes
    <3>2. QED
      BY <2>1, <3>1, NothingToDo, BackedPlain
  <2>2. CASE Moves(s, [running[s] EXCEPT !.at = "prepare", !.until = clock + LockTtl])
    <3> DEFINE x == [running[s] EXCEPT !.at = "prepare", !.until = clock + LockTtl]
    <3>1. clock + LockTtl \in Nat
      BY Times, Limits DEF TypeOK, Time
    <3>2. x \in Execution /\ x.at = "prepare" /\ x.todo = running[s].todo
      BY <1>a, <3>1 DEF Execution
    <3>3. running[s].todo = {}
      BY <1>1, <1>c DEF AcquireLocks, At, Backed
    <3>4. Moves(s, x)
      BY <2>2
    <3> HIDE DEF x
    <3>5. QED
      BY <3>2, <3>3, <3>4, BackedPlain
  <2>3. QED
    BY <1>1, <2>1, <2>2 DEF AcquireLocks
<1>2. CASE Prepare(s)
  <2> DEFINE x == [running[s] EXCEPT !.at = "use", !.saved = contents[GuildOf(s)],
                                     !.startedAt = clock]
  <2>1. running[s].at = "prepare" /\ Moves(s, x) /\ UNCHANGED plans
    BY <1>2 DEF Prepare, At, tables
  <2>2. PlanOf(s).seen = Fingerprint(GuildOf(s), running[s].guarded)
    BY <1>2 DEF Prepare, Matches, GuildOf
  <2>3. /\ PlanOf(s).seen.contents = contents[GuildOf(s)]
        /\ PlanOf(s).seen.protected = running[s].guarded
    BY <2>2 DEF Fingerprint
  <2>4. x \in Execution
    <3>1. plans[p] \in Plan
      BY <1>b, <2>1, PlanTypes
    <3>2. GuildOf(s) \in Guild
      BY <3>1 DEF GuildOf, PlanOf, Plan
    <3>3. contents[GuildOf(s)] \in SUBSET Item /\ clock \in Time
      BY <3>2 DEF TypeOK
    <3>4. QED
      BY <1>a, <3>3 DEF Execution
  <2>5. /\ x.at = "use" /\ x.plan = p /\ x.todo = running[s].todo
        /\ x.saved = contents[GuildOf(s)] /\ x.guarded = running[s].guarded
    BY <1>a DEF Execution
  <2>6. running[s].todo = {}
    BY <1>c, <2>1 DEF Backed
  <2> HIDE DEF x
  <2>7. running'[s] = x
    BY <2>1, <2>4, Moved
  <2>8. Backed(s)'
    BY <2>1, <2>3, <2>5, <2>6, <2>7 DEF Backed, PlanOf
  <2>9. QED
    BY <2>1, <2>4, <2>8, BackedMoves
<1>3. CASE UsePlan(s)
  <2> DEFINE x == [running[s] EXCEPT !.at = "start"]
  <2>1. running[s].at = "use" /\ Moves(s, x)
    BY <1>3 DEF UsePlan, At
  <2>2. /\ x \in Execution /\ x.at = "start" /\ x.plan = p /\ x.todo = running[s].todo
        /\ x.saved = running[s].saved /\ x.guarded = running[s].guarded
    BY <1>a DEF Execution
  <2> HIDE DEF x
  <2>3. running'[s] = x
    BY <2>1, <2>2, Moved
  <2>4. Backed(s)'
    BY <1>b, <1>c, <2>1, <2>2, <2>3 DEF Backed, PlanOf
  <2>5. QED
    BY <2>1, <2>2, <2>4, BackedMoves
<1>4. CASE StartOperations(s)
  <2> DEFINE x == [running[s] EXCEPT !.at = "operate"]
             y == [running[s] EXCEPT !.at = "operate", !.todo = PlanOf(s).targets]
  <2>1. running[s].at = "start" /\ (Moves(s, x) \/ Moves(s, y)) /\ UNCHANGED plans
    BY <1>4 DEF StartOperations, At
  <2>2. /\ x \in Execution /\ x.at = "operate" /\ x.plan = p /\ x.todo = running[s].todo
        /\ x.saved = running[s].saved /\ x.guarded = running[s].guarded
    BY <1>a DEF Execution
  <2>3. PlanOf(s).targets \in SUBSET Item
    <3>1. plans[p] \in Plan
      BY <1>b, <2>1, PlanTypes
    <3>2. QED
      BY <3>1 DEF PlanOf, Plan
  <2>4. /\ y \in Execution /\ y.at = "operate" /\ y.plan = p /\ y.todo = PlanOf(s).targets
        /\ y.saved = running[s].saved /\ y.guarded = running[s].guarded
    BY <1>a, <2>3 DEF Execution
  <2> HIDE DEF x, y
  <2>5. CASE Moves(s, x)
    <3>1. running'[s] = x
      BY <2>2, <2>5, Moved
    <3>2. running[s].todo = {}
      BY <1>c, <2>1 DEF Backed
    <3>3. Backed(s)'
      BY <1>c, <2>1, <2>2, <3>1, <3>2 DEF Backed, PlanOf
    <3>4. QED
      BY <2>2, <2>5, <3>3, BackedMoves
  <2>6. CASE Moves(s, y)
    <3>1. running'[s] = y
      BY <2>4, <2>6, Moved
    <3>2. Backed(s)'
      BY <1>c, <2>1, <2>4, <3>1 DEF Backed, PlanOf
    <3>3. QED
      BY <2>4, <2>6, <3>2, BackedMoves
  <2>7. QED
    BY <2>1, <2>5, <2>6
<1>5. ASSUME NEW i \in Item, DeleteTarget(s, i)
      PROVE  \A r \in Slot : Backed(r)'
  <2> DEFINE x == [running[s] EXCEPT !.todo = @ \ {i}]
  <2>1. running[s].at = "operate" /\ Moves(s, x) /\ UNCHANGED plans
    BY <1>5 DEF DeleteTarget, At
  <2>2. /\ x \in Execution /\ x.at = "operate" /\ x.plan = p /\ x.todo = running[s].todo \ {i}
        /\ x.saved = running[s].saved /\ x.guarded = running[s].guarded
    BY <1>a, <2>1 DEF Execution
  <2> HIDE DEF x
  <2>3. running'[s] = x
    BY <2>1, <2>2, Moved
  <2>4. Backed(s)'
    BY <1>c, <2>1, <2>2, <2>3 DEF Backed, PlanOf
  <2>5. QED
    BY <2>1, <2>2, <2>4, BackedMoves
<1>6. CASE EndExecution(s)
  <2> DEFINE x == [running[s] EXCEPT !.at = "release", !.todo = {}]
  <2>1. Moves(s, x)
    BY <1>6 DEF EndExecution
  <2>2. x \in Execution /\ x.at = "release" /\ x.todo = {}
    <3>1. {} \in SUBSET Item
      OBVIOUS
    <3>2. QED
      BY <1>a, <3>1 DEF Execution
  <2> HIDE DEF x
  <2>3. QED
    BY <2>1, <2>2, BackedPlain
<1>7. CASE ReleaseLocks(s)
  <2>1. Moves(s, Returned(s)) /\ Returned(s) \in Execution /\ Returned(s).at \in {"idle", "answer"}
    BY <1>7, ReturnedTypes DEF ReleaseLocks
  <2>2. QED
    BY <2>1, NothingToDo, BackedPlain
<1>8. QED
  BY <1>1, <1>2, <1>3, <1>4, <1>5, <1>6, <1>7 DEF Step

(* Rows only come when operations start: those are with nothing lost. *)
LEMMA RowsAre ==
  ASSUME TypeOK, Referring, Saved, [Next]_vars
  PROVE  \/ UNCHANGED rows
         \/ \E s \in Slot : StartOperations(s) /\ ~PlanOf(s).dryRun
<1>1. ASSUME NEW s \in Slot, Step(s), ~StartOperations(s)
      PROVE  UNCHANGED rows
  BY <1>1, RowsStay DEF Step, AcquireLocks, Prepare, UsePlan, EndExecution, ReleaseLocks, tables
<1>2. ASSUME NEW s \in Slot, StartOperations(s), PlanOf(s).dryRun
      PROVE  UNCHANGED rows
  BY <1>2 DEF StartOperations
<1>3. ASSUME NEW g \in Guild, NEW d \in Developer, NEW dryRun \in BOOLEAN, NEW keep \in Keep,
             CreatePlan(g, d, dryRun, keep)
      PROVE  UNCHANGED rows
  BY <1>3 DEF CreatePlan
<1>4. ASSUME NEW q \in DOMAIN plans, Confirm(q) \/ BeginCommand(q)
      PROVE  UNCHANGED rows
  BY <1>4 DEF Confirm, BeginCommand
<1>5. CASE ClaimDashboardRequest \/ Answer \/ Tick \/ Restart \/ UNCHANGED vars
  BY <1>5 DEF ClaimDashboardRequest, Answer, Tick, Restart, vars, tables
<1>6. ASSUME NEW g \in Guild,
             GuildChanges(g) \/ \E i \in Channel \cup Role : SettingsChange(g, {i})
      PROVE  UNCHANGED rows
  BY <1>6 DEF GuildChanges, SettingsChange, tables
<1>7. QED
  BY <1>1, <1>2, <1>3, <1>4, <1>5, <1>6 DEF Next

LEMMA SavedStep == TypeOK /\ Referring /\ Saved /\ [Next]_vars => Saved'
<1> SUFFICES ASSUME TypeOK, Referring, Saved, [Next]_vars PROVE Saved'
  OBVIOUS
<1>1. SamePlans
  BY PlansStay
<1>2. DeletedWasSaved'
  <2>1. CASE UNCHANGED rows
    BY <2>1 DEF Saved, DeletedWasSaved
  <2>2. ASSUME NEW s \in Slot, StartOperations(s), ~PlanOf(s).dryRun
        PROVE  DeletedWasSaved'
    <3>1. rows' = rows \cup {[plan |-> running[s].plan, startedAt |-> running[s].startedAt,
                              late |-> clock >= running[s].until, lost |-> {}]}
      BY <2>2 DEF StartOperations
    <3>2. QED
      BY <3>1 DEF Saved, DeletedWasSaved
  <2>3. QED
    BY <2>1, <2>2, RowsAre
<1>3. \A p \in DOMAIN plans' :
        plans'[p].targets \subseteq plans'[p].seen.contents \ plans'[p].seen.protected
  <2>1. ASSUME NEW g \in Guild, NEW d \in Developer, NEW dryRun \in BOOLEAN, NEW keep \in Keep,
               CreatePlan(g, d, dryRun, keep)
        PROVE  DOMAIN plans' = DOMAIN plans \cup {Len(plans')}
               /\ plans'[Len(plans')].targets \subseteq
                     plans'[Len(plans')].seen.contents \ plans'[Len(plans')].seen.protected
    BY <2>1, PlanAdded
  <2>2. CASE DOMAIN plans' = DOMAIN plans
    BY <1>1, <2>2 DEF Saved, SamePlans
  <2>3. ASSUME NEW s \in Slot, Step(s)
        PROVE  DOMAIN plans' = DOMAIN plans
    <3>1. CASE UsePlan(s)
      <4> DEFINE q == running[s].plan
      <4>1. q \in DOMAIN plans /\ plans' = [plans EXCEPT ![q].used = TRUE]
        BY <3>1 DEF UsePlan, At, Referring, RunningRefers
      <4> HIDE DEF q
      <4>2. QED
        BY <4>1, PlanUsed
    <3>2. CASE ~UsePlan(s)
      BY <2>3, <3>2 DEF Step, AcquireLocks, Prepare, StartOperations, DeleteTarget, EndExecution,
         ReleaseLocks, tables
    <3>3. QED
      BY <3>1, <3>2
  <2>4. CASE ClaimDashboardRequest \/ Answer \/ Tick \/ Restart \/ UNCHANGED vars
    BY <2>2, <2>4 DEF ClaimDashboardRequest, Answer, Tick, Restart, vars, tables
  <2>5. ASSUME NEW p \in DOMAIN plans, Confirm(p) \/ BeginCommand(p)
        PROVE  DOMAIN plans' = DOMAIN plans
    BY <2>5 DEF Confirm, BeginCommand
  <2>6. ASSUME NEW g \in Guild,
               GuildChanges(g) \/ \E i \in Channel \cup Role : SettingsChange(g, {i})
        PROVE  DOMAIN plans' = DOMAIN plans
    BY <2>6 DEF GuildChanges, SettingsChange, tables
  <2>7. CASE \E g \in Guild, d \in Developer, dryRun \in BOOLEAN, keep \in Keep :
               CreatePlan(g, d, dryRun, keep)
    BY <1>1, <2>1, <2>7 DEF Saved, SamePlans
  <2>8. QED
    BY <2>2, <2>3, <2>4, <2>5, <2>6, <2>7 DEF Next
<1>4. CASE UNCHANGED running
  BY <1>1, <1>2, <1>3, <1>4, BackedStays DEF Saved
<1>5. ASSUME NEW s \in Slot, Step(s)
      PROVE  \A r \in Slot : Backed(r)'
  BY <1>1, <1>5, SavedStepOfSlot
<1>6. ASSUME NEW p \in DOMAIN plans, BeginCommand(p)
      PROVE  \A r \in Slot : Backed(r)'
  <2>1. Moves("command", Begun(p, 0)) /\ "command" \in Slot
    BY <1>6 DEF BeginCommand, Slot
  <2>a. 0 \in 0..MaxRequests
    BY Limits
  <2>2. Begun(p, 0) \in Execution /\ Begun(p, 0).at = "lock"
    <3>1. Begun(p, 0).at = "lock"
      BY IdleTypes DEF Begun, Execution
    <3>2. Begun(p, 0) \in Execution
      BY <2>a, BegunTypes
    <3>3. QED
      BY <3>1, <3>2
  <2> DEFINE x == Begun(p, 0)
  <2>3. x \in Execution /\ x.at = "lock" /\ x.todo = {} /\ Moves("command", x)
    BY <2>1, <2>2, NothingToDo
  <2> HIDE DEF x
  <2>4. QED
    BY <1>1, <2>1, <2>3, BackedPlain
<1>7. CASE ClaimDashboardRequest
  <2>1. CASE Queued = {}
    <3>1. UNCHANGED running
      BY <1>7, <2>1 DEF ClaimDashboardRequest
    <3>2. QED
      BY <1>4, <3>1
  <2>2. CASE Queued # {}
    <3> DEFINE k == Min(Queued)
               q == requests[k].plan
               x == IF Usable(q) THEN Begun(q, k) ELSE [Begun(q, k) EXCEPT !.at = "answer"]
    <3>1. Moves("dashboard", x) /\ "dashboard" \in Slot
      BY <1>7, <2>2 DEF ClaimDashboardRequest, Slot
    <3>3. k \in DOMAIN requests /\ k \in 0..MaxRequests
      BY <2>2, QueuedFirst
    <3>4. q \in DOMAIN plans
      BY <2>2, QueuedFirst
    <3> HIDE DEF k, q
    <3>5. x \in Execution /\ x.at \in {"lock", "answer"} /\ x.todo = {}
      BY <3>3, <3>4, BegunTypes, NothingToDo
    <3> HIDE DEF x
    <3>6. \A r \in Slot : Backed(r)'
      BY <1>1, <3>1, <3>5, BackedPlain
    <3>7. QED
      BY <1>2, <1>3, <3>6 DEF Saved
  <2>3. QED
    BY <2>1, <2>2
<1>8. CASE Answer
  <2>1. Moves("dashboard", Idle) /\ "dashboard" \in Slot
    BY <1>8 DEF Answer, Slot
  <2>2. \A r \in Slot : Backed(r)'
    BY <1>1, <2>1, IdleTypes, NothingToDo, BackedPlain
  <2>3. QED
    BY <1>2, <1>3, <2>2 DEF Saved
<1>9. CASE Restart
  <2>1. \A s \in Slot : running'[s] = Idle
    BY <1>9 DEF Restart
  <2>2. \A r \in Slot : Backed(r)'
    BY <2>1, IdleTypes, NothingToDo DEF Backed
  <2>3. QED
    BY <1>2, <1>3, <2>2 DEF Saved
<1>10. CASE Tick \/ UNCHANGED vars
  BY <1>4, <1>10 DEF Tick, vars
<1>11. ASSUME NEW g \in Guild, NEW d \in Developer, NEW dryRun \in BOOLEAN, NEW keep \in Keep,
              CreatePlan(g, d, dryRun, keep)
       PROVE  UNCHANGED running
  BY <1>11 DEF CreatePlan
<1>12. ASSUME NEW p \in DOMAIN plans, Confirm(p)
       PROVE  UNCHANGED running
  BY <1>12 DEF Confirm
<1>13. ASSUME NEW g \in Guild,
              GuildChanges(g) \/ \E i \in Channel \cup Role : SettingsChange(g, {i})
       PROVE  UNCHANGED running
  BY <1>13 DEF GuildChanges, SettingsChange
<1>14. (\A r \in Slot : Backed(r)') => Saved'
  BY <1>2, <1>3 DEF Saved
<1>15. QED
  BY <1>4, <1>5, <1>6, <1>7, <1>8, <1>9, <1>10, <1>11, <1>12, <1>13, <1>14 DEF Next

LEMMA SavedInit == Init => Saved
<1> SUFFICES ASSUME Init PROVE Saved
  OBVIOUS
<1>1. DOMAIN plans = {}
  <2>1. plans = <<>> /\ plans \in Seq(Plan) /\ Len(plans) = 0
    BY EmptySeq DEF Init
  <2>2. QED
    BY <2>1, LenProperties
<1>2. rows = {} /\ \A s \in Slot : running[s] = Idle
  BY DEF Init
<1>3. QED
  BY <1>1, <1>2, IdleTypes, NothingToDo DEF Saved, Backed, DeletedWasSaved

(* What an execution deletes is in the backup it wrote before, and was not
   protected by the settings it was authorised with. *)
THEOREM DeletionsAreSaved == Spec => []DeletedWasSaved
<1>1. Init => TypeOK /\ Referring /\ Saved
  <2>1. Init => Saved
    BY SavedInit
  <2>2. QED
    BY <2>1, ResetInitTypes
<1>2. TypeOK /\ Referring /\ Saved /\ [Next]_vars => TypeOK' /\ Referring' /\ Saved'
  BY StepTypes, SavedStep
<1>3. Saved => DeletedWasSaved
  BY DEF Saved
<1>4. QED
  BY <1>1, <1>2, <1>3, PTL DEF Spec
-----------------------------------------------------------------------------
(* Executions that delete are a cooldown apart *)

(* An execution whose locks have not expired holds the global one. *)
Locked(s) ==
  running[s].at \in {"prepare", "use", "start"} /\ clock < running[s].until =>
    locks["global"].holder = s /\ locks["global"].until = running[s].until

Earlier(row, p, at) ==
  /\ plans[row.plan].guild = plans[p].guild => row.startedAt + GuildCooldown <= at
  /\ plans[row.plan].developer = plans[p].developer => row.startedAt + DeveloperCooldown <= at

(* It has seen every execution that began to delete with its locks. *)
Cooled(s) ==
  running[s].at \in {"use", "start"} /\ clock < running[s].until /\ ~PlanOf(s).dryRun =>
    \A row \in rows : row.late \/ Earlier(row, running[s].plan, running[s].startedAt)

Apart(first, second) ==
  first # second /\ first.startedAt <= second.startedAt /\ ~first.late /\ ~second.late =>
    Earlier(first, second.plan, second.startedAt)

AllApart == \A first, second \in rows : Apart(first, second)

Holding ==
  /\ \A s \in Slot : Locked(s) /\ Cooled(s)
  /\ AllApart

LEMMA ApartRespects == AllApart => RespectsCooldown
BY DEF AllApart, Apart, Earlier, RespectsCooldown

LEMMA RowTypes ==
  ASSUME TypeOK, NEW row \in rows
  PROVE  row \in Row /\ row.startedAt \in Nat /\ row.late \in BOOLEAN
BY Limits DEF TypeOK, Row, Time

(* What is earlier stays earlier. *)
LEMMA EarlierStays ==
  ASSUME TypeOK, Referring, SamePlans, NEW row \in rows, NEW p \in DOMAIN plans, NEW at,
         Earlier(row, p, at)
  PROVE  Earlier(row, p, at)'
BY DEF Referring, SamePlans, Earlier

LEMMA ApartStays ==
  ASSUME TypeOK, Referring, SamePlans, AllApart, UNCHANGED rows
  PROVE  AllApart'
<1>1. SUFFICES ASSUME NEW first \in rows, NEW second \in rows
               PROVE  Apart(first, second)'
  BY DEF AllApart
<1>2. Apart(first, second) /\ second.plan \in DOMAIN plans
  BY DEF AllApart, Referring
<1>3. Earlier(first, second.plan, second.startedAt) => Earlier(first, second.plan, second.startedAt)'
  BY <1>2, EarlierStays
<1>4. QED
  BY <1>2, <1>3 DEF Apart

(* An execution that stands still keeps its lock and what it has seen. *)
LEMMA HoldingStays ==
  ASSUME TypeOK, Referring, SamePlans, Holding, NEW s \in Slot, running'[s] = running[s],
         clock' \in Nat, clock' >= clock,
         \/ locks'["global"] = locks["global"] \/ ~(running[s].at \in {"prepare", "use", "start"})
         \/ ~(clock < running[s].until)
  PROVE  Locked(s)' /\ (UNCHANGED rows => Cooled(s)')
<1>1. /\ clock \in Nat /\ running[s].until \in Nat
      /\ Locked(s) /\ Cooled(s)
  BY RunningTypes, Limits DEF TypeOK, Time, Holding
<1>2. clock' < running'[s].until => clock < running[s].until
  BY <1>1
<1>3. Locked(s)'
  BY <1>1, <1>2 DEF Locked
<1>4. ASSUME UNCHANGED rows PROVE Cooled(s)'
  <2>1. SUFFICES ASSUME running'[s].at \in {"use", "start"}, clock' < running'[s].until,
                        ~PlanOf(s)'.dryRun, NEW row \in rows'
                 PROVE  row.late \/ Earlier(row, running[s].plan, running[s].startedAt)'
    BY DEF Cooled
  <2>2. running[s].plan \in DOMAIN plans
    BY <2>1 DEF Referring, RunningRefers
  <2>3. ~PlanOf(s).dryRun
    BY <2>1, <2>2 DEF PlanOf, SamePlans
  <2>4. row \in rows /\ (row.late \/ Earlier(row, running[s].plan, running[s].startedAt))
    BY <1>1, <1>2, <1>4, <2>1, <2>3 DEF Cooled
  <2>5. QED
    BY <2>2, <2>4, EarlierStays
<1>5. QED
  BY <1>3, <1>4

(* One that holds no lock, or is past using it, has nothing to hold. *)
LEMMA HoldingNothing ==
  ASSUME NEW s \in Slot, running'[s].at \notin {"prepare", "use", "start"}
  PROVE  Locked(s)' /\ Cooled(s)'
BY DEF Locked, Cooled

(* The global lock of an execution that holds it is not taken by another. *)
LEMMA GlobalLockStays ==
  ASSUME TypeOK, Holding, NEW s \in Slot, NEW r \in Slot \ {s}, AcquireLocks(s) \/ ReleaseLocks(s)
  PROVE  \/ locks'["global"] = locks["global"]
         \/ running[r].at \notin {"prepare", "use", "start"} \/ ~(clock < running[r].until)
<1> SUFFICES ASSUME running[r].at \in {"prepare", "use", "start"}, clock < running[r].until
             PROVE  locks'["global"] = locks["global"]
  OBVIOUS
<1>1. locks["global"].holder = r /\ locks["global"].until = running[r].until
  BY DEF Holding, Locked
<1>2. "global" \in DOMAIN locks /\ clock \in Nat /\ running[r].until \in Nat
  BY RunningTypes, Limits DEF TypeOK, Time
<1>3. Live["global"] = locks["global"]
  <2>1. ~(locks["global"].until <= clock)
    BY <1>1, <1>2
  <2>2. QED
    BY <1>2, <2>1 DEF Live
<1>4. ASSUME NEW g, LockFree(g) PROVE FALSE
  BY <1>1, <1>3, <1>4 DEF LockFree, Slot
<1>5. CASE AcquireLocks(s)
  BY <1>3, <1>4, <1>5 DEF AcquireLocks
<1>6. CASE ReleaseLocks(s)
  <2>1. Released(s)["global"] = locks["global"] /\ Orphaned({s})["global"] = locks["global"]
    BY <1>1, <1>2 DEF Released, Orphaned
  <2>2. QED
    BY <1>6, <2>1 DEF ReleaseLocks
<1>7. QED
  BY <1>5, <1>6

LEMMA HoldingAcquire ==
  ASSUME TypeOK, Referring, Holding, NEW s \in Slot, AcquireLocks(s)
  PROVE  Locked(s)' /\ Cooled(s)'
<1>1. CASE Moves(s, Returned(s))
  <2>1. running'[s].at \in {"idle", "answer"}
    BY <1>1, ReturnedTypes, Moved
  <2>2. QED
    BY <2>1, HoldingNothing
<1>2. CASE /\ locks' = Taken(s, {"global", GuildOf(s)})
           /\ Moves(s, [running[s] EXCEPT !.at = "prepare", !.until = clock + LockTtl])
  <2> DEFINE x == [running[s] EXCEPT !.at = "prepare", !.until = clock + LockTtl]
  <2>1. running[s] \in Execution /\ clock + LockTtl \in Nat
    BY RunningTypes, Times, Limits DEF TypeOK, Time
  <2>2. x \in Execution /\ x.at = "prepare" /\ x.until = clock + LockTtl
    BY <2>1 DEF Execution
  <2>3. Moves(s, x)
    BY <1>2
  <2> HIDE DEF x
  <2>4. running'[s] = x
    BY <2>2, <2>3, Moved
  <2>5. "global" \in DOMAIN locks
    BY DEF TypeOK
  <2>6. locks'["global"] = [holder |-> s, until |-> clock + LockTtl]
    BY <1>2, <2>5 DEF Taken
  <2>7. QED
    BY <2>2, <2>4, <2>6 DEF Locked, Cooled
<1>3. QED
  BY <1>1, <1>2 DEF AcquireLocks

LEMMA HoldingPrepare ==
  ASSUME TypeOK, Referring, Holding, SamePlans, NEW s \in Slot, Prepare(s)
  PROVE  Locked(s)' /\ Cooled(s)'
<1> DEFINE p == running[s].plan
           x == [running[s] EXCEPT !.at = "use", !.saved = contents[GuildOf(s)],
                                   !.startedAt = clock]
<1>1. /\ running[s].at = "prepare" /\ Moves(s, x) /\ running[s] \in Execution
      /\ UNCHANGED <<clock, plans, rows, locks>>
  BY RunningTypes DEF Prepare, At, tables
<1>2. p \in DOMAIN plans /\ plans[p] \in Plan
  BY <1>1, PlanTypes DEF Referring, RunningRefers
<1>3. contents[GuildOf(s)] \in SUBSET Item /\ clock \in Time
  <2>1. GuildOf(s) \in Guild
    BY <1>2 DEF GuildOf, PlanOf, Plan
  <2>2. QED
    BY <2>1 DEF TypeOK
<1>4. /\ x \in Execution /\ x.at = "use" /\ x.plan = p /\ x.until = running[s].until
      /\ x.startedAt = clock
  BY <1>1, <1>3 DEF Execution
<1> HIDE DEF x
<1>5. running'[s] = x
  BY <1>1, <1>4, Moved
<1>6. Locked(s)'
  BY <1>1, <1>4, <1>5 DEF Holding, Locked
<1>7. Cooled(s)'
  <2>1. SUFFICES ASSUME ~PlanOf(s)'.dryRun, NEW row \in rows PROVE Earlier(row, p, clock)'
    BY <1>1, <1>4, <1>5 DEF Cooled
  <2>2. ~plans[p].dryRun
    BY <1>1, <1>4, <1>5, <2>1 DEF PlanOf
  <2>3. ~Cooling(plans[p])
    BY <2>2 DEF Prepare, PlanOf
  <2>4. row.startedAt \in Nat /\ clock \in Nat
    BY RowTypes, Limits DEF TypeOK, Time
  <2>5. plans[row.plan].guild = plans[p].guild => row.startedAt + GuildCooldown <= clock
    BY <2>3, <2>4, Times DEF Cooling, Within
  <2>6. plans[row.plan].developer = plans[p].developer => row.startedAt + DeveloperCooldown <= clock
    BY <2>3, <2>4, Times DEF Cooling, Within
  <2>7. QED
    BY <1>1, <1>4, <1>5, <2>5, <2>6 DEF Earlier
<1>8. QED
  BY <1>6, <1>7

LEMMA HoldingUse ==
  ASSUME TypeOK, Referring, Holding, SamePlans, NEW s \in Slot, UsePlan(s)
  PROVE  Locked(s)' /\ Cooled(s)'
<1> DEFINE x == [running[s] EXCEPT !.at = "start"]
<1>1. /\ running[s].at = "use" /\ Moves(s, x) /\ running[s] \in Execution
      /\ UNCHANGED <<clock, rows, locks>>
  BY RunningTypes DEF UsePlan, At
<1>2. running[s].plan \in DOMAIN plans
  BY <1>1 DEF Referring, RunningRefers
<1>3. /\ x \in Execution /\ x.at = "start" /\ x.plan = running[s].plan
      /\ x.until = running[s].until /\ x.startedAt = running[s].startedAt
  BY <1>1 DEF Execution
<1> HIDE DEF x
<1>4. running'[s] = x
  BY <1>1, <1>3, Moved
<1>5. Locked(s)'
  BY <1>1, <1>3, <1>4 DEF Holding, Locked
<1>6. Cooled(s)'
  <2>1. SUFFICES ASSUME clock < running[s].until, ~PlanOf(s)'.dryRun, NEW row \in rows
                 PROVE  row.late \/ Earlier(row, running[s].plan, running[s].startedAt)'
    BY <1>1, <1>3, <1>4 DEF Cooled
  <2>2. ~PlanOf(s).dryRun
    BY <1>2, <1>3, <1>4, <2>1 DEF PlanOf, SamePlans
  <2>3. row.late \/ Earlier(row, running[s].plan, running[s].startedAt)
    BY <1>1, <2>1, <2>2 DEF Holding, Cooled
  <2>4. /\ Earlier(row, running[s].plan, running[s].startedAt)
        /\ plans'[row.plan].guild = plans'[running[s].plan].guild
        => row.startedAt + GuildCooldown <= running[s].startedAt
    BY <1>2 DEF Referring, SamePlans, Earlier
  <2>5. /\ Earlier(row, running[s].plan, running[s].startedAt)
        /\ plans'[row.plan].developer = plans'[running[s].plan].developer
        => row.startedAt + DeveloperCooldown <= running[s].startedAt
    BY <1>2 DEF Referring, SamePlans, Earlier
  <2>6. QED
    BY <1>3, <1>4, <2>3, <2>4, <2>5 DEF Earlier
<1>7. QED
  BY <1>5, <1>6

LEMMA HoldingStart ==
  ASSUME TypeOK, Referring, Holding, SamePlans, NEW s \in Slot, StartOperations(s)
  PROVE  /\ Locked(s)' /\ Cooled(s)' /\ AllApart'
         /\ \A r \in Slot \ {s} : Locked(r)' /\ Cooled(r)'
<1> DEFINE p == running[s].plan
           x == [running[s] EXCEPT !.at = "operate"]
           y == [running[s] EXCEPT !.at = "operate", !.todo = PlanOf(s).targets]
           new == [plan |-> p, startedAt |-> running[s].startedAt,
                   late |-> clock >= running[s].until, lost |-> {}]
<1>1. /\ running[s].at = "start" /\ running[s] \in Execution
      /\ UNCHANGED <<clock, locks, plans>>
  BY RunningTypes DEF StartOperations, At
<1>2. p \in DOMAIN plans /\ plans[p] \in Plan
  BY <1>1, PlanTypes DEF Referring, RunningRefers
<1>3. PlanOf(s).targets \in SUBSET Item
  BY <1>2 DEF PlanOf, Plan
<1>4. x \in Execution /\ x.at = "operate" /\ y \in Execution /\ y.at = "operate"
  BY <1>1, <1>3 DEF Execution
<1>5. Moves(s, x) \/ Moves(s, y)
  BY DEF StartOperations
<1>6. UNCHANGED rows \/ (rows' = rows \cup {new} /\ ~PlanOf(s).dryRun)
  BY DEF StartOperations
<1>7. new.plan = p /\ new.startedAt = running[s].startedAt 
  OBVIOUS
<1>a. ~new.late => ~(clock >= running[s].until)
  OBVIOUS
<1> HIDE DEF x, y, new
<1>8. running'[s].at = "operate" /\ \A r \in Slot \ {s} : running'[r] = running[r]
  BY <1>4, <1>5, Moved
<1>9. Locked(s)' /\ Cooled(s)'
  BY <1>8, HoldingNothing
<1>10. clock \in Nat /\ running[s].until \in Nat /\ running[s].startedAt \in Nat
  BY RunningTypes, Limits DEF TypeOK, Time
<1>11. ASSUME NEW r \in Slot \ {s}
       PROVE  Locked(r)' /\ (UNCHANGED rows => Cooled(r)')
  BY <1>1, <1>8, <1>10, HoldingStays
<1>12. CASE UNCHANGED rows
  BY <1>9, <1>11, <1>12, ApartStays DEF Holding
<1>13. CASE rows' = rows \cup {new} /\ ~PlanOf(s).dryRun
  <2>1. ASSUME ~new.late
        PROVE  /\ locks["global"].holder = s
               /\ \A row \in rows : row.late \/ Earlier(row, p, new.startedAt)
    <3>1. clock < running[s].until
      BY <1>a, <1>10, <2>1
    <3>2. QED
      BY <1>1, <1>7, <1>13, <3>1 DEF Holding, Locked, Cooled
  <2>2. ASSUME NEW r \in Slot \ {s} PROVE Cooled(r)'
    <3>1. SUFFICES ASSUME running[r].at \in {"use", "start"}, clock < running[r].until,
                          ~PlanOf(r).dryRun, NEW row \in rows'
                   PROVE  row.late \/ Earlier(row, running[r].plan, running[r].startedAt)
      BY <1>1, <1>8 DEF Cooled, PlanOf, Earlier
    <3>2. locks["global"].holder = r
      BY <3>1 DEF Holding, Locked
    <3>3. new.late
      BY <2>1, <3>2
    <3>4. CASE row = new
      BY <3>3, <3>4
    <3>5. CASE row \in rows
      BY <3>1, <3>5 DEF Holding, Cooled
    <3>6. QED
      BY <1>13, <3>4, <3>5
  <2>3. AllApart'
    <3>1. SUFFICES ASSUME NEW first \in rows', NEW second \in rows', first # second,
                          first.startedAt <= second.startedAt, ~first.late, ~second.late
                   PROVE  Earlier(first, second.plan, second.startedAt)
      BY <1>1 DEF AllApart, Apart, Earlier
    <3>2. CASE first \in rows /\ second \in rows
      BY <3>1, <3>2 DEF Holding, AllApart, Apart
    <3>3. CASE first \in rows /\ second = new
      BY <1>7, <2>1, <3>1, <3>3
    <3>4. CASE first = new /\ second \in rows
      <4>1. Earlier(second, p, new.startedAt) /\ new.startedAt <= second.startedAt
        BY <2>1, <3>1, <3>4
      <4>2. second.startedAt \in Nat /\ new.startedAt \in Nat
        BY <1>7, <1>10, <3>4, RowTypes
      <4>3. plans[p].guild = plans[second.plan].guild => new.startedAt + GuildCooldown <= second.startedAt
        <5>1. plans[p].guild = plans[second.plan].guild =>
                second.startedAt + GuildCooldown <= new.startedAt
          BY <4>1 DEF Earlier
        <5>2. QED
          BY <4>1, <4>2, <5>1, Times
      <4>4. plans[p].developer = plans[second.plan].developer =>
              new.startedAt + DeveloperCooldown <= second.startedAt
        <5>1. plans[p].developer = plans[second.plan].developer =>
                second.startedAt + DeveloperCooldown <= new.startedAt
          BY <4>1 DEF Earlier
        <5>2. QED
          BY <4>1, <4>2, <5>1, Times
      <4>5. QED
        BY <1>7, <3>4, <4>3, <4>4 DEF Earlier
    <3>5. QED
      BY <1>13, <3>1, <3>2, <3>3, <3>4
  <2>4. QED
    BY <1>9, <1>11, <2>2, <2>3
<1>14. QED
  BY <1>6, <1>12, <1>13

(* An execution that moves without the locks, or with them, while the others
   stand still. *)
LEMMA HoldingMoves ==
  ASSUME TypeOK, Referring, SamePlans, Holding, NEW s \in Slot, NEW x \in Execution, Moves(s, x),
         UNCHANGED <<clock, rows>>, Locked(s)' /\ Cooled(s)',
         \A r \in Slot \ {s} :
           \/ locks'["global"] = locks["global"]
           \/ running[r].at \notin {"prepare", "use", "start"} \/ ~(clock < running[r].until)
  PROVE  Holding'
<1>1. \A r \in Slot \ {s} : running'[r] = running[r]
  BY Moved
<1>2. clock' \in Nat /\ clock' >= clock
  BY Limits DEF TypeOK, Time
<1>3. \A r \in Slot \ {s} : Locked(r)' /\ Cooled(r)'
  BY <1>1, <1>2, HoldingStays
<1>4. AllApart'
  BY ApartStays DEF Holding
<1>5. QED
  BY <1>3, <1>4 DEF Holding

LEMMA HoldingStepOfSlot ==
  ASSUME TypeOK, Referring, Saved, SamePlans, Holding, NEW s \in Slot, Step(s)
  PROVE  Holding'
<1>a. running[s] \in Execution
  BY RunningTypes
<1>1. CASE AcquireLocks(s)
  <2>1. Locked(s)' /\ Cooled(s)' /\ UNCHANGED <<clock, rows>>
    BY <1>1, HoldingAcquire DEF AcquireLocks
  <2>2. \E x \in Execution : Moves(s, x)
    <3>1. Returned(s) \in Execution
      BY ReturnedTypes
    <3>2. [running[s] EXCEPT !.at = "prepare", !.until = clock + LockTtl] \in Execution
      <4>1. clock + LockTtl \in Nat
        BY Times, Limits DEF TypeOK, Time
      <4>2. QED
        BY <1>a, <4>1 DEF Execution
    <3>3. QED
      BY <1>1, <3>1, <3>2 DEF AcquireLocks
  <2>3. QED
    BY <1>1, <2>1, <2>2, GlobalLockStays, HoldingMoves
<1>2. CASE Prepare(s)
  <2> DEFINE x == [running[s] EXCEPT !.at = "use", !.saved = contents[GuildOf(s)],
                                     !.startedAt = clock]
  <2>1. Locked(s)' /\ Cooled(s)' /\ UNCHANGED <<clock, rows, locks>> /\ Moves(s, x)
    BY <1>2, HoldingPrepare DEF Prepare, tables
  <2>2. x \in Execution
    <3>1. plans[running[s].plan] \in Plan
      BY <1>2, PlanTypes DEF Prepare, At, Referring, RunningRefers
    <3>2. GuildOf(s) \in Guild
      BY <3>1 DEF GuildOf, PlanOf, Plan
    <3>3. contents[GuildOf(s)] \in SUBSET Item /\ clock \in Time
      BY <3>2 DEF TypeOK
    <3>4. QED
      BY <1>a, <3>3 DEF Execution
  <2> HIDE DEF x
  <2>3. QED
    BY <2>1, <2>2, HoldingMoves
<1>3. CASE UsePlan(s)
  <2> DEFINE x == [running[s] EXCEPT !.at = "start"]
  <2>1. Locked(s)' /\ Cooled(s)' /\ UNCHANGED <<clock, rows, locks>> /\ Moves(s, x)
    BY <1>3, HoldingUse DEF UsePlan
  <2>2. x \in Execution
    BY <1>a DEF Execution
  <2> HIDE DEF x
  <2>3. QED
    BY <2>1, <2>2, HoldingMoves
<1>4. CASE StartOperations(s)
  BY <1>4, HoldingStart DEF Holding
<1>5. ASSUME NEW i \in Item, DeleteTarget(s, i)
      PROVE  Holding'
  <2> DEFINE x == [running[s] EXCEPT !.todo = @ \ {i}]
  <2>1. /\ running[s].at = "operate" /\ Moves(s, x) /\ UNCHANGED <<clock, locks>>
        /\ UNCHANGED rows
    BY <1>5, RowsStay DEF DeleteTarget, At
  <2>2. x \in Execution /\ x.at = "operate"
    BY <1>a, <2>1 DEF Execution
  <2> HIDE DEF x
  <2>3. Locked(s)' /\ Cooled(s)'
    BY <2>1, <2>2, Moved, HoldingNothing
  <2>4. QED
    BY <2>1, <2>2, <2>3, HoldingMoves
<1>6. CASE EndExecution(s)
  <2> DEFINE x == [running[s] EXCEPT !.at = "release", !.todo = {}]
  <2>1. Moves(s, x) /\ UNCHANGED <<clock, rows, locks>>
    BY <1>6 DEF EndExecution, tables
  <2>2. x \in Execution /\ x.at = "release"
    <3>1. {} \in SUBSET Item
      OBVIOUS
    <3>2. QED
      BY <1>a, <3>1 DEF Execution
  <2> HIDE DEF x
  <2>3. Locked(s)' /\ Cooled(s)'
    BY <2>1, <2>2, Moved, HoldingNothing
  <2>4. QED
    BY <2>1, <2>2, <2>3, HoldingMoves
<1>7. CASE ReleaseLocks(s)
  <2>1. Moves(s, Returned(s)) /\ UNCHANGED <<clock, rows>>
    BY <1>7 DEF ReleaseLocks
  <2>2. Returned(s) \in Execution /\ Returned(s).at \in {"idle", "answer"}
    BY ReturnedTypes
  <2>3. Locked(s)' /\ Cooled(s)'
    BY <2>1, <2>2, Moved, HoldingNothing
  <2>4. QED
    BY <1>7, <2>1, <2>2, <2>3, GlobalLockStays, HoldingMoves
<1>8. QED
  BY <1>1, <1>2, <1>3, <1>4, <1>5, <1>6, <1>7 DEF Step

LEMMA HoldingStep == TypeOK /\ Referring /\ Saved /\ Holding /\ [Next]_vars => Holding'
<1> SUFFICES ASSUME TypeOK, Referring, Saved, Holding, [Next]_vars PROVE Holding'
  OBVIOUS
<1>1. SamePlans
  BY PlansStay
<1>2. clock \in Nat
  BY Limits DEF TypeOK, Time
<1>3. CASE UNCHANGED <<running, rows, locks>> /\ clock' \in Nat /\ clock' >= clock
  <2>1. \A s \in Slot : Locked(s)' /\ Cooled(s)'
    BY <1>1, <1>3, HoldingStays
  <2>2. AllApart'
    BY <1>1, <1>3, ApartStays DEF Holding
  <2>3. QED
    BY <2>1, <2>2 DEF Holding
<1>4. ASSUME NEW s \in Slot, Step(s)
      PROVE  Holding'
  BY <1>1, <1>4, HoldingStepOfSlot
<1>5. ASSUME NEW p \in DOMAIN plans, BeginCommand(p)
      PROVE  Holding'
  <2> DEFINE x == Begun(p, 0)
  <2>1. Moves("command", x) /\ "command" \in Slot /\ UNCHANGED <<clock, rows, locks>>
    BY <1>5 DEF BeginCommand, Slot
  <2>2. x.at = "lock"
    BY IdleTypes DEF Begun, Execution
  <2>3. x \in Execution
    <3>1. 0 \in 0..MaxRequests
      BY Limits
    <3>2. QED
      BY <3>1, BegunTypes
  <2> HIDE DEF x
  <2>4. Locked("command")' /\ Cooled("command")'
    BY <2>1, <2>2, <2>3, Moved, HoldingNothing
  <2>5. QED
    BY <1>1, <2>1, <2>3, <2>4, HoldingMoves
<1>6. CASE ClaimDashboardRequest
  <2>1. CASE Queued = {}
    BY <1>2, <1>3, <1>6, <2>1 DEF ClaimDashboardRequest
  <2>2. CASE Queued # {}
    <3> DEFINE k == Min(Queued)
               q == requests[k].plan
               x == IF Usable(q) THEN Begun(q, k) ELSE [Begun(q, k) EXCEPT !.at = "answer"]
    <3>1. Moves("dashboard", x) /\ "dashboard" \in Slot /\ UNCHANGED <<clock, rows, locks>>
      BY <1>6, <2>2 DEF ClaimDashboardRequest, Slot
    <3>3. k \in DOMAIN requests /\ k \in 0..MaxRequests
      BY <2>2, QueuedFirst
    <3>4. q \in DOMAIN plans
      BY <2>2, QueuedFirst
    <3> HIDE DEF k, q
    <3>5. x \in Execution /\ x.at \in {"lock", "answer"}
      BY <3>3, <3>4, BegunTypes
    <3> HIDE DEF x
    <3>6. Locked("dashboard")' /\ Cooled("dashboard")'
      BY <3>1, <3>5, Moved, HoldingNothing
    <3>7. QED
      BY <1>1, <3>1, <3>5, <3>6, HoldingMoves
  <2>3. QED
    BY <2>1, <2>2
<1>7. CASE Answer
  <2>1. Moves("dashboard", Idle) /\ "dashboard" \in Slot /\ UNCHANGED <<clock, rows, locks>>
    BY <1>7 DEF Answer, Slot
  <2>2. Locked("dashboard")' /\ Cooled("dashboard")'
    BY <2>1, IdleTypes, Moved, HoldingNothing
  <2>3. QED
    BY <1>1, <2>1, <2>2, IdleTypes, HoldingMoves
<1>8. CASE Restart
  <2>1. (\A s \in Slot : running'[s] = Idle) /\ UNCHANGED rows
    BY <1>8 DEF Restart
  <2>2. \A s \in Slot : Locked(s)' /\ Cooled(s)'
    BY <2>1, IdleTypes, HoldingNothing
  <2>3. AllApart'
    BY <1>1, <2>1, ApartStays DEF Holding
  <2>4. QED
    BY <2>2, <2>3 DEF Holding
<1>9. CASE Tick \/ UNCHANGED vars
  BY <1>2, <1>3, <1>9 DEF Tick, vars, tables
<1>10. ASSUME NEW g \in Guild, NEW d \in Developer, NEW dryRun \in BOOLEAN, NEW keep \in Keep,
              CreatePlan(g, d, dryRun, keep)
       PROVE  UNCHANGED <<running, rows, locks, clock>>
  BY <1>10 DEF CreatePlan
<1>11. ASSUME NEW p \in DOMAIN plans, Confirm(p)
       PROVE  UNCHANGED <<running, rows, locks, clock>>
  BY <1>11 DEF Confirm
<1>12. ASSUME NEW g \in Guild,
              GuildChanges(g) \/ \E i \in Channel \cup Role : SettingsChange(g, {i})
       PROVE  UNCHANGED <<running, rows, locks, clock>>
  BY <1>12 DEF GuildChanges, SettingsChange, tables
<1>13. CASE UNCHANGED <<running, rows, locks, clock>>
  BY <1>2, <1>3, <1>13
<1>14. QED
  BY <1>4, <1>5, <1>6, <1>7, <1>8, <1>9, <1>10, <1>11, <1>12, <1>13 DEF Next

(* Executions that delete in a guild, or for a developer, are a cooldown apart,
   unless one of them began to delete after its locks had expired: the global
   lock keeps any other from checking its cooldowns in between. *)
THEOREM CooldownsAreRespected == Spec => []RespectsCooldown
<1>1. Init => TypeOK /\ Referring /\ Saved /\ Holding
  <2>1. Init => Saved
    BY SavedInit
  <2>2. ASSUME Init PROVE Holding
    <3>1. rows = {} /\ \A s \in Slot : running[s] = Idle
      BY <2>2 DEF Init
    <3>2. QED
      BY <3>1, IdleTypes DEF Holding, Locked, Cooled, AllApart
  <2>3. QED
    BY <2>1, <2>2, ResetInitTypes
<1>2. TypeOK /\ Referring /\ Saved /\ Holding /\ [Next]_vars
        => TypeOK' /\ Referring' /\ Saved' /\ Holding'
  BY StepTypes, SavedStep, HoldingStep
<1>3. Holding => RespectsCooldown
  BY ApartRespects DEF Holding
<1>4. QED
  BY <1>1, <1>2, <1>3, PTL DEF Spec

=============================================================================
