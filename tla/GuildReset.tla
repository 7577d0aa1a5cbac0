------------------------------ MODULE GuildReset ------------------------------
(***************************************************************************)
(* The guild reset service of the bot (lib/guild-reset-service.mjs) and    *)
(* the dashboard's side of it (lib/guild-reset-api.ts).                    *)
(*                                                                         *)
(* A developer makes a plan of what to delete, is issued a confirmation    *)
(* code, and confirms it by a command or through a request in PostgreSQL   *)
(* that the bot polls.  An execution takes the locks, checks the cooldowns *)
(* and that nothing changed since the plan, writes a backup, marks the     *)
(* plan used and deletes.  Another actor, or the death of the bot, can     *)
(* come between any two of its steps, and the guild and its settings may   *)
(* change.                                                                 *)
(*                                                                         *)
(* Left out: who may use the feature, the default channels an execution    *)
(* creates, and how an execution or a request ended, which only the        *)
(* dashboard shows.  A confirmation code is used once, but a new one is    *)
(* issued as long as the plan is usable: it is part of the confirmation.   *)
(***************************************************************************)
EXTENDS Integers, Sequences, FiniteSets, FiniteSetsExt

CONSTANTS
  Guild, Developer,
  Channel, Role,       \* ids in a guild
  Settings,            \* what a guild has configured, as one more target
  Keep,                \* what the options of a plan may spare
  PlanTtl, LockTtl, Reclaim, GuildCooldown, DeveloperCooldown,
  MaxClock, MaxPlans, MaxRequests, MaxInputs    \* bounds; inputs: plans and changes

Item == Channel \cup Role \cup {Settings}

ASSUME ItemAssumption ==
  Channel \cap Role = {} /\ Settings \notin Channel \cup Role /\ Keep \subseteq SUBSET Item
ASSUME TimeAssumption ==
  {PlanTtl, LockTtl, Reclaim, GuildCooldown, DeveloperCooldown} \subseteq Nat
ASSUME BoundAssumption == {MaxClock, MaxPlans, MaxRequests, MaxInputs} \subseteq Nat

VARIABLES
  clock,
  changes,        \* changes of guilds and settings so far
  contents,       \* channels and roles of each guild, and whether it has settings
  elevated,       \* roles the bot may not or must not delete: "own" by what they are
                  \* (position, permissions, managed, tags), "bot" by the bot's own rank
  protected,      \* guild_reset_settings: protected ids
  plans,          \* guild_reset_plan
  requests,       \* guild_reset_request, "confirm" ones
  locks,          \* guild_reset_lock
  rows,           \* guild_reset_execution: those with operationStarted, not dry runs
  performed,      \* ghost: how often each plan was carried out
  running         \* executions in the bot

tables == <<plans, requests, locks, rows, performed>>
guilds == <<changes, contents, elevated, protected>>
vars == <<clock, guilds, tables, running>>

(* One execution of a polled request and one of a command. *)
Slot == {"dashboard", "command"}

Time == 0..MaxClock

Plan == [guild : Guild, developer : Developer, dryRun : BOOLEAN, targets : SUBSET Item,
         seen : [contents : SUBSET Item, elevated : SUBSET Role, protected : SUBSET Item],
         expiresAt : Nat, used : BOOLEAN]

Request == [plan : 1..MaxPlans, status : {"queued", "running", "answered"}, claimedAt : Time]

(* holder "gone": an execution that ended without releasing. *)
Lock == [holder : Slot \cup {"free", "gone"}, until : Nat]

(* late and lost are ghosts: it began to delete after its locks expired, and
   what it deleted although that was not saved, or was protected. *)
Row == [plan : 1..MaxPlans, startedAt : Time, late : BOOLEAN, lost : SUBSET Item]

Execution == [at : {"idle", "lock", "prepare", "use", "start", "operate", "release", "answer"},
              plan : 0..MaxPlans, request : 0..MaxRequests,
              guarded : SUBSET Item, saved : SUBSET Item, todo : SUBSET Item,
              until : Nat, startedAt : Time]

Idle == [at |-> "idle", plan |-> 0, request |-> 0, guarded |-> {}, saved |-> {},
         todo |-> {}, until |-> 0, startedAt |-> 0]

Free == [holder |-> "free", until |-> 0]

TypeOK ==
  /\ clock \in Time /\ changes \in 0..MaxInputs
  /\ contents \in [Guild -> SUBSET Item]
  /\ elevated \in [Guild -> [own : SUBSET Role, bot : SUBSET Role]]
  /\ protected \in [Guild -> SUBSET Item]
  /\ plans \in Seq(Plan) /\ Len(plans) <= MaxPlans
  /\ requests \in Seq(Request) /\ Len(requests) <= MaxRequests
  /\ locks \in [{"global"} \cup Guild -> Lock]
  /\ rows \subseteq Row
  /\ performed \in [1..MaxPlans -> Nat]
  /\ running \in [Slot -> Execution]

Init ==
  /\ clock = 0 /\ changes = 0
  /\ contents = [g \in Guild |-> Item]
  /\ elevated = [g \in Guild |-> [own |-> {}, bot |-> {}]]
  /\ protected = [g \in Guild |-> {}]
  /\ plans = <<>> /\ requests = <<>>
  /\ rows = {} /\ performed = [p \in 1..MaxPlans |-> 0]
  /\ locks = [scope \in {"global"} \cup Guild |-> Free]
  /\ running = [s \in Slot |-> Idle]

PlanOf(s) == plans[running[s].plan]
GuildOf(s) == PlanOf(s).guild
Moves(s, changed) == running' = [running EXCEPT ![s] = changed]
At(s, label) == running[s].at = label
-----------------------------------------------------------------------------
(* Plans and codes *)

Elevated(g) == elevated[g].own \cup elevated[g].bot

(* createSnapshotFingerprint of the guild, and the settings in the hash: what the
   roles are is part of it, the rank of the bot is not *)
Fingerprint(g, shielded) ==
  [contents |-> contents[g], elevated |-> elevated[g].own, protected |-> shielded]

(* selectResetTargets *)
Targets(g, keep) == contents[g] \ (protected[g] \cup keep \cup Elevated(g))

CreatePlan(g, d, dryRun, keep) ==
  /\ Len(plans) < MaxPlans /\ Len(plans) + changes < MaxInputs
  /\ plans' = Append(plans, [guild |-> g, developer |-> d, dryRun |-> dryRun,
                             targets |-> Targets(g, keep), seen |-> Fingerprint(g, protected[g]),
                             expiresAt |-> clock + PlanTtl, used |-> FALSE])
  /\ UNCHANGED <<clock, guilds, requests, locks, rows, performed, running>>

(* assertPlanUsable *)
Usable(p) == ~plans[p].used /\ clock < plans[p].expiresAt

(* issueResetCode and enqueueConfirmedRequest of the API *)
Confirm(p) ==
  /\ Len(requests) < MaxRequests
  /\ Usable(p)
  /\ requests' = Append(requests, [plan |-> p, status |-> "queued", claimedAt |-> 0])
  /\ UNCHANGED <<clock, guilds, plans, locks, rows, performed, running>>
-----------------------------------------------------------------------------
(* Starting an execution: getActivePlan, getGuildAndAuthorize, and the code or
   the confirmation, spent whatever comes of it. *)

Begun(p, k) == [Idle EXCEPT !.at = "lock", !.plan = p, !.request = k,
                            !.guarded = protected[plans[p].guild]]

(* issueCode and consumeDiscordCode *)
BeginCommand(p) ==
  /\ At("command", "idle")
  /\ Usable(p)
  /\ Moves("command", Begun(p, 0))
  /\ UNCHANGED <<clock, guilds, plans, requests, locks, rows, performed>>

Queued == {k \in DOMAIN requests : requests[k].status = "queued"}

Abandoned(request) == request.status = "running" /\ request.claimedAt + Reclaim < clock

(* The statement that requeues abandoned requests does not see them as queued. *)
Requeued ==
  [k \in DOMAIN requests |->
     IF Abandoned(requests[k]) THEN [requests[k] EXCEPT !.status = "queued", !.claimedAt = 0]
     ELSE requests[k]]

(* claimDashboardRequest by the poll, which waits for the one before to end *)
ClaimDashboardRequest ==
  /\ At("dashboard", "idle")
  /\ IF Queued = {} THEN requests' = Requeued /\ requests' # requests /\ UNCHANGED running
     ELSE LET k == Min(Queued)
              p == requests[k].plan
          IN /\ requests' = [Requeued EXCEPT ![k].status = "running", ![k].claimedAt = clock]
             /\ Moves("dashboard", IF Usable(p) THEN Begun(p, k)
                                   ELSE [Begun(p, k) EXCEPT !.at = "answer"])
  /\ UNCHANGED <<clock, guilds, plans, locks, rows, performed>>
-----------------------------------------------------------------------------
(* Locks and checks *)

(* What is left of an execution that returns: a request to answer. *)
Returned(s) ==
  IF s = "command" THEN Idle ELSE [Idle EXCEPT !.at = "answer", !.request = running[s].request]

Live == [scope \in DOMAIN locks |-> IF locks[scope].until <= clock THEN Free ELSE locks[scope]]

LockFree(g) == Live["global"].holder = "free" /\ Live[g].holder = "free"

(* Mutant: the guild in the column of the execution. *)
Taken_ByGuild(who, scopes) ==
  [scope \in DOMAIN locks |-> IF scope \in scopes THEN [holder |-> scope, until |-> clock + LockTtl]
                              ELSE Live[scope]]

Taken(who, scopes) ==
  [scope \in DOMAIN locks |-> IF scope \in scopes THEN [holder |-> who, until |-> clock + LockTtl]
                              ELSE Live[scope]]

(* acquireLocks; when the second insert throws the global lock is left. *)
AcquireLocks(s) ==
  /\ At(s, "lock")
  /\ \/ /\ LockFree(GuildOf(s))
        /\ locks' = Taken(s, {"global", GuildOf(s)})
        /\ Moves(s, [running[s] EXCEPT !.at = "prepare", !.until = clock + LockTtl])
     \/ /\ LockFree(GuildOf(s))
        /\ locks' = Taken("gone", {"global"})
        /\ Moves(s, Returned(s))
     \/ /\ ~LockFree(GuildOf(s))
        /\ locks' = Live
        /\ Moves(s, Returned(s))
  /\ UNCHANGED <<clock, guilds, plans, requests, rows, performed>>

Within(since, duration) == clock < since + duration

(* Mutant: the guild's cooldown only. *)
Cooling_GuildOnly(p) ==
  \E row \in rows : plans[row.plan].guild = p.guild /\ Within(row.startedAt, GuildCooldown)

(* assertCooldowns *)
Cooling(p) ==
  \E row \in rows :
    \/ plans[row.plan].guild = p.guild /\ Within(row.startedAt, GuildCooldown)
    \/ plans[row.plan].developer = p.developer /\ Within(row.startedAt, DeveloperCooldown)

(* Mutant: the settings are not part of the hash. *)
Matches_GuildOnly(p, shielded) == p.seen = Fingerprint(p.guild, p.seen.protected)

(* assertSnapshotMatches, with the settings read before the locks *)
Matches(p, shielded) == p.seen = Fingerprint(p.guild, shielded)

-----------------------------------------------------------------------------
(* Executing *)

(* The checks of executePlan, the backup of what was seen, read back, and the
   rows of the execution and the backup *)
Prepare(s) ==
  /\ At(s, "prepare")
  /\ PlanOf(s).dryRun \/ ~Cooling(PlanOf(s))
  /\ Matches(PlanOf(s), running[s].guarded)
  /\ Moves(s, [running[s] EXCEPT !.at = "use", !.saved = contents[GuildOf(s)], !.startedAt = clock])
  /\ UNCHANGED <<clock, guilds, tables>>

(* Mutant: the plan is marked used whether or not it was. *)
Unused_Always(p) == TRUE

Unused(p) == ~p.used

UsePlan(s) ==
  /\ At(s, "use")
  /\ Unused(PlanOf(s))
  /\ plans' = [plans EXCEPT ![running[s].plan].used = TRUE]
  /\ performed' = [performed EXCEPT ![running[s].plan] = @ + 1]
  /\ Moves(s, [running[s] EXCEPT !.at = "start"])
  /\ UNCHANGED <<clock, guilds, requests, locks, rows>>

(* performOperations: a dry run only records what it would do. *)
StartOperations(s) ==
  /\ At(s, "start")
  /\ IF PlanOf(s).dryRun
       THEN Moves(s, [running[s] EXCEPT !.at = "operate"]) /\ UNCHANGED rows
       ELSE /\ rows' = rows \cup {[plan |-> running[s].plan, startedAt |-> running[s].startedAt,
                                   late |-> clock >= running[s].until, lost |-> {}]}
            /\ Moves(s, [running[s] EXCEPT !.at = "operate", !.todo = PlanOf(s).targets])
  /\ UNCHANGED <<clock, guilds, plans, requests, locks, performed>>

(* orderChannelTargets, orderRoleTargets: channels, then roles, then settings *)
NextTargets(todo) ==
  IF todo \cap Channel # {} THEN todo \cap Channel
  ELSE IF todo \cap Role # {} THEN todo \cap Role ELSE todo

Deleted(s, i) ==
  /\ i \in contents[GuildOf(s)] \ Elevated(GuildOf(s))
  /\ contents' = [contents EXCEPT ![GuildOf(s)] = @ \ {i}]

(* The execution's row, after it deleted i *)
RowsAfter(s, i) ==
  {IF row.plan = running[s].plan /\ row.startedAt = running[s].startedAt
     THEN [row EXCEPT !.lost = @ \cup ({i} \ (running[s].saved \ running[s].guarded))]
     ELSE row : row \in rows}

(* A target that is gone or that Discord refuses to delete is a failed item. *)
DeleteTarget(s, i) ==
  /\ At(s, "operate") /\ i \in NextTargets(running[s].todo)
  /\ Moves(s, [running[s] EXCEPT !.todo = @ \ {i}])
  /\ \/ Deleted(s, i) /\ rows' = RowsAfter(s, i)
     \/ /\ i \notin contents[GuildOf(s)] \cap Elevated(GuildOf(s))
        /\ UNCHANGED <<rows, contents>>
  /\ UNCHANGED <<clock, changes, elevated, protected, plans, requests, locks, performed>>

(* The end of the operations, or an error: a plan used meanwhile, a role that
   has become protected, a check that refuses, a row that cannot be written. *)
EndExecution(s) ==
  /\ running[s].at \in {"prepare", "use", "start", "operate"}
  /\ Moves(s, [running[s] EXCEPT !.at = "release", !.todo = {}])
  /\ UNCHANGED <<clock, guilds, tables>>

Released(s) ==
  [scope \in DOMAIN locks |-> IF locks[scope].holder = s THEN Free ELSE locks[scope]]

Orphaned(slots) ==
  [scope \in DOMAIN locks |-> IF locks[scope].holder \in slots
                                THEN [locks[scope] EXCEPT !.holder = "gone"] ELSE locks[scope]]

(* releaseLocks in the finally; when it fails the locks are left. *)
ReleaseLocks(s) ==
  /\ At(s, "release")
  /\ locks' = Released(s) \/ locks' = Orphaned({s})
  /\ Moves(s, Returned(s))
  /\ UNCHANGED <<clock, guilds, plans, requests, rows, performed>>

(* The end of processDashboardRequest.  An answer that cannot be written
   leaves the request running; the bound leaves time to requeue it. *)
Answer ==
  LET x == running["dashboard"]
  IN /\ At("dashboard", "answer")
     /\ Moves("dashboard", Idle)
     /\ \/ requests' = [requests EXCEPT ![x.request].status = "answered", ![x.request].claimedAt = 0]
        \/ clock + Reclaim < MaxClock /\ UNCHANGED requests
     /\ UNCHANGED <<clock, guilds, plans, locks, rows, performed>>
-----------------------------------------------------------------------------
(* Surroundings *)

Tick ==
  /\ clock < MaxClock /\ clock' = clock + 1
  /\ UNCHANGED <<guilds, tables, running>>

(* The bot dies, at any moment, and is started again.  While it is down
   nothing happens that could not happen before or after.  The bound leaves
   time to requeue its request. *)
Restart ==
  /\ clock + Reclaim < MaxClock
  /\ running' = [s \in Slot |-> Idle] /\ running' # running
  /\ locks' = Orphaned(Slot)
  /\ UNCHANGED <<clock, guilds, plans, requests, rows, performed>>

Change == Len(plans) + changes < MaxInputs /\ changes' = changes + 1

Raised(ranks, kind, r) == [ranks EXCEPT ![kind] = @ \cup {r}]

GuildChanges(g) ==
  /\ Change
  /\ \/ \E i \in contents[g] : contents' = [contents EXCEPT ![g] = @ \ {i}] /\ UNCHANGED elevated
     \/ /\ \E r \in Role, kind \in {"own", "bot"} :
             elevated' = [elevated EXCEPT ![g] = Raised(@, kind, r)]
        /\ UNCHANGED contents
  /\ UNCHANGED <<clock, protected, tables, running>>

(* PUT of the settings route *)
SettingsChange(g, shielded) ==
  /\ Change /\ shielded # protected[g]
  /\ protected' = [protected EXCEPT ![g] = shielded]
  /\ UNCHANGED <<clock, contents, elevated, tables, running>>
-----------------------------------------------------------------------------
Step(s) ==
  \/ AcquireLocks(s) \/ Prepare(s) \/ UsePlan(s) \/ StartOperations(s)
  \/ \E i \in Item : DeleteTarget(s, i)
  \/ EndExecution(s) \/ ReleaseLocks(s)

Next ==
  \/ \E g \in Guild, d \in Developer, dryRun \in BOOLEAN, keep \in Keep : CreatePlan(g, d, dryRun, keep)
  \/ \E p \in DOMAIN plans : Confirm(p) \/ BeginCommand(p)
  \/ ClaimDashboardRequest \/ Answer
  \/ \E s \in Slot : Step(s)
  \/ Tick \/ Restart
  \/ \E g \in Guild : GuildChanges(g)
  \/ \E g \in Guild, i \in Channel \cup Role : SettingsChange(g, {i})

Spec == Init /\ [][Next]_vars
-----------------------------------------------------------------------------
(* A plan is carried out by one execution at most, although a command and any
   number of requests may confirm it and a request is executed again after the
   bot died. *)
PlanPerformedOnce == \A p \in 1..MaxPlans : performed[p] <= 1

(* Whatever an execution deleted is in the backup it wrote before, and was
   not protected by the settings it was authorised with, although the plan's
   targets were chosen under earlier ones. *)
DeletedWasSaved == \A row \in rows : row.lost = {}

(* Two executions that delete in a guild, or for a developer, start a cooldown
   apart, unless one of them began to delete after its lock had expired. *)
RespectsCooldown ==
  \A first, second \in rows :
    LET p == plans[first.plan]
        q == plans[second.plan]
        Apart(duration) == first.startedAt + duration <= second.startedAt
    IN first # second /\ first.startedAt <= second.startedAt /\ ~first.late /\ ~second.late =>
         /\ p.guild = q.guild => Apart(GuildCooldown)
         /\ p.developer = q.developer => Apart(DeveloperCooldown)
=============================================================================
