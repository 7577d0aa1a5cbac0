----------------------------- MODULE HistoryImport -----------------------------
(***************************************************************************)
(* The import of a guild's message history: the worker in the bot          *)
(* (lib/message-history-import-worker.mjs), its tables in SQLite           *)
(* (lib/storage/repositories/history-import.mjs, message-domain.mjs) and   *)
(* the dashboard's control of it (app/api/history-import/route.ts).        *)
(*                                                                         *)
(* The worker walks each channel from the newest message to the oldest, a  *)
(* page at a time.  A page is recorded in SQLite with a receipt, then the  *)
(* cursor is written to the channel's row in PostgreSQL, from which a      *)
(* later walk goes on.  The dashboard changes those rows between any two   *)
(* queries of the worker; the bot may die between any two of its steps;    *)
(* and messages keep arriving, which the gateway delivers to a bot that is *)
(* up.                                                                     *)
(*                                                                         *)
(* Messages of a channel are numbered by age.  Left out: the progress and  *)
(* retry figures, edits and deletions in Discord, and what SQLite keeps of *)
(* a job's status, which nothing reads.                                    *)
(***************************************************************************)
EXTENDS Integers, Sequences, FiniteSets, FiniteSetsExt

CONSTANTS
  Channel,
  Old,             \* how many messages of a channel are older than the cutoff
  First,           \* how many it has before the bot sees it
  PageSize, MaxPages,
  MaxJobs, MaxMessages, MaxRequests, MaxFaults, MaxDeletions    \* bounds

ASSUME ImportAssumption ==
  /\ {Old, First, MaxJobs, MaxMessages, MaxRequests, MaxFaults, MaxDeletions} \subseteq Nat
  /\ First =< MaxMessages /\ IsFiniteSet(Channel)
  /\ {PageSize, MaxPages} \subseteq Nat \ {0}

VARIABLES
  posted,        \* messages of each channel in Discord
  gateway,       \* messages on their way to the bot
  log,           \* message_event_log: what each message was recorded from
  count,         \* local_message_daily_stats: created messages counted
  receipts,      \* history_import_local_batch
  checkpoint,    \* history_import_local_channel.next_before_message_id
  removals,      \* history_import_local_deletion
  jobs,          \* history_import_job
  progress,      \* history_import_channel_progress
  deletions,     \* the deletion requests of message_import_audit_event
  asking,        \* requests to delete that have looked at the jobs and not been inserted
  worker,
  top, gone,     \* ghosts: newest message of a walk's first page; deleted messages
  requests, faults    \* so far

local == <<log, count, receipts, checkpoint, removals, top, gone>>
cloud == <<jobs, progress, deletions>>
discord == <<posted, gateway>>
vars == <<discord, local, cloud, worker, requests, asking, faults>>

Message == Channel \X (1..MaxMessages)
Job == 1..MaxJobs

Working == {"preparing", "running", "pausing", "cancelling"}
Active == Working \cup {"queued", "paused", "stalled"}
Over == {"completed", "failed", "cancelled"}

(* cursor 0: the walk begins with the newest message. *)
Progress == [status : {"none", "pending", "running", "paused"} \cup Over \cup {"skipped"},
             skip : BOOLEAN, cursor : 0..MaxMessages]

(* passed, later and done are ghosts: the worker was past its look for requests
   when this one was inserted; the messages imported since; SQLite has carried
   it out. *)
Deletion == [state : {"none", "open", "closed"}, started : {"no", "fresh", "old", "again"},
             passed : BOOLEAN, later : SUBSET Message, done : BOOLEAN]

(* at: what the worker does next; as: the status it is about to give. *)
Worker == [at : {"down", "idle", "delete", "deleted", "recover", "claim", "prepare", "begin",
                 "job", "next", "claimed", "channel", "fetch", "save", "cloud", "saved",
                 "settle", "stop", "stopped", "complete", "fail"},
           job : 0..MaxJobs, channel : Channel \cup {"none"}, before : 0..MaxMessages,
           page : SUBSET (1..MaxMessages), pages : 0..MaxPages,
           as : {"", "paused", "skipped"} \cup Over, deletion : 0..MaxDeletions]

Idle == [at |-> "idle", job |-> 0, channel |-> "none", before |-> 0, page |-> {}, pages |-> 0,
         as |-> "", deletion |-> 0]

NoProgress == [status |-> "none", skip |-> FALSE, cursor |-> 0]
NoJob == [status |-> "none", cancel |-> FALSE, pause |-> FALSE]
NoDeletion == [state |-> "none", started |-> "no", passed |-> FALSE, later |-> {},
               done |-> FALSE]

Init ==
  /\ posted = [c \in Channel |-> First] /\ gateway = {}
  /\ log = [m \in Message |-> "none"] /\ count = 0
  /\ receipts = {} /\ checkpoint = [j \in Job |-> [c \in Channel |-> 0]] /\ removals = {}
  /\ jobs = [j \in Job |-> NoJob]
  /\ progress = [j \in Job |-> [c \in Channel |-> NoProgress]]
  /\ deletions = [d \in 1..MaxDeletions |-> NoDeletion]
  /\ asking = 0 /\ worker = Idle
  /\ top = [j \in Job |-> [c \in Channel |-> 0]] /\ gone = {}
  /\ requests = 0 /\ faults = 0

Recorded == {m \in Message : log[m] # "none"}

-----------------------------------------------------------------------------
(* Messages in Discord, and the bot's record of them as they arrive.       *)

(* recordEvent of a created message: one of a higher rank takes the place  *)
(* of an imported one and is not counted again.                            *)
Outranks(source, stored) == stored = "imported" /\ source = "live"

RecordEvents(ms, source) ==
  LET new == {m \in ms : log[m] = "none"}
      taken == {m \in ms : Outranks(source, log[m])}
  IN /\ log' = [m \in Message |-> IF m \in new \cup taken THEN source ELSE log[m]]
     /\ count' = count + Cardinality(new)

Post(c) ==
  /\ posted[c] < MaxMessages
  /\ posted' = [posted EXCEPT ![c] = @ + 1]
  /\ gateway' = IF worker.at = "down" THEN gateway ELSE gateway \cup {<<c, posted'[c]>>}
  /\ UNCHANGED <<local, cloud, worker, requests, asking, faults>>

messageCreate(m) ==
  /\ m \in gateway
  /\ gateway' = gateway \ {m}
  /\ RecordEvents({m}, "live")
  /\ UNCHANGED <<posted, receipts, checkpoint, removals, top, gone, cloud, worker, requests,
                 asking, faults>>

-----------------------------------------------------------------------------
(* The dashboard: each action is one transaction that holds the job's row, *)
(* but for a request to delete, which has none to hold.                    *)

Request == requests < MaxRequests /\ requests' = requests + 1

OneActive(j) == \A i \in Job \ {j} : jobs[i].status \notin Active

SetJob(j, row) == jobs' = [jobs EXCEPT ![j] = row]
SetStatus(j, s) == SetJob(j, [jobs[j] EXCEPT !.status = s])
SetChannels(j, row(_)) ==
  progress' = [progress EXCEPT ![j] = [c \in Channel |-> row(@[c])]]

start(j) ==
  /\ Request
  /\ jobs[j].status = "none" /\ \A i \in 1..(j - 1) : jobs[i].status # "none"
  /\ OneActive(j)
  /\ SetStatus(j, "queued")
  /\ UNCHANGED <<discord, local, progress, deletions, worker, asking, faults>>

pause(j) ==
  /\ Request
  /\ \/ jobs[j].status = "queued" /\ SetStatus(j, "paused")
     \/ /\ jobs[j].status \in {"preparing", "running"}
        /\ SetJob(j, [jobs[j] EXCEPT !.status = "pausing", !.pause = TRUE])
  /\ UNCHANGED <<discord, local, progress, deletions, worker, asking, faults>>

resume(j) ==
  /\ Request
  /\ jobs[j].status \in {"paused", "stalled"}
  /\ SetChannels(j, LAMBDA p : IF p.status \in {"running", "paused"}
                                 THEN [p EXCEPT !.status = "pending", !.skip = FALSE] ELSE p)
  /\ SetJob(j, [status |-> "queued", cancel |-> FALSE, pause |-> FALSE])
  /\ UNCHANGED <<discord, local, deletions, worker, asking, faults>>

cancel(j) ==
  /\ Request
  /\ \/ /\ jobs[j].status \in {"queued", "paused", "stalled"}
        /\ SetChannels(j, LAMBDA p : IF p.status \in {"pending", "running", "paused"}
                                       THEN [p EXCEPT !.status = "cancelled", !.skip = FALSE]
                                       ELSE p)
        /\ SetJob(j, [status |-> "cancelled", cancel |-> FALSE, pause |-> FALSE])
     \/ /\ jobs[j].status \in Working
        /\ SetJob(j, [status |-> "cancelling", cancel |-> TRUE, pause |-> FALSE])
        /\ UNCHANGED progress
  /\ UNCHANGED <<discord, local, deletions, worker, asking, faults>>

reset(j) ==
  /\ Request
  /\ jobs[j].status \notin Working \cup {"none"}
  /\ SetChannels(j, LAMBDA p : NoProgress)
  /\ SetJob(j, [status |-> "cancelled", cancel |-> FALSE, pause |-> FALSE])
  /\ UNCHANGED <<discord, local, deletions, worker, asking, faults>>

retryChannel(j, c) ==
  /\ Request
  /\ progress[j][c].status = "failed"
  /\ progress' = [progress EXCEPT ![j][c].status = "pending", ![j][c].skip = FALSE]
  /\ IF jobs[j].status \in {"completed", "failed", "stalled"}
       THEN OneActive(j) /\ SetStatus(j, "queued")
       ELSE UNCHANGED jobs
  /\ UNCHANGED <<discord, local, deletions, worker, asking, faults>>

skipChannel(j, c) ==
  /\ Request
  /\ progress[j][c].status \in {"pending", "running", "paused", "failed"}
  /\ IF progress[j][c].status = "running" /\ jobs[j].status \in Working
       THEN progress' = [progress EXCEPT ![j][c].skip = TRUE] /\ UNCHANGED jobs
       ELSE /\ progress' = [progress EXCEPT ![j][c].status = "skipped", ![j][c].skip = FALSE]
            /\ IF jobs[j].status = "stalled" THEN SetStatus(j, "queued") ELSE UNCHANGED jobs
  /\ UNCHANGED <<discord, local, deletions, worker, asking, faults>>

(* Where there is no active job, SELECT ... FOR UPDATE holds no row: a job can  *)
(* be started and claimed before the request, which follows, is inserted.      *)
requestDeletion ==
  /\ Request
  /\ \A j \in Job : jobs[j].status \notin Active
  /\ asking < MaxDeletions /\ asking' = asking + 1
  /\ UNCHANGED <<discord, local, cloud, worker, faults>>

LookedForRequests == worker.at \notin {"down", "idle", "delete", "deleted"}

insertDeletionRequest(d) ==
  /\ asking > 0 /\ asking' = asking - 1
  /\ deletions[d].state = "none" /\ \A e \in 1..(d - 1) : deletions[e].state # "none"
  /\ deletions' = [deletions EXCEPT ![d].state = "open", ![d].passed = LookedForRequests]
  /\ UNCHANGED <<discord, local, jobs, progress, worker, requests, faults>>

-----------------------------------------------------------------------------
(* poll: a request to delete comes before any job.                         *)

At(place) == worker.at = place
Go(place) == worker' = [worker EXCEPT !.at = place]
Give(status, place) == worker' = [worker EXCEPT !.at = place, !.as = status]

Claimable(d) ==
  /\ deletions[d].state = "open" /\ deletions[d].started \in {"no", "old"}
  /\ \A e \in 1..(d - 1) : ~(deletions[e].state = "open" /\ deletions[e].started \in {"no", "old"})

claimDeletionRequest ==
  /\ At("idle")
  /\ \/ \E d \in 1..MaxDeletions :
          /\ Claimable(d)
          /\ deletions' = [deletions EXCEPT ![d].started =
                             IF @ = "no" THEN "fresh" ELSE "again"]
          /\ worker' = [Idle EXCEPT !.at = "delete", !.deletion = d]
     \/ /\ \A d \in 1..MaxDeletions : ~Claimable(d)
        /\ Go("recover") /\ UNCHANGED deletions
  /\ UNCHANGED <<discord, local, jobs, progress, requests, asking, faults>>

(* stallSeconds have passed since the request was started. *)
WindowEnds(d) ==
  /\ deletions[d].state = "open" /\ deletions[d].started \in {"fresh", "again"}
  /\ worker.deletion # d
  /\ deletions' = [deletions EXCEPT ![d].started = "old"]
  /\ UNCHANGED <<discord, local, jobs, progress, worker, requests, asking, faults>>

(* rebuildDerivedMessageState, over the events that are left. *)
Rebuilt(rest) == Cardinality(rest)

(* Mutant for DeletionTakesOlderImports: no receipt of the deletion. *)
deleteImportedHistory_NoReceipt ==
  /\ At("delete")
  /\ IF worker.deletion \in removals
       THEN UNCHANGED <<log, count, removals, gone, deletions>>
       ELSE LET ms == {m \in Message : log[m] = "imported"}
            IN /\ log' = [m \in Message |-> IF m \in ms THEN "none" ELSE log[m]]
               /\ count' = Rebuilt(Recorded \ ms)
               /\ UNCHANGED removals
               /\ gone' = gone \cup ms
               /\ deletions' = [deletions EXCEPT ![worker.deletion].done = TRUE]
  /\ Go("deleted")
  /\ UNCHANGED <<discord, receipts, checkpoint, top, jobs, progress, requests, asking, faults>>

deleteImportedHistory ==
  /\ At("delete")
  /\ IF worker.deletion \in removals
       THEN UNCHANGED <<log, count, removals, gone, deletions>>
       ELSE LET ms == {m \in Message : log[m] = "imported"}
            IN /\ log' = [m \in Message |-> IF m \in ms THEN "none" ELSE log[m]]
               /\ count' = Rebuilt(Recorded \ ms)
               /\ removals' = removals \cup {worker.deletion}
               /\ gone' = gone \cup ms
               /\ deletions' = [deletions EXCEPT ![worker.deletion].done = TRUE]
  /\ Go("deleted")
  /\ UNCHANGED <<discord, receipts, checkpoint, top, jobs, progress, requests, asking, faults>>

completeDeletionRequest ==
  /\ At("deleted")
  /\ deletions' = [deletions EXCEPT ![worker.deletion].state = "closed"]
  /\ worker' = Idle
  /\ UNCHANGED <<discord, local, jobs, progress, requests, asking, faults>>

(* Mutant for WorkingJobEnds: only a job that is to run on is looked at. *)
recoverStale_Running ==
  /\ At("recover")
  /\ \/ UNCHANGED jobs
     \/ \E j \in Job : jobs[j].status \in {"preparing", "running"} /\ SetStatus(j, "stalled")
  /\ Go("claim")
  /\ UNCHANGED <<discord, local, progress, deletions, requests, asking, faults>>

(* A job whose heartbeat is old may be one the bot died on. *)
recoverStale ==
  /\ At("recover")
  /\ \/ UNCHANGED jobs
     \/ \E j \in Job : jobs[j].status \in Working /\ SetStatus(j, "stalled")
  /\ Go("claim")
  /\ UNCHANGED <<discord, local, progress, deletions, requests, asking, faults>>

claimNext ==
  /\ At("claim")
  /\ \/ \E j \in Job :
          /\ jobs[j].status = "queued" /\ ~jobs[j].cancel
          /\ SetStatus(j, "preparing")
          /\ worker' = [Idle EXCEPT !.at = "prepare", !.job = j]
     \/ /\ \A j \in Job : ~(jobs[j].status = "queued" /\ ~jobs[j].cancel)
        /\ worker' = Idle /\ UNCHANGED jobs
  /\ UNCHANGED <<discord, local, progress, deletions, requests, asking, faults>>

-----------------------------------------------------------------------------
(* processJob and processChannel, from query to query.                     *)

J == worker.job
C == worker.channel
Row == progress[J][C]

(* prepareChannels: rows of an earlier attempt stay as they are. *)
prepareChannels ==
  /\ At("prepare")
  /\ \E readable \in SUBSET Channel :
       progress' = [progress EXCEPT ![J] = [c \in Channel |->
         IF @[c].status # "none" THEN @[c]
         ELSE [NoProgress EXCEPT !.status = IF c \in readable THEN "pending" ELSE "skipped"]]]
  /\ Go("begin")
  /\ UNCHANGED <<discord, local, jobs, deletions, requests, asking, faults>>

guildBlocked ==
  /\ At("prepare")
  /\ Give("cancelled", "stopped")
  /\ UNCHANGED <<discord, local, cloud, requests, asking, faults>>

begin ==
  /\ At("begin")
  /\ IF jobs[J].status = "preparing"
       THEN SetStatus(J, IF jobs[J].cancel THEN "cancelling"
                         ELSE IF jobs[J].pause THEN "pausing" ELSE "running")
       ELSE UNCHANGED jobs
  /\ Go("job")
  /\ UNCHANGED <<discord, local, progress, deletions, requests, asking, faults>>

(* controlAtBoundary: what was asked of the job by now; of its channel only *)
(* when the worker is on one.                                               *)
Asked(j, skip) ==
  CASE jobs[j].cancel \/ jobs[j].status = "cancelling" -> "cancelled"
    [] jobs[j].pause \/ jobs[j].status = "pausing"     -> "paused"
    [] skip                                            -> "skipped"
    [] OTHER                                           -> ""

jobBoundary ==
  /\ At("job")
  /\ IF Asked(J, FALSE) = "" THEN Go("next") ELSE Give(Asked(J, FALSE), "stopped")
  /\ UNCHANGED <<discord, local, cloud, requests, asking, faults>>

nextChannel ==
  /\ At("next")
  /\ \/ \E c \in Channel :
          /\ progress[J][c].status = "pending"
          /\ progress' = [progress EXCEPT ![J][c].status = "running"]
          /\ worker' = [worker EXCEPT !.at = "claimed", !.channel = c, !.pages = 0,
                                      !.before = progress[J][c].cursor]
     \/ /\ \A c \in Channel : progress[J][c].status # "pending"
        /\ Go("complete") /\ UNCHANGED progress
  /\ UNCHANGED <<discord, local, jobs, deletions, requests, asking, faults>>

(* The job's row is told of its channel. *)
setCurrentChannel ==
  /\ At("claimed")
  /\ Go("channel")
  /\ UNCHANGED <<discord, local, cloud, requests, asking, faults>>

Stopping == Asked(J, Row.skip) # ""

StopAtBoundary ==
  /\ Stopping
  /\ Give(Asked(J, Row.skip), IF Asked(J, Row.skip) = "skipped" THEN "settle" ELSE "stop")

channelBoundary ==
  /\ At("channel")
  /\ \/ StopAtBoundary
     \/ ~Stopping /\ Go("fetch")
  /\ UNCHANGED <<discord, local, cloud, requests, asking, faults>>

(* messages.fetch({limit, before}): the newest ones before it. *)
Page(c, before) ==
  LET end == IF before = 0 THEN posted[c] ELSE before - 1
  IN {n \in 1..end : n > end - PageSize}

fetch ==
  /\ At("fetch")
  /\ worker' = LET page == Page(C, worker.before)
               IN IF page = {} THEN [worker EXCEPT !.at = "settle", !.as = "completed"]
                  ELSE [worker EXCEPT !.at = "save", !.page = page, !.pages = @ + 1]
  /\ UNCHANGED <<discord, local, cloud, requests, asking, faults>>

(* Mutant for CompletedWithoutGap: the key without the page. *)
BatchId_Channel(j, c, before) == <<j, c, 0>>

(* The receipt's key: "start" (0) or the message asked before. *)
BatchId(j, c, before) == <<j, c, before>>

(* saveBatch: one transaction, of which a page with a receipt has no part. *)
saveBatch ==
  /\ At("save")
  /\ LET batch == BatchId(J, C, worker.before)
     IN IF batch \in receipts THEN UNCHANGED <<log, count, receipts, checkpoint, deletions, top>>
        ELSE LET records == {<<C, n>> : n \in worker.page \ 1..Old}
                 new == records \ Recorded
             IN /\ RecordEvents(records, "imported")
                /\ receipts' = receipts \cup {batch}
                /\ checkpoint' = [checkpoint EXCEPT ![J][C] = Min(worker.page)]
                /\ top' = IF worker.before # 0 THEN top
                          ELSE [top EXCEPT ![J][C] = Max(worker.page)]
                /\ deletions' = [d \in 1..MaxDeletions |->
                     IF deletions[d].state = "open"
                       THEN [deletions[d] EXCEPT !.later = @ \cup new] ELSE deletions[d]]
  /\ Go("cloud")
  /\ UNCHANGED <<discord, removals, gone, jobs, progress, requests, asking, faults>>

updateCloud ==
  /\ At("cloud")
  /\ progress' = IF Row.status # "running" THEN progress
                 ELSE [progress EXCEPT ![J][C].cursor = checkpoint[J][C]]
  /\ Go("saved")
  /\ UNCHANGED <<discord, local, jobs, deletions, requests, asking, faults>>

Finished == worker.page \cap 1..Old # {} \/ Cardinality(worker.page) < PageSize

(* Mutant for TypeOK: no limit of pages. *)
pageBoundary_NoLimit ==
  /\ At("saved")
  /\ \/ StopAtBoundary
     \/ ~Stopping /\ Finished /\ Give("completed", "settle")
     \/ /\ ~Stopping /\ ~Finished
        /\ worker' = [worker EXCEPT !.at = "channel", !.before = Min(worker.page), !.page = {}]
  /\ UNCHANGED <<discord, local, cloud, requests, asking, faults>>

pageBoundary ==
  /\ At("saved")
  /\ \/ StopAtBoundary
     \/ ~Stopping /\ Finished /\ Give("completed", "settle")
     \/ ~Stopping /\ ~Finished /\ worker.pages = MaxPages /\ Give("failed", "settle")
     \/ /\ ~Stopping /\ ~Finished /\ worker.pages < MaxPages
        /\ worker' = [worker EXCEPT !.at = "channel", !.before = Min(worker.page), !.page = {}]
  /\ UNCHANGED <<discord, local, cloud, requests, asking, faults>>

settleChannel ==
  /\ At("settle")
  /\ progress' = [progress EXCEPT ![J][C].status = worker.as, ![J][C].skip = FALSE]
  /\ worker' = [Idle EXCEPT !.at = "job", !.job = J]
  /\ UNCHANGED <<discord, local, jobs, deletions, requests, asking, faults>>

(* pause and cancel settle the channel first, then the job. *)
stopChannel ==
  /\ At("stop")
  /\ progress' = [progress EXCEPT ![J][C].status = worker.as, ![J][C].skip = FALSE]
  /\ Go("stopped")
  /\ UNCHANGED <<discord, local, jobs, deletions, requests, asking, faults>>

stopJob ==
  /\ At("stopped")
  /\ \/ /\ worker.as = "paused" /\ jobs[J].status \in {"preparing", "running", "pausing"}
        /\ SetJob(J, [jobs[J] EXCEPT !.status = "paused", !.pause = FALSE])
     \/ /\ worker.as = "cancelled" /\ jobs[J].status \in Active
        /\ SetJob(J, [status |-> "cancelled", cancel |-> FALSE, pause |-> FALSE])
     \/ /\ worker.as = "paused" /\ jobs[J].status \notin {"preparing", "running", "pausing"}
        /\ UNCHANGED jobs
  /\ worker' = Idle
  /\ UNCHANGED <<discord, local, progress, deletions, requests, asking, faults>>

CompletedStatus(s) == IF s \in {"preparing", "running"} THEN "completed" ELSE s

complete ==
  /\ At("complete")
  /\ SetStatus(J, CompletedStatus(jobs[J].status))
  /\ worker' = Idle
  /\ UNCHANGED <<discord, local, progress, deletions, requests, asking, faults>>

fail ==
  /\ At("fail")
  /\ IF jobs[J].status \in Over THEN UNCHANGED jobs ELSE SetStatus(J, "failed")
  /\ worker' = Idle
  /\ UNCHANGED <<discord, local, progress, deletions, requests, asking, faults>>

-----------------------------------------------------------------------------
(* What goes wrong.                                                        *)

Fault == faults < MaxFaults /\ faults' = faults + 1

(* An error while the worker is on a channel fails the channel; one that    *)
(* comes while it settles that, or takes the next one, fails the job; and one *)
(* that comes while it fails the job is dropped.                            *)
OnChannel ==
  \/ worker.at \in {"channel", "fetch", "save", "saved", "stop"}
  \/ At("stopped") /\ C # "none"
  \/ At("settle") /\ worker.as # "failed"

OnJob ==
  \/ worker.at \in {"prepare", "begin", "job", "next", "claimed", "complete"}
  \/ At("stopped") /\ C = "none"
  \/ At("settle") /\ worker.as = "failed"

queryFails ==
  /\ Fault
  /\ \/ OnChannel /\ Give("failed", "settle")
     \/ OnJob /\ Go("fail")
     \/ At("cloud") /\ Go("saved")
     \/ worker.at \in {"fail", "recover", "claim"} /\ worker' = Idle
  /\ UNCHANGED <<discord, local, cloud, requests, asking>>

(* failDeletionRequest, unless the error may go away or that fails as well. *)
deletionFails ==
  /\ Fault
  /\ worker.at \in {"delete", "deleted"}
  /\ \/ deletions' = [deletions EXCEPT ![worker.deletion].state = "closed"]
     \/ UNCHANGED deletions
  /\ worker' = Idle
  /\ UNCHANGED <<discord, local, jobs, progress, requests, asking>>

Crash ==
  /\ Fault
  /\ ~At("down")
  /\ worker' = [Idle EXCEPT !.at = "down"]
  /\ gateway' = {}
  /\ UNCHANGED <<posted, local, cloud, requests, asking>>

Restart ==
  /\ At("down")
  /\ worker' = Idle
  /\ UNCHANGED <<discord, local, cloud, requests, asking, faults>>

-----------------------------------------------------------------------------
Dashboard ==
  \/ \E j \in Job : start(j) \/ pause(j) \/ resume(j) \/ cancel(j) \/ reset(j)
  \/ \E j \in Job, c \in Channel : retryChannel(j, c) \/ skipChannel(j, c)
  \/ requestDeletion \/ \E d \in 1..MaxDeletions : insertDeletionRequest(d)

Deleting == claimDeletionRequest \/ deleteImportedHistory \/ completeDeletionRequest

Importing ==
  \/ recoverStale \/ claimNext \/ prepareChannels \/ guildBlocked \/ begin \/ jobBoundary
  \/ nextChannel \/ setCurrentChannel \/ channelBoundary \/ fetch \/ saveBatch
  \/ updateCloud \/ pageBoundary
  \/ settleChannel \/ stopChannel \/ stopJob \/ complete \/ fail

Next ==
  \/ \E c \in Channel : Post(c)
  \/ \E m \in Message : messageCreate(m)
  \/ \E d \in 1..MaxDeletions : WindowEnds(d)
  \/ Dashboard \/ Deleting \/ Importing
  \/ queryFails \/ deletionFails \/ Crash \/ Restart

Spec == Init /\ [][Next]_vars

(* A host restarts the bot, the bot polls every minute and its queries end; a *)
(* heartbeat that no worker renews is old at some poll.                       *)
FairSpec ==
  /\ Spec
  /\ WF_vars(Restart \/ Deleting \/ Importing)
  /\ SF_vars(recoverStale /\ jobs' # jobs)

-----------------------------------------------------------------------------
(* Every variable has the type the tables and the worker give it. *)
TypeOK ==
  /\ posted \in [Channel -> 0..MaxMessages] /\ gateway \subseteq Message
  /\ log \in [Message -> {"none", "imported", "live"}] /\ count \in Nat
  /\ receipts \subseteq Job \X Channel \X (0..MaxMessages)
  /\ checkpoint \in [Job -> [Channel -> 0..MaxMessages]]
  /\ removals \subseteq 1..MaxDeletions
  /\ jobs \in [Job -> [status : {"none"} \cup Active \cup Over, cancel : BOOLEAN,
                       pause : BOOLEAN]]
  /\ progress \in [Job -> [Channel -> Progress]]
  /\ deletions \in [1..MaxDeletions -> Deletion] /\ asking \in 0..MaxDeletions
  /\ worker \in Worker
  /\ top \in [Job -> [Channel -> 0..MaxMessages]] /\ gone \subseteq Message
  /\ requests \in 0..MaxRequests /\ faults \in 0..MaxFaults

(* A channel a job completed has been walked without a gap, whatever cut the
   walk into pieces: every message since the cutoff that is as old as the
   newest of the walk's first page is recorded, unless the imported history
   was deleted.  What is newer is the gateway's: when the walk begins again
   after a crash, the receipt of its first page also stands for messages that
   came while the bot was down, and those are never recorded. *)
CompletedWithoutGap ==
  \A j \in Job, c \in Channel :
    progress[j][c].status = "completed" =>
      \A n \in (Old + 1)..top[j][c] : <<c, n>> \in Recorded \cup gone

(* However a message reaches the bot, by the gateway, by the import, by both
   in either order, again after a deletion, it is counted once. *)
CountedOnce == count = Cardinality(Recorded)

(* A job that was asked to pause or to cancel does not complete. *)
StoppedJobDoesNotComplete ==
  [][\A j \in Job :
       (jobs[j].cancel \/ jobs[j].pause) /\ jobs'[j].status = "completed"
         => jobs[j].status = "completed"]_vars

(* Whatever happens to the bot, a job that it works on is sooner or later out
   of its hands: finished, stopped, failed, or stalled for the dashboard. *)
WorkingJobEnds ==
  \A j \in Job : jobs[j].status \in Working ~> jobs[j].status \notin Working

(* A request to delete the imported history takes no message that came live,
   and takes once: a worker that begins it again, since the one before died or
   failed before the dashboard's row was closed, takes nothing of what the jobs
   imported meanwhile.  What was imported after the request was inserted it
   takes in two cases only: the worker was past its look for requests by then,
   in a poll or on a job that was started while the request was being made; or
   it had been begun and not carried out, and jobs run until stallSeconds are
   over.  And when it is answered, nothing imported before it is left. *)
DeletionTakesOlderImports ==
  [][LET d == deletions[worker.deletion]
     IN /\ \A m \in Message : log[m] # "none" /\ log'[m] = "none" =>
             /\ log[m] = "imported" /\ ~d.done
             /\ m \in d.later => d.passed \/ d.started = "again"
        /\ At("deleted") => \A m \in Message : log[m] = "imported" => m \in d.later]_vars
=============================================================================
