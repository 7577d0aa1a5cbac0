------------------------- MODULE HistoryImportProofs -------------------------
(***************************************************************************)
(* Safety of the history import for any number of channels, messages, jobs *)
(* and deletion requests, any page size and any faults.                    *)
(***************************************************************************)
EXTENDS HistoryImport, FiniteSetTheorems, TLAPS

Walking == {"claimed", "channel", "fetch", "save", "cloud", "saved"}
JobPlaces == Walking \cup {"prepare", "begin", "job", "next", "settle", "stop", "stopped",
                           "complete", "fail"}
DeletionPlaces == {"delete", "deleted"}

(* A page whose newest message is e. *)
PageOf(e) == {n \in 1..e : n > e - PageSize}

(* What the place of the worker says of the worker and of the rows it has in
   hand: nobody else moves them out of their state. *)
PlaceOK ==
  /\ worker.at \in JobPlaces => J \in Job /\ jobs[J].status \in Working
  /\ worker.at \in Walking => C \in Channel /\ progress[J][C].status = "running"
  /\ worker.at \in {"claimed", "channel", "fetch"} => worker.pages < MaxPages
  /\ worker.at \in {"save", "cloud", "saved"} => \E e \in 1..MaxMessages : worker.page = PageOf(e)
  /\ worker.at = "settle" => C \in Channel /\ worker.as \in {"completed", "failed", "skipped"}
  /\ worker.at = "stop" => C \in Channel
  /\ worker.at \in {"stop", "stopped"} => worker.as \in {"paused", "cancelled"}
  /\ worker.at \in DeletionPlaces => worker.deletion \in 1..MaxDeletions

LEMMA Bounds ==
  /\ Old \in Nat /\ First \in 0..MaxMessages /\ MaxJobs \in Nat /\ MaxMessages \in Nat
  /\ MaxRequests \in Nat /\ MaxFaults \in Nat /\ MaxDeletions \in Nat
  /\ PageSize \in Nat /\ PageSize > 0 /\ MaxPages \in Nat /\ MaxPages > 0
BY ImportAssumption

(* The page that ends at e, its oldest and its newest message. *)
LEMMA PageEnds ==
  ASSUME NEW e \in Nat \ {0}
  PROVE  /\ Min(PageOf(e)) = IF e > PageSize THEN e - PageSize + 1 ELSE 1
         /\ Max(PageOf(e)) = e
<1> USE Bounds
<1> DEFINE low == IF e > PageSize THEN e - PageSize + 1 ELSE 1
<1>1. PageOf(e) = low..e /\ low \in 1..e
  BY DEF PageOf
<1>2. low \in low..e /\ e \in low..e /\ \A n \in low..e : low =< n /\ e >= n
  BY <1>1
<1>3. Min(PageOf(e)) = low
  <2>1. \E x \in PageOf(e) : \A y \in PageOf(e) : x =< y
    BY <1>1, <1>2
  <2>2. Min(PageOf(e)) \in PageOf(e) /\ \A y \in PageOf(e) : Min(PageOf(e)) =< y
    BY <2>1 DEF Min
  <2>3. Min(PageOf(e)) \in low..e /\ Min(PageOf(e)) =< low
    BY <1>1, <1>2, <2>2
  <2>4. QED
    BY <1>1, <2>3
<1>4. Max(PageOf(e)) = e
  <2>1. \E x \in PageOf(e) : \A y \in PageOf(e) : x >= y
    BY <1>1, <1>2
  <2>2. Max(PageOf(e)) \in PageOf(e) /\ \A y \in PageOf(e) : Max(PageOf(e)) >= y
    BY <2>1 DEF Max
  <2>3. Max(PageOf(e)) \in low..e /\ Max(PageOf(e)) >= e
    BY <1>1, <1>2, <2>2
  <2>4. QED
    BY <1>1, <2>3
<1>5. QED
  BY <1>3, <1>4

LEMMA MessagesFinite ==
  \A ms \in SUBSET Message : IsFiniteSet(ms) /\ Cardinality(ms) \in Nat
<1>1. IsFiniteSet(1..MaxMessages)
  BY Bounds, FS_Interval
<1>2. IsFiniteSet(Channel)
  BY ImportAssumption
<1>3. IsFiniteSet(Message)
  BY <1>1, <1>2, FS_Product DEF Message
<1>4. QED
  BY <1>3, FS_Subset, FS_CardinalityType

LEMMA InitTypes == Init => TypeOK /\ PlaceOK
<1> USE Bounds
<1> SUFFICES ASSUME Init PROVE TypeOK /\ PlaceOK
  OBVIOUS
<1>1. PlaceOK
  BY DEF Init, PlaceOK, Idle, Walking, JobPlaces, DeletionPlaces
<1>2. worker \in Worker
  <2>1. 0 \in 0..MaxJobs /\ 0 \in 0..MaxMessages /\ 0 \in 0..MaxPages /\ 0 \in 0..MaxDeletions
        /\ {} \in SUBSET (1..MaxMessages)
    OBVIOUS
  <2>2. QED
    BY <2>1 DEF Init, Worker, Idle
<1>3. progress \in [Job -> [Channel -> Progress]]
  BY DEF Init, NoProgress, Progress, Over
<1>4. deletions \in [1..MaxDeletions -> Deletion]
  BY DEF Init, NoDeletion, Deletion
<1>5. jobs \in [Job -> [status : {"none"} \cup Active \cup Over, cancel : BOOLEAN, pause : BOOLEAN]]
  BY DEF Init, NoJob
<1>6. /\ posted \in [Channel -> 0..MaxMessages]
      /\ checkpoint \in [Job -> [Channel -> 0..MaxMessages]]
      /\ top \in [Job -> [Channel -> 0..MaxMessages]]
      /\ log \in [Message -> {"none", "imported", "live"}]
  BY DEF Init
<1>7. /\ gateway \subseteq Message /\ gone \subseteq Message /\ removals \subseteq 1..MaxDeletions
      /\ receipts \subseteq Job \X Channel \X (0..MaxMessages)
      /\ count \in Nat /\ requests \in 0..MaxRequests /\ faults \in 0..MaxFaults
      /\ asking \in 0..MaxDeletions
  BY DEF Init
<1>8. QED
  BY <1>1, <1>2, <1>3, <1>4, <1>5, <1>6, <1>7 DEF TypeOK

JobRow == [status : {"none"} \cup Active \cup Over, cancel : BOOLEAN, pause : BOOLEAN]

LEMMA JobTypes == TypeOK => jobs \in [Job -> JobRow]
BY DEF TypeOK, JobRow

LEMMA ProgressTypes == TypeOK => progress \in [Job -> [Channel -> Progress]]
BY DEF TypeOK

(* The row of one channel is written, and the rows of a job. *)
LEMMA RowSet ==
  ASSUME TypeOK, NEW j \in Job, NEW c \in Channel, NEW row \in Progress,
         progress' = [progress EXCEPT ![j][c] = row]
  PROVE  /\ progress' \in [Job -> [Channel -> Progress]]
         /\ progress'[j][c] = row
         /\ \A i \in Job, d \in Channel : i # j \/ d # c => progress'[i][d] = progress[i][d]
BY ProgressTypes

LEMMA RowsSet ==
  ASSUME TypeOK, NEW j \in Job, NEW rows \in [Channel -> Progress],
         progress' = [progress EXCEPT ![j] = rows]
  PROVE  /\ progress' \in [Job -> [Channel -> Progress]]
         /\ progress'[j] = rows
         /\ \A i \in Job \ {j} : progress'[i] = progress[i]
BY ProgressTypes

(* What the writes put into a row. *)
Settled(p, s) == [p EXCEPT !.status = s, !.skip = FALSE]
Skipping(p) == [p EXCEPT !.skip = TRUE]
RowStatus == {"none", "pending", "running", "paused"} \cup Over \cup {"skipped"}

LEMMA RowTypes ==
  ASSUME NEW p \in Progress
  PROVE  /\ p.cursor \in 0..MaxMessages /\ p.status \in RowStatus
         /\ \A s \in RowStatus : Settled(p, s) \in Progress /\ Settled(p, s).status = s
         /\ Skipping(p) \in Progress /\ Skipping(p).status = p.status
         /\ NoProgress \in Progress
<1>1. p.cursor \in 0..MaxMessages /\ p.status \in RowStatus
  BY DEF Progress, RowStatus
<1>2. ASSUME NEW s \in RowStatus
      PROVE  Settled(p, s) \in Progress /\ Settled(p, s).status = s
  BY DEF Settled, Progress, RowStatus
<1>3. Skipping(p) \in Progress /\ Skipping(p).status = p.status
  BY DEF Skipping, Progress, RowStatus
<1>4. NoProgress \in Progress
  BY Bounds DEF NoProgress, Progress
<1>5. QED
  BY <1>1, <1>2, <1>3, <1>4

(* Messages come and are recorded without a word to the worker. *)
LEMMA MessageTypes ==
  ASSUME TypeOK, PlaceOK,
         \/ \E c \in Channel : Post(c)
         \/ \E m \in Message : messageCreate(m)
  PROVE  TypeOK' /\ PlaceOK'
<1> USE Bounds
<1>1. CASE \E c \in Channel : Post(c)
  <2> PICK c \in Channel : Post(c)
    BY <1>1
  <2>1. posted' \in [Channel -> 0..MaxMessages]
    BY DEF Post, TypeOK
  <2>2. gateway' \subseteq Message
    BY <2>1 DEF Post, TypeOK, Message
  <2>3. PlaceOK'
    <3>1. UNCHANGED <<jobs, progress, worker>>
      BY DEF Post, cloud
    <3>2. QED
      BY <3>1 DEF PlaceOK, J, C, PageOf
  <2>4. QED
    BY <2>1, <2>2, <2>3 DEF Post, TypeOK, local, cloud
<1>2. CASE \E m \in Message : messageCreate(m)
  <2> PICK m \in Message : messageCreate(m)
    BY <1>2
  <2>1. log' \in [Message -> {"none", "imported", "live"}]
    BY DEF messageCreate, RecordEvents, TypeOK
  <2>2. Cardinality({x \in {m} : log[x] = "none"}) \in Nat
    BY MessagesFinite
  <2>3. count' \in Nat
    BY <2>2 DEF messageCreate, RecordEvents, TypeOK
  <2>4. PlaceOK'
    BY DEF messageCreate, cloud, PlaceOK, J, C, PageOf
  <2>5. QED
    BY <2>1, <2>3, <2>4 DEF messageCreate, TypeOK, cloud
<1>3. QED
  BY <1>1, <1>2

(* A change of the dashboard that gives rows of their types, and leaves a job
   that is worked on at work and a channel that is walked running. *)
LEMMA RowChange ==
  ASSUME TypeOK, PlaceOK,
         UNCHANGED <<discord, local, deletions, worker, asking, faults>>,
         requests' \in 0..MaxRequests,
         jobs' \in [Job -> JobRow], progress' \in [Job -> [Channel -> Progress]],
         \A j \in Job : jobs[j].status \in Working =>
           /\ jobs'[j].status \in Working
           /\ \A c \in Channel : progress[j][c].status = "running" =>
                progress'[j][c].status = "running"
  PROVE  TypeOK' /\ PlaceOK'
<1>1. TypeOK'
  BY DEF TypeOK, JobRow, discord, local
<1>2. UNCHANGED <<worker, posted>>
  BY DEF discord
<1>3. (worker.at \in JobPlaces)' => J' \in Job /\ jobs'[J'].status \in Working
  BY <1>2 DEF PlaceOK, J
<1>4. (worker.at \in Walking)' => C' \in Channel /\ progress'[J'][C'].status = "running"
  BY <1>2 DEF PlaceOK, J, C, JobPlaces
<1>5. PlaceOK'
  BY <1>2, <1>3, <1>4 DEF PlaceOK, J, C, PageOf, Walking
<1>6. QED
  BY <1>1, <1>5

LEMMA DashboardTypes ==
  ASSUME TypeOK, PlaceOK, Dashboard
  PROVE  TypeOK' /\ PlaceOK'
<1> USE Bounds, JobTypes
<1>0. ASSUME Request PROVE requests' \in 0..MaxRequests
  BY <1>0 DEF Request, TypeOK
<1>1. ASSUME NEW j \in Job, start(j)
      PROVE  TypeOK' /\ PlaceOK'
  <2>1. jobs' = [jobs EXCEPT ![j] = [jobs[j] EXCEPT !.status = "queued"]]
    BY <1>1 DEF start, SetStatus, SetJob
  <2>2. jobs' \in [Job -> JobRow]
    BY <2>1 DEF JobRow, Active
  <2>3. \A i \in Job : jobs[i].status \in Working => jobs'[i].status \in Working
    BY <1>1, <2>1 DEF start, Working
  <2>4. QED
    BY <1>0, <1>1, <2>2, <2>3, RowChange DEF start, TypeOK
<1>2. ASSUME NEW j \in Job, pause(j)
      PROVE  TypeOK' /\ PlaceOK'
  <2>1. /\ jobs[j].status \in {"queued", "preparing", "running"}
        /\ \/ jobs[j].status = "queued"
              /\ jobs' = [jobs EXCEPT ![j] = [jobs[j] EXCEPT !.status = "paused"]]
           \/ jobs' = [jobs EXCEPT ![j] = [jobs[j] EXCEPT !.status = "pausing", !.pause = TRUE]]
    BY <1>2 DEF pause, SetStatus, SetJob
  <2>2. jobs' \in [Job -> JobRow]
    BY <2>1 DEF JobRow, Active, Working
  <2>3. \A i \in Job : jobs[i].status \in Working => jobs'[i].status \in Working
    BY <2>1 DEF Working, JobRow
  <2>4. QED
    BY <1>0, <1>2, <2>2, <2>3, RowChange DEF pause, TypeOK
<1>3. ASSUME NEW j \in Job, resume(j)
      PROVE  TypeOK' /\ PlaceOK'
  <2>1. jobs' \in [Job -> JobRow] /\ \A i \in Job \ {j} : jobs'[i] = jobs[i]
    BY <1>3 DEF resume, SetJob, JobRow, Active
  <2> DEFINE rows == [c \in Channel |->
               IF progress[j][c].status \in {"running", "paused"}
                 THEN Settled(progress[j][c], "pending") ELSE progress[j][c]]
  <2>a. progress' = [progress EXCEPT ![j] = rows]
    BY <1>3 DEF resume, SetChannels, Settled
  <2>b. rows \in [Channel -> Progress]
    BY ProgressTypes, RowTypes DEF RowStatus
  <2>2. /\ progress' \in [Job -> [Channel -> Progress]]
        /\ \A i \in Job \ {j} : progress'[i] = progress[i]
    BY <2>a, <2>b, RowsSet
  <2>3. jobs[j].status \notin Working
    BY <1>3 DEF resume, Working
  <2>4. QED
    BY <1>0, <1>3, <2>1, <2>2, <2>3, RowChange DEF resume
<1>4. ASSUME NEW j \in Job, cancel(j)
      PROVE  TypeOK' /\ PlaceOK'
  <2>1. CASE jobs[j].status \in {"queued", "paused", "stalled"} /\ jobs[j].status \notin Working
    <3> DEFINE rows == [c \in Channel |->
                 IF progress[j][c].status \in {"pending", "running", "paused"}
                   THEN Settled(progress[j][c], "cancelled") ELSE progress[j][c]]
    <3>a. /\ progress' = [progress EXCEPT ![j] = rows]
          /\ jobs' = [jobs EXCEPT ![j] =
                       [status |-> "cancelled", cancel |-> FALSE, pause |-> FALSE]]
      BY <1>4, <2>1 DEF cancel, SetChannels, SetJob, Settled
    <3>b. rows \in [Channel -> Progress]
      BY ProgressTypes, RowTypes DEF Over, RowStatus
    <3>1. jobs' \in [Job -> JobRow] /\ \A i \in Job \ {j} : jobs'[i] = jobs[i]
      BY <3>a DEF JobRow, Over
    <3>2. /\ progress' \in [Job -> [Channel -> Progress]]
          /\ \A i \in Job \ {j} : progress'[i] = progress[i]
      BY <3>a, <3>b, RowsSet
    <3>3. QED
      BY <1>0, <1>4, <2>1, <3>1, <3>2, RowChange DEF cancel
  <2>2. CASE jobs[j].status \in Working /\ jobs[j].status \notin {"queued", "paused", "stalled"}
    <3>1. /\ jobs' = [jobs EXCEPT ![j] =
                       [status |-> "cancelling", cancel |-> TRUE, pause |-> FALSE]]
          /\ progress' = progress
      BY <1>4, <2>2 DEF cancel, SetJob
    <3>2. jobs' \in [Job -> JobRow]
      BY <3>1 DEF JobRow, Active, Working
    <3>3. \A i \in Job : jobs[i].status \in Working => jobs'[i].status \in Working
      BY <3>1 DEF Working
    <3>4. QED
      BY <1>0, <1>4, <3>1, <3>2, <3>3, RowChange DEF cancel, TypeOK
  <2>3. QED
    BY <1>4, <2>1, <2>2 DEF cancel, Working
<1>5. ASSUME NEW j \in Job, reset(j)
      PROVE  TypeOK' /\ PlaceOK'
  <2>1. jobs' \in [Job -> JobRow] /\ \A i \in Job \ {j} : jobs'[i] = jobs[i]
    BY <1>5 DEF reset, SetJob, JobRow, Over
  <2>2. /\ progress' \in [Job -> [Channel -> Progress]]
        /\ \A i \in Job \ {j} : progress'[i] = progress[i]
    <3>1. progress' = [progress EXCEPT ![j] = [c \in Channel |-> NoProgress]]
      BY <1>5 DEF reset, SetChannels
    <3>2. [c \in Channel |-> NoProgress] \in [Channel -> Progress]
      BY ProgressTypes, RowTypes
    <3>3. QED
      BY <3>1, <3>2, RowsSet
  <2>3. jobs[j].status \notin Working
    BY <1>5 DEF reset
  <2>4. QED
    BY <1>0, <1>5, <2>1, <2>2, <2>3, RowChange DEF reset
<1>6. ASSUME NEW j \in Job, NEW c \in Channel, retryChannel(j, c)
      PROVE  TypeOK' /\ PlaceOK'
  <2>1. /\ progress' = [progress EXCEPT ![j][c] = Settled(progress[j][c], "pending")]
        /\ progress[j][c].status # "running"
    BY <1>6, ProgressTypes DEF retryChannel, Settled
  <2>2. /\ progress' \in [Job -> [Channel -> Progress]]
        /\ \A i \in Job, d \in Channel : progress[i][d].status = "running" =>
             progress'[i][d].status = "running"
    BY <2>1, ProgressTypes, RowTypes, RowSet DEF RowStatus
  <2>3. \/ UNCHANGED jobs
        \/ /\ jobs' = [jobs EXCEPT ![j] = [jobs[j] EXCEPT !.status = "queued"]]
           /\ jobs[j].status \notin Working
    BY <1>6 DEF retryChannel, SetStatus, SetJob, Working
  <2>4. /\ jobs' \in [Job -> JobRow]
        /\ \A i \in Job : jobs[i].status \in Working => jobs'[i].status \in Working
    BY <2>3 DEF JobRow, Active
  <2>5. QED
    BY <1>0, <1>6, <2>2, <2>4, RowChange DEF retryChannel
<1>7. ASSUME NEW j \in Job, NEW c \in Channel, skipChannel(j, c)
      PROVE  TypeOK' /\ PlaceOK'
  <2>1. \/ /\ progress' = [progress EXCEPT ![j][c] = Skipping(progress[j][c])]
           /\ UNCHANGED jobs
        \/ /\ ~(progress[j][c].status = "running" /\ jobs[j].status \in Working)
           /\ progress' = [progress EXCEPT ![j][c] = Settled(progress[j][c], "skipped")]
           /\ \/ UNCHANGED jobs
              \/ /\ jobs' = [jobs EXCEPT ![j] = [jobs[j] EXCEPT !.status = "queued"]]
                 /\ jobs[j].status \notin Working
    BY <1>7, ProgressTypes DEF skipChannel, SetStatus, SetJob, Working, Skipping, Settled
  <2>a. \E row \in Progress :
          /\ progress' = [progress EXCEPT ![j][c] = row]
          /\ jobs[j].status \in Working /\ progress[j][c].status = "running" =>
               row.status = "running"
    <3>1. progress[j][c] \in Progress
      BY ProgressTypes
    <3>2. /\ Skipping(progress[j][c]) \in Progress
          /\ Skipping(progress[j][c]).status = progress[j][c].status
          /\ Settled(progress[j][c], "skipped") \in Progress
      BY <3>1, RowTypes DEF RowStatus
    <3>3. QED
      BY <2>1, <3>2
  <2> PICK row \in Progress :
          /\ progress' = [progress EXCEPT ![j][c] = row]
          /\ jobs[j].status \in Working /\ progress[j][c].status = "running" =>
               row.status = "running"
    BY <2>a
  <2>2. /\ progress' \in [Job -> [Channel -> Progress]]
        /\ progress'[j][c] = row
        /\ \A i \in Job, d \in Channel : i # j \/ d # c => progress'[i][d] = progress[i][d]
    BY RowSet
  <2>3. /\ jobs' \in [Job -> JobRow]
        /\ \A i \in Job : jobs[i].status \in Working => jobs'[i].status \in Working
    BY <2>1 DEF JobRow, Active
  <2>4. \A i \in Job, d \in Channel :
          jobs[i].status \in Working /\ progress[i][d].status = "running" =>
            progress'[i][d].status = "running"
    BY <2>2
  <2>5. QED
    BY <1>0, <1>7, <2>2, <2>3, <2>4, RowChange DEF skipChannel
<1>8. CASE requestDeletion
  <2>1. asking' \in 0..MaxDeletions
    BY <1>8 DEF requestDeletion, TypeOK
  <2>2. TypeOK'
    BY <1>0, <1>8, <2>1 DEF requestDeletion, TypeOK, discord, local, cloud
  <2>3. PlaceOK'
    BY <1>8 DEF requestDeletion, discord, cloud, PlaceOK, J, C, PageOf
  <2>4. QED
    BY <2>2, <2>3
<1>9. ASSUME NEW d \in 1..MaxDeletions, insertDeletionRequest(d)
      PROVE  TypeOK' /\ PlaceOK'
  <2> DEFINE row == [deletions[d] EXCEPT !.state = "open", !.passed = LookedForRequests]
  <2>1. deletions' = [deletions EXCEPT ![d] = row] /\ row \in Deletion
    <3>1. deletions[d] \in Deletion /\ LookedForRequests \in BOOLEAN
      BY DEF TypeOK, LookedForRequests
    <3>2. deletions' = [deletions EXCEPT ![d] = row]
      BY <1>9 DEF insertDeletionRequest, TypeOK
    <3>3. row \in Deletion
      BY <3>1 DEF Deletion
    <3>4. QED
      BY <3>2, <3>3
  <2>2. deletions' \in [1..MaxDeletions -> Deletion] /\ asking' \in 0..MaxDeletions
    BY <1>9, <2>1 DEF insertDeletionRequest, TypeOK
  <2>3. TypeOK'
    BY <1>9, <2>2 DEF insertDeletionRequest, TypeOK, discord, local
  <2>4. PlaceOK'
    BY <1>9 DEF insertDeletionRequest, discord, PlaceOK, J, C, PageOf
  <2>5. QED
    BY <2>3, <2>4
<1>10. QED
  BY <1>1, <1>2, <1>3, <1>4, <1>5, <1>6, <1>7, <1>8, <1>9 DEF Dashboard

(* The worker's own record. *)
Place == {"down", "idle", "delete", "deleted", "recover", "claim", "prepare", "begin", "job",
          "next", "claimed", "channel", "fetch", "save", "cloud", "saved", "settle", "stop",
          "stopped", "complete", "fail"}
Outcome == {"", "paused", "skipped"} \cup Over

LEMMA WorkerFields ==
  ASSUME TypeOK
  PROVE  /\ worker \in Worker /\ worker.at \in Place /\ worker.as \in Outcome
         /\ worker.job \in 0..MaxJobs /\ worker.channel \in Channel \cup {"none"}
         /\ worker.before \in 0..MaxMessages /\ worker.page \subseteq 1..MaxMessages
         /\ worker.pages \in 0..MaxPages /\ worker.deletion \in 0..MaxDeletions
BY DEF TypeOK, Worker, Place, Outcome

LEMMA GoStep ==
  ASSUME TypeOK, NEW p \in Place, Go(p)
  PROVE  /\ worker' \in Worker /\ worker'.at = p /\ worker'.job = worker.job
         /\ worker'.channel = worker.channel /\ worker'.before = worker.before
         /\ worker'.page = worker.page /\ worker'.pages = worker.pages
         /\ worker'.as = worker.as /\ worker'.deletion = worker.deletion
<1>1. worker \in Worker
  BY DEF TypeOK
<1>2. QED
  BY <1>1 DEF Go, Worker, Place

LEMMA GiveStep ==
  ASSUME TypeOK, NEW p \in Place, NEW s \in Outcome, Give(s, p)
  PROVE  /\ worker' \in Worker /\ worker'.at = p /\ worker'.job = worker.job
         /\ worker'.channel = worker.channel /\ worker'.before = worker.before
         /\ worker'.page = worker.page /\ worker'.pages = worker.pages
         /\ worker'.as = s /\ worker'.deletion = worker.deletion
<1>1. worker \in Worker
  BY DEF TypeOK
<1>2. QED
  BY <1>1 DEF Give, Worker, Place, Outcome

LEMMA IdleTypes ==
  /\ Idle \in Worker /\ Idle.at = "idle"
  /\ [Idle EXCEPT !.at = "down"] \in Worker /\ [Idle EXCEPT !.at = "down"].at = "down"
  /\ \A d \in 1..MaxDeletions : LET w == [Idle EXCEPT !.at = "delete", !.deletion = d]
                                IN w \in Worker /\ w.at = "delete" /\ w.deletion = d
<1> USE Bounds
<1>0. Idle \in Worker /\ Idle.at = "idle"
  BY DEF Idle, Worker
<1>1. [Idle EXCEPT !.at = "down"] \in Worker /\ [Idle EXCEPT !.at = "down"].at = "down"
  BY <1>0 DEF Worker
<1>2. ASSUME NEW d \in 1..MaxDeletions
      PROVE  LET w == [Idle EXCEPT !.at = "delete", !.deletion = d]
             IN w \in Worker /\ w.at = "delete" /\ w.deletion = d
  <2> DEFINE w == [Idle EXCEPT !.at = "delete", !.deletion = d]
  <2>1. d \in 0..MaxDeletions
    OBVIOUS
  <2>2. w \in Worker
    BY <1>0, <2>1 DEF Worker
  <2>3. w.at = "delete" /\ w.deletion = d
    BY <1>0 DEF Worker
  <2>4. QED
    BY <2>2, <2>3
<1>3. QED
  BY <1>0, <1>1, <1>2

LEMMA IdleJob ==
  ASSUME NEW j \in Job, NEW p \in Place
  PROVE  /\ [Idle EXCEPT !.at = p, !.job = j] \in Worker
         /\ [Idle EXCEPT !.at = p, !.job = j].at = p
         /\ [Idle EXCEPT !.at = p, !.job = j].job = j
<1>1. j \in 0..MaxJobs
  BY Bounds DEF Job
<1>2. [Idle EXCEPT !.at = p, !.job = j] \in Worker
  BY <1>1, IdleTypes DEF Worker, Place
<1>3. /\ [Idle EXCEPT !.at = p, !.job = j].at = p
      /\ [Idle EXCEPT !.at = p, !.job = j].job = j
  BY DEF Idle
<1>4. QED
  BY <1>2, <1>3

(* A step that leaves SQLite as it is. *)
LEMMA CloudStep ==
  ASSUME TypeOK, UNCHANGED <<posted, local>>, gateway' \subseteq gateway,
         jobs' \in [Job -> JobRow], progress' \in [Job -> [Channel -> Progress]],
         deletions' \in [1..MaxDeletions -> Deletion], worker' \in Worker,
         requests' \in 0..MaxRequests, faults' \in 0..MaxFaults,
         asking' \in 0..MaxDeletions
  PROVE  TypeOK'
BY DEF TypeOK, JobRow, local

(* With no job, channel or request in hand nothing is said of the worker. *)
LEMMA IdlePlace ==
  ASSUME worker'.at \in {"down", "idle", "recover", "claim"}
  PROVE  PlaceOK'
BY DEF PlaceOK, JobPlaces, Walking, DeletionPlaces

(* The deletion requests: their rows, and the events that go. *)
LEMMA DeletingTypes ==
  ASSUME TypeOK, PlaceOK,
         Deleting \/ \E d \in 1..MaxDeletions : WindowEnds(d)
  PROVE  TypeOK' /\ PlaceOK'
<1> USE Bounds, JobTypes, ProgressTypes
<1>a. deletions \in [1..MaxDeletions -> Deletion]
  BY DEF TypeOK
<1>b. ASSUME NEW d \in 1..MaxDeletions, NEW s \in {"fresh", "old", "again"}
      PROVE  [deletions[d] EXCEPT !.started = s] \in Deletion
  BY <1>a DEF Deletion
<1>c. requests \in 0..MaxRequests /\ faults \in 0..MaxFaults /\ asking \in 0..MaxDeletions
  BY DEF TypeOK
<1>1. CASE claimDeletionRequest
  <2>1. CASE Go("recover") /\ UNCHANGED deletions
    <3>1. worker' \in Worker /\ worker'.at = "recover"
      BY <2>1, GoStep DEF Place
    <3>2. TypeOK'
      BY <1>1, <1>a, <1>c, <2>1, <3>1, CloudStep DEF claimDeletionRequest, discord
    <3>3. QED
      BY <3>1, <3>2, IdlePlace
  <2>2. ASSUME NEW d \in 1..MaxDeletions,
               deletions' = [deletions EXCEPT ![d].started = IF @ = "no" THEN "fresh" ELSE "again"],
               worker' = [Idle EXCEPT !.at = "delete", !.deletion = d]
        PROVE  TypeOK' /\ PlaceOK'
    <3>1. worker' \in Worker /\ worker'.at = "delete" /\ worker'.deletion = d
      BY <2>2, IdleTypes
    <3>2. deletions' \in [1..MaxDeletions -> Deletion]
      BY <1>a, <1>b, <2>2
    <3>3. TypeOK'
      BY <1>1, <1>c, <3>1, <3>2, CloudStep DEF claimDeletionRequest, discord
    <3>4. PlaceOK'
      BY <3>1 DEF PlaceOK, JobPlaces, Walking, DeletionPlaces
    <3>5. QED
      BY <3>3, <3>4
  <2>3. QED
    BY <1>1, <2>1, <2>2 DEF claimDeletionRequest
<1>2. CASE deleteImportedHistory
  <2>0. At("delete") /\ worker.deletion \in 1..MaxDeletions
    BY <1>2 DEF deleteImportedHistory, At, PlaceOK, DeletionPlaces
  <2>1. worker' \in Worker /\ worker'.at = "deleted" /\ worker'.deletion = worker.deletion
    BY <1>2, GoStep DEF deleteImportedHistory, Place
  <2> DEFINE ms == {m \in Message : log[m] = "imported"}
  <2>2. /\ log' \in [Message -> {"none", "imported", "live"}] /\ count' \in Nat
        /\ removals' \subseteq 1..MaxDeletions /\ gone' \subseteq Message
        /\ deletions' \in [1..MaxDeletions -> Deletion]
    <3>1. CASE worker.deletion \in removals
      BY <1>2, <3>1 DEF deleteImportedHistory, TypeOK
    <3>2. CASE worker.deletion \notin removals
      <4>1. /\ log' = [m \in Message |-> IF m \in ms THEN "none" ELSE log[m]]
            /\ count' = Cardinality(Recorded \ ms)
            /\ removals' = removals \cup {worker.deletion} /\ gone' = gone \cup ms
            /\ deletions' = [deletions EXCEPT ![worker.deletion].done = TRUE]
        BY <1>2, <3>2 DEF deleteImportedHistory, Rebuilt
      <4>2. Cardinality(Recorded \ ms) \in Nat
        BY MessagesFinite DEF Recorded
      <4>3. [deletions[worker.deletion] EXCEPT !.done = TRUE] \in Deletion
        <5>1. deletions[worker.deletion] \in Deletion
          BY <1>a, <2>0
        <5>2. QED
          BY <5>1 DEF Deletion
      <4>4. deletions' \in [1..MaxDeletions -> Deletion]
        BY <1>a, <2>0, <4>1, <4>3
      <4>5. QED
        BY <2>0, <4>1, <4>2, <4>4 DEF TypeOK
    <3>3. QED
      BY <3>1, <3>2
  <2>3. TypeOK'
    BY <1>2, <2>1, <2>2 DEF deleteImportedHistory, discord, TypeOK
  <2>4. PlaceOK'
    BY <2>0, <2>1 DEF PlaceOK, JobPlaces, Walking, DeletionPlaces
  <2>5. QED
    BY <2>3, <2>4
<1>3. CASE completeDeletionRequest
  <2>1. At("deleted") /\ worker.deletion \in 1..MaxDeletions
    BY <1>3 DEF completeDeletionRequest, At, PlaceOK, DeletionPlaces
  <2>2. [deletions[worker.deletion] EXCEPT !.state = "closed"] \in Deletion
    BY <1>a, <2>1 DEF Deletion
  <2>3. deletions' \in [1..MaxDeletions -> Deletion]
    BY <1>3, <1>a, <2>1, <2>2 DEF completeDeletionRequest
  <2>4. worker' \in Worker /\ worker'.at = "idle"
    BY <1>3, IdleTypes DEF completeDeletionRequest
  <2>5. TypeOK'
    BY <1>3, <1>c, <2>3, <2>4, CloudStep DEF completeDeletionRequest, discord
  <2>6. QED
    BY <2>4, <2>5, IdlePlace
<1>4. ASSUME NEW d \in 1..MaxDeletions, WindowEnds(d)
      PROVE  TypeOK' /\ PlaceOK'
  <2>1. deletions' \in [1..MaxDeletions -> Deletion]
    BY <1>4, <1>a, <1>b DEF WindowEnds
  <2>2. worker \in Worker
    BY DEF TypeOK
  <2>3. TypeOK'
    BY <1>4, <1>c, <2>1, <2>2, CloudStep DEF WindowEnds, discord
  <2>4. PlaceOK'
    BY <1>4 DEF WindowEnds, discord, PlaceOK, J, C, PageOf
  <2>5. QED
    BY <2>3, <2>4
<1>5. QED
  BY <1>1, <1>2, <1>3, <1>4 DEF Deleting

(* The job in the worker's hands, and its channel. *)
LEMMA InHand ==
  ASSUME TypeOK, PlaceOK
  PROVE  /\ worker.at \in JobPlaces =>
              J \in Job /\ jobs[J] \in JobRow /\ jobs[J].status \in Working
         /\ worker.at \in Walking \cup {"settle", "stop"} =>
              C \in Channel /\ progress[J][C] \in Progress
<1>1. worker.at \in JobPlaces => J \in Job /\ jobs[J].status \in Working
  BY DEF PlaceOK
<1>2. worker.at \in Walking \cup {"settle", "stop"} => C \in Channel
  BY DEF PlaceOK
<1>3. QED
  BY <1>1, <1>2, JobTypes, ProgressTypes DEF JobPlaces, Walking

LEMMA StatusSet ==
  ASSUME TypeOK, NEW j \in Job, NEW s \in Active \cup Over, SetStatus(j, s)
  PROVE  /\ jobs' \in [Job -> JobRow] /\ jobs'[j].status = s
         /\ \A i \in Job \ {j} : jobs'[i] = jobs[i]
<1>1. [jobs[j] EXCEPT !.status = s] \in JobRow /\ [jobs[j] EXCEPT !.status = s].status = s
  BY JobTypes DEF JobRow
<1>2. QED
  BY <1>1, JobTypes DEF SetStatus, SetJob

(* Polling, and a job begun. *)
LEMMA PollingTypes ==
  ASSUME TypeOK, PlaceOK,
         recoverStale \/ claimNext \/ prepareChannels \/ guildBlocked \/ begin \/ jobBoundary
  PROVE  TypeOK' /\ PlaceOK'
<1> USE Bounds, JobTypes, ProgressTypes
<1>a. /\ deletions \in [1..MaxDeletions -> Deletion]
      /\ requests \in 0..MaxRequests /\ faults \in 0..MaxFaults /\ asking \in 0..MaxDeletions
  BY DEF TypeOK
<1>1. CASE recoverStale
  <2>1. worker' \in Worker /\ worker'.at = "claim"
    BY <1>1, GoStep DEF recoverStale, Place
  <2>2. jobs' \in [Job -> JobRow]
    <3>1. ASSUME NEW j \in Job, SetStatus(j, "stalled") PROVE jobs' \in [Job -> JobRow]
      BY <3>1, StatusSet DEF Active
    <3>2. QED
      BY <1>1, <3>1 DEF recoverStale
  <2>3. TypeOK'
    BY <1>1, <1>a, <2>1, <2>2, CloudStep DEF recoverStale, discord
  <2>4. QED
    BY <2>1, <2>3, IdlePlace
<1>2. CASE claimNext
  <2>1. CASE worker' = Idle /\ UNCHANGED jobs
    <3>1. worker' \in Worker /\ worker'.at = "idle"
      BY <2>1, IdleTypes
    <3>2. TypeOK'
      BY <1>2, <1>a, <2>1, <3>1, CloudStep DEF claimNext, discord
    <3>3. QED
      BY <3>1, <3>2, IdlePlace
  <2>2. ASSUME NEW j \in Job, SetStatus(j, "preparing"),
               worker' = [Idle EXCEPT !.at = "prepare", !.job = j]
        PROVE  TypeOK' /\ PlaceOK'
    <3>1. worker' \in Worker /\ worker'.at = "prepare" /\ worker'.job = j
      <4>1. "prepare" \in Place
        BY DEF Place
      <4>2. QED
        BY <2>2, <4>1, IdleJob
    <3>2. jobs' \in [Job -> JobRow] /\ jobs'[j].status \in Working
      BY <2>2, StatusSet DEF Active, Working
    <3>3. TypeOK'
      BY <1>2, <1>a, <3>1, <3>2, CloudStep DEF claimNext, discord
    <3>4. PlaceOK'
      BY <3>1, <3>2 DEF PlaceOK, J, JobPlaces, Walking, DeletionPlaces
    <3>5. QED
      BY <3>3, <3>4
  <2>3. QED
    BY <1>2, <2>1, <2>2 DEF claimNext
<1>3. CASE prepareChannels
  <2>0. At("prepare") /\ J \in Job /\ jobs[J].status \in Working
    BY <1>3, InHand DEF prepareChannels, At, JobPlaces
  <2>1. /\ worker' \in Worker /\ worker'.at = "begin" /\ worker'.job = J
        /\ UNCHANGED jobs
    BY <1>3, GoStep DEF prepareChannels, Place, J
  <2>2. PICK readable \in SUBSET Channel :
          progress' = [progress EXCEPT ![J] = [c \in Channel |->
            IF progress[J][c].status # "none" THEN progress[J][c]
            ELSE [NoProgress EXCEPT !.status = IF c \in readable THEN "pending" ELSE "skipped"]]]
    BY <1>3 DEF prepareChannels
  <2>3. \A c \in Channel :
          [NoProgress EXCEPT !.status = IF c \in readable THEN "pending" ELSE "skipped"] \in Progress
    <3>0. NoProgress \in Progress
      BY DEF NoProgress, Progress
    <3>1. [NoProgress EXCEPT !.status = "pending"] \in Progress
      BY <3>0 DEF Progress
    <3>2. [NoProgress EXCEPT !.status = "skipped"] \in Progress
      BY <3>0 DEF Progress
    <3>3. QED
      BY <3>1, <3>2
  <2>4. progress' \in [Job -> [Channel -> Progress]]
    BY <2>0, <2>2, <2>3, RowsSet
  <2>5. TypeOK'
    BY <1>3, <1>a, <2>1, <2>4, CloudStep DEF prepareChannels, discord
  <2>6. PlaceOK'
    BY <2>0, <2>1 DEF PlaceOK, J, JobPlaces, Walking, DeletionPlaces
  <2>7. QED
    BY <2>5, <2>6
<1>4. CASE guildBlocked
  <2>0. At("prepare") /\ J \in Job /\ jobs[J].status \in Working
    BY <1>4, InHand DEF guildBlocked, At, JobPlaces
  <2>1. /\ worker' \in Worker /\ worker'.at = "stopped" /\ worker'.job = J
        /\ worker'.as = "cancelled" /\ UNCHANGED <<jobs, progress, deletions>>
    BY <1>4, GiveStep DEF guildBlocked, Place, Outcome, Over, J, cloud
  <2>2. TypeOK'
    BY <1>4, <1>a, <2>1, CloudStep DEF guildBlocked, discord
  <2>3. PlaceOK'
    BY <2>0, <2>1 DEF PlaceOK, J, JobPlaces, Walking, DeletionPlaces
  <2>4. QED
    BY <2>2, <2>3
<1>5. CASE begin
  <2>0. At("begin") /\ J \in Job /\ jobs[J].status \in Working
    BY <1>5, InHand DEF begin, At, JobPlaces
  <2>1. worker' \in Worker /\ worker'.at = "job" /\ worker'.job = J
    BY <1>5, GoStep DEF begin, Place, J
  <2>2. jobs' \in [Job -> JobRow] /\ jobs'[J].status \in Working
    <3>1. jobs' = jobs \/ \E s \in {"cancelling", "pausing", "running"} : SetStatus(J, s)
      BY <1>5 DEF begin
    <3>2. ASSUME NEW s \in {"cancelling", "pausing", "running"}, SetStatus(J, s)
          PROVE  jobs' \in [Job -> JobRow] /\ jobs'[J].status \in Working
      BY <2>0, <3>2, StatusSet DEF Active, Working
    <3>3. QED
      BY <2>0, <3>1, <3>2
  <2>3. TypeOK'
    BY <1>5, <1>a, <2>1, <2>2, CloudStep DEF begin, discord
  <2>4. PlaceOK'
    BY <2>0, <2>1, <2>2 DEF PlaceOK, J, JobPlaces, Walking, DeletionPlaces
  <2>5. QED
    BY <2>3, <2>4
<1>6. CASE jobBoundary
  <2>0. At("job") /\ J \in Job /\ jobs[J].status \in Working
    BY <1>6, InHand DEF jobBoundary, At, JobPlaces
  <2>1. UNCHANGED <<jobs, progress, deletions>>
    BY <1>6 DEF jobBoundary, cloud
  <2>2. \/ worker' \in Worker /\ worker'.at = "next" /\ worker'.job = J
        \/ /\ worker' \in Worker /\ worker'.at = "stopped" /\ worker'.job = J
           /\ worker'.as \in {"cancelled", "paused"}
    <3>1. CASE Asked(J, FALSE) = ""
      BY <1>6, <3>1, GoStep DEF jobBoundary, Place, J
    <3>2. CASE Asked(J, FALSE) # ""
      <4>1. Asked(J, FALSE) \in {"cancelled", "paused"}
        BY <3>2 DEF Asked
      <4>2. QED
        BY <1>6, <3>2, <4>1, GiveStep DEF jobBoundary, Place, J, Outcome, Over
    <3>3. QED
      BY <3>1, <3>2
  <2>3. TypeOK'
    BY <1>6, <1>a, <2>1, <2>2, CloudStep DEF jobBoundary, discord
  <2>4. PlaceOK'
    BY <2>0, <2>1, <2>2 DEF PlaceOK, J, JobPlaces, Walking, DeletionPlaces
  <2>5. QED
    BY <2>3, <2>4
<1>7. QED
  BY <1>1, <1>2, <1>3, <1>4, <1>5, <1>6

(* A page is what is before a message, or the newest ones. *)
LEMMA PageIsPageOf ==
  ASSUME TypeOK, NEW c \in Channel, NEW before \in 0..MaxMessages,
         Page(c, before) # {}
  PROVE  \E e \in 1..MaxMessages : /\ Page(c, before) = PageOf(e)
                                 /\ e = IF before = 0 THEN posted[c] ELSE before - 1
<1> USE Bounds
<1> DEFINE e == IF before = 0 THEN posted[c] ELSE before - 1
<1>1. posted[c] \in 0..MaxMessages
  BY DEF TypeOK
<1>2. Page(c, before) = PageOf(e)
  BY <1>1 DEF Page, PageOf
<1>3. e \in 1..MaxMessages
  BY <1>1, <1>2 DEF PageOf
<1>4. QED
  BY <1>2, <1>3

(* A stop at a boundary, wherever it is: the job's or the channel's. *)
LEMMA StopTypes ==
  ASSUME TypeOK, PlaceOK, worker.at \in {"channel", "saved"}, StopAtBoundary
  PROVE  /\ worker' \in Worker /\ worker'.job = J /\ worker'.channel = C
         /\ \/ worker'.at = "settle" /\ worker'.as = "skipped"
            \/ worker'.at = "stop" /\ worker'.as \in {"cancelled", "paused"}
<1>1. Asked(J, Row.skip) \in {"cancelled", "paused", "skipped"}
  BY DEF StopAtBoundary, Stopping, Asked
<1>2. CASE Asked(J, Row.skip) = "skipped"
  <2>1. Give("skipped", "settle")
    BY <1>2 DEF StopAtBoundary
  <2>2. QED
    BY <2>1, GiveStep DEF Place, Outcome, J, C
<1>3. CASE Asked(J, Row.skip) \in {"cancelled", "paused"}
  <2>1. Give(Asked(J, Row.skip), "stop")
    BY <1>3 DEF StopAtBoundary
  <2>2. QED
    BY <1>3, <2>1, GiveStep DEF Place, Outcome, Over, J, C
<1>4. QED
  BY <1>1, <1>2, <1>3

LEMMA WalkingTypes ==
  ASSUME TypeOK, PlaceOK,
         nextChannel \/ setCurrentChannel \/ channelBoundary \/ fetch \/ updateCloud \/ pageBoundary
  PROVE  TypeOK' /\ PlaceOK'
<1> USE Bounds, JobTypes, ProgressTypes, WorkerFields
<1>a. /\ deletions \in [1..MaxDeletions -> Deletion]
      /\ requests \in 0..MaxRequests /\ faults \in 0..MaxFaults /\ asking \in 0..MaxDeletions
      /\ posted \in [Channel -> 0..MaxMessages]
      /\ checkpoint \in [Job -> [Channel -> 0..MaxMessages]]
  BY DEF TypeOK
<1>b. worker.at \in JobPlaces => J \in Job /\ jobs[J].status \in Working
  BY InHand
<1>1. CASE nextChannel
  <2>0. At("next") /\ J \in Job /\ jobs[J].status \in Working
    BY <1>1, <1>b DEF nextChannel, At, JobPlaces
  <2>1. UNCHANGED <<jobs, deletions, posted, gateway, local, requests, asking, faults>>
    BY <1>1 DEF nextChannel, discord
  <2>2. CASE Go("complete") /\ UNCHANGED progress
    <3>1. worker' \in Worker /\ worker'.at = "complete" /\ worker'.job = J
      BY <2>2, GoStep DEF Place, J
    <3>2. TypeOK'
      BY <1>a, <2>1, <2>2, <3>1, CloudStep
    <3>3. PlaceOK'
      BY <2>0, <2>1, <3>1 DEF PlaceOK, J, JobPlaces, Walking, DeletionPlaces
    <3>4. QED
      BY <3>2, <3>3
  <2>3. ASSUME NEW c \in Channel,
               progress' = [progress EXCEPT ![J][c].status = "running"],
               worker' = [worker EXCEPT !.at = "claimed", !.channel = c, !.pages = 0,
                                        !.before = progress[J][c].cursor]
        PROVE  TypeOK' /\ PlaceOK'
    <3>1. progress[J][c] \in Progress
      BY <2>0
    <3>2. [progress[J][c] EXCEPT !.status = "running"] \in Progress
          /\ [progress[J][c] EXCEPT !.status = "running"].status = "running"
          /\ progress[J][c].cursor \in 0..MaxMessages
      BY <3>1 DEF Progress
    <3>3. progress' \in [Job -> [Channel -> Progress]] /\ progress'[J][c].status = "running"
      BY <2>0, <2>3, <3>2
    <3>4. /\ worker' \in Worker /\ worker'.at = "claimed" /\ worker'.job = J
          /\ worker'.channel = c /\ worker'.pages = 0
      <4> DEFINE k == progress[J][c].cursor
      <4>1. worker' = [worker EXCEPT !.at = "claimed", !.channel = c, !.pages = 0, !.before = k]
            /\ k \in 0..MaxMessages /\ 0 \in 0..MaxPages
        BY <2>3, <3>2
      <4> HIDE DEF k
      <4>2. worker' \in Worker
        BY <4>1 DEF Worker
      <4>3. worker'.at = "claimed" /\ worker'.channel = c /\ worker'.pages = 0
        BY <4>1 DEF Worker
      <4>4. worker'.job = worker.job
        BY <4>1 DEF Worker
      <4>5. QED
        BY <4>2, <4>3, <4>4 DEF J
    <3>5. TypeOK'
      BY <1>a, <2>1, <3>3, <3>4, CloudStep
    <3>6. PlaceOK'
      BY <2>0, <2>1, <3>3, <3>4 DEF PlaceOK, J, C, JobPlaces, Walking, DeletionPlaces
    <3>7. QED
      BY <3>5, <3>6
  <2>4. QED
    BY <1>1, <2>2, <2>3 DEF nextChannel
<1>c. CASE setCurrentChannel
  <2>0. /\ At("claimed") /\ J \in Job /\ jobs[J].status \in Working /\ C \in Channel
        /\ progress[J][C].status = "running" /\ worker.pages < MaxPages
    BY <1>b, <1>c DEF setCurrentChannel, At, JobPlaces, Walking, PlaceOK
  <2>1. UNCHANGED <<jobs, progress, deletions, posted, gateway, local, requests, asking, faults>>
    BY <1>c DEF setCurrentChannel, discord, cloud
  <2>2. /\ worker' \in Worker /\ worker'.at = "channel" /\ worker'.job = J
        /\ worker'.channel = C /\ worker'.pages = worker.pages
    BY <1>c, GoStep DEF setCurrentChannel, Place, J, C
  <2>3. TypeOK'
    BY <1>a, <2>1, <2>2, CloudStep
  <2>4. PlaceOK'
    BY <2>0, <2>1, <2>2 DEF PlaceOK, J, C, JobPlaces, Walking, DeletionPlaces
  <2>5. QED
    BY <2>3, <2>4
<1>2. CASE channelBoundary
  <2>0. /\ At("channel") /\ J \in Job /\ jobs[J].status \in Working /\ C \in Channel
        /\ progress[J][C].status = "running" /\ worker.pages < MaxPages
    BY <1>2, <1>b DEF channelBoundary, At, JobPlaces, Walking, PlaceOK
  <2>1. UNCHANGED <<jobs, progress, deletions, posted, gateway, local, requests, asking, faults>>
    BY <1>2 DEF channelBoundary, discord, cloud
  <2>2. CASE StopAtBoundary
    <3>1. /\ worker' \in Worker /\ worker'.job = J /\ worker'.channel = C
          /\ \/ worker'.at = "settle" /\ worker'.as = "skipped"
             \/ worker'.at = "stop" /\ worker'.as \in {"cancelled", "paused"}
      BY <2>0, <2>2, StopTypes DEF At
    <3>2. TypeOK'
      BY <1>a, <2>1, <3>1, CloudStep
    <3>3. PlaceOK'
      BY <2>0, <2>1, <3>1 DEF PlaceOK, J, C, JobPlaces, Walking, DeletionPlaces
    <3>4. QED
      BY <3>2, <3>3
  <2>3. CASE Go("fetch")
    <3>1. /\ worker' \in Worker /\ worker'.at = "fetch" /\ worker'.job = J
          /\ worker'.channel = C /\ worker'.pages = worker.pages
      BY <2>3, GoStep DEF Place, J, C
    <3>2. TypeOK'
      BY <1>a, <2>1, <3>1, CloudStep
    <3>3. PlaceOK'
      BY <2>0, <2>1, <3>1 DEF PlaceOK, J, C, JobPlaces, Walking, DeletionPlaces
    <3>4. QED
      BY <3>2, <3>3
  <2>4. QED
    BY <1>2, <2>2, <2>3 DEF channelBoundary
<1>3. CASE fetch
  <2>0. /\ At("fetch") /\ J \in Job /\ jobs[J].status \in Working /\ C \in Channel
        /\ progress[J][C].status = "running" /\ worker.pages < MaxPages
    BY <1>3, <1>b DEF fetch, At, JobPlaces, Walking, PlaceOK
  <2>1. UNCHANGED <<jobs, progress, deletions, posted, gateway, local, requests, asking, faults>>
    BY <1>3 DEF fetch, discord, cloud
  <2> DEFINE page == Page(C, worker.before)
  <2>2. CASE page = {}
    <3>1. worker' = [worker EXCEPT !.at = "settle", !.as = "completed"]
      BY <1>3, <2>2 DEF fetch
    <3>2. /\ worker' \in Worker /\ worker'.at = "settle" /\ worker'.job = J
          /\ worker'.channel = C /\ worker'.as = "completed"
      BY <3>1 DEF Worker, J, C, Over
    <3>3. TypeOK'
      BY <1>a, <2>1, <3>2, CloudStep
    <3>4. PlaceOK'
      BY <2>0, <2>1, <3>2 DEF PlaceOK, J, C, JobPlaces, Walking, DeletionPlaces
    <3>5. QED
      BY <3>3, <3>4
  <2>3. CASE page # {}
    <3>1. worker' = [worker EXCEPT !.at = "save", !.page = page, !.pages = @ + 1]
      BY <1>3, <2>3 DEF fetch
    <3>2. \E e \in 1..MaxMessages : page = PageOf(e)
      <4>1. worker.before \in 0..MaxMessages
        OBVIOUS
      <4>2. \E e \in 1..MaxMessages : /\ page = PageOf(e)
                                      /\ e = IF worker.before = 0 THEN posted[C]
                                             ELSE worker.before - 1
        BY <2>0, <2>3, <4>1, PageIsPageOf
      <4>3. QED
        BY <4>2
    <3>3. page \subseteq 1..MaxMessages
      BY <3>2 DEF PageOf
    <3>4. worker.pages + 1 \in 0..MaxPages
      BY <2>0
    <3>5. /\ worker' \in Worker /\ worker'.at = "save" /\ worker'.job = J
          /\ worker'.channel = C /\ worker'.page = page
      BY <3>1, <3>3, <3>4 DEF Worker, J, C
    <3>6. TypeOK'
      BY <1>a, <2>1, <3>5, CloudStep
    <3>7. PlaceOK'
      BY <2>0, <2>1, <3>2, <3>5 DEF PlaceOK, J, C, JobPlaces, Walking, DeletionPlaces
    <3>8. QED
      BY <3>6, <3>7
  <2>4. QED
    BY <2>2, <2>3
<1>4. CASE updateCloud
  <2>0. /\ At("cloud") /\ J \in Job /\ jobs[J].status \in Working /\ C \in Channel
        /\ progress[J][C].status = "running"
        /\ \E e \in 1..MaxMessages : worker.page = PageOf(e)
    BY <1>4, <1>b DEF updateCloud, At, JobPlaces, Walking, PlaceOK
  <2>1. UNCHANGED <<jobs, deletions, posted, gateway, local, requests, asking, faults>>
    BY <1>4 DEF updateCloud, discord
  <2>2. /\ worker' \in Worker /\ worker'.at = "saved" /\ worker'.job = J
        /\ worker'.channel = C /\ worker'.page = worker.page
    BY <1>4, GoStep DEF updateCloud, Place, J, C
  <2>3. /\ progress' = [progress EXCEPT ![J][C] =
                          [progress[J][C] EXCEPT !.cursor = checkpoint[J][C]]]
        /\ checkpoint[J][C] \in 0..MaxMessages
    BY <1>4, <1>a, <2>0 DEF updateCloud, Row
  <2>4. [progress[J][C] EXCEPT !.cursor = checkpoint[J][C]] \in Progress
        /\ [progress[J][C] EXCEPT !.cursor = checkpoint[J][C]].status = "running"
    <3>1. progress[J][C] \in Progress
      BY <2>0
    <3>2. QED
      BY <2>0, <2>3, <3>1 DEF Progress
  <2>5. progress' \in [Job -> [Channel -> Progress]] /\ progress'[J][C].status = "running"
    BY <2>0, <2>3, <2>4
  <2>6. TypeOK'
    BY <1>a, <2>1, <2>2, <2>5, CloudStep
  <2>7. PlaceOK'
    BY <2>0, <2>1, <2>2, <2>5 DEF PlaceOK, J, C, JobPlaces, Walking, DeletionPlaces
  <2>8. QED
    BY <2>6, <2>7
<1>5. CASE pageBoundary
  <2>0. /\ At("saved") /\ J \in Job /\ jobs[J].status \in Working /\ C \in Channel
        /\ progress[J][C].status = "running"
        /\ \E e \in 1..MaxMessages : worker.page = PageOf(e)
    BY <1>5, <1>b DEF pageBoundary, At, JobPlaces, Walking, PlaceOK
  <2>1. UNCHANGED <<jobs, progress, deletions, posted, gateway, local, requests, asking, faults>>
    BY <1>5 DEF pageBoundary, discord, cloud
  <2>2. CASE StopAtBoundary
    <3>1. /\ worker' \in Worker /\ worker'.job = J /\ worker'.channel = C
          /\ \/ worker'.at = "settle" /\ worker'.as = "skipped"
             \/ worker'.at = "stop" /\ worker'.as \in {"cancelled", "paused"}
      BY <2>0, <2>2, StopTypes DEF At
    <3>2. TypeOK'
      BY <1>a, <2>1, <3>1, CloudStep
    <3>3. PlaceOK'
      BY <2>0, <2>1, <3>1 DEF PlaceOK, J, C, JobPlaces, Walking, DeletionPlaces
    <3>4. QED
      BY <3>2, <3>3
  <2>3. ASSUME NEW s \in {"completed", "failed"}, Give(s, "settle")
        PROVE  TypeOK' /\ PlaceOK'
    <3>1. /\ worker' \in Worker /\ worker'.at = "settle" /\ worker'.job = J
          /\ worker'.channel = C /\ worker'.as = s
      BY <2>3, GiveStep DEF Place, Outcome, Over, J, C
    <3>2. TypeOK'
      BY <1>a, <2>1, <3>1, CloudStep
    <3>3. PlaceOK'
      BY <2>0, <2>1, <3>1 DEF PlaceOK, J, C, JobPlaces, Walking, DeletionPlaces
    <3>4. QED
      BY <3>2, <3>3
  <2>4. ASSUME worker.pages < MaxPages,
               worker' = [worker EXCEPT !.at = "channel", !.before = Min(worker.page), !.page = {}]
        PROVE  TypeOK' /\ PlaceOK'
    <3>1. Min(worker.page) \in 0..MaxMessages
      BY <2>0, PageEnds
    <3>2. /\ worker' \in Worker /\ worker'.at = "channel" /\ worker'.job = J
          /\ worker'.channel = C /\ worker'.pages = worker.pages
      BY <2>4, <3>1 DEF Worker, J, C
    <3>3. TypeOK'
      BY <1>a, <2>1, <3>2, CloudStep
    <3>4. PlaceOK'
      BY <2>0, <2>1, <2>4, <3>2 DEF PlaceOK, J, C, JobPlaces, Walking, DeletionPlaces
    <3>5. QED
      BY <3>3, <3>4
  <2>5. QED
    BY <1>5, <2>2, <2>3, <2>4 DEF pageBoundary
<1>6. QED
  BY <1>1, <1>2, <1>3, <1>4, <1>5, <1>c

(* A page that is saved. *)
LEMMA SavingTypes ==
  ASSUME TypeOK, PlaceOK, saveBatch
  PROVE  TypeOK' /\ PlaceOK'
<1> USE Bounds, WorkerFields
<1>0. /\ At("save") /\ J \in Job /\ jobs[J].status \in Working /\ C \in Channel
      /\ progress[J][C].status = "running"
  BY InHand DEF saveBatch, At, JobPlaces, Walking, PlaceOK
<1>1. PICK e \in 1..MaxMessages : worker.page = PageOf(e)
  BY <1>0 DEF At, PlaceOK
<1>2. /\ worker' \in Worker /\ worker'.at = "cloud" /\ worker'.job = J
      /\ worker'.channel = C /\ worker'.page = worker.page
  BY GoStep DEF saveBatch, Place, J, C
<1>3. Min(worker.page) \in 1..MaxMessages /\ Max(worker.page) \in 1..MaxMessages
  BY <1>1, PageEnds
<1> DEFINE records == {<<C, n>> : n \in worker.page \ 1..Old}
           new == records \ Recorded
<1>4. records \subseteq Message /\ new \subseteq Message
  BY <1>0 DEF Message
<1>5. /\ log' \in [Message -> {"none", "imported", "live"}] /\ count' \in Nat
      /\ receipts' \subseteq Job \X Channel \X (0..MaxMessages)
      /\ checkpoint' \in [Job -> [Channel -> 0..MaxMessages]]
      /\ deletions' \in [1..MaxDeletions -> Deletion]
      /\ top' \in [Job -> [Channel -> 0..MaxMessages]]
  <2>1. CASE BatchId(J, C, worker.before) \in receipts
    BY <2>1 DEF saveBatch, TypeOK
  <2>2. CASE BatchId(J, C, worker.before) \notin receipts
    <3>1. /\ RecordEvents(records, "imported")
          /\ receipts' = receipts \cup {<<J, C, worker.before>>}
          /\ checkpoint' = [checkpoint EXCEPT ![J][C] = Min(worker.page)]
          /\ top' = IF worker.before # 0 THEN top
                    ELSE [top EXCEPT ![J][C] = Max(worker.page)]
          /\ deletions' = [d \in 1..MaxDeletions |->
               IF deletions[d].state = "open"
                 THEN [deletions[d] EXCEPT !.later = @ \cup new] ELSE deletions[d]]
      BY <2>2 DEF saveBatch, BatchId
    <3> HIDE DEF records, new
    <3>2. log' \in [Message -> {"none", "imported", "live"}]
      BY <3>1 DEF RecordEvents, TypeOK
    <3>3. count' \in Nat
      <4>1. Cardinality({m \in records : log[m] = "none"}) \in Nat
        BY <1>4, MessagesFinite
      <4>2. count' = count + Cardinality({m \in records : log[m] = "none"})
        BY <3>1 DEF RecordEvents
      <4>3. QED
        BY <4>1, <4>2 DEF TypeOK
    <3>4. receipts' \subseteq Job \X Channel \X (0..MaxMessages)
      <4>1. <<J, C, worker.before>> \in Job \X Channel \X (0..MaxMessages)
        BY <1>0
      <4>2. receipts \subseteq Job \X Channel \X (0..MaxMessages)
        BY DEF TypeOK
      <4>3. receipts' = receipts \cup {<<J, C, worker.before>>}
        BY <3>1
      <4>4. QED
        BY <4>1, <4>2, <4>3
    <3>5. checkpoint' \in [Job -> [Channel -> 0..MaxMessages]]
      <4>1. checkpoint \in [Job -> [Channel -> 0..MaxMessages]] /\ Min(worker.page) \in 0..MaxMessages
        BY <1>3 DEF TypeOK
      <4>2. checkpoint' = [checkpoint EXCEPT ![J][C] = Min(worker.page)]
        BY <3>1
      <4>3. QED
        BY <4>1, <4>2
    <3>6. top' \in [Job -> [Channel -> 0..MaxMessages]]
      <4>1. top \in [Job -> [Channel -> 0..MaxMessages]] /\ Max(worker.page) \in 0..MaxMessages
        BY <1>3 DEF TypeOK
      <4>2. top' = top \/ top' = [top EXCEPT ![J][C] = Max(worker.page)]
        BY <3>1
      <4>3. QED
        BY <4>1, <4>2
    <3>7. deletions' \in [1..MaxDeletions -> Deletion]
      <4>1. ASSUME NEW d \in 1..MaxDeletions
            PROVE  /\ deletions[d] \in Deletion
                   /\ [deletions[d] EXCEPT !.later = @ \cup new] \in Deletion
        <5>1. deletions[d] \in Deletion
          BY DEF TypeOK
        <5>2. deletions[d].later \cup new \subseteq Message
          BY <1>4, <5>1 DEF Deletion
        <5>3. QED
          BY <5>1, <5>2 DEF Deletion
      <4>2. QED
        BY <3>1, <4>1
    <3>8. QED
      BY <3>2, <3>3, <3>4, <3>5, <3>6, <3>7
  <2>3. QED
    BY <2>1, <2>2
<1>6. TypeOK'
  BY <1>2, <1>5 DEF saveBatch, discord, TypeOK
<1>7. PlaceOK'
  <2>1. UNCHANGED <<jobs, progress>>
    BY DEF saveBatch
  <2>2. \E x \in 1..MaxMessages : worker'.page = PageOf(x)
    BY <1>1, <1>2
  <2>3. QED
    BY <1>0, <1>2, <2>1, <2>2 DEF PlaceOK, J, C, JobPlaces, Walking, DeletionPlaces
<1>8. QED
  BY <1>6, <1>7

(* The channel's row, then the job's, at the end. *)
LEMMA EndingTypes ==
  ASSUME TypeOK, PlaceOK,
         settleChannel \/ stopChannel \/ stopJob \/ complete \/ fail
  PROVE  TypeOK' /\ PlaceOK'
<1> USE Bounds, JobTypes, ProgressTypes, WorkerFields
<1>a. /\ deletions \in [1..MaxDeletions -> Deletion]
      /\ requests \in 0..MaxRequests /\ faults \in 0..MaxFaults /\ asking \in 0..MaxDeletions
  BY DEF TypeOK
<1>b. worker.at \in JobPlaces => J \in Job /\ jobs[J] \in JobRow /\ jobs[J].status \in Working
  BY InHand
<1>c. ASSUME worker.at \in {"settle", "stop"},
             progress' = [progress EXCEPT ![J][C].status = worker.as, ![J][C].skip = FALSE]
      PROVE  progress' \in [Job -> [Channel -> Progress]]
  <2>1. J \in Job /\ C \in Channel /\ progress[J][C] \in Progress
    BY <1>c, InHand DEF JobPlaces
  <2>2. worker.as \in RowStatus
    BY <1>c DEF PlaceOK, RowStatus, Over
  <2>3. Settled(progress[J][C], worker.as) \in Progress
    BY <2>1, <2>2, RowTypes
  <2>4. progress' = [progress EXCEPT ![J][C] = Settled(progress[J][C], worker.as)]
    BY <1>c, <2>1 DEF Settled
  <2>5. QED
    BY <2>1, <2>3, <2>4, RowSet
<1>1. CASE settleChannel
  <2>0. At("settle") /\ J \in Job /\ jobs[J].status \in Working
    BY <1>1, <1>b DEF settleChannel, At, JobPlaces
  <2>1. worker' \in Worker /\ worker'.at = "job" /\ worker'.job = J
    <3>1. "job" \in Place
      BY DEF Place
    <3>2. QED
      BY <1>1, <2>0, <3>1, IdleJob DEF settleChannel
  <2>2. progress' \in [Job -> [Channel -> Progress]]
    BY <1>1, <1>c, <2>0 DEF settleChannel, At
  <2>3. TypeOK'
    BY <1>1, <1>a, <2>1, <2>2, CloudStep DEF settleChannel, discord
  <2>4. PlaceOK'
    BY <1>1, <2>0, <2>1 DEF settleChannel, PlaceOK, J, JobPlaces, Walking, DeletionPlaces
  <2>5. QED
    BY <2>3, <2>4
<1>2. CASE stopChannel
  <2>0. /\ At("stop") /\ J \in Job /\ jobs[J].status \in Working
        /\ worker.as \in {"paused", "cancelled"}
    BY <1>2, <1>b DEF stopChannel, At, JobPlaces, PlaceOK
  <2>1. /\ worker' \in Worker /\ worker'.at = "stopped" /\ worker'.job = J
        /\ worker'.as = worker.as
    BY <1>2, GoStep DEF stopChannel, Place, J
  <2>2. progress' \in [Job -> [Channel -> Progress]]
    BY <1>2, <1>c, <2>0 DEF stopChannel, At
  <2>3. TypeOK'
    BY <1>2, <1>a, <2>1, <2>2, CloudStep DEF stopChannel, discord
  <2>4. PlaceOK'
    BY <1>2, <2>0, <2>1 DEF stopChannel, PlaceOK, J, JobPlaces, Walking, DeletionPlaces
  <2>5. QED
    BY <2>3, <2>4
<1>3. CASE stopJob \/ complete \/ fail
  <2>0. J \in Job /\ jobs[J] \in JobRow
    BY <1>3, <1>b DEF stopJob, complete, fail, At, JobPlaces
  <2>1. worker' \in Worker /\ worker'.at = "idle"
    BY <1>3, IdleTypes DEF stopJob, complete, fail
  <2>2. jobs' \in [Job -> JobRow]
    <3>1. CASE stopJob
      <4>1. [jobs[J] EXCEPT !.status = "paused", !.pause = FALSE] \in JobRow
        BY <2>0 DEF JobRow, Active
      <4>2. [status |-> "cancelled", cancel |-> FALSE, pause |-> FALSE] \in JobRow
        BY DEF JobRow, Over
      <4>3. QED
        BY <2>0, <3>1, <4>1, <4>2 DEF stopJob, SetJob
    <3>2. CASE complete
      <4>1. CompletedStatus(jobs[J].status) \in Active \cup Over
        BY <1>b, <3>2 DEF complete, At, JobPlaces, CompletedStatus, Over, Active
      <4>2. QED
        BY <2>0, <3>2, <4>1, StatusSet DEF complete
    <3>3. CASE fail
      <4>1. jobs' = jobs \/ SetStatus(J, "failed")
        BY <3>3 DEF fail
      <4>2. QED
        BY <2>0, <4>1, StatusSet DEF Over
    <3>4. QED
      BY <1>3, <3>1, <3>2, <3>3
  <2>3. TypeOK'
    BY <1>3, <1>a, <2>1, <2>2, CloudStep DEF stopJob, complete, fail, discord
  <2>4. QED
    BY <2>1, <2>3, IdlePlace
<1>4. QED
  BY <1>1, <1>2, <1>3

LEMMA FaultTypes ==
  ASSUME TypeOK, PlaceOK,
         queryFails \/ deletionFails \/ Crash \/ Restart
  PROVE  TypeOK' /\ PlaceOK'
<1> USE Bounds, JobTypes, ProgressTypes, WorkerFields
<1>a. /\ deletions \in [1..MaxDeletions -> Deletion]
      /\ requests \in 0..MaxRequests /\ faults \in 0..MaxFaults /\ asking \in 0..MaxDeletions
  BY DEF TypeOK
<1>b. Fault => faults' \in 0..MaxFaults
  BY <1>a DEF Fault
<1>c. worker.at \in JobPlaces => J \in Job /\ jobs[J].status \in Working
  BY InHand
<1>1. CASE queryFails
  <2>1. /\ UNCHANGED <<jobs, progress, deletions, posted, gateway, local, requests, asking>>
        /\ faults' \in 0..MaxFaults
    BY <1>1, <1>b DEF queryFails, discord, cloud
  <2>2. CASE OnChannel /\ Give("failed", "settle")
    <3>1. worker.at \in JobPlaces /\ C \in Channel
      BY <2>2 DEF OnChannel, At, JobPlaces, Walking, PlaceOK, C
    <3>2. /\ worker' \in Worker /\ worker'.at = "settle" /\ worker'.job = J
          /\ worker'.channel = C /\ worker'.as = "failed"
      BY <2>2, GiveStep DEF Place, Outcome, Over, J, C
    <3>3. TypeOK'
      BY <1>a, <2>1, <3>2, CloudStep
    <3>4. PlaceOK'
      BY <1>c, <2>1, <3>1, <3>2 DEF PlaceOK, J, C, JobPlaces, Walking, DeletionPlaces
    <3>5. QED
      BY <3>3, <3>4
  <2>3. CASE OnJob /\ Go("fail")
    <3>1. worker.at \in JobPlaces
      BY <2>3 DEF OnJob, At, JobPlaces, Walking
    <3>2. worker' \in Worker /\ worker'.at = "fail" /\ worker'.job = J
      BY <2>3, GoStep DEF Place, J
    <3>3. TypeOK'
      BY <1>a, <2>1, <3>2, CloudStep
    <3>4. PlaceOK'
      BY <1>c, <2>1, <3>1, <3>2 DEF PlaceOK, J, JobPlaces, Walking, DeletionPlaces
    <3>5. QED
      BY <3>3, <3>4
  <2>4. CASE At("cloud") /\ Go("saved")
    <3>1. /\ J \in Job /\ jobs[J].status \in Working /\ C \in Channel
          /\ progress[J][C].status = "running"
          /\ \E e \in 1..MaxMessages : worker.page = PageOf(e)
      BY <1>c, <2>4 DEF At, JobPlaces, Walking, PlaceOK
    <3>2. /\ worker' \in Worker /\ worker'.at = "saved" /\ worker'.job = J
          /\ worker'.channel = C /\ worker'.page = worker.page
      BY <2>4, GoStep DEF Place, J, C
    <3>3. TypeOK'
      BY <1>a, <2>1, <3>2, CloudStep
    <3>4. PlaceOK'
      BY <2>1, <3>1, <3>2 DEF PlaceOK, J, C, JobPlaces, Walking, DeletionPlaces
    <3>5. QED
      BY <3>3, <3>4
  <2>5. CASE worker' = Idle
    <3>1. worker' \in Worker /\ worker'.at = "idle"
      BY <2>5, IdleTypes
    <3>2. TypeOK'
      BY <1>a, <2>1, <3>1, CloudStep
    <3>3. QED
      BY <3>1, <3>2, IdlePlace
  <2>6. QED
    BY <1>1, <2>2, <2>3, <2>4, <2>5 DEF queryFails
<1>2. CASE deletionFails
  <2>0. worker.deletion \in 1..MaxDeletions
    <3>1. worker.at \in DeletionPlaces
      BY <1>2 DEF deletionFails, DeletionPlaces
    <3>2. QED
      BY <3>1 DEF PlaceOK
  <2>1. [deletions[worker.deletion] EXCEPT !.state = "closed"] \in Deletion
    <3>1. deletions[worker.deletion] \in Deletion
      BY <1>a, <2>0
    <3>2. QED
      BY <3>1 DEF Deletion
  <2>2. deletions' \in [1..MaxDeletions -> Deletion]
    BY <1>2, <1>a, <2>0, <2>1 DEF deletionFails
  <2>3. worker' \in Worker /\ worker'.at = "idle"
    BY <1>2, IdleTypes DEF deletionFails
  <2>4. TypeOK'
    BY <1>2, <1>a, <1>b, <2>2, <2>3, CloudStep DEF deletionFails, discord
  <2>5. QED
    BY <2>3, <2>4, IdlePlace
<1>3. CASE Crash
  <2>1. worker' \in Worker /\ worker'.at = "down"
    BY <1>3, IdleTypes DEF Crash
  <2>2. TypeOK'
    BY <1>3, <1>a, <1>b, <2>1, CloudStep DEF Crash, cloud
  <2>3. QED
    BY <2>1, <2>2, IdlePlace
<1>4. CASE Restart
  <2>1. worker' \in Worker /\ worker'.at = "idle"
    BY <1>4, IdleTypes DEF Restart
  <2>2. TypeOK'
    BY <1>4, <1>a, <2>1, CloudStep DEF Restart, discord, cloud
  <2>3. QED
    BY <2>1, <2>2, IdlePlace
<1>5. QED
  BY <1>1, <1>2, <1>3, <1>4

LEMMA StepTypes ==
  ASSUME TypeOK, PlaceOK, [Next]_vars
  PROVE  TypeOK' /\ PlaceOK'
<1>1. CASE UNCHANGED vars
  BY <1>1 DEF vars, discord, local, cloud, TypeOK, PlaceOK, J, C, PageOf
<1>2. CASE Next
  <2>1. CASE (\E c \in Channel : Post(c)) \/ (\E m \in Message : messageCreate(m))
    BY <2>1, MessageTypes
  <2>2. CASE Deleting \/ \E d \in 1..MaxDeletions : WindowEnds(d)
    BY <2>2, DeletingTypes
  <2>3. CASE Dashboard
    BY <2>3, DashboardTypes
  <2>4. CASE Importing
    <3>1. CASE recoverStale \/ claimNext \/ prepareChannels \/ guildBlocked \/ begin \/ jobBoundary
      BY <3>1, PollingTypes
    <3>2. CASE \/ nextChannel \/ setCurrentChannel \/ channelBoundary
               \/ fetch \/ updateCloud \/ pageBoundary
      BY <3>2, WalkingTypes
    <3>3. CASE saveBatch
      BY <3>3, SavingTypes
    <3>4. CASE settleChannel \/ stopChannel \/ stopJob \/ complete \/ fail
      BY <3>4, EndingTypes
    <3>5. QED
      BY <2>4, <3>1, <3>2, <3>3, <3>4 DEF Importing
  <2>5. CASE queryFails \/ deletionFails \/ Crash \/ Restart
    BY <2>5, FaultTypes
  <2>6. QED
    BY <1>2, <2>1, <2>2, <2>3, <2>4, <2>5 DEF Next
<1>3. QED
  BY <1>1, <1>2

(* Every variable keeps its type, and the worker's job and channel are at work
   and running for as long as it has them: the dashboard, which changes the
   same rows, leaves them so. *)
THEOREM TypeCorrect == Spec => [](TypeOK /\ PlaceOK)
<1>1. Init => TypeOK /\ PlaceOK
  BY InitTypes
<1>2. (TypeOK /\ PlaceOK) /\ [Next]_vars => (TypeOK /\ PlaceOK)'
  BY StepTypes
<1>3. QED
  BY <1>1, <1>2, PTL DEF Spec

-----------------------------------------------------------------------------
(* Few steps write to SQLite.                                              *)

LEMMA LocalSteps ==
  ASSUME [Next]_vars
  PROVE  \/ UNCHANGED local
         \/ \E m \in Message : messageCreate(m)
         \/ saveBatch \/ deleteImportedHistory
<1>1. CASE UNCHANGED vars
  BY <1>1 DEF vars
<1>2. ASSUME NEW c \in Channel, Post(c) PROVE UNCHANGED local
  BY <1>2 DEF Post
<1>3. CASE Dashboard
  BY <1>3 DEF Dashboard, start, pause, resume, cancel, reset, retryChannel, skipChannel,
                  requestDeletion, insertDeletionRequest
<1>4. CASE claimDeletionRequest \/ completeDeletionRequest
           \/ \E d \in 1..MaxDeletions : WindowEnds(d)
  BY <1>4 DEF claimDeletionRequest, completeDeletionRequest, WindowEnds
<1>5. CASE recoverStale \/ claimNext \/ prepareChannels \/ guildBlocked \/ begin \/ jobBoundary
  BY <1>5 DEF recoverStale, claimNext, prepareChannels, guildBlocked, begin, jobBoundary
<1>6. CASE \/ nextChannel \/ setCurrentChannel \/ channelBoundary
           \/ fetch \/ updateCloud \/ pageBoundary
  BY <1>6 DEF nextChannel, setCurrentChannel, channelBoundary, fetch, updateCloud, pageBoundary
<1>7. CASE settleChannel \/ stopChannel \/ stopJob \/ complete \/ fail
  BY <1>7 DEF settleChannel, stopChannel, stopJob, complete, fail
<1>8. CASE queryFails \/ deletionFails \/ Crash \/ Restart
  BY <1>8 DEF queryFails, deletionFails, Crash, Restart
<1>9. QED
  BY <1>1, <1>2, <1>3, <1>4, <1>5, <1>6, <1>7, <1>8 DEF Next, Deleting, Importing

(* Each message is counted once.                                           *)

LEMMA RecordingCounts ==
  ASSUME TypeOK, CountedOnce, NEW ms \in SUBSET Message, NEW source \in {"imported", "live"},
         RecordEvents(ms, source)
  PROVE  CountedOnce'
<1> DEFINE new == {m \in ms : log[m] = "none"}
<1>1. Recorded' = Recorded \cup new
  BY DEF RecordEvents, Recorded, TypeOK, Outranks
<1>2. count' = count + Cardinality(new)
  BY DEF RecordEvents
<1>3. /\ IsFiniteSet(Recorded) /\ IsFiniteSet(new) /\ Recorded \cap new = {}
      /\ Cardinality(Recorded) \in Nat /\ Cardinality(new) \in Nat
  BY MessagesFinite DEF Recorded
<1>4. Cardinality(Recorded \cup new) = Cardinality(Recorded) + Cardinality(new)
  <2> HIDE DEF new
  <2>1. Cardinality(Recorded \cup new) =
          Cardinality(Recorded) + Cardinality(new) - Cardinality(Recorded \cap new)
    BY <1>3, FS_Union
  <2>2. Cardinality(Recorded \cap new) = 0
    BY <1>3, FS_EmptySet
  <2>3. QED
    BY <1>3, <2>1, <2>2
<1>5. QED
  BY <1>1, <1>2, <1>4 DEF CountedOnce

(* Counting a message does not depend on which of the gateway and the import
   has it first, how often a page is saved, or what was deleted in between. *)
THEOREM EachMessageIsCountedOnce == Spec => []CountedOnce
<1>1. Init => CountedOnce
  <2> SUFFICES ASSUME Init PROVE CountedOnce
    OBVIOUS
  <2>1. Recorded = {}
    BY DEF Init, Recorded
  <2>2. QED
    BY <2>1, FS_EmptySet DEF Init, CountedOnce
<1>2. (TypeOK /\ PlaceOK) /\ CountedOnce /\ [Next]_vars => CountedOnce'
  <2> SUFFICES ASSUME TypeOK, PlaceOK, CountedOnce, [Next]_vars PROVE CountedOnce'
    OBVIOUS
  <2>1. CASE UNCHANGED <<log, count>>
    BY <2>1 DEF CountedOnce, Recorded
  <2>2. ASSUME NEW m \in Message, messageCreate(m) PROVE CountedOnce'
    BY <2>2, RecordingCounts DEF messageCreate
  <2>3. CASE saveBatch
    <3>1. CASE BatchId(J, C, worker.before) \in receipts
      BY <2>1, <2>3, <3>1 DEF saveBatch
    <3>2. CASE BatchId(J, C, worker.before) \notin receipts
      <4> DEFINE records == {<<C, n>> : n \in worker.page \ 1..Old}
      <4>1. RecordEvents(records, "imported")
        BY <2>3, <3>2 DEF saveBatch
      <4>2. records \in SUBSET Message
        <5>1. C \in Channel /\ worker.page \subseteq 1..MaxMessages
          BY <2>3, InHand, WorkerFields DEF saveBatch, At, Walking
        <5>2. QED
          BY <5>1 DEF Message
      <4>3. QED
        BY <4>1, <4>2, RecordingCounts
    <3>3. QED
      BY <3>1, <3>2
  <2>4. CASE deleteImportedHistory
    <3> DEFINE ms == {m \in Message : log[m] = "imported"}
    <3>1. CASE worker.deletion \in removals
      BY <2>1, <2>4, <3>1 DEF deleteImportedHistory
    <3>2. CASE worker.deletion \notin removals
      <4>1. /\ log' = [m \in Message |-> IF m \in ms THEN "none" ELSE log[m]]
            /\ count' = Cardinality(Recorded \ ms)
        BY <2>4, <3>2 DEF deleteImportedHistory, Rebuilt
      <4>2. Recorded' = Recorded \ ms
        BY <4>1 DEF Recorded, TypeOK
      <4>3. QED
        BY <4>1, <4>2 DEF CountedOnce
    <3>3. QED
      BY <3>1, <3>2
  <2>5. QED
    BY <2>1, <2>2, <2>3, <2>4, LocalSteps DEF local
<1>3. QED
  BY <1>1, <1>2, TypeCorrect, PTL DEF Spec

-----------------------------------------------------------------------------
(* A job that was asked to stop does not complete.                         *)

(* A job runs only while nothing is asked of it, and once the worker is past
   the start of a job its status is no longer the one from before. *)
FlagsOK ==
  /\ \A j \in Job : jobs[j].status = "running" => ~jobs[j].cancel /\ ~jobs[j].pause
  /\ worker.at = "prepare" => C = "none"
  /\ worker.at = "begin" => C = "none"
  /\ \/ worker.at \in Walking \cup {"job", "next", "settle", "stop", "complete"}
     \/ worker.at = "stopped" /\ C # "none"
     => jobs[J].status # "preparing"

(* Only the worker says that a job completed, or prepares one. *)
LEMMA DashboardFlags ==
  ASSUME TypeOK, PlaceOK, FlagsOK, Dashboard
  PROVE  /\ FlagsOK'
         /\ \A j \in Job : jobs'[j].status = "completed" => jobs[j].status = "completed"
<1> USE JobTypes
<1>1. \A j \in Job :
        \/ jobs'[j] = jobs[j]
        \/ jobs'[j].status \notin {"running", "preparing", "completed"}
  <2>1. ASSUME NEW j \in Job, start(j) \/ pause(j) \/ resume(j) \/ cancel(j) \/ reset(j)
        PROVE  \E row : /\ jobs' = jobs \/ jobs' = [jobs EXCEPT ![j] = row]
                        /\ row.status \notin {"running", "preparing", "completed"}
    <3>1. CASE start(j)
      <4>1. jobs' = [jobs EXCEPT ![j] = [jobs[j] EXCEPT !.status = "queued"]]
        BY <3>1 DEF start, SetStatus, SetJob
      <4>2. [jobs[j] EXCEPT !.status = "queued"].status = "queued"
        BY DEF JobRow
      <4>3. QED
        BY <4>1, <4>2
    <3>2. CASE pause(j)
      <4>1. \/ jobs' = [jobs EXCEPT ![j] = [jobs[j] EXCEPT !.status = "paused"]]
            \/ jobs' = [jobs EXCEPT ![j] = [jobs[j] EXCEPT !.status = "pausing", !.pause = TRUE]]
        BY <3>2 DEF pause, SetStatus, SetJob
      <4>2. /\ [jobs[j] EXCEPT !.status = "paused"].status = "paused"
            /\ [jobs[j] EXCEPT !.status = "pausing", !.pause = TRUE].status = "pausing"
        BY DEF JobRow
      <4>3. QED
        BY <4>1, <4>2
    <3>3. CASE resume(j) \/ cancel(j) \/ reset(j)
      <4> DEFINE row(s, x) == [status |-> s, cancel |-> x, pause |-> FALSE]
      <4>1. \/ jobs' = [jobs EXCEPT ![j] = row("queued", FALSE)]
            \/ jobs' = [jobs EXCEPT ![j] = row("cancelled", FALSE)]
            \/ jobs' = [jobs EXCEPT ![j] = row("cancelling", TRUE)]
        BY <3>3 DEF resume, cancel, reset, SetJob
      <4>2. /\ row("queued", FALSE).status = "queued"
            /\ row("cancelled", FALSE).status = "cancelled"
            /\ row("cancelling", TRUE).status = "cancelling"
        OBVIOUS
      <4> HIDE DEF row
      <4>3. QED
        BY <4>1, <4>2
    <3>4. QED
      BY <2>1, <3>1, <3>2, <3>3
  <2>2. ASSUME NEW j \in Job, NEW c \in Channel, retryChannel(j, c) \/ skipChannel(j, c)
        PROVE  \E row : /\ jobs' = jobs \/ jobs' = [jobs EXCEPT ![j] = row]
                        /\ row.status \notin {"running", "preparing", "completed"}
    <3>1. jobs' = jobs \/ jobs' = [jobs EXCEPT ![j] = [jobs[j] EXCEPT !.status = "queued"]]
      BY <2>2 DEF retryChannel, skipChannel, SetStatus, SetJob
    <3>2. [jobs[j] EXCEPT !.status = "queued"].status = "queued"
      BY DEF JobRow
    <3>3. QED
      BY <3>1, <3>2
  <2>3. requestDeletion \/ (\E d \in 1..MaxDeletions : insertDeletionRequest(d)) => jobs' = jobs
    BY DEF requestDeletion, insertDeletionRequest, cloud
  <2>4. QED
    BY <2>1, <2>2, <2>3 DEF Dashboard
<1>2. worker' = worker
  BY DEF Dashboard, start, pause, resume, cancel, reset, retryChannel, skipChannel,
         requestDeletion, insertDeletionRequest
<1>3. J \in Job \/ worker.at \notin JobPlaces
  BY DEF PlaceOK
<1>4. FlagsOK'
  BY <1>1, <1>2, <1>3 DEF FlagsOK, J, C, JobPlaces, Walking
<1>5. QED
  BY <1>1, <1>4

CompletesFreely ==
  \A j \in Job : jobs'[j].status = "completed" =>
    jobs[j].status = "completed" \/ ~(jobs[j].cancel \/ jobs[j].pause)

(* Steps of the worker that leave the jobs as they are. *)
LEMMA QuietFlags ==
  ASSUME TypeOK, PlaceOK, FlagsOK, UNCHANGED jobs,
         \/ UNCHANGED worker
         \/ worker'.at \in {"idle", "down", "recover", "claim", "delete", "deleted", "fail"}
         \/ worker'.at = "begin" /\ worker'.channel = C /\ At("prepare")
         \/ worker'.at = "stopped" /\ worker'.channel = C /\ At("prepare")
         \/ /\ worker.at \in Walking \cup {"job", "next", "settle", "stop", "complete"}
            /\ worker'.at \notin {"prepare", "begin"}
            /\ worker'.job = J
         \/ /\ worker.at = "stopped" /\ C # "none" /\ worker'.at = "settle" /\ worker'.job = J
  PROVE  FlagsOK' /\ CompletesFreely
<1>1. CompletesFreely
  BY DEF CompletesFreely
<1>2. FlagsOK'
  BY DEF FlagsOK, J, C, Walking, At
<1>3. QED
  BY <1>1, <1>2

LEMMA WorkerFlags ==
  ASSUME TypeOK, PlaceOK, FlagsOK, Importing
  PROVE  FlagsOK' /\ CompletesFreely
<1> USE JobTypes, WorkerFields
<1>a. worker.at \in JobPlaces => J \in Job /\ jobs[J] \in JobRow /\ jobs[J].status \in Working
  BY InHand
<1>1. CASE recoverStale
  <2>1. worker' \in Worker /\ worker'.at = "claim"
    BY <1>1, GoStep DEF recoverStale, Place
  <2>2. ASSUME NEW j \in Job, SetStatus(j, "stalled")
        PROVE  /\ jobs'[j].status = "stalled"
               /\ \A i \in Job \ {j} : jobs'[i] = jobs[i]
    BY <2>2, StatusSet DEF Active
  <2>3. \A j \in Job : jobs'[j] = jobs[j] \/ jobs'[j].status = "stalled"
    BY <1>1, <2>2 DEF recoverStale
  <2>4. QED
    BY <2>1, <2>3 DEF FlagsOK, CompletesFreely, Walking
<1>2. CASE claimNext
  <2>1. CASE worker' = Idle /\ UNCHANGED jobs
    BY <2>1, QuietFlags, IdleTypes
  <2>2. ASSUME NEW j \in Job, SetStatus(j, "preparing"),
               worker' = [Idle EXCEPT !.at = "prepare", !.job = j]
        PROVE  FlagsOK' /\ CompletesFreely
    <3>1. worker'.at = "prepare" /\ worker'.channel = "none"
      BY <2>2 DEF Idle
    <3>2. /\ jobs'[j].status = "preparing"
          /\ \A i \in Job \ {j} : jobs'[i] = jobs[i]
      BY <2>2, StatusSet DEF Active, Working
    <3>3. QED
      BY <3>1, <3>2 DEF FlagsOK, CompletesFreely, C, Walking
  <2>3. QED
    BY <1>2, <2>1, <2>2 DEF claimNext
<1>3. CASE prepareChannels
  <2>1. worker'.at = "begin" /\ worker'.channel = C
    BY <1>3, GoStep DEF prepareChannels, Place, C
  <2>2. QED
    BY <1>3, <2>1, QuietFlags DEF prepareChannels
<1>4. CASE guildBlocked
  <2>1. worker'.at = "stopped" /\ worker'.channel = C
    BY <1>4, GiveStep DEF guildBlocked, Place, Outcome, Over, C
  <2>2. QED
    BY <1>4, <2>1, QuietFlags DEF guildBlocked, cloud
<1>5. CASE begin
  <2>0. J \in Job /\ jobs[J] \in JobRow /\ At("begin")
    BY <1>5, <1>a DEF begin, At, JobPlaces
  <2>1. worker'.at = "job" /\ worker'.job = J
    BY <1>5, GoStep DEF begin, Place, J
  <2>2. CASE jobs[J].status # "preparing"
    <3>1. jobs' = jobs
      BY <1>5, <2>2 DEF begin
    <3>2. QED
      BY <2>1, <2>2, <3>1 DEF FlagsOK, CompletesFreely, J, Walking
  <2>3. CASE jobs[J].status = "preparing"
    <3> DEFINE s == IF jobs[J].cancel THEN "cancelling"
                    ELSE IF jobs[J].pause THEN "pausing" ELSE "running"
    <3>1. jobs' = [jobs EXCEPT ![J] = [jobs[J] EXCEPT !.status = s]]
      BY <1>5, <2>3 DEF begin, SetStatus, SetJob
    <3>2. /\ s \in {"cancelling", "pausing", "running"}
          /\ s = "running" => ~jobs[J].cancel /\ ~jobs[J].pause
      OBVIOUS
    <3> HIDE DEF s
    <3>3. /\ jobs'[J].status = s /\ jobs'[J].cancel = jobs[J].cancel
          /\ jobs'[J].pause = jobs[J].pause
          /\ \A i \in Job \ {J} : jobs'[i] = jobs[i]
      BY <2>0, <3>1 DEF JobRow
    <3>4. FlagsOK'
      BY <2>1, <3>2, <3>3 DEF FlagsOK, J, Walking
    <3>5. CompletesFreely
      BY <3>2, <3>3 DEF CompletesFreely
    <3>6. QED
      BY <3>4, <3>5
  <2>4. QED
    BY <2>2, <2>3
<1>6. CASE jobBoundary
  <2>1. worker'.at \in {"next", "stopped"} /\ worker'.job = J
    <3>1. CASE Asked(J, FALSE) = ""
      BY <1>6, <3>1, GoStep DEF jobBoundary, Place, J
    <3>2. CASE Asked(J, FALSE) # ""
      <4>1. Asked(J, FALSE) \in {"cancelled", "paused"}
        BY <3>2 DEF Asked
      <4>2. QED
        BY <1>6, <3>2, <4>1, GiveStep DEF jobBoundary, Place, J, Outcome, Over
    <3>3. QED
      BY <3>1, <3>2
  <2>2. QED
    BY <1>6, <2>1, QuietFlags DEF jobBoundary, cloud, At
<1>7. CASE nextChannel
  <2>1. worker'.at \in {"claimed", "complete"} /\ worker'.job = J
    <3>1. ASSUME NEW c \in Channel, NEW k,
                 worker' = [worker EXCEPT !.at = "claimed", !.channel = c, !.pages = 0,
                                          !.before = k]
          PROVE  worker'.at = "claimed" /\ worker'.job = J
      BY <3>1 DEF Worker, J
    <3>2. Go("complete") => worker'.at = "complete" /\ worker'.job = J
      BY GoStep DEF Place, J
    <3>3. QED
      BY <1>7, <3>1, <3>2 DEF nextChannel
  <2>2. QED
    BY <1>7, <2>1, QuietFlags DEF nextChannel, At
<1>b. CASE setCurrentChannel
  <2>1. worker'.at = "channel" /\ worker'.job = J
    BY <1>b, GoStep DEF setCurrentChannel, Place, J
  <2>2. QED
    BY <1>b, <2>1, QuietFlags DEF setCurrentChannel, At, cloud, Walking
<1>8. CASE channelBoundary
  <2>1. worker'.at \in {"fetch", "settle", "stop"} /\ worker'.job = J
    BY <1>8, GoStep, StopTypes DEF channelBoundary, At, Place, J
  <2>2. QED
    BY <1>8, <2>1, QuietFlags DEF channelBoundary, At, cloud, Walking
<1>9. CASE fetch
  <2>1. worker'.at \in {"settle", "save"} /\ worker'.job = J
    BY <1>9 DEF fetch, Worker, J
  <2>2. QED
    BY <1>9, <2>1, QuietFlags DEF fetch, At, cloud, Walking
<1>10. CASE saveBatch \/ updateCloud
  <2>1. worker'.at \in {"cloud", "saved"} /\ worker'.job = J
    BY <1>10, GoStep DEF saveBatch, updateCloud, Place, J
  <2>2. QED
    BY <1>10, <2>1, QuietFlags DEF saveBatch, updateCloud, At, Walking
<1>11. CASE pageBoundary
  <2>1. worker'.at \in {"settle", "stop", "channel"} /\ worker'.job = J
    <3>1. CASE StopAtBoundary
      BY <1>11, <3>1, StopTypes DEF pageBoundary, At
    <3>2. ASSUME NEW s \in {"completed", "failed"}, Give(s, "settle")
          PROVE  worker'.at = "settle" /\ worker'.job = J
      BY <3>2, GiveStep DEF Place, Outcome, Over, J
    <3>3. ASSUME NEW k, worker' = [worker EXCEPT !.at = "channel", !.before = k, !.page = {}]
          PROVE  worker'.at = "channel" /\ worker'.job = J
      BY <3>3 DEF Worker, J
    <3>4. QED
      BY <1>11, <3>1, <3>2, <3>3 DEF pageBoundary
  <2>2. QED
    BY <1>11, <2>1, QuietFlags DEF pageBoundary, At, cloud, Walking
<1>12. CASE settleChannel
  <2>1. worker'.at = "job" /\ worker'.job = J
    BY <1>12 DEF settleChannel, Idle
  <2>2. QED
    BY <1>12, <2>1, QuietFlags DEF settleChannel, At
<1>13. CASE stopChannel
  <2>1. worker'.at = "stopped" /\ worker'.job = J
    BY <1>13, GoStep DEF stopChannel, Place, J
  <2>2. QED
    BY <1>13, <2>1, QuietFlags DEF stopChannel, At
<1>14. CASE stopJob
  <2>0. J \in Job /\ jobs[J] \in JobRow
    BY <1>14, <1>a DEF stopJob, At, JobPlaces
  <2>1. worker'.at = "idle"
    BY <1>14, IdleTypes DEF stopJob
  <2>2. \A j \in Job : jobs'[j] = jobs[j] \/ jobs'[j].status \in {"paused", "cancelled"}
    <3>1. [jobs[J] EXCEPT !.status = "paused", !.pause = FALSE].status = "paused"
      BY <2>0 DEF JobRow
    <3> DEFINE over == [status |-> "cancelled", cancel |-> FALSE, pause |-> FALSE]
    <3>2. over.status = "cancelled"
      OBVIOUS
    <3>3. \/ jobs' = jobs \/ jobs' = [jobs EXCEPT ![J] = over]
          \/ jobs' = [jobs EXCEPT ![J] = [jobs[J] EXCEPT !.status = "paused", !.pause = FALSE]]
      BY <1>14 DEF stopJob, SetJob
    <3> HIDE DEF over
    <3>4. QED
      BY <2>0, <3>1, <3>2, <3>3
  <2>3. QED
    BY <2>1, <2>2 DEF FlagsOK, CompletesFreely, Walking
<1>15. CASE fail
  <2>0. J \in Job
    BY <1>15, <1>a DEF fail, At, JobPlaces
  <2>1. worker'.at = "idle"
    BY <1>15, IdleTypes DEF fail
  <2>2. \A j \in Job : jobs'[j] = jobs[j] \/ jobs'[j].status = "failed"
    BY <1>15, <2>0, StatusSet DEF fail, Over
  <2>3. QED
    BY <2>1, <2>2 DEF FlagsOK, CompletesFreely, Walking
<1>16. CASE complete
  <2>0. J \in Job /\ jobs[J] \in JobRow /\ At("complete") /\ jobs[J].status \in Working
    BY <1>16, <1>a DEF complete, At, JobPlaces
  <2>1. worker'.at = "idle"
    BY <1>16, IdleTypes DEF complete
  <2>2. jobs[J].status # "preparing"
    BY <2>0 DEF FlagsOK, At
  <2>3. CASE jobs[J].status = "running"
    <3>1. jobs'[J].status = "completed" /\ \A i \in Job \ {J} : jobs'[i] = jobs[i]
      BY <1>16, <2>0, <2>3, StatusSet DEF complete, CompletedStatus, Over
    <3>2. ~jobs[J].cancel /\ ~jobs[J].pause
      BY <2>0, <2>3 DEF FlagsOK
    <3>3. QED
      BY <2>1, <3>1, <3>2 DEF FlagsOK, CompletesFreely, Walking
  <2>4. CASE jobs[J].status # "running"
    <3>1. CompletedStatus(jobs[J].status) = jobs[J].status
      BY <2>2, <2>4 DEF CompletedStatus
    <3>2. jobs' = jobs
      BY <1>16, <2>0, <3>1 DEF complete, SetStatus, SetJob, JobRow
    <3>3. QED
      BY <2>1, <3>2, QuietFlags
  <2>5. QED
    BY <2>3, <2>4
<1>17. QED
  BY <1>1, <1>2, <1>3, <1>4, <1>5, <1>6, <1>7, <1>8, <1>9, <1>10, <1>11, <1>12, <1>13, <1>14,
     <1>15, <1>16, <1>b DEF Importing

LEMMA FlagStep ==
  ASSUME TypeOK, PlaceOK, FlagsOK, [Next]_vars
  PROVE  FlagsOK' /\ CompletesFreely
<1>1. CASE UNCHANGED vars
  BY <1>1, QuietFlags DEF vars, cloud
<1>2. CASE \/ \E c \in Channel : Post(c)
           \/ \E m \in Message : messageCreate(m)
           \/ \E d \in 1..MaxDeletions : WindowEnds(d)
  BY <1>2, QuietFlags DEF Post, messageCreate, WindowEnds, cloud
<1>3. CASE Dashboard
  BY <1>3, DashboardFlags DEF CompletesFreely
<1>4. CASE Deleting
  <2>1. worker'.at \in {"idle", "recover", "delete", "deleted"} /\ jobs' = jobs
    <3>1. CASE claimDeletionRequest
      <4>1. ASSUME NEW d \in 1..MaxDeletions,
                   worker' = [Idle EXCEPT !.at = "delete", !.deletion = d]
            PROVE  worker'.at = "delete"
        BY <4>1 DEF Idle
      <4>2. Go("recover") => worker'.at = "recover"
        BY GoStep DEF Place
      <4>3. QED
        BY <3>1, <4>1, <4>2 DEF claimDeletionRequest
    <3>2. CASE deleteImportedHistory
      BY <3>2, GoStep DEF deleteImportedHistory, Place, cloud
    <3>3. CASE completeDeletionRequest
      BY <3>3, IdleTypes DEF completeDeletionRequest
    <3>4. QED
      BY <1>4, <3>1, <3>2, <3>3 DEF Deleting
  <2>2. QED
    BY <2>1, QuietFlags
<1>5. CASE Importing
  BY <1>5, WorkerFlags
<1>6. CASE deletionFails \/ Crash \/ Restart
  <2>1. worker'.at \in {"idle", "down"} /\ jobs' = jobs
    BY <1>6, IdleTypes DEF deletionFails, Crash, Restart, cloud
  <2>2. QED
    BY <2>1, QuietFlags
<1>7. CASE queryFails
  <2>0. jobs' = jobs
    BY <1>7 DEF queryFails, cloud
  <2>1. CASE OnChannel /\ Give("failed", "settle")
    <3>1. worker'.at = "settle" /\ worker'.job = J
      BY <2>1, GiveStep DEF Place, Outcome, Over, J
    <3>2. \/ worker.at \in Walking \cup {"settle", "stop"}
          \/ worker.at = "stopped" /\ C # "none"
      BY <2>1 DEF OnChannel, At, Walking
    <3>3. QED
      BY <2>0, <3>1, <3>2, QuietFlags
  <2>2. CASE Go("fail")
    <3>1. worker'.at = "fail"
      BY <2>2, GoStep DEF Place
    <3>2. QED
      BY <2>0, <3>1, QuietFlags
  <2>3. CASE At("cloud") /\ Go("saved")
    <3>1. worker'.at = "saved" /\ worker'.job = J /\ worker.at \in Walking
      BY <2>3, GoStep DEF Place, J, At, Walking
    <3>2. QED
      BY <2>0, <3>1, QuietFlags
  <2>4. CASE worker' = Idle
    BY <2>0, <2>4, QuietFlags, IdleTypes
  <2>5. QED
    BY <1>7, <2>1, <2>2, <2>3, <2>4 DEF queryFails
<1>8. QED
  BY <1>1, <1>2, <1>3, <1>4, <1>5, <1>6, <1>7 DEF Next

(* Whenever the dashboard asks, and whatever the worker has read of the job by
   then: it does not complete while it is asked to pause or to cancel. *)
THEOREM StoppedJobsDoNotComplete == Spec => StoppedJobDoesNotComplete
<1>1. Init => FlagsOK
  <2> SUFFICES ASSUME Init PROVE FlagsOK
    OBVIOUS
  <2>1. worker.at = "idle"
    BY DEF Init, Idle
  <2>2. \A j \in Job : jobs[j].status = "none"
    BY DEF Init, NoJob
  <2>3. QED
    BY <2>1, <2>2 DEF FlagsOK, Walking
<1>2. (TypeOK /\ PlaceOK) /\ FlagsOK /\ [Next]_vars => FlagsOK'
  BY FlagStep
<1>3. (TypeOK /\ PlaceOK) /\ FlagsOK /\ [Next]_vars =>
        [\A j \in Job :
           (jobs[j].cancel \/ jobs[j].pause) /\ jobs'[j].status = "completed"
             => jobs[j].status = "completed"]_vars
  BY FlagStep DEF CompletesFreely
<1>4. QED
  BY <1>1, <1>2, <1>3, TypeCorrect, PTL DEF Spec, StoppedJobDoesNotComplete

-----------------------------------------------------------------------------
(* A completed channel has no gap.                                         *)

Kept == Recorded \cup gone

(* The walk has been from its newest message down to k. *)
DoneFrom(j, c, k) == \A n \in (Old + 1)..top[j][c] : n >= k => <<c, n>> \in Kept

(* What the rows and the receipts say of a walk that is over, or that will go
   on.  A receipt stands for its page: that of the first for the page that was
   recorded, the walk's newest message and what is before it. *)
RowOK(j, c) ==
  /\ top[j][c] =< posted[c]
  /\ <<j, c, 0>> \in receipts <=> top[j][c] # 0
  /\ \A b \in 0..MaxMessages : <<j, c, b>> \in receipts =>
       \A n \in PageOf(IF b = 0 THEN top[j][c] ELSE b - 1) : n > Old => <<c, n>> \in Kept
  /\ checkpoint[j][c] # 0 => top[j][c] # 0 /\ DoneFrom(j, c, checkpoint[j][c])
  /\ progress[j][c].cursor # 0 => top[j][c] # 0 /\ DoneFrom(j, c, progress[j][c].cursor)
  /\ progress[j][c].status = "completed" => DoneFrom(j, c, 0)

RowInv == \A j \in Job, c \in Channel : RowOK(j, c)

(* What the worker knows of the walk it is on. *)
WalkInv ==
  /\ worker.at \in {"claimed", "channel", "fetch", "save"} /\ worker.before # 0 =>
       top[J][C] # 0 /\ DoneFrom(J, C, worker.before)
  /\ worker.at = "save" => \E e \in 1..MaxMessages :
       /\ worker.page = PageOf(e)
       /\ IF worker.before = 0 THEN top[J][C] =< e /\ e =< posted[C] ELSE e = worker.before - 1
  /\ worker.at \in {"cloud", "saved"} =>
       top[J][C] # 0 /\ DoneFrom(J, C, Min(worker.page))
  /\ worker.at = "settle" /\ worker.as = "completed" => DoneFrom(J, C, 0)

(* The dashboard and the worker's ends of a channel move no cursor forward. *)
RowsKeep ==
  \A j \in Job, c \in Channel :
    /\ progress'[j][c].cursor \in {0, progress[j][c].cursor}
    /\ progress'[j][c].status = "completed" => progress[j][c].status = "completed"

LEMMA DoneCarried ==
  ASSUME Kept \subseteq Kept', UNCHANGED top, NEW j, NEW c, NEW k, DoneFrom(j, c, k)
  PROVE  DoneFrom(j, c, k)'
BY DEF DoneFrom

LEMMA RowsCarried ==
  ASSUME TypeOK, TypeOK', RowInv, Kept \subseteq Kept', UNCHANGED <<top, receipts, checkpoint>>,
         \A c \in Channel : posted[c] =< posted'[c], RowsKeep
  PROVE  RowInv'
<1> SUFFICES ASSUME NEW j \in Job, NEW c \in Channel PROVE RowOK(j, c)'
  BY DEF RowInv
<1>0. RowOK(j, c)
  BY DEF RowInv
<1>1. top'[j][c] =< posted'[c]
  <2>1. top[j][c] =< posted[c] /\ posted[c] =< posted'[c] /\ top'[j][c] = top[j][c]
    BY <1>0 DEF RowOK
  <2>2. top[j][c] \in Nat /\ posted[c] \in Nat /\ posted'[c] \in Nat
    BY Bounds DEF TypeOK
  <2>3. QED
    BY <2>1, <2>2
<1>2. <<j, c, 0>> \in receipts' <=> top'[j][c] # 0
  BY <1>0 DEF RowOK
<1>3. \A b \in 0..MaxMessages : <<j, c, b>> \in receipts' =>
        \A n \in PageOf(IF b = 0 THEN top'[j][c] ELSE b - 1) : n > Old => <<c, n>> \in Kept'
  BY <1>0 DEF RowOK
<1>4. checkpoint'[j][c] # 0 => top'[j][c] # 0 /\ DoneFrom(j, c, checkpoint[j][c])'
  BY <1>0 DEF RowOK, DoneFrom
<1>5. progress'[j][c].cursor # 0 =>
        top'[j][c] # 0 /\ \A n \in (Old + 1)..top'[j][c] : n >= progress'[j][c].cursor =>
                              <<c, n>> \in Kept'
  BY <1>0 DEF RowOK, DoneFrom, RowsKeep
<1>6. progress'[j][c].status = "completed" =>
        \A n \in (Old + 1)..top'[j][c] : n >= 0 => <<c, n>> \in Kept'
  BY <1>0 DEF RowOK, DoneFrom, RowsKeep
<1>7. QED
  BY <1>1, <1>2, <1>3, <1>4, <1>5, <1>6 DEF RowOK, DoneFrom, PageOf

(* Away from its walk the worker knows nothing. *)
LEMMA WalkOver ==
  ASSUME worker'.at \notin Walking, worker'.at = "settle" => worker'.as # "completed"
  PROVE  WalkInv'
BY DEF WalkInv, Walking

(* A step of somebody else takes nothing from the walk. *)
LEMMA WalkKept ==
  ASSUME TypeOK, TypeOK', PlaceOK, WalkInv, Kept \subseteq Kept', UNCHANGED <<worker, top>>,
         \A c \in Channel : posted[c] =< posted'[c]
  PROVE  WalkInv'
<1> USE Bounds
<1>0. J' = J /\ C' = C
  BY DEF J, C
<1>1. \A k : DoneFrom(J, C, k) => \A n \in (Old + 1)..top'[J][C] : n >= k => <<C, n>> \in Kept'
  BY DEF DoneFrom
<1>2. worker.at = "save" => posted[C] \in Nat /\ posted'[C] \in Nat /\ posted[C] =< posted'[C]
  <2>1. worker.at = "save" => C \in Channel
    BY DEF PlaceOK, Walking
  <2>2. QED
    BY <2>1 DEF TypeOK
<1>3. worker.at = "save" => \E e \in 1..MaxMessages :
        /\ worker.page = PageOf(e)
        /\ IF worker.before = 0 THEN top[J][C] =< e /\ e =< posted'[C] ELSE e = worker.before - 1
  BY <1>2 DEF WalkInv
<1>4. QED
  BY <1>0, <1>1, <1>3 DEF WalkInv, DoneFrom, PageOf

LEMMA GapInit == Init => RowInv /\ WalkInv
<1> SUFFICES ASSUME Init PROVE RowInv /\ WalkInv
  OBVIOUS
<1>1. worker.at = "idle"
  BY DEF Init, Idle
<1>2. ASSUME NEW j \in Job, NEW c \in Channel PROVE RowOK(j, c)
  <2>1. /\ top[j][c] = 0 /\ receipts = {} /\ checkpoint[j][c] = 0 /\ posted[c] = First
        /\ progress[j][c].cursor = 0 /\ progress[j][c].status = "none"
    BY DEF Init, NoProgress
  <2>2. QED
    BY <2>1, Bounds DEF RowOK
<1>3. QED
  BY <1>1, <1>2 DEF RowInv, WalkInv

LEMMA KeptGrows ==
  ASSUME TypeOK, [Next]_vars
  PROVE  Kept \subseteq Kept'
<1>1. CASE UNCHANGED local
  BY <1>1 DEF local, Kept, Recorded
<1>2. ASSUME NEW m \in Message, messageCreate(m) PROVE Kept \subseteq Kept'
  BY <1>2 DEF messageCreate, RecordEvents, TypeOK, Kept, Recorded
<1>3. CASE saveBatch
  <2>1. gone' = gone /\ Recorded \subseteq Recorded'
    BY <1>3 DEF saveBatch, RecordEvents, TypeOK, Recorded
  <2>2. QED
    BY <2>1 DEF Kept
<1>4. CASE deleteImportedHistory
  <2>1. CASE worker.deletion \in removals
    BY <1>4, <2>1 DEF deleteImportedHistory, Kept, Recorded
  <2>2. CASE worker.deletion \notin removals
    <3> DEFINE ms == {m \in Message : log[m] = "imported"}
    <3>1. /\ log' = [m \in Message |-> IF m \in ms THEN "none" ELSE log[m]]
          /\ gone' = gone \cup ms
      BY <1>4, <2>2 DEF deleteImportedHistory
    <3>2. Recorded' = Recorded \ ms
      BY <3>1 DEF Recorded, TypeOK
    <3>3. QED
      BY <3>1, <3>2 DEF Kept
  <2>3. QED
    BY <2>1, <2>2
<1>5. QED
  BY <1>1, <1>2, <1>3, <1>4, LocalSteps

LEMMA WalkFields ==
  ASSUME NEW p \in Progress
  PROVE  /\ \A s : Settled(p, s).cursor = p.cursor
         /\ Skipping(p).cursor = p.cursor
         /\ NoProgress.cursor = 0 /\ NoProgress.status = "none"
<1>1. \A s : Settled(p, s).cursor = p.cursor
  BY DEF Settled, Progress
<1>2. Skipping(p).cursor = p.cursor
  BY DEF Skipping, Progress
<1>3. NoProgress.cursor = 0 /\ NoProgress.status = "none"
  BY DEF NoProgress
<1>4. QED
  BY <1>1, <1>2, <1>3

LEMMA DashboardRows ==
  ASSUME TypeOK, Dashboard
  PROVE  RowsKeep
<1> USE ProgressTypes
<1>a. ASSUME UNCHANGED progress PROVE RowsKeep
  BY <1>a DEF RowsKeep
<1>b. ASSUME NEW j \in Job, NEW s \in {"pending", "cancelled"}, NEW S,
             progress' = [progress EXCEPT ![j] = [c \in Channel |->
               IF progress[j][c].status \in S THEN Settled(progress[j][c], s)
                                              ELSE progress[j][c]]]
      PROVE  RowsKeep
  <2>1. \A c \in Channel :
          /\ Settled(progress[j][c], s).cursor = progress[j][c].cursor
          /\ Settled(progress[j][c], s).status = s
    <3> TAKE c \in Channel
    <3>1. progress[j][c] \in Progress /\ s \in RowStatus
      BY DEF RowStatus, Over
    <3>2. QED
      BY <3>1, WalkFields, RowTypes
  <2>2. \A i \in Job, c \in Channel :
          \/ progress'[i][c] = progress[i][c]
          \/ i = j /\ progress'[i][c] = Settled(progress[i][c], s)
    BY <1>b
  <2>3. QED
    BY <2>1, <2>2 DEF RowsKeep
<1>1. ASSUME NEW j \in Job, start(j) \/ pause(j)
      PROVE  RowsKeep
  BY <1>1, <1>a DEF start, pause
<1>2. ASSUME NEW j \in Job, resume(j)
      PROVE  RowsKeep
  <2>1. progress' = [progress EXCEPT ![j] = [c \in Channel |->
          IF progress[j][c].status \in {"running", "paused"}
            THEN Settled(progress[j][c], "pending") ELSE progress[j][c]]]
    BY <1>2 DEF resume, SetChannels, Settled
  <2>2. QED
    BY <1>b, <2>1
<1>3. ASSUME NEW j \in Job, cancel(j)
      PROVE  RowsKeep
  <2>1. \/ UNCHANGED progress
        \/ progress' = [progress EXCEPT ![j] = [c \in Channel |->
             IF progress[j][c].status \in {"pending", "running", "paused"}
               THEN Settled(progress[j][c], "cancelled") ELSE progress[j][c]]]
    BY <1>3 DEF cancel, SetChannels, Settled
  <2>2. QED
    BY <1>a, <1>b, <2>1
<1>4. ASSUME NEW j \in Job, reset(j)
      PROVE  RowsKeep
  <2>1. progress' = [progress EXCEPT ![j] = [c \in Channel |-> NoProgress]]
    BY <1>4 DEF reset, SetChannels
  <2>2. NoProgress.cursor = 0 /\ NoProgress.status = "none"
    BY DEF NoProgress
  <2>3. \A i \in Job, c \in Channel :
          progress'[i][c] = progress[i][c] \/ progress'[i][c] = NoProgress
    BY <2>1
  <2>4. QED
    BY <2>2, <2>3 DEF RowsKeep
<1>5. ASSUME NEW j \in Job, NEW c \in Channel, retryChannel(j, c) \/ skipChannel(j, c)
      PROVE  RowsKeep
  <2>1. \/ UNCHANGED progress
        \/ progress' = [progress EXCEPT ![j][c] = Skipping(progress[j][c])]
        \/ progress' = [progress EXCEPT ![j][c] = Settled(progress[j][c], "pending")]
        \/ progress' = [progress EXCEPT ![j][c] = Settled(progress[j][c], "skipped")]
    BY <1>5 DEF retryChannel, skipChannel, Skipping, Settled
  <2>2. /\ Skipping(progress[j][c]).cursor = progress[j][c].cursor
        /\ Skipping(progress[j][c]).status = progress[j][c].status
        /\ \A s \in {"pending", "skipped"} :
             /\ Settled(progress[j][c], s).cursor = progress[j][c].cursor
             /\ Settled(progress[j][c], s).status = s
    BY WalkFields, RowTypes DEF RowStatus
  <2>3. \A i \in Job, d \in Channel :
          \/ progress'[i][d] = progress[i][d]
          \/ /\ i = j /\ d = c
             /\ progress'[i][d] \in {Skipping(progress[j][c]), Settled(progress[j][c], "pending"),
                                     Settled(progress[j][c], "skipped")}
    BY <2>1
  <2>4. QED
    BY <2>2, <2>3 DEF RowsKeep
<1>6. CASE requestDeletion \/ \E d \in 1..MaxDeletions : insertDeletionRequest(d)
  BY <1>6, <1>a DEF requestDeletion, insertDeletionRequest, cloud
<1>7. QED
  BY <1>1, <1>2, <1>3, <1>4, <1>5, <1>6 DEF Dashboard

(* The steps that keep the cursors, and their walk. *)
LEMMA OutsideGap ==
  ASSUME TypeOK, TypeOK', PlaceOK, RowInv, WalkInv, [Next]_vars,
         UNCHANGED <<top, receipts, checkpoint>>, RowsKeep,
         \A c \in Channel : posted[c] =< posted'[c],
         \/ UNCHANGED worker
         \/ worker'.at \notin Walking /\ (worker'.at = "settle" => worker'.as # "completed")
  PROVE  RowInv' /\ WalkInv'
BY KeptGrows, RowsCarried, WalkKept, WalkOver

LEMMA OthersGap ==
  ASSUME TypeOK, TypeOK', PlaceOK, RowInv, WalkInv, [Next]_vars,
         \/ UNCHANGED vars \/ Dashboard \/ Deleting
         \/ \E c \in Channel : Post(c)
         \/ \E m \in Message : messageCreate(m)
         \/ \E d \in 1..MaxDeletions : WindowEnds(d)
         \/ deletionFails \/ Crash \/ Restart
  PROVE  RowInv' /\ WalkInv'
<1> USE Bounds
<1>a. UNCHANGED progress => RowsKeep
  BY DEF RowsKeep
<1>b. UNCHANGED posted => \A c \in Channel : posted[c] =< posted'[c]
  BY DEF TypeOK
<1>1. CASE UNCHANGED vars
  BY <1>1, <1>a, <1>b, OutsideGap DEF vars, discord, local, cloud
<1>2. CASE Dashboard
  <2>1. RowsKeep
    BY <1>2, DashboardRows
  <2>2. UNCHANGED <<worker, posted, top, receipts, checkpoint>>
    BY <1>2 DEF Dashboard, start, pause, resume, cancel, reset, retryChannel, skipChannel,
                requestDeletion, insertDeletionRequest, local, discord
  <2>3. QED
    BY <1>b, <2>1, <2>2, OutsideGap
<1>3. CASE Deleting
  <2>1. /\ worker'.at \in {"idle", "recover", "delete", "deleted"}
        /\ UNCHANGED <<progress, posted, top, receipts, checkpoint>>
    <3>1. CASE claimDeletionRequest
      <4>1. ASSUME NEW d \in 1..MaxDeletions,
                   worker' = [Idle EXCEPT !.at = "delete", !.deletion = d]
            PROVE  worker'.at = "delete"
        BY <4>1 DEF Idle
      <4>2. Go("recover") => worker'.at = "recover"
        BY GoStep DEF Place
      <4>3. QED
        BY <3>1, <4>1, <4>2 DEF claimDeletionRequest, local, discord
    <3>2. CASE deleteImportedHistory
      BY <3>2, GoStep DEF deleteImportedHistory, Place, cloud, discord
    <3>3. CASE completeDeletionRequest
      BY <3>3, IdleTypes DEF completeDeletionRequest, local, discord
    <3>4. QED
      BY <1>3, <3>1, <3>2, <3>3 DEF Deleting
  <2>2. QED
    BY <1>a, <1>b, <2>1, OutsideGap DEF Walking
<1>4. ASSUME NEW c \in Channel, Post(c) PROVE RowInv' /\ WalkInv'
  <2>1. \A d \in Channel : posted[d] =< posted'[d]
    BY <1>4 DEF Post, TypeOK
  <2>2. QED
    BY <1>4, <1>a, <2>1, OutsideGap DEF Post, local, cloud
<1>5. ASSUME NEW m \in Message, messageCreate(m) PROVE RowInv' /\ WalkInv'
  BY <1>5, <1>a, <1>b, OutsideGap DEF messageCreate, cloud
<1>6. ASSUME NEW d \in 1..MaxDeletions, WindowEnds(d) PROVE RowInv' /\ WalkInv'
  BY <1>6, <1>a, <1>b, OutsideGap DEF WindowEnds, local, discord
<1>7. CASE deletionFails \/ Crash \/ Restart
  <2>1. /\ worker'.at \in {"idle", "down"}
        /\ UNCHANGED <<progress, posted, top, receipts, checkpoint>>
    BY <1>7, IdleTypes DEF deletionFails, Crash, Restart, local, cloud, discord
  <2>2. QED
    BY <1>a, <1>b, <2>1, OutsideGap DEF Walking
<1>8. QED
  BY <1>1, <1>2, <1>3, <1>4, <1>5, <1>6, <1>7

LEMMA OffWalkGap ==
  ASSUME TypeOK, TypeOK', PlaceOK, RowInv, WalkInv, [Next]_vars,
         \/ recoverStale \/ claimNext \/ prepareChannels \/ guildBlocked \/ begin \/ jobBoundary
         \/ stopJob \/ complete \/ fail
  PROVE  RowInv' /\ WalkInv'
<1> USE ProgressTypes
<1>0. UNCHANGED posted => \A c \in Channel : posted[c] =< posted'[c]
  BY Bounds DEF TypeOK
<1>1. /\ UNCHANGED <<top, receipts, checkpoint>>
      /\ \A c \in Channel : posted[c] =< posted'[c]
  BY <1>0 DEF recoverStale, claimNext, prepareChannels, guildBlocked, begin, jobBoundary,
              stopJob, complete, fail, local, discord
<1>2. worker'.at \in {"claim", "prepare", "idle", "begin", "stopped", "job", "next"}
  <2>1. CASE recoverStale \/ prepareChannels \/ begin
    BY <2>1, GoStep DEF recoverStale, prepareChannels, begin, Place
  <2>2. CASE claimNext \/ stopJob \/ complete \/ fail
    <3>1. ASSUME NEW j \in Job, worker' = [Idle EXCEPT !.at = "prepare", !.job = j]
          PROVE  worker'.at = "prepare"
      BY <3>1 DEF Idle
    <3>2. QED
      BY <2>2, <3>1, IdleTypes DEF claimNext, stopJob, complete, fail
  <2>3. CASE guildBlocked
    BY <2>3, GiveStep DEF guildBlocked, Place, Outcome, Over
  <2>4. CASE jobBoundary
    <3>1. CASE Asked(J, FALSE) = ""
      BY <2>4, <3>1, GoStep DEF jobBoundary, Place
    <3>2. CASE Asked(J, FALSE) # ""
      <4>1. Asked(J, FALSE) \in {"cancelled", "paused"}
        BY <3>2 DEF Asked
      <4>2. QED
        BY <2>4, <3>2, <4>1, GiveStep DEF jobBoundary, Place, Outcome, Over
    <3>3. QED
      BY <3>1, <3>2
  <2>5. QED
    BY <2>1, <2>2, <2>3, <2>4
<1>3. RowsKeep
  <2>1. CASE UNCHANGED progress
    BY <2>1 DEF RowsKeep
  <2>2. CASE prepareChannels
    <3>1. PICK readable \in SUBSET Channel :
            progress' = [progress EXCEPT ![J] = [c \in Channel |->
              IF progress[J][c].status # "none" THEN progress[J][c]
              ELSE [NoProgress EXCEPT !.status = IF c \in readable THEN "pending" ELSE "skipped"]]]
      BY <2>2 DEF prepareChannels
    <3> DEFINE fresh(s) == [NoProgress EXCEPT !.status = s]
    <3>2. \A s \in {"pending", "skipped"} : fresh(s).cursor = 0 /\ fresh(s).status = s
      BY DEF NoProgress
    <3>3. \A i \in Job, c \in Channel :
            \/ progress'[i][c] = progress[i][c]
            \/ progress'[i][c] = fresh("pending")
            \/ progress'[i][c] = fresh("skipped")
      BY <3>1
    <3> HIDE DEF fresh
    <3>4. QED
      BY <3>2, <3>3 DEF RowsKeep
  <2>3. QED
    BY <2>1, <2>2 DEF recoverStale, claimNext, guildBlocked, begin, jobBoundary, stopJob,
                      complete, fail, cloud
<1>4. QED
  BY <1>1, <1>2, <1>3, OutsideGap DEF Walking

(* The rows at the end of a channel, and at the start of its walk. *)
LEMMA ChannelRowGap ==
  ASSUME TypeOK, TypeOK', PlaceOK, RowInv, WalkInv, [Next]_vars,
         nextChannel \/ settleChannel \/ stopChannel
  PROVE  RowInv' /\ WalkInv'
<1> USE Bounds, ProgressTypes
<1>0. UNCHANGED posted => \A c \in Channel : posted[c] =< posted'[c]
  BY DEF TypeOK
<1>1. /\ UNCHANGED <<top, receipts, checkpoint, posted>>
      /\ \A c \in Channel : posted[c] =< posted'[c]
  BY <1>0 DEF nextChannel, settleChannel, stopChannel, local, discord
<1>2. CASE nextChannel
  <2>0. At("next") /\ J \in Job
    BY <1>2, InHand DEF nextChannel, At, JobPlaces
  <2>1. CASE Go("complete") /\ UNCHANGED progress
    <3>1. worker'.at = "complete"
      BY <2>1, GoStep DEF Place
    <3>2. RowsKeep
      BY <2>1 DEF RowsKeep
    <3>3. QED
      BY <1>1, <3>1, <3>2, OutsideGap DEF Walking
  <2>2. ASSUME NEW c \in Channel,
               progress' = [progress EXCEPT ![J][c].status = "running"],
               worker' = [worker EXCEPT !.at = "claimed", !.channel = c, !.pages = 0,
                                        !.before = progress[J][c].cursor]
        PROVE  RowInv' /\ WalkInv'
    <3> DEFINE k == progress[J][c].cursor
    <3>1. progress[J][c] \in Progress
      BY <2>0
    <3>2. /\ [progress[J][c] EXCEPT !.status = "running"].status = "running"
          /\ [progress[J][c] EXCEPT !.status = "running"].cursor = k
      BY <3>1 DEF Progress
    <3>3. RowsKeep
      BY <2>0, <2>2, <3>2 DEF RowsKeep
    <3>4. RowInv'
      BY <1>1, <3>3, KeptGrows, RowsCarried
    <3>5. k # 0 => top[J][c] # 0 /\ DoneFrom(J, c, k)
      BY <2>0 DEF RowInv, RowOK
    <3>6. DoneFrom(J, c, k) => \A n \in (Old + 1)..top'[J][c] : n >= k => <<c, n>> \in Kept'
      BY <1>1, KeptGrows DEF DoneFrom
    <3> HIDE DEF k
    <3>7. worker' = [worker EXCEPT !.at = "claimed", !.channel = c, !.pages = 0, !.before = k]
      BY <2>2 DEF k
    <3>8. worker'.at = "claimed" /\ worker'.channel = c /\ worker'.before = k
      BY <3>7, WorkerFields DEF Worker
    <3>9. worker'.job = worker.job
      BY <3>7, WorkerFields DEF Worker
    <3>10. WalkInv'
      BY <1>1, <3>5, <3>6, <3>8, <3>9 DEF WalkInv, J, C, DoneFrom
    <3>11. QED
      BY <3>4, <3>10
  <2>3. QED
    BY <1>2, <2>1, <2>2 DEF nextChannel
<1>3. CASE settleChannel \/ stopChannel
  <2>0. /\ worker.at \in {"settle", "stop"} /\ J \in Job /\ C \in Channel
        /\ progress[J][C] \in Progress
        /\ progress' = [progress EXCEPT ![J][C] = Settled(progress[J][C], worker.as)]
    BY <1>3, InHand DEF settleChannel, stopChannel, At, JobPlaces, Settled
  <2>1. worker.as \in RowStatus
    BY <2>0 DEF PlaceOK, RowStatus, Over
  <2>2. /\ Settled(progress[J][C], worker.as).cursor = progress[J][C].cursor
        /\ Settled(progress[J][C], worker.as).status = worker.as
    BY <2>0, <2>1, WalkFields, RowTypes
  <2>3. worker'.at \in {"job", "stopped"}
    BY <1>3, GoStep DEF settleChannel, stopChannel, Idle, Place
  <2>4. WalkInv'
    BY <2>3, WalkOver DEF Walking
  <2>5. worker.as = "completed" => DoneFrom(J, C, 0)
    BY <2>0 DEF WalkInv, PlaceOK
  <2>6. CASE worker.as # "completed"
    <3>1. RowsKeep
      BY <2>0, <2>2, <2>6 DEF RowsKeep
    <3>2. QED
      BY <1>1, <2>4, <3>1, KeptGrows, RowsCarried
  <2>7. CASE worker.as = "completed"
    <3>1. ASSUME NEW j \in Job, NEW c \in Channel PROVE RowOK(j, c)'
      <4>0. RowOK(j, c)
        BY DEF RowInv
      <4>1. progress'[j][c].cursor = progress[j][c].cursor
        BY <2>0, <2>2
      <4>2. progress'[j][c].status = "completed" =>
              progress[j][c].status = "completed" \/ (j = J /\ c = C)
        BY <2>0, <2>2
      <4>3. progress'[j][c].status = "completed" => DoneFrom(j, c, 0)
        BY <2>5, <2>7, <4>0, <4>2 DEF RowOK
      <4>4. \A k : DoneFrom(j, c, k) => \A n \in (Old + 1)..top'[j][c] : n >= k => <<c, n>> \in Kept'
        BY <1>1, KeptGrows DEF DoneFrom
      <4>5. Kept \subseteq Kept'
        BY KeptGrows
      <4>6. QED
        BY <1>1, <4>0, <4>1, <4>3, <4>4, <4>5 DEF RowOK, DoneFrom, PageOf
    <3>2. QED
      BY <2>4, <3>1 DEF RowInv
  <2>8. QED
    BY <2>6, <2>7
<1>4. QED
  BY <1>2, <1>3

(* The worker goes on with what it has. *)
LEMMA WalkGap ==
  ASSUME TypeOK, TypeOK', PlaceOK, RowInv, WalkInv, [Next]_vars,
         setCurrentChannel \/ channelBoundary \/ fetch \/ pageBoundary \/ queryFails
  PROVE  RowInv' /\ WalkInv'
<1> USE Bounds, WorkerFields
<1>0. UNCHANGED posted => \A c \in Channel : posted[c] =< posted'[c]
  BY DEF TypeOK
<1>1. /\ UNCHANGED <<top, receipts, checkpoint, posted, progress>>
      /\ \A c \in Channel : posted[c] =< posted'[c]
  BY <1>0 DEF setCurrentChannel, channelBoundary, fetch, pageBoundary, queryFails,
              local, discord, cloud
<1>2. RowsKeep
  BY <1>1 DEF RowsKeep
<1>3. RowInv'
  BY <1>1, <1>2, KeptGrows, RowsCarried
<1>4. \A j, c, k : DoneFrom(j, c, k) =>
        \A n \in (Old + 1)..top'[j][c] : n >= k => <<c, n>> \in Kept'
  BY <1>1, KeptGrows DEF DoneFrom
<1>5. CASE worker'.at \notin Walking /\ (worker'.at = "settle" => worker'.as # "completed")
  BY <1>3, <1>5, WalkOver
<1>6. CASE channelBoundary
  <2>1. CASE StopAtBoundary
    <3>1. worker'.at \notin Walking /\ (worker'.at = "settle" => worker'.as # "completed")
      BY <1>6, <2>1, StopTypes DEF channelBoundary, At, Walking
    <3>2. QED
      BY <1>5, <3>1
  <2>2. CASE Go("fetch")
    <3>1. /\ worker'.at = "fetch" /\ worker'.job = J /\ worker'.channel = C
          /\ worker'.before = worker.before
      BY <2>2, GoStep DEF Place, J, C
    <3>2. worker.before # 0 => top[J][C] # 0 /\ DoneFrom(J, C, worker.before)
      BY <1>6 DEF channelBoundary, At, WalkInv
    <3>3. WalkInv'
      BY <1>1, <1>4, <3>1, <3>2 DEF WalkInv, J, C, DoneFrom
    <3>4. QED
      BY <1>3, <3>3
  <2>3. QED
    BY <1>6, <2>1, <2>2 DEF channelBoundary
<1>a. CASE setCurrentChannel
  <2>1. /\ worker'.at = "channel" /\ worker'.job = J /\ worker'.channel = C
        /\ worker'.before = worker.before
    BY <1>a, GoStep DEF setCurrentChannel, Place, J, C
  <2>2. worker.before # 0 => top[J][C] # 0 /\ DoneFrom(J, C, worker.before)
    BY <1>a DEF setCurrentChannel, At, WalkInv
  <2>3. WalkInv'
    BY <1>1, <1>4, <2>1, <2>2 DEF WalkInv, J, C, DoneFrom
  <2>4. QED
    BY <1>3, <2>3
<1>7. CASE fetch
  <2>0. At("fetch") /\ J \in Job /\ C \in Channel
    BY <1>7, InHand DEF fetch, At, JobPlaces, Walking
  <2>1. /\ top[J][C] =< posted[C] /\ top[J][C] \in Nat /\ posted[C] \in 0..MaxMessages
    <3>1. top[J][C] \in 0..MaxMessages /\ posted[C] \in 0..MaxMessages
      BY <2>0 DEF TypeOK
    <3>2. RowOK(J, C)
      BY <2>0 DEF RowInv
    <3>3. QED
      BY <3>1, <3>2 DEF RowOK
  <2>2. worker.before # 0 => top[J][C] # 0 /\ DoneFrom(J, C, worker.before)
    BY <2>0 DEF At, WalkInv
  <2> DEFINE page == Page(C, worker.before)
             end == IF worker.before = 0 THEN posted[C] ELSE worker.before - 1
  <2>3. CASE page = {}
    <3>1. worker' = [worker EXCEPT !.at = "settle", !.as = "completed"]
      BY <1>7, <2>3 DEF fetch
    <3>2. /\ worker'.at = "settle" /\ worker'.job = J /\ worker'.channel = C
      BY <3>1 DEF Worker, J, C
    <3>3. end =< 0
      <4>1. page = PageOf(end) /\ end \in Int
        BY <2>1 DEF Page, PageOf
      <4>2. end \in PageOf(end) \/ end < 1
        BY <4>1 DEF PageOf
      <4>3. QED
        BY <2>3, <4>1, <4>2
    <3>4. DoneFrom(J, C, 0)
      <4>1. CASE worker.before = 0
        BY <2>1, <3>3, <4>1 DEF DoneFrom
      <4>2. CASE worker.before # 0
        <5>1. worker.before = 1
          BY <3>3, <4>2
        <5>2. QED
          BY <2>1, <2>2, <5>1 DEF DoneFrom
      <4>3. QED
        BY <4>1, <4>2
    <3>5. WalkInv'
      BY <1>4, <3>2, <3>4 DEF WalkInv, J, C, DoneFrom
    <3>6. QED
      BY <1>3, <3>5
  <2>4. CASE page # {}
    <3>1. worker' = [worker EXCEPT !.at = "save", !.page = page, !.pages = @ + 1]
      BY <1>7, <2>4 DEF fetch
    <3>2. PICK e \in 1..MaxMessages : page = PageOf(e) /\ e = end
      BY <2>0, <2>4, PageIsPageOf
    <3> HIDE DEF page
    <3>3. /\ worker'.at = "save" /\ worker'.job = J /\ worker'.channel = C
          /\ worker'.page = page /\ worker'.before = worker.before
      BY <3>1 DEF Worker, J, C
    <3>4. /\ worker'.page = PageOf(e)
          /\ IF worker'.before = 0 THEN top[J][C] =< e /\ e =< posted[C]
                                   ELSE e = worker'.before - 1
      BY <2>1, <3>2, <3>3
    <3>5. WalkInv'
      BY <1>1, <1>4, <2>2, <3>3, <3>4 DEF WalkInv, J, C, DoneFrom, PageOf
    <3>6. QED
      BY <1>3, <3>5
  <2>5. QED
    BY <2>3, <2>4
<1>8. CASE pageBoundary
  <2>0. /\ At("saved") /\ J \in Job /\ C \in Channel
        /\ \E e \in 1..MaxMessages : worker.page = PageOf(e)
    BY <1>8, InHand DEF pageBoundary, At, JobPlaces, Walking, PlaceOK
  <2>1. PICK e \in 1..MaxMessages : worker.page = PageOf(e)
    BY <2>0
  <2>2. top[J][C] # 0 /\ DoneFrom(J, C, Min(worker.page)) /\ top[J][C] \in Nat
    BY <2>0 DEF At, WalkInv, TypeOK
  <2>3. Min(worker.page) = IF e > PageSize THEN e - PageSize + 1 ELSE 1
    BY <2>1, PageEnds
  <2>4. CASE StopAtBoundary
    <3>1. worker'.at \notin Walking /\ (worker'.at = "settle" => worker'.as # "completed")
      BY <2>0, <2>4, StopTypes DEF At, Walking
    <3>2. QED
      BY <1>5, <3>1
  <2>5. CASE Give("failed", "settle")
    <3>1. worker'.at = "settle" /\ worker'.as = "failed"
      BY <2>5, GiveStep DEF Place, Outcome, Over
    <3>2. QED
      BY <1>5, <3>1 DEF Walking
  <2>6. CASE Finished /\ Give("completed", "settle")
    <3>1. worker'.at = "settle" /\ worker'.job = J /\ worker'.channel = C
      BY <2>6, GiveStep DEF Place, Outcome, Over, J, C
    <3>2. Min(worker.page) =< Old + 1
      <4>1. CASE worker.page \cap 1..Old # {}
        <5>1. PICK n \in worker.page : n \in 1..Old
          BY <4>1
        <5>2. n > e - PageSize /\ n =< Old /\ n >= 1
          BY <2>1, <5>1 DEF PageOf
        <5>3. QED
          BY <2>3, <5>2
      <4>2. CASE Cardinality(worker.page) < PageSize
        <5>1. worker.page = (IF e > PageSize THEN e - PageSize + 1 ELSE 1)..e
          BY <2>1 DEF PageOf
        <5>2. CASE e > PageSize
          <6> DEFINE low == e - PageSize + 1
          <6>1. low \in Int /\ e \in Int /\ ~(low > e) /\ e - low + 1 = PageSize
            BY <5>2
          <6> HIDE DEF low
          <6>2. Cardinality(low..e) = e - low + 1
            BY <6>1, FS_Interval
          <6>3. worker.page = low..e
            BY <5>1, <5>2 DEF low
          <6>4. QED
            BY <4>2, <6>1, <6>2, <6>3
        <5>3. QED
          BY <2>3, <5>2
      <4>3. QED
        BY <2>6, <4>1, <4>2 DEF Finished
    <3>3. DoneFrom(J, C, 0)
      BY <2>2, <2>3, <3>2 DEF DoneFrom
    <3>4. WalkInv'
      BY <1>4, <3>1, <3>3 DEF WalkInv, J, C, DoneFrom
    <3>5. QED
      BY <1>3, <3>4
  <2>7. CASE worker' = [worker EXCEPT !.at = "channel", !.before = Min(worker.page), !.page = {}]
    <3> DEFINE k == Min(worker.page)
    <3>1. k \in 0..MaxMessages
      BY <2>3
    <3> HIDE DEF k
    <3>2. worker' = [worker EXCEPT !.at = "channel", !.before = k, !.page = {}]
      BY <2>7 DEF k
    <3>3. /\ worker'.at = "channel" /\ worker'.job = J /\ worker'.channel = C
          /\ worker'.before = k
      BY <3>2 DEF Worker, J, C
    <3>4. top[J][C] # 0 /\ DoneFrom(J, C, k)
      BY <2>2 DEF k
    <3>5. WalkInv'
      BY <1>1, <1>4, <3>3, <3>4 DEF WalkInv, J, C, DoneFrom
    <3>6. QED
      BY <1>3, <3>5
  <2>8. QED
    BY <1>8, <2>4, <2>5, <2>6, <2>7 DEF pageBoundary
<1>9. CASE queryFails
  <2>1. CASE Give("failed", "settle")
    <3>1. worker'.at = "settle" /\ worker'.as = "failed"
      BY <2>1, GiveStep DEF Place, Outcome, Over
    <3>2. QED
      BY <1>5, <3>1 DEF Walking
  <2>2. CASE Go("fail")
    <3>1. worker'.at = "fail"
      BY <2>2, GoStep DEF Place
    <3>2. QED
      BY <1>5, <3>1 DEF Walking
  <2>3. CASE worker' = Idle
    BY <1>5, <2>3, IdleTypes DEF Walking
  <2>4. CASE At("cloud") /\ Go("saved")
    <3>1. /\ worker'.at = "saved" /\ worker'.job = J /\ worker'.channel = C
          /\ worker'.page = worker.page
      BY <2>4, GoStep DEF Place, J, C
    <3>2. top[J][C] # 0 /\ DoneFrom(J, C, Min(worker.page))
      BY <2>4 DEF At, WalkInv
    <3>3. WalkInv'
      BY <1>1, <1>4, <3>1, <3>2 DEF WalkInv, J, C, DoneFrom
    <3>4. QED
      BY <1>3, <3>3
  <2>5. QED
    BY <1>9, <2>1, <2>2, <2>3, <2>4 DEF queryFails
<1>10. QED
  BY <1>6, <1>7, <1>8, <1>9, <1>a

(* The page goes into SQLite, or its receipt is there already. *)
LEMMA SaveGap ==
  ASSUME TypeOK, TypeOK', PlaceOK, RowInv, WalkInv, [Next]_vars, saveBatch
  PROVE  RowInv' /\ WalkInv'
<1> USE Bounds, WorkerFields
<1>0. At("save") /\ J \in Job /\ C \in Channel
  BY InHand DEF saveBatch, At, JobPlaces, Walking
<1>1. /\ UNCHANGED <<posted, progress>>
      /\ \A c \in Channel : posted[c] =< posted'[c]
  BY DEF saveBatch, discord, TypeOK
<1>2. /\ worker'.at = "cloud" /\ worker'.job = J /\ worker'.channel = C
      /\ worker'.page = worker.page
  BY GoStep DEF saveBatch, Place, J, C
<1>3. PICK e \in 1..MaxMessages :
        /\ worker.page = PageOf(e)
        /\ IF worker.before = 0 THEN top[J][C] =< e /\ e =< posted[C] ELSE e = worker.before - 1
  BY <1>0 DEF At, WalkInv
<1>4. worker.before # 0 => top[J][C] # 0 /\ DoneFrom(J, C, worker.before)
  BY <1>0 DEF At, WalkInv
<1>5. /\ Min(worker.page) = IF e > PageSize THEN e - PageSize + 1 ELSE 1
      /\ Max(worker.page) = e
  BY <1>3, PageEnds
<1>6. top[J][C] \in 0..MaxMessages /\ posted[C] \in 0..MaxMessages
  BY <1>0 DEF TypeOK
<1>7. \A n \in PageOf(e) : n \in 1..MaxMessages /\ n =< e
  BY DEF PageOf
<1>8. Kept \subseteq Kept'
  BY KeptGrows
<1>9. RowOK(J, C)
  BY <1>0 DEF RowInv
<1>10. \A n \in 1..e : n \in PageOf(e) <=> n >= Min(worker.page)
  BY <1>5 DEF PageOf
<1>11. CASE <<J, C, worker.before>> \in receipts
  <2>1. UNCHANGED <<top, receipts, checkpoint>>
    BY <1>11 DEF saveBatch, BatchId
  <2>2. RowsKeep
    BY <1>1 DEF RowsKeep
  <2>3. RowInv'
    BY <1>1, <1>8, <2>1, <2>2, RowsCarried
  <2>4. \A n \in PageOf(IF worker.before = 0 THEN top[J][C] ELSE worker.before - 1) :
          n > Old => <<C, n>> \in Kept
    BY <1>9, <1>11 DEF RowOK
  <2>5. top[J][C] # 0
    BY <1>4, <1>9, <1>11 DEF RowOK
  <2>6. DoneFrom(J, C, Min(worker.page))
    <3> SUFFICES ASSUME NEW n \in (Old + 1)..top[J][C], n >= Min(worker.page)
                 PROVE  <<C, n>> \in Kept
      BY DEF DoneFrom
    <3>1. CASE worker.before = 0
      <4>1. n \in PageOf(top[J][C])
        BY <1>3, <1>5, <1>6, <3>1 DEF PageOf
      <4>2. QED
        BY <2>4, <3>1, <4>1
    <3>2. CASE worker.before # 0 /\ n >= worker.before
      BY <1>4, <3>2 DEF DoneFrom
    <3>3. CASE worker.before # 0 /\ n < worker.before
      <4>1. n \in PageOf(e) /\ e = worker.before - 1
        BY <1>3, <1>10, <3>3
      <4>2. QED
        BY <2>4, <3>3, <4>1
    <3>4. QED
      BY <1>6, <3>1, <3>2, <3>3
  <2>7. DoneFrom(J, C, Min(worker.page))'
    BY <1>2, <1>8, <2>1, <2>6 DEF DoneFrom, J, C
  <2>8. WalkInv'
    BY <1>2, <2>1, <2>5, <2>7 DEF WalkInv, J, C, DoneFrom
  <2>9. QED
    BY <2>3, <2>8
<1>12. CASE <<J, C, worker.before>> \notin receipts
  <2> DEFINE records == {<<C, n>> : n \in worker.page \ 1..Old}
  <2>1. /\ RecordEvents(records, "imported")
        /\ receipts' = receipts \cup {<<J, C, worker.before>>}
        /\ checkpoint' = [checkpoint EXCEPT ![J][C] = Min(worker.page)]
        /\ top' = IF worker.before # 0 THEN top ELSE [top EXCEPT ![J][C] = Max(worker.page)]
    BY <1>12 DEF saveBatch, BatchId
  <2>2. \A n \in PageOf(e) : n > Old => <<C, n>> \in Kept'
    <3>1. ASSUME NEW n \in PageOf(e), n > Old PROVE <<C, n>> \in Kept'
      <4>1. <<C, n>> \in records /\ <<C, n>> \in Message
        BY <1>0, <1>3, <1>7, <3>1 DEF Message
      <4>2. log'[<<C, n>>] # "none"
        BY <2>1, <4>1 DEF RecordEvents
      <4>3. QED
        BY <4>1, <4>2 DEF Kept, Recorded
    <3>2. QED
      BY <3>1
  <2> HIDE DEF records
  <2>3. /\ worker.before = 0 => top[J][C] = 0 /\ top'[J][C] = e
        /\ worker.before # 0 => top' = top
        /\ top'[J][C] # 0 /\ top'[J][C] \in Nat
        /\ \A j \in Job, c \in Channel : j # J \/ c # C => top'[j][c] = top[j][c]
    <3>1. worker.before = 0 => top[J][C] = 0
      BY <1>9, <1>12 DEF RowOK
    <3>2. top \in [Job -> [Channel -> 0..MaxMessages]]
      BY DEF TypeOK
    <3>3. QED
      BY <1>0, <1>4, <1>5, <1>6, <2>1, <3>1, <3>2
  <2>4. DoneFrom(J, C, Min(worker.page))'
    <3>1. ASSUME NEW n \in (Old + 1)..top'[J][C], n >= Min(worker.page)
          PROVE  <<C, n>> \in Kept'
      <4>1. CASE worker.before = 0
        BY <1>10, <2>2, <2>3, <3>1, <4>1
      <4>2. CASE worker.before # 0 /\ n >= worker.before
        <5>1. <<C, n>> \in Kept
          BY <1>4, <2>3, <3>1, <4>2 DEF DoneFrom
        <5>2. QED
          BY <1>8, <5>1
      <4>3. CASE worker.before # 0 /\ n < worker.before
        <5>1. n \in PageOf(e)
          BY <1>3, <1>10, <3>1, <4>3
        <5>2. QED
          BY <2>2, <3>1, <5>1
      <4>4. QED
        BY <2>3, <3>1, <4>1, <4>2, <4>3
    <3>2. QED
      BY <1>2, <3>1 DEF DoneFrom, J, C
  <2>5. WalkInv'
    BY <1>2, <2>3, <2>4 DEF WalkInv, J, C, DoneFrom
  <2>6. \A j, c, k : top'[j][c] = top[j][c] /\ DoneFrom(j, c, k) =>
          \A n \in (Old + 1)..top'[j][c] : n >= k => <<c, n>> \in Kept'
    BY <1>8 DEF DoneFrom
  <2>7. ASSUME NEW j \in Job, NEW c \in Channel, j # J \/ c # C PROVE RowOK(j, c)'
    <3>0. RowOK(j, c) /\ top'[j][c] = top[j][c]
      BY <2>3, <2>7 DEF RowInv
    <3>1. checkpoint'[j][c] = checkpoint[j][c]
      BY <1>0, <2>1, <2>7 DEF TypeOK
    <3>2. \A b : <<j, c, b>> \in receipts' <=> <<j, c, b>> \in receipts
      BY <2>1, <2>7
    <3>3. QED
      BY <1>1, <1>8, <2>6, <3>0, <3>1, <3>2 DEF RowOK, DoneFrom, PageOf
  <2>8. ASSUME NEW j \in Job, NEW c \in Channel, j = J, c = C PROVE RowOK(j, c)'
    <3>1. top'[J][C] =< posted'[C]
      BY <1>1, <1>3, <1>9, <2>3 DEF RowOK
    <3>2. <<J, C, 0>> \in receipts' <=> top'[J][C] # 0
      BY <1>9, <2>1, <2>3 DEF RowOK
    <3>3. ASSUME NEW b \in 0..MaxMessages, <<J, C, b>> \in receipts',
                 NEW n \in PageOf(IF b = 0 THEN top'[J][C] ELSE b - 1), n > Old
          PROVE  <<C, n>> \in Kept'
      <4>1. CASE b = worker.before
        <5>1. (IF b = 0 THEN top'[J][C] ELSE b - 1) = e
          BY <1>3, <2>3, <4>1
        <5>2. QED
          BY <2>2, <3>3, <5>1
      <4>2. CASE b # worker.before
        <5>1. <<J, C, b>> \in receipts
          BY <2>1, <3>3, <4>2
        <5>2. b = 0 => top'[J][C] = top[J][C]
          BY <2>3, <4>2
        <5>3. n \in PageOf(IF b = 0 THEN top[J][C] ELSE b - 1)
          BY <3>3, <5>2
        <5>4. <<C, n>> \in Kept
          BY <1>9, <3>3, <5>1, <5>3 DEF RowOK
        <5>5. QED
          BY <1>8, <5>4
      <4>3. QED
        BY <4>1, <4>2
    <3>4. checkpoint'[J][C] = Min(worker.page)
      BY <1>0, <2>1 DEF TypeOK
    <3>5. /\ \A n \in (Old + 1)..top'[J][C] : n >= checkpoint'[J][C] => <<C, n>> \in Kept'
          /\ top'[J][C] # 0
      BY <1>2, <2>3, <2>4, <3>4 DEF DoneFrom, J, C
    <3>6. progress'[J][C].cursor # 0 =>
            top'[J][C] # 0 /\ \A n \in (Old + 1)..top'[J][C] : n >= progress'[J][C].cursor =>
                                  <<C, n>> \in Kept'
      BY <1>1, <1>9, <2>3, <2>6 DEF RowOK
    <3>7. progress'[J][C].status # "completed"
      BY <1>0, <1>1 DEF At, PlaceOK, Walking
    <3>8. QED
      BY <2>8, <3>1, <3>2, <3>3, <3>5, <3>6, <3>7 DEF RowOK, DoneFrom, PageOf
  <2>9. RowInv'
    BY <2>7, <2>8 DEF RowInv
  <2>10. QED
    BY <2>5, <2>9
<1>13. QED
  BY <1>11, <1>12

LEMMA CloudGap ==
  ASSUME TypeOK, TypeOK', PlaceOK, RowInv, WalkInv, [Next]_vars, updateCloud
  PROVE  RowInv' /\ WalkInv'
<1> USE Bounds, ProgressTypes
<1>0. /\ At("cloud") /\ J \in Job /\ C \in Channel /\ progress[J][C] \in Progress
      /\ progress[J][C].status = "running"
  BY InHand DEF updateCloud, At, JobPlaces, Walking, PlaceOK
<1>1. /\ UNCHANGED <<posted, top, receipts, checkpoint>>
      /\ \A c \in Channel : posted[c] =< posted'[c]
  BY DEF updateCloud, discord, local, TypeOK
<1>2. /\ worker'.at = "saved" /\ worker'.job = J /\ worker'.channel = C
      /\ worker'.page = worker.page
  BY GoStep DEF updateCloud, Place, J, C
<1>3. \A j, c, k : DoneFrom(j, c, k) =>
        \A n \in (Old + 1)..top'[j][c] : n >= k => <<c, n>> \in Kept'
  BY <1>1, KeptGrows DEF DoneFrom
<1>4. WalkInv'
  <2>1. top[J][C] # 0 /\ DoneFrom(J, C, Min(worker.page))
    BY <1>0 DEF At, WalkInv
  <2>2. QED
    BY <1>1, <1>2, <1>3, <2>1 DEF WalkInv, J, C, DoneFrom
<1>5. progress' = [progress EXCEPT ![J][C] = [progress[J][C] EXCEPT !.cursor = checkpoint[J][C]]]
  BY <1>0 DEF updateCloud, Row
<1>6. /\ [progress[J][C] EXCEPT !.cursor = checkpoint[J][C]].cursor = checkpoint[J][C]
      /\ [progress[J][C] EXCEPT !.cursor = checkpoint[J][C]].status = "running"
  BY <1>0 DEF Progress
<1>7. ASSUME NEW j \in Job, NEW c \in Channel PROVE RowOK(j, c)'
  <2>0. RowOK(j, c)
    BY DEF RowInv
  <2>1. \/ progress'[j][c].cursor = progress[j][c].cursor
        \/ progress'[j][c].cursor = checkpoint[j][c]
    BY <1>0, <1>5, <1>6
  <2>2. progress'[j][c].status = "completed" => progress[j][c].status = "completed"
    BY <1>0, <1>5, <1>6
  <2>3. progress'[j][c].cursor # 0 => top'[j][c] # 0 /\ DoneFrom(j, c, progress'[j][c].cursor)
    BY <1>1, <2>0, <2>1 DEF RowOK
  <2>4. Kept \subseteq Kept'
    BY KeptGrows
  <2>5. QED
    BY <1>1, <1>3, <2>0, <2>2, <2>3, <2>4 DEF RowOK, DoneFrom, PageOf
<1>8. QED
  BY <1>4, <1>7 DEF RowInv

LEMMA GapStep ==
  ASSUME TypeOK, TypeOK', PlaceOK, RowInv, WalkInv, [Next]_vars
  PROVE  RowInv' /\ WalkInv'
<1>1. CASE \/ UNCHANGED vars \/ Dashboard \/ Deleting
           \/ \E c \in Channel : Post(c)
           \/ \E m \in Message : messageCreate(m)
           \/ \E d \in 1..MaxDeletions : WindowEnds(d)
           \/ deletionFails \/ Crash \/ Restart
  BY <1>1, OthersGap
<1>2. CASE \/ recoverStale \/ claimNext \/ prepareChannels \/ guildBlocked \/ begin \/ jobBoundary
           \/ stopJob \/ complete \/ fail
  BY <1>2, OffWalkGap
<1>3. CASE nextChannel \/ settleChannel \/ stopChannel
  BY <1>3, ChannelRowGap
<1>4. CASE setCurrentChannel \/ channelBoundary \/ fetch \/ pageBoundary \/ queryFails
  BY <1>4, WalkGap
<1>5. CASE saveBatch
  BY <1>5, SaveGap
<1>6. CASE updateCloud
  BY <1>6, CloudGap
<1>7. QED
  BY <1>1, <1>2, <1>3, <1>4, <1>5, <1>6 DEF Next, Importing

(* However a walk was cut into pieces - by pauses, failures and crashes, with
   the cursor behind the receipts or the first page longer than when it was
   recorded - a channel that is completed has been walked without a gap.  The
   invariant says it of what a cursor stands for, and of every page a receipt
   lets the worker pass over. *)
THEOREM CompletedChannelsHaveNoGap == Spec => []CompletedWithoutGap
<1>1. Init => RowInv /\ WalkInv
  BY GapInit
<1>2. /\ TypeOK /\ PlaceOK /\ (TypeOK /\ PlaceOK)' /\ RowInv /\ WalkInv /\ [Next]_vars
      => RowInv' /\ WalkInv'
  BY GapStep
<1>3. TypeOK /\ RowInv => CompletedWithoutGap
  <2> SUFFICES ASSUME TypeOK, RowInv, NEW j \in Job, NEW c \in Channel,
                      progress[j][c].status = "completed", NEW n \in (Old + 1)..top[j][c]
               PROVE  <<c, n>> \in Recorded \cup gone
    BY DEF CompletedWithoutGap
  <2>1. DoneFrom(j, c, 0)
    BY DEF RowInv, RowOK
  <2>2. n >= 0
    BY Bounds
  <2>3. QED
    BY <2>1, <2>2 DEF DoneFrom, Kept
<1>4. QED
  BY <1>1, <1>2, <1>3, TypeCorrect, PTL DEF Spec
-----------------------------------------------------------------------------
(* What a deletion takes.  A request that waits, and was not made during a *)
(* job or a poll, keeps the worker from every job until it is begun, so    *)
(* nothing is imported meanwhile; once it is begun nothing is imported     *)
(* before it is done, unless the worker died or failed on it.              *)

OutOfJobs == worker.at \in {"down", "idle", "delete", "deleted"}

Waits(d) == deletions[d].state = "open" /\ deletions[d].started = "no" /\ ~deletions[d].passed

Begun(d) == worker.at = "delete" /\ worker.deletion = d

DeletionOK(d) ==
  /\ deletions[d].state = "none" => deletions[d].started = "no" /\ deletions[d].later = {}
  /\ Waits(d) => deletions[d].later = {} /\ OutOfJobs
  /\ Begun(d) => \/ deletions[d].started = "again"
                 \/ deletions[d].started = "fresh" /\ (deletions[d].passed \/ deletions[d].later = {})

LEMMA DeletionRows == TypeOK => deletions \in [1..MaxDeletions -> Deletion]
BY DEF TypeOK

(* A step that leaves the requests and begins no deletion. *)
LEMMA DeletionKept ==
  ASSUME deletions' = deletions, NEW d \in 1..MaxDeletions, DeletionOK(d),
         OutOfJobs => OutOfJobs', worker'.at # "delete" \/ worker' = worker
  PROVE  DeletionOK(d)'
BY DEF DeletionOK, Waits, Begun, OutOfJobs

(* Nothing waits while the worker is in the middle of a poll or on a job. *)
LEMMA NothingWaits ==
  ASSUME UNCHANGED deletions \/ \E ms : deletions' = [d \in 1..MaxDeletions |->
           IF deletions[d].state = "open"
             THEN [deletions[d] EXCEPT !.later = @ \cup ms] ELSE deletions[d]],
         TypeOK, NEW d \in 1..MaxDeletions, DeletionOK(d), ~OutOfJobs, worker'.at # "delete"
  PROVE  DeletionOK(d)'
<1>1. /\ deletions'[d].state = deletions[d].state /\ deletions'[d].started = deletions[d].started
      /\ deletions'[d].passed = deletions[d].passed
      /\ deletions[d].state = "none" => deletions'[d].later = deletions[d].later
  BY DeletionRows DEF Deletion
<1>2. ~Waits(d)
  BY DEF DeletionOK
<1>3. ~Waits(d)'
  BY <1>1, <1>2 DEF Waits
<1>4. ~Begun(d)'
  BY DEF Begun
<1>5. QED
  BY <1>1, <1>3, <1>4 DEF DeletionOK

LEMMA RequestedDeletion ==
  ASSUME TypeOK, NEW r \in 1..MaxDeletions, insertDeletionRequest(r),
         NEW d \in 1..MaxDeletions, DeletionOK(d)
  PROVE  DeletionOK(d)'
<1>1. worker' = worker /\ deletions[r].state = "none"
  BY DEF insertDeletionRequest
<1>2. deletions' = [deletions EXCEPT ![r].state = "open", ![r].passed = ~OutOfJobs]
  BY DEF insertDeletionRequest, LookedForRequests, OutOfJobs
<1>3. CASE d # r
  <2>1. deletions'[d] = deletions[d]
    BY <1>2, <1>3, DeletionRows
  <2>2. QED
    BY <1>1, <2>1 DEF DeletionOK, Waits, Begun, OutOfJobs
<1>4. CASE d = r
  <2>1. /\ deletions'[d].state = "open" /\ deletions'[d].started = deletions[d].started
        /\ deletions'[d].later = deletions[d].later
        /\ deletions'[d].passed <=> ~OutOfJobs
    BY <1>2, <1>4, DeletionRows DEF Deletion
  <2>2. deletions[d].started = "no" /\ deletions[d].later = {}
    BY <1>1, <1>4 DEF DeletionOK
  <2>3. ~Begun(d) /\ (OutOfJobs => OutOfJobs')
    BY <1>1, <2>2 DEF DeletionOK, OutOfJobs
  <2>4. QED
    BY <1>1, <2>1, <2>2, <2>3 DEF DeletionOK, Waits, Begun
<1>5. QED
  BY <1>3, <1>4

(* The least number of a set, from the well-founded inclusion of intervals. *)
LEMMA LeastNumber ==
  ASSUME NEW S \in SUBSET Nat, S # {}
  PROVE  \E k \in S : \A i \in S : k =< i
<1> DEFINE R == StrictSubsetOrdering(Nat)
           T == {0..k : k \in S}
<1>1. IsWellFoundedOn(R, FiniteSubsetsOf(Nat))
  BY FS_StrictSubsetOrderingWellFounded
<1>2. T \subseteq FiniteSubsetsOf(Nat) /\ T # {}
  <2>1. \A k \in S : 0..k \in SUBSET Nat /\ IsFiniteSet(0..k)
    BY FS_Interval
  <2>2. QED
    BY <2>1 DEF FiniteSubsetsOf
<1>3. ASSUME NEW i \in S, NEW k \in S, i < k PROVE <<0..i, 0..k>> \in R
  <2>1. i \in Nat /\ k \in Nat
    OBVIOUS
  <2>2. 0..i \subseteq 0..k /\ k \in 0..k /\ k \notin 0..i
    BY <1>3, <2>1
  <2>3. <<0..i, 0..k>> \in (SUBSET Nat) \X (SUBSET Nat)
    OBVIOUS
  <2>4. QED
    BY <2>2, <2>3 DEF StrictSubsetOrdering
<1> HIDE DEF R
<1>4. \E x \in T : \A y \in T : <<y, x>> \notin R
  <2> HIDE DEF T
  <2>1. QED
    BY <1>1, <1>2, WFMin
<1>5. PICK k \in S : \A i \in S : <<0..i, 0..k>> \notin R
  BY <1>4
<1>6. ASSUME NEW i \in S PROVE k =< i
  <2>1. ~(i < k) /\ i \in Nat /\ k \in Nat
    BY <1>3, <1>5
  <2>2. QED
    BY <2>1
<1>7. QED
  BY <1>6

LEMMA LeastClaimable ==
  ASSUME NEW d \in 1..MaxDeletions, deletions[d].state = "open", deletions[d].started \in {"no", "old"}
  PROVE  \E r \in 1..MaxDeletions : Claimable(r)
<1> DEFINE S == {r \in 1..MaxDeletions : deletions[r].state = "open" /\ deletions[r].started \in {"no", "old"}}
<1>1. S \in SUBSET Nat /\ d \in S
  BY Bounds
<1>2. PICK r \in S : \A i \in S : r =< i
  <2> HIDE DEF S
  <2>1. QED
    BY <1>1, LeastNumber
<1>3. \A e \in 1..(r - 1) : e \in 1..MaxDeletions /\ ~(r =< e)
  BY Bounds
<1>4. \A e \in 1..(r - 1) : e \notin S
  BY <1>2, <1>3
<1>5. Claimable(r)
  BY <1>2, <1>3, <1>4 DEF Claimable
<1>6. QED
  BY <1>2, <1>5

LEMMA ClaimedDeletion ==
  ASSUME TypeOK, claimDeletionRequest, \A d \in 1..MaxDeletions : DeletionOK(d)
  PROVE  \A d \in 1..MaxDeletions : DeletionOK(d)'
<1> SUFFICES ASSUME NEW d \in 1..MaxDeletions PROVE DeletionOK(d)'
  OBVIOUS
<1>0. worker.at = "idle"
  BY DEF claimDeletionRequest, At
<1>1. ASSUME NEW r \in 1..MaxDeletions, Claimable(r),
             deletions' = [deletions EXCEPT ![r].started = IF @ = "no" THEN "fresh" ELSE "again"],
             worker' = [Idle EXCEPT !.at = "delete", !.deletion = r]
      PROVE  DeletionOK(d)'
  <2>1. worker'.at = "delete" /\ worker'.deletion = r
    BY <1>1, IdleTypes
  <2>2. CASE d # r
    <3>1. deletions'[d] = deletions[d]
      BY <1>1, <2>2, DeletionRows
    <3>2. ~Begun(d)' /\ OutOfJobs'
      BY <2>1, <2>2 DEF Begun, OutOfJobs
    <3>3. QED
      BY <3>1, <3>2 DEF DeletionOK, Waits
  <2>3. CASE d = r
    <3>1. /\ deletions'[d].state = "open" /\ deletions'[d].passed = deletions[d].passed
          /\ deletions'[d].later = deletions[d].later
          /\ deletions'[d].started = IF deletions[d].started = "no" THEN "fresh" ELSE "again"
      BY <1>1, <2>3, DeletionRows DEF Deletion, Claimable
    <3>2. deletions[d].started = "no" => deletions[d].passed \/ deletions[d].later = {}
      BY <1>1, <2>3 DEF DeletionOK, Waits, Claimable
    <3>3. QED
      BY <3>1, <3>2 DEF DeletionOK, Waits
  <2>4. QED
    BY <2>2, <2>3
<1>2. CASE (\A r \in 1..MaxDeletions : ~Claimable(r)) /\ Go("recover") /\ UNCHANGED deletions
  <2>1. worker'.at = "recover"
    BY <1>2, GoStep DEF Place
  <2>2. \A r \in 1..MaxDeletions : ~(deletions[r].state = "open" /\ deletions[r].started = "no")
    BY <1>2, LeastClaimable
  <2>3. QED
    BY <1>2, <2>1, <2>2 DEF DeletionOK, Waits, Begun
<1>3. QED
  BY <1>1, <1>2 DEF claimDeletionRequest

(* What the worker does to a row: it closes it, or has carried it out. *)
LEMMA DeletionChange ==
  ASSUME TypeOK, NEW r, NEW d \in 1..MaxDeletions
  PROVE  /\ deletions' = [deletions EXCEPT ![r].state = "closed"] =>
              /\ deletions'[d].state \in {deletions[d].state, "closed"}
              /\ deletions'[d].started = deletions[d].started
              /\ deletions'[d].passed = deletions[d].passed
              /\ deletions'[d].later = deletions[d].later /\ deletions'[d].done = deletions[d].done
         /\ deletions' = [deletions EXCEPT ![r].done = TRUE] =>
              /\ deletions'[d].state = deletions[d].state
              /\ deletions'[d].started = deletions[d].started
              /\ deletions'[d].passed = deletions[d].passed
              /\ deletions'[d].later = deletions[d].later
<1>1. deletions[d] \in Deletion
  BY DeletionRows
<1>2. deletions' = [deletions EXCEPT ![r].state = "closed"] =>
        deletions'[d] = deletions[d] \/ deletions'[d] = [deletions[d] EXCEPT !.state = "closed"]
  BY DeletionRows
<1>3. deletions' = [deletions EXCEPT ![r].done = TRUE] =>
        deletions'[d] = deletions[d] \/ deletions'[d] = [deletions[d] EXCEPT !.done = TRUE]
  BY DeletionRows
<1>4. QED
  BY <1>1, <1>2, <1>3 DEF Deletion

LEMMA DeletingKept ==
  ASSUME TypeOK, PlaceOK, deleteImportedHistory \/ completeDeletionRequest \/ deletionFails,
         NEW d \in 1..MaxDeletions, DeletionOK(d)
  PROVE  DeletionOK(d)'
<1>1. worker'.at \in {"deleted", "idle"} /\ worker.at \in DeletionPlaces
  <2>1. deleteImportedHistory => worker'.at = "deleted"
    BY GoStep DEF deleteImportedHistory, Place
  <2>2. completeDeletionRequest \/ deletionFails => worker'.at = "idle"
    BY IdleTypes DEF completeDeletionRequest, deletionFails
  <2>3. QED
    BY <2>1, <2>2 DEF deleteImportedHistory, completeDeletionRequest, deletionFails, At, DeletionPlaces
<1>2. \/ UNCHANGED deletions
      \/ deletions' = [deletions EXCEPT ![worker.deletion].state = "closed"]
      \/ deletions' = [deletions EXCEPT ![worker.deletion].done = TRUE]
  BY DEF deleteImportedHistory, completeDeletionRequest, deletionFails
<1>3. \/ /\ deletions'[d].state = deletions[d].state
         /\ deletions'[d].started = deletions[d].started
         /\ deletions'[d].passed = deletions[d].passed /\ deletions'[d].later = deletions[d].later
      \/ deletions'[d].state = "closed"
  BY <1>2, DeletionChange
<1>4. ~Begun(d)' /\ OutOfJobs'
  BY <1>1 DEF Begun, OutOfJobs
<1>5. QED
  BY <1>3, <1>4 DEF DeletionOK, Waits

LEMMA AgedDeletion ==
  ASSUME TypeOK, NEW r \in 1..MaxDeletions, WindowEnds(r), NEW d \in 1..MaxDeletions, DeletionOK(d)
  PROVE  DeletionOK(d)'
<1>1. worker' = worker /\ worker.deletion # r /\ deletions' = [deletions EXCEPT ![r].started = "old"]
      /\ deletions[r].state = "open"
  BY DEF WindowEnds
<1>2. CASE d # r
  <2>1. deletions'[d] = deletions[d]
    BY <1>1, <1>2, DeletionRows
  <2>2. QED
    BY <1>1, <2>1 DEF DeletionOK, Waits, Begun, OutOfJobs
<1>3. CASE d = r
  <2>1. deletions'[d].state = "open" /\ deletions'[d].started = "old"
    BY <1>1, <1>3, DeletionRows DEF Deletion
  <2>2. ~Begun(d)'
    BY <1>1, <1>3 DEF Begun
  <2>3. QED
    BY <2>1, <2>2 DEF DeletionOK, Waits
<1>4. QED
  BY <1>2, <1>3

(* A step of a poll or of a job leaves none of them for a deletion. *)
LEMMA Polling ==
  ASSUME TypeOK, Importing
  PROVE  ~OutOfJobs /\ worker'.at \notin DeletionPlaces
<1> USE WorkerFields DEF DeletionPlaces
<1>0. worker \in Worker
  BY DEF TypeOK
<1>a. ~OutOfJobs
  <2>1. recoverStale \/ claimNext \/ prepareChannels \/ guildBlocked \/ begin \/ jobBoundary => ~OutOfJobs
    BY DEF recoverStale, claimNext, prepareChannels, guildBlocked, begin, jobBoundary, At, OutOfJobs
  <2>2. nextChannel \/ setCurrentChannel \/ channelBoundary \/ fetch => ~OutOfJobs
    BY DEF nextChannel, setCurrentChannel, channelBoundary, fetch, At, OutOfJobs
  <2>5. saveBatch \/ updateCloud \/ pageBoundary => ~OutOfJobs
    BY DEF saveBatch, updateCloud, pageBoundary, At, OutOfJobs
  <2>3. settleChannel \/ stopChannel \/ stopJob \/ complete \/ fail => ~OutOfJobs
    BY DEF settleChannel, stopChannel, stopJob, complete, fail, At, OutOfJobs
  <2>4. QED
    BY <2>1, <2>2, <2>3, <2>5 DEF Importing
<1>1. \A p \in Place \ DeletionPlaces : Go(p) => worker'.at \notin DeletionPlaces
  BY GoStep
<1>2. \A s, p \in STRING : p \notin DeletionPlaces /\ Give(s, p) => worker'.at \notin DeletionPlaces
  BY <1>0 DEF Give, Worker
<1>3. ASSUME NEW p \in {"job", "prepare"}, NEW j, worker' = Idle \/ worker' = [Idle EXCEPT !.at = p, !.job = j]
      PROVE  worker'.at \notin DeletionPlaces
  BY <1>3, IdleTypes DEF Worker
<1>4. StopAtBoundary => worker'.at \notin DeletionPlaces
  BY <1>0 DEF StopAtBoundary, Give, Worker
<1>5. recoverStale \/ prepareChannels \/ begin \/ updateCloud \/ saveBatch \/ stopChannel => worker'.at \notin DeletionPlaces
  BY <1>1 DEF recoverStale, prepareChannels, begin, updateCloud, saveBatch, stopChannel, Place
<1>6. claimNext \/ settleChannel \/ stopJob \/ complete \/ fail => worker'.at \notin DeletionPlaces
  BY <1>3 DEF claimNext, settleChannel, stopJob, complete, fail
<1>7. guildBlocked \/ jobBoundary => worker'.at \notin DeletionPlaces
  BY <1>0, <1>1 DEF guildBlocked, jobBoundary, Give, Worker, Place
<1>8. nextChannel => worker'.at \notin DeletionPlaces
  <2>1. ASSUME NEW c \in Channel, NEW before,
               worker' = [worker EXCEPT !.at = "claimed", !.channel = c, !.pages = 0, !.before = before]
        PROVE  worker'.at \notin DeletionPlaces
    BY <1>0, <2>1 DEF Worker
  <2>2. QED
    BY <1>1, <2>1 DEF nextChannel, Place
<1>b. setCurrentChannel => worker'.at \notin DeletionPlaces
  BY <1>1 DEF setCurrentChannel, Place
<1>9. channelBoundary => worker'.at \notin DeletionPlaces
  BY <1>1, <1>4 DEF channelBoundary, Place
<1>10. fetch => worker'.at \notin DeletionPlaces
  BY <1>0 DEF fetch, Worker
<1>11. pageBoundary => worker'.at \notin DeletionPlaces
  <2>1. ASSUME NEW before, worker' = [worker EXCEPT !.at = "channel", !.before = before, !.page = {}]
        PROVE  worker'.at \notin DeletionPlaces
    BY <1>0, <2>1 DEF Worker
  <2>2. Give("completed", "settle") \/ Give("failed", "settle") => worker'.at \notin DeletionPlaces
    BY <1>0 DEF Give, Worker
  <2>3. QED
    BY <1>4, <2>1, <2>2 DEF pageBoundary
<1>12. QED
  BY <1>a, <1>5, <1>6, <1>7, <1>8, <1>9, <1>10, <1>11, <1>b DEF Importing

LEMMA ImportingRequests ==
  ASSUME Importing
  PROVE  UNCHANGED deletions \/ \E ms : deletions' = [d \in 1..MaxDeletions |->
           IF deletions[d].state = "open"
             THEN [deletions[d] EXCEPT !.later = @ \cup ms] ELSE deletions[d]]
<1>1. recoverStale \/ claimNext \/ prepareChannels \/ guildBlocked \/ begin \/ jobBoundary => UNCHANGED deletions
  BY DEF recoverStale, claimNext, prepareChannels, guildBlocked, begin, jobBoundary, cloud
<1>2. nextChannel \/ setCurrentChannel \/ channelBoundary \/ fetch => UNCHANGED deletions
  BY DEF nextChannel, setCurrentChannel, channelBoundary, fetch, cloud
<1>6. updateCloud \/ pageBoundary => UNCHANGED deletions
  BY DEF updateCloud, pageBoundary, cloud
<1>3. settleChannel \/ stopChannel \/ stopJob \/ complete \/ fail => UNCHANGED deletions
  BY DEF settleChannel, stopChannel, stopJob, complete, fail
<1>4. saveBatch => UNCHANGED deletions \/ \E ms : deletions' = [d \in 1..MaxDeletions |->
           IF deletions[d].state = "open"
             THEN [deletions[d] EXCEPT !.later = @ \cup ms] ELSE deletions[d]]
  BY DEF saveBatch
<1>5. QED
  BY <1>1, <1>2, <1>3, <1>4, <1>6 DEF Importing

LEMMA DeletionStep ==
  ASSUME TypeOK, PlaceOK, [Next]_vars, \A d \in 1..MaxDeletions : DeletionOK(d)
  PROVE  \A d \in 1..MaxDeletions : DeletionOK(d)'
<1>1. CASE UNCHANGED vars \/ (\E c \in Channel : Post(c)) \/ (\E m \in Message : messageCreate(m))
  BY <1>1, DeletionKept DEF vars, Post, messageCreate, cloud, OutOfJobs
<1>2. ASSUME NEW r \in 1..MaxDeletions, WindowEnds(r) PROVE \A d \in 1..MaxDeletions : DeletionOK(d)'
  BY <1>2, AgedDeletion
<1>3. CASE Dashboard
  <2>1. CASE \E r \in 1..MaxDeletions : insertDeletionRequest(r)
    BY <2>1, RequestedDeletion
  <2>2. CASE \/ \E j \in Job : start(j) \/ pause(j) \/ resume(j) \/ cancel(j) \/ reset(j)
             \/ \E j \in Job, c \in Channel : retryChannel(j, c) \/ skipChannel(j, c)
             \/ requestDeletion
    <3>1. UNCHANGED <<deletions, worker>>
      BY <2>2 DEF start, pause, resume, cancel, reset, retryChannel, skipChannel,
                  requestDeletion, cloud
    <3>2. QED
      BY <3>1, DeletionKept DEF OutOfJobs
  <2>3. QED
    BY <1>3, <2>1, <2>2 DEF Dashboard
<1>4. CASE claimDeletionRequest
  BY <1>4, ClaimedDeletion
<1>5. CASE deleteImportedHistory \/ completeDeletionRequest \/ deletionFails
  BY <1>5, DeletingKept
<1>6. CASE Importing
  BY <1>6, Polling, ImportingRequests, NothingWaits DEF DeletionPlaces
<1>7. CASE Crash \/ Restart
  <2>1. UNCHANGED deletions /\ worker'.at \in {"down", "idle"}
    BY <1>7, IdleTypes DEF Crash, Restart, cloud
  <2>2. QED
    BY <2>1, DeletionKept DEF OutOfJobs
<1>8. CASE queryFails
  <2>1. UNCHANGED deletions
    BY <1>8 DEF queryFails, cloud
  <2>2. ~OutOfJobs
    BY <1>8 DEF queryFails, OnChannel, OnJob, At, OutOfJobs
  <2>3. worker'.at # "delete"
    <3>1. Give("failed", "settle") => worker'.at # "delete"
      BY GiveStep DEF Place, Outcome, Over
    <3>2. Go("fail") \/ Go("saved") => worker'.at # "delete"
      BY GoStep DEF Place
    <3>3. QED
      BY <1>8, <3>1, <3>2, IdleTypes DEF queryFails
  <2>4. QED
    BY <2>1, <2>2, <2>3, NothingWaits
<1>9. QED
  BY <1>1, <1>2, <1>3, <1>4, <1>5, <1>6, <1>7, <1>8 DEF Next, Deleting

(* A request is carried out once, while it is open and in the worker's hands; *)
(* what is imported from then on is later than the request.                   *)
CarriedOut(d) ==
  /\ deletions[d].done => d \in removals
  /\ d \in removals => deletions[d].state # "none"
  /\ d \in removals /\ deletions[d].state = "open" =>
       \A m \in Message : log[m] = "imported" => m \in deletions[d].later
  /\ worker.at \in DeletionPlaces /\ worker.deletion = d => deletions[d].state = "open"
  /\ worker.at = "deleted" /\ worker.deletion = d => d \in removals

NothingImported == \A m \in Message : log'[m] = "imported" => log[m] = "imported"

LEMMA CarriedKept ==
  ASSUME UNCHANGED <<deletions, removals>>, NothingImported,
         worker' = worker \/ worker'.at \notin DeletionPlaces,
         \A d \in 1..MaxDeletions : CarriedOut(d)
  PROVE  \A d \in 1..MaxDeletions : CarriedOut(d)'
BY DEF CarriedOut, NothingImported, DeletionPlaces

(* Steps that change no more than a request's start. *)
LEMMA CarriedStarts ==
  ASSUME TypeOK, claimDeletionRequest \/ \E r \in 1..MaxDeletions : WindowEnds(r),
         \A d \in 1..MaxDeletions : CarriedOut(d)
  PROVE  \A d \in 1..MaxDeletions : CarriedOut(d)'
<1> SUFFICES ASSUME NEW d \in 1..MaxDeletions PROVE CarriedOut(d)'
  OBVIOUS
<1>1. UNCHANGED <<log, removals>>
  BY DEF claimDeletionRequest, WindowEnds, local
<1>2. ASSUME NEW r \in 1..MaxDeletions, NEW s, deletions' = [deletions EXCEPT ![r].started = s]
      PROVE  /\ deletions'[d].done = deletions[d].done /\ deletions'[d].state = deletions[d].state
             /\ deletions'[d].later = deletions[d].later
  BY <1>2, DeletionRows DEF Deletion
<1>3. ASSUME NEW r \in 1..MaxDeletions, WindowEnds(r) PROVE CarriedOut(d)'
  <2>1. deletions' = [deletions EXCEPT ![r].started = "old"] /\ worker' = worker
    BY <1>3 DEF WindowEnds
  <2>2. QED
    BY <1>1, <1>2, <2>1 DEF CarriedOut
<1>4. ASSUME NEW r \in 1..MaxDeletions, Claimable(r),
             deletions' = [deletions EXCEPT ![r].started = IF @ = "no" THEN "fresh" ELSE "again"],
             worker' = [Idle EXCEPT !.at = "delete", !.deletion = r]
      PROVE  CarriedOut(d)'
  <2>1. worker'.at = "delete" /\ worker'.deletion = r
    BY <1>4, IdleTypes
  <2>2. /\ deletions'[d].done = deletions[d].done /\ deletions'[d].state = deletions[d].state
        /\ deletions'[d].later = deletions[d].later
    BY <1>2, <1>4
  <2>3. deletions[r].state = "open"
    BY <1>4 DEF Claimable
  <2>4. QED
    BY <1>1, <2>1, <2>2, <2>3 DEF CarriedOut
<1>5. CASE Go("recover") /\ UNCHANGED deletions
  <2>1. worker'.at \notin DeletionPlaces
    BY <1>5, GoStep DEF Place, DeletionPlaces
  <2>2. QED
    BY <1>1, <1>5, <2>1, CarriedKept DEF NothingImported
<1>6. QED
  BY <1>3, <1>4, <1>5 DEF claimDeletionRequest

LEMMA CarriedInserted ==
  ASSUME TypeOK, NEW r \in 1..MaxDeletions, insertDeletionRequest(r),
         \A d \in 1..MaxDeletions : CarriedOut(d)
  PROVE  \A d \in 1..MaxDeletions : CarriedOut(d)'
<1> SUFFICES ASSUME NEW d \in 1..MaxDeletions PROVE CarriedOut(d)'
  OBVIOUS
<1>1. UNCHANGED <<log, removals, worker>> /\ deletions[r].state = "none"
  BY DEF insertDeletionRequest, local
<1>2. deletions' = [deletions EXCEPT ![r].state = "open", ![r].passed = LookedForRequests]
  BY DEF insertDeletionRequest
<1>3. CASE d # r
  <2>1. deletions'[d] = deletions[d]
    BY <1>2, <1>3, DeletionRows
  <2>2. QED
    BY <1>1, <2>1 DEF CarriedOut
<1>4. CASE d = r
  <2>1. deletions'[d].done = deletions[d].done /\ deletions'[d].state = "open"
    BY <1>2, <1>4, DeletionRows DEF Deletion
  <2>2. d \notin removals /\ ~deletions[d].done
    BY <1>1, <1>4 DEF CarriedOut
  <2>3. ~(worker.at = "deleted" /\ worker.deletion = d)
    BY <2>2 DEF CarriedOut
  <2>4. QED
    BY <1>1, <2>1, <2>2, <2>3 DEF CarriedOut
<1>5. QED
  BY <1>3, <1>4

LEMMA CarriedDeleting ==
  ASSUME TypeOK, PlaceOK, deleteImportedHistory \/ completeDeletionRequest \/ deletionFails,
         \A d \in 1..MaxDeletions : CarriedOut(d)
  PROVE  \A d \in 1..MaxDeletions : CarriedOut(d)'
<1> SUFFICES ASSUME NEW d \in 1..MaxDeletions PROVE CarriedOut(d)'
  OBVIOUS
<1>0. CarriedOut(d)
  OBVIOUS
<1>1. worker.deletion \in 1..MaxDeletions
  <2>1. worker.at \in DeletionPlaces
    BY DEF deleteImportedHistory, completeDeletionRequest, deletionFails, At, DeletionPlaces
  <2>2. QED
    BY <2>1 DEF PlaceOK
<1>2. CASE deleteImportedHistory
  <2>1. worker.at = "delete" /\ worker'.at = "deleted" /\ worker'.deletion = worker.deletion
    BY <1>2, GoStep DEF deleteImportedHistory, At, Place
  <2>2. CASE worker.deletion \in removals
    <3>1. UNCHANGED <<log, removals, deletions>>
      BY <1>2, <2>2 DEF deleteImportedHistory
    <3>2. QED
      BY <1>0, <2>1, <2>2, <3>1 DEF CarriedOut, DeletionPlaces
  <2>3. CASE worker.deletion \notin removals
    <3> DEFINE ms == {m \in Message : log[m] = "imported"}
    <3>1. /\ log' = [m \in Message |-> IF m \in ms THEN "none" ELSE log[m]]
          /\ removals' = removals \cup {worker.deletion}
          /\ deletions' = [deletions EXCEPT ![worker.deletion].done = TRUE]
      BY <1>2, <2>3 DEF deleteImportedHistory
    <3>2. \A m \in Message : log'[m] # "imported"
      BY <3>1
    <3>3. /\ deletions'[d].state = deletions[d].state
          /\ deletions'[d].done => deletions[d].done \/ d = worker.deletion
      BY <1>1, <3>1, DeletionRows DEF Deletion
    <3>4. deletions[worker.deletion].state = "open"
      BY <1>1, <2>1 DEF CarriedOut, DeletionPlaces
    <3>5. QED
      BY <1>0, <2>1, <3>1, <3>2, <3>3, <3>4 DEF CarriedOut
  <2>4. QED
    BY <2>2, <2>3
<1>3. CASE completeDeletionRequest \/ deletionFails
  <2>1. UNCHANGED <<log, removals>>
    BY <1>3 DEF completeDeletionRequest, deletionFails, local
  <2>2. worker'.at = "idle"
    BY <1>3, IdleTypes DEF completeDeletionRequest, deletionFails
  <2>3. \/ UNCHANGED deletions
        \/ deletions' = [deletions EXCEPT ![worker.deletion].state = "closed"]
    BY <1>3 DEF completeDeletionRequest, deletionFails
  <2>4. /\ deletions'[d].done = deletions[d].done /\ deletions'[d].later = deletions[d].later
        /\ deletions'[d].state \in {deletions[d].state, "closed"}
    BY <2>3, DeletionChange
  <2>5. QED
    BY <1>0, <2>1, <2>2, <2>4 DEF CarriedOut, DeletionPlaces
<1>4. QED
  BY <1>2, <1>3

LEMMA CarriedSaved ==
  ASSUME TypeOK, saveBatch, \A d \in 1..MaxDeletions : CarriedOut(d)
  PROVE  \A d \in 1..MaxDeletions : CarriedOut(d)'
<1>1. removals' = removals /\ worker'.at \notin DeletionPlaces
  BY GoStep DEF saveBatch, Place, DeletionPlaces
<1>2. CASE BatchId(J, C, worker.before) \in receipts
  BY <1>1, <1>2, CarriedKept DEF saveBatch, NothingImported
<1>3. CASE BatchId(J, C, worker.before) \notin receipts
  <2> DEFINE records == {<<C, n>> : n \in worker.page \ 1..Old}
             new == records \ Recorded
  <2>1. /\ RecordEvents(records, "imported")
        /\ deletions' = [d \in 1..MaxDeletions |->
             IF deletions[d].state = "open"
               THEN [deletions[d] EXCEPT !.later = @ \cup new] ELSE deletions[d]]
    BY <1>3 DEF saveBatch
  <2> HIDE DEF records
  <2>2. \A m \in Message : log'[m] = "imported" => log[m] = "imported" \/ m \in new
    BY <2>1 DEF RecordEvents, Outranks, Recorded
  <2> HIDE DEF new
  <2>3. ASSUME NEW d \in 1..MaxDeletions PROVE CarriedOut(d)'
    <3>1. /\ deletions'[d].done = deletions[d].done /\ deletions'[d].state = deletions[d].state
          /\ deletions[d].state = "open" => deletions'[d].later = deletions[d].later \cup new
      BY <2>1, DeletionRows DEF Deletion
    <3>2. QED
      BY <1>1, <2>2, <3>1 DEF CarriedOut, DeletionPlaces
  <2>4. QED
    BY <2>3
<1>4. QED
  BY <1>2, <1>3

(* The jobs' other steps record nothing. *)
LEMMA CarriedImporting ==
  ASSUME TypeOK, [Next]_vars, Importing \/ queryFails, ~saveBatch,
         \A d \in 1..MaxDeletions : CarriedOut(d)
  PROVE  \A d \in 1..MaxDeletions : CarriedOut(d)'
<1>1. CASE Importing
  <2>1. UNCHANGED <<local, deletions>>
    <3>1. CASE recoverStale \/ claimNext \/ prepareChannels \/ guildBlocked \/ begin \/ jobBoundary
      BY <3>1 DEF recoverStale, claimNext, prepareChannels, guildBlocked, begin, jobBoundary, cloud
    <3>2. CASE nextChannel \/ setCurrentChannel \/ channelBoundary \/ fetch
      BY <3>2 DEF nextChannel, setCurrentChannel, channelBoundary, fetch, cloud
    <3>3. CASE updateCloud \/ pageBoundary \/ settleChannel \/ stopChannel
      BY <3>3 DEF updateCloud, pageBoundary, settleChannel, stopChannel, cloud
    <3>4. CASE stopJob \/ complete \/ fail
      BY <3>4 DEF stopJob, complete, fail
    <3>5. QED
      BY <1>1, <3>1, <3>2, <3>3, <3>4 DEF Importing
  <2>2. QED
    BY <1>1, <2>1, Polling, CarriedKept DEF NothingImported, local
<1>2. CASE queryFails
  <2>1. UNCHANGED <<local, deletions>>
    BY <1>2 DEF queryFails, cloud
  <2>2. worker'.at \notin DeletionPlaces
    <3>1. Give("failed", "settle") => worker'.at = "settle"
      BY GiveStep DEF Place, Outcome, Over
    <3>2. Go("fail") \/ Go("saved") => worker'.at \in {"fail", "saved"}
      BY GoStep DEF Place
    <3>3. QED
      BY <1>2, <3>1, <3>2, IdleTypes DEF queryFails, DeletionPlaces
  <2>3. QED
    BY <2>1, <2>2, CarriedKept DEF NothingImported, local
<1>3. QED
  BY <1>1, <1>2

LEMMA CarriedStep ==
  ASSUME TypeOK, PlaceOK, [Next]_vars, \A d \in 1..MaxDeletions : CarriedOut(d)
  PROVE  \A d \in 1..MaxDeletions : CarriedOut(d)'
<1>1. CASE UNCHANGED vars \/ \E c \in Channel : Post(c)
  BY <1>1, CarriedKept DEF vars, Post, local, cloud, NothingImported
<1>2. ASSUME NEW m \in Message, messageCreate(m) PROVE \A d \in 1..MaxDeletions : CarriedOut(d)'
  <2>1. NothingImported
    BY <1>2 DEF messageCreate, RecordEvents, NothingImported
  <2>2. QED
    BY <1>2, <2>1, CarriedKept DEF messageCreate, cloud
<1>3. CASE Dashboard
  <2>1. CASE \E r \in 1..MaxDeletions : insertDeletionRequest(r)
    BY <2>1, CarriedInserted
  <2>2. CASE \/ \E j \in Job : start(j) \/ pause(j) \/ resume(j) \/ cancel(j) \/ reset(j)
             \/ \E j \in Job, c \in Channel : retryChannel(j, c) \/ skipChannel(j, c)
             \/ requestDeletion
    <3>1. UNCHANGED <<local, deletions, worker>>
      BY <2>2 DEF start, pause, resume, cancel, reset, retryChannel, skipChannel,
                  requestDeletion, cloud
    <3>2. QED
      BY <3>1, CarriedKept DEF local, NothingImported
  <2>3. QED
    BY <1>3, <2>1, <2>2 DEF Dashboard
<1>4. CASE claimDeletionRequest \/ \E r \in 1..MaxDeletions : WindowEnds(r)
  BY <1>4, CarriedStarts
<1>5. CASE deleteImportedHistory \/ completeDeletionRequest \/ deletionFails
  BY <1>5, CarriedDeleting
<1>6. CASE saveBatch
  BY <1>6, CarriedSaved
<1>7. CASE (Importing \/ queryFails) /\ ~saveBatch
  BY <1>7, CarriedImporting
<1>8. CASE Crash \/ Restart
  <2>1. UNCHANGED <<local, deletions>> /\ worker'.at \in {"down", "idle"}
    BY <1>8, IdleTypes DEF Crash, Restart, cloud
  <2>2. QED
    BY <2>1, CarriedKept DEF local, NothingImported, DeletionPlaces
<1>9. QED
  BY <1>1, <1>2, <1>3, <1>4, <1>5, <1>6, <1>7, <1>8 DEF Next, Deleting

(* What a step takes from the log it takes in deleteImportedHistory. *)
LEMMA TakenByDeletion ==
  ASSUME TypeOK, [Next]_vars, NEW m \in Message, log[m] # "none", log'[m] = "none"
  PROVE  At("delete") /\ log[m] = "imported" /\ worker.deletion \notin removals
<1>1. ASSUME NEW ms, NEW source \in {"imported", "live"}, RecordEvents(ms, source) PROVE log'[m] # "none"
  BY <1>1 DEF RecordEvents
<1>2. ~UNCHANGED local
  BY DEF local
<1>3. ~\E n \in Message : messageCreate(n)
  BY <1>1 DEF messageCreate
<1>4. ~saveBatch
  BY <1>1 DEF saveBatch
<1>5. deleteImportedHistory
  BY <1>2, <1>3, <1>4, LocalSteps
<1>6. QED
  BY <1>5 DEF deleteImportedHistory

LEMMA TakenIsOlder ==
  ASSUME TypeOK, PlaceOK, [Next]_vars, \A d \in 1..MaxDeletions : DeletionOK(d) /\ CarriedOut(d),
         NEW m \in Message, log[m] # "none", log'[m] = "none"
  PROVE  /\ log[m] = "imported" /\ ~deletions[worker.deletion].done
         /\ m \in deletions[worker.deletion].later =>
              deletions[worker.deletion].passed \/ deletions[worker.deletion].started = "again"
<1>1. worker.at = "delete" /\ log[m] = "imported" /\ worker.deletion \notin removals
  BY TakenByDeletion DEF At
<1>2. worker.deletion \in 1..MaxDeletions
  BY <1>1 DEF PlaceOK, DeletionPlaces
<1>3. DeletionOK(worker.deletion) /\ CarriedOut(worker.deletion)
  BY <1>2
<1>4. ~deletions[worker.deletion].done
  BY <1>1, <1>3 DEF CarriedOut
<1>5. QED
  BY <1>1, <1>3, <1>4 DEF DeletionOK, Begun

LEMMA AnsweredLeavesLater ==
  ASSUME PlaceOK, \A d \in 1..MaxDeletions : CarriedOut(d), At("deleted"),
         NEW m \in Message, log[m] = "imported"
  PROVE  m \in deletions[worker.deletion].later
<1>1. worker.at = "deleted" /\ worker.deletion \in 1..MaxDeletions
  BY DEF At, PlaceOK, DeletionPlaces
<1>2. QED
  BY <1>1 DEF CarriedOut, DeletionPlaces

(* For any number of jobs, requests and faults, and a job started while a
   request is being made: a request to delete takes once, takes only what was
   imported, takes what was imported after it only when the worker was past its
   look for requests or had begun it before, and is answered when nothing older
   is left. *)
THEOREM DeletionsTakeOlderImports == Spec => DeletionTakesOlderImports
<1> DEFINE Inv == \A d \in 1..MaxDeletions : DeletionOK(d) /\ CarriedOut(d)
           Taken == LET d == deletions[worker.deletion]
                    IN /\ \A m \in Message : log[m] # "none" /\ log'[m] = "none" =>
                            /\ log[m] = "imported" /\ ~d.done
                            /\ m \in d.later => d.passed \/ d.started = "again"
                       /\ At("deleted") =>
                            \A m \in Message : log[m] = "imported" => m \in d.later
<1>1. Init => Inv
  <2> SUFFICES ASSUME Init, NEW d \in 1..MaxDeletions PROVE DeletionOK(d) /\ CarriedOut(d)
    OBVIOUS
  <2>1. deletions[d] = NoDeletion /\ removals = {}
    BY DEF Init
  <2>2. /\ deletions[d].state = "none" /\ deletions[d].started = "no"
        /\ deletions[d].later = {} /\ ~deletions[d].done
    BY <2>1 DEF NoDeletion
  <2>3. worker.at = "idle"
    BY IdleTypes DEF Init
  <2>4. QED
    BY <2>1, <2>2, <2>3 DEF DeletionOK, Waits, Begun, CarriedOut, DeletionPlaces
<1>2. (TypeOK /\ PlaceOK) /\ Inv /\ [Next]_vars => Inv'
  BY DeletionStep, CarriedStep
<1>3. (TypeOK /\ PlaceOK) /\ Inv /\ [Next]_vars => [Taken]_vars
  BY TakenIsOlder, AnsweredLeavesLater
<1>4. QED
  BY <1>1, <1>2, <1>3, TypeCorrect, PTL DEF Spec, DeletionTakesOlderImports

=============================================================================
