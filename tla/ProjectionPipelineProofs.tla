----------------------- MODULE ProjectionPipelineProofs -----------------------
(***************************************************************************)
(* Safety of the projection pipeline for any shapes of events, buckets,    *)
(* providers and workers, any units of time and any batch size.            *)
(*                                                                         *)
(* Two arguments meet in the inductive invariant.  The marks: a bucket     *)
(* that is listed stays dirty until its own build ends, and whatever an    *)
(* event owes to it is found by the build or has raised its source since   *)
(* it was listed (Listing, Reading, Stored).  The copies: all copies of a  *)
(* bucket's snapshot, stored, on their way or in the cloud, form a chain   *)
(* in which a newer version has at least the events of an older one, and   *)
(* the stored one is the newest (Chain, Newest).                           *)
(***************************************************************************)
EXTENDS ProjectionPipeline, FiniteSetTheorems, SequenceTheorems, TLAPS

Busy == refresh.stage \in {"read", "aggregate"}

JobBucket == refresh.job.bucket

Elements(s) == {s[k] : k \in 1..Len(s)}

Pending == Elements(refresh.unread)

(* Jobs refer to buckets that are dirty, each to another one, with a source
   the bucket has had. *)
Listed1(l) == mark[l.bucket].dirty /\ l.source <= mark[l.bucket].source

Listing ==
  /\ \A l \in refresh.left : Listed1(l)
  /\ \A l, m \in refresh.left : l.bucket = m.bucket => l = m
  /\ Busy => Listed1(refresh.job) /\ \A l \in refresh.left : l.bucket # JobBucket
  /\ refresh.stage = "off" => refresh.left = {}

Raised == mark[JobBucket].source > refresh.job.source

(* What the build owes is found in the tables read so far, ... *)
Reading ==
  refresh.stage = "read" =>
    /\ \A e \in log : Owed(JobBucket, e) /\ e.kind \notin Pending => e \in refresh.found \/ Raised
    /\ refresh.found \subseteq {e \in log : Reads(JobBucket, e)}
    /\ \A e \in snapshot[JobBucket].content : e.kind \notin Pending => e \in refresh.found

(* ... and then in the snapshot. *)
Stored ==
  refresh.stage = "aggregate" =>
    \A e \in log : Owed(JobBucket, e) => e \in snapshot[JobBucket].content \/ Raised

Contents == \A b \in Bucket : snapshot[b].content \subseteq {e \in log : Reads(b, e)}

(* What is on its way *)
Items == UNION {x.items : x \in pushes}

(* The copies of a bucket's snapshot. *)
Copy(i) == [version |-> i.version, content |-> i.content]

Copies(b) ==
  {snapshot[b]} \cup {cloud[p][b] : p \in Provider}
    \cup {Copy(i) : i \in {j \in Items : j.bucket = b}}

Chain ==
  \A b \in Bucket : \A c, d \in Copies(b) : c.version <= d.version => c.content \subseteq d.content

Newest == \A b \in Bucket : \A c \in Copies(b) : c.version <= snapshot[b].version

RowVersions ==
  \A b \in Bucket, p \in Provider :
    delivery[b][p].status # "missing" => delivery[b][p].version = snapshot[b].version

(* A push has an item per bucket, and an answer that says "stored" means that
   the provider has each of them or a newer one. *)
PushOK(x) ==
  /\ \A i, j \in x.items : i.bucket = j.bucket => i = j
  /\ x.answer = "stored" => \A i \in x.items : i.version <= cloud[x.provider][i.bucket].version

IMarks == Listing /\ Reading /\ Stored /\ Contents /\ CleanMeansComplete

ICopies == Chain /\ Newest /\ RowVersions /\ (\A x \in pushes : PushOK(x)) /\ SyncedMeansCurrentInCloud

IInv == TypeOK /\ IMarks /\ ICopies
-----------------------------------------------------------------------------
(* Buckets *)

LEMMA Times ==
  ASSUME NEW e \in Events
  PROVE  e.at \in 0..MaxMs /\ e.startedAt \in 0..e.at /\ e.kind \in Kinds
<1>1. PICK s \in Shapes, ms \in 0..MaxMs : e = At(s, ms)
  BY DEF Events
<1>2. e.at = ms /\ e.kind = s.kind /\ e.startedAt = IF ms >= s.length THEN ms - s.length ELSE 0
  BY <1>1 DEF At
<1>3. s.length \in Nat /\ s.kind \in Kinds
  BY ShapesAssumption
<1>4. QED
  BY <1>2, <1>3, BoundsAssumption

(* A time before the end of a day is on this day or before, one after its
   beginning on this day or later. *)
LEMMA DayOf ==
  ASSUME NEW t \in Nat, NEW d \in Nat
  PROVE  /\ utcDate(t) \in Nat \ {NoDate}
         /\ t < d * DayLength => utcDate(t) <= d
         /\ t > (d - 1) * DayLength /\ d # 0 => d <= utcDate(t)
<1> DEFINE q == t \div DayLength
           r == t % DayLength
<1>1. DayLength \in Nat /\ DayLength > 0
  BY DayLengthAssumption
<1>2. q \in Int /\ r \in 0..(DayLength - 1) /\ t = DayLength * q + r
  BY <1>1
<1>3. q \in Nat
  <2>1. SUFFICES ASSUME q <= -1 PROVE FALSE
    BY <1>2
  <2>2. DayLength * q <= DayLength * (-1)
    BY <2>1, <1>1, <1>2
  <2>3. QED
    BY <2>2, <1>1, <1>2
<1> HIDE DEF q, r
<1>4. ASSUME t < d * DayLength PROVE q + 1 <= d
  <2>1. SUFFICES ASSUME d <= q PROVE FALSE
    BY <1>3
  <2>2. d * DayLength <= DayLength * q
    BY <2>1, <1>1, <1>3
  <2>3. QED
    BY <2>2, <1>4, <1>1, <1>2, <1>3
<1>5. ASSUME t > (d - 1) * DayLength, d # 0 PROVE d <= q + 1
  <2>1. SUFFICES ASSUME q + 1 <= d - 1 PROVE FALSE
    BY <1>3
  <2>2. DayLength * (q + 1) <= (d - 1) * DayLength
    BY <2>1, <1>1, <1>3
  <2>3. DayLength * (q + 1) = DayLength * q + DayLength
    BY <1>1, <1>3
  <2>4. QED
    BY <2>2, <2>3, <1>5, <1>1, <1>2, <1>3
<1>6. utcDate(t) = q + 1
  BY DEF utcDate, q
<1>7. QED
  BY <1>3, <1>4, <1>5, <1>6 DEF NoDate

LEMMA DaysBetween ==
  ASSUME NEW s \in Nat, NEW t \in Nat, s <= t
  PROVE  utcDate(t) \in utcDatesBetween(s, t)
<1>1. utcDate(s) \in Nat /\ utcDate(t) \in Nat
  BY DayOf
<1>2. utcDate(s) <= utcDate(t)
  <2> DEFINE d == utcDate(t)
  <2>1. d \in Nat /\ d # 0
    BY DayOf DEF NoDate
  <2>2. t < d * DayLength
    <3> DEFINE q == t \div DayLength
    <3>1. q \in Int /\ t % DayLength \in 0..(DayLength - 1) /\ t = DayLength * q + (t % DayLength)
      BY DayLengthAssumption
    <3>2. d = q + 1
      BY DEF utcDate
    <3> HIDE DEF d, q
    <3>3. d * DayLength = DayLength * q + DayLength
      BY <3>1, <3>2, DayLengthAssumption
    <3>4. QED
      BY <3>1, <3>3, DayLengthAssumption
  <2>3. s < d * DayLength
    BY <2>1, <2>2, DayLengthAssumption
  <2>4. QED
    BY <2>1, <2>3, DayOf
<1>3. QED
  BY <1>1, <1>2 DEF utcDatesBetween

(* Whichever bucket reads an event when it is built is marked by it. *)
LEMMA ReadersAreMarked ==
  ASSUME NEW b \in Bucket, NEW e \in Events, Reads(b, e)
  PROVE  b \in Marks(e)
<1>1. IsBucket(b)
  BY BucketAssumption
<1>2. e.at \in Nat /\ e.startedAt \in Nat /\ e.startedAt <= e.at /\ e.kind \in Kinds /\ e.kind # "activity"
  BY Times, BoundsAssumption DEF Reads
<1>3. utcDate(e.at) \in Nat \ {NoDate}
  BY <1>2, DayOf
<1>4. CASE e.kind \in {"message", "reaction"}
  <2>1. InScope(b, e) /\ Marks(e) = ActivityBuckets(e)
    BY <1>4 DEF Reads, Marks
  <2>2. QED
    BY <1>1, <1>3, <2>1 DEF InScope, OnDay, SameUser, IsBucket, ActivityBuckets, GuildCurrent,
       GuildDaily, ChannelDaily, UserDaily, NoDate, None
<1>5. CASE e.kind = "member"
  <2>1. b.channel = None /\ OnDay(b, e) /\ SameUser(b, e) /\ Marks(e) = MemberBuckets(e)
    BY <1>5 DEF Reads, Marks
  <2>2. QED
    BY <1>1, <1>3, <2>1 DEF OnDay, SameUser, IsBucket, MemberBuckets, GuildCurrent,
       GuildDaily, ChannelDaily, UserDaily, NoDate, None
<1>6. CASE e.kind = "voice"
  <2> DEFINE days == utcDatesBetween(e.startedAt, e.at)
  <2>1. (ReadsSession(b, e) \/ InScope(b, e)) /\ Marks(e) = VoiceBuckets(e)
    BY <1>6 DEF Reads, Marks
  <2>2. utcDate(e.at) \in days
    BY <1>2, DaysBetween
  <2>3. ASSUME OverlapsDay(b, e), b.day \in Nat \ {NoDate} PROVE b.day \in days
    <3>1. e.startedAt < b.day * DayLength /\ e.at > (b.day - 1) * DayLength
      BY <2>3 DEF OverlapsDay
    <3>2. utcDate(e.startedAt) \in Nat /\ utcDate(e.startedAt) <= b.day /\ b.day <= utcDate(e.at)
      BY <1>2, <2>3, <3>1, DayOf DEF NoDate
    <3>3. QED
      BY <1>3, <2>3, <3>2 DEF utcDatesBetween
  <2>4. OnDay(b, e) /\ b.day # NoDate => b.day \in days
    BY <2>2 DEF OnDay
  <2> HIDE DEF days
  <2>5. b = GuildCurrent => b \in VoiceBuckets(e)
    BY DEF VoiceBuckets
  <2>6. ASSUME b.day \in Nat \ {NoDate} PROVE b.day \in days
    BY <2>1, <2>3, <2>4, <2>6 DEF ReadsSession, InScope
  <2>7. \A d \in days : GuildDaily(d) \in VoiceBuckets(e) /\ UserDaily(e.user, d) \in VoiceBuckets(e)
    BY DEF VoiceBuckets, days
  <2>8. ASSUME b.user # None, b = UserDaily(b.user, b.day), b.day \in days PROVE b \in VoiceBuckets(e)
    <3>1. b.user = e.user
      BY <2>1, <2>8 DEF ReadsSession, InScope, SameUser
    <3>2. QED
      BY <2>7, <2>8, <3>1
  <2>9. ASSUME b.channel # None, b = ChannelDaily(b.channel, b.day), b.day \in days, b.day # NoDate
        PROVE  b \in VoiceBuckets(e)
    <3>1. CASE b.channel = e.previous
      BY <2>9, <3>1 DEF VoiceBuckets, days
    <3>2. CASE b.channel # e.previous
      <4>1. b.channel = e.channel /\ b.day = utcDate(e.at)
        BY <2>1, <2>9, <3>2 DEF ReadsSession, InScope, OnDay
      <4>2. QED
        BY <2>9, <3>2, <4>1 DEF VoiceBuckets
    <3>3. QED
      BY <3>1, <3>2
  <2>10. QED
    BY <1>1, <2>1, <2>5, <2>6, <2>7, <2>8, <2>9 DEF IsBucket
<1>7. QED
  BY <1>2, <1>4, <1>5, <1>6 DEF Kinds
-----------------------------------------------------------------------------
(* Operators *)

(* The tables not read yet: what is left of Tables, its next one and the rest. *)
LEMMA TablesLeft ==
  /\ Elements(Tables) = Kinds \ {"activity"}
  /\ Tables \in {SubSeq(Tables, i, 4) : i \in 1..5}
  /\ <<>> \in {SubSeq(Tables, i, 4) : i \in 1..5}
  /\ Elements(<<>>) = {}
  /\ \A s \in {SubSeq(Tables, i, 4) : i \in 1..5} :
       s # <<>> => /\ Tail(s) \in {SubSeq(Tables, i, 4) : i \in 1..5}
                   /\ Elements(s) = {Head(s)} \cup Elements(Tail(s))
<1>1. Tables \in Seq(Kinds) /\ Len(Tables) = 4
  BY DEF Tables, Kinds
<1>2. Elements(Tables) = Kinds \ {"activity"}
  <2>1. Elements(Tables) = {Tables[1], Tables[2], Tables[3], Tables[4]}
    BY <1>1 DEF Elements
  <2>2. QED
    BY <2>1 DEF Tables, Kinds
<1>3. Tables \in {SubSeq(Tables, i, 4) : i \in 1..5}
  <2>1. SubSeq(Tables, 1, 4) = Tables
    BY <1>1, SubSeqFull
  <2>2. QED
    BY <2>1
<1>4. SubSeq(Tables, 5, 4) = <<>>
  BY SubSeqEmpty
<1>5. Elements(<<>>) = {}
  BY EmptySeq DEF Elements
<1>6. ASSUME NEW i \in 1..5, SubSeq(Tables, i, 4) # <<>>
      PROVE  LET s == SubSeq(Tables, i, 4) IN
             /\ Tail(s) \in {SubSeq(Tables, j, 4) : j \in 1..5}
             /\ Elements(s) = {Head(s)} \cup Elements(Tail(s))
  <2> DEFINE s == SubSeq(Tables, i, 4)
  <2>1. i \in 1..4
    BY <1>4, <1>6
  <2>2. Tail(s) = SubSeq(Tables, i + 1, 4)
    BY <1>1, <2>1, HeadTailOfSubSeq
  <2>3. s \in Seq(Kinds)
    <3>1. \A k \in i..4 : Tables[k] \in Kinds
      BY <1>1, <2>1, ElementOfSeq
    <3>2. QED
      BY <2>1, <3>1, SubSeqProperties
  <2>4. s # <<>>
    BY <1>6
  <2> HIDE DEF s
  <2>5. /\ Len(s) \in Nat \ {0} /\ Len(Tail(s)) = Len(s) - 1
        /\ \A k \in 1..Len(Tail(s)) : Tail(s)[k] = s[k + 1]
    BY <2>3, <2>4, EmptySeq, HeadTailProperties
  <2>6. Head(s) = s[1]
    BY <2>3
  <2>7. Elements(s) \subseteq {Head(s)} \cup Elements(Tail(s))
    <3>1. SUFFICES ASSUME NEW k \in 1..Len(s), k # 1 PROVE s[k] \in Elements(Tail(s))
      BY <2>6 DEF Elements
    <3>2. k - 1 \in 1..Len(Tail(s)) /\ (k - 1) + 1 = k
      BY <2>5, <3>1
    <3>3. QED
      BY <2>5, <3>2 DEF Elements
  <2>8. {Head(s)} \cup Elements(Tail(s)) \subseteq Elements(s)
    <3>1. ASSUME NEW k \in 1..Len(Tail(s)) PROVE Tail(s)[k] \in Elements(s)
      <4>1. k + 1 \in 1..Len(s)
        BY <2>5
      <4>2. QED
        BY <2>5, <4>1 DEF Elements
    <3>2. QED
      BY <2>5, <2>6, <3>1 DEF Elements
  <2>9. QED
    BY <2>1, <2>2, <2>7, <2>8 DEF s
<1>7. \A s \in {SubSeq(Tables, i, 4) : i \in 1..5} :
        s # <<>> => /\ Tail(s) \in {SubSeq(Tables, i, 4) : i \in 1..5}
                    /\ Elements(s) = {Head(s)} \cup Elements(Tail(s))
  BY <1>6, Zenon
<1>8. <<>> \in {SubSeq(Tables, i, 4) : i \in 1..5}
  BY <1>4
<1>9. QED
  BY <1>2, <1>3, <1>5, <1>7, <1>8, Zenon

LEMMA OffIsRefresh == Off \in Refresh /\ NoJob \in Listed /\ Off.stage = "off" /\ Off.left = {}
<1>1. NoJob \in Listed
  BY BucketAssumption DEF NoJob, Listed
<1>2. QED
  BY <1>1, TablesLeft DEF Off, Refresh

(* The newest event that is there when the bootstrap marks a bucket. *)
LEMMA Greatest ==
  ASSUME NEW S \in SUBSET (0..MaxMs), S # {}
  PROVE  \E m \in S : \A n \in S : n <= m
<1> DEFINE R == StrictSubsetOrdering(Nat)
           T == {0..(MaxMs - m) : m \in S}
<1>1. IsWellFoundedOn(R, FiniteSubsetsOf(Nat))
  BY FS_StrictSubsetOrderingWellFounded
<1>2. MaxMs \in Nat /\ \A m \in S : m \in Nat /\ MaxMs - m \in Nat
  BY BoundsAssumption
<1>3. T \subseteq FiniteSubsetsOf(Nat) /\ T # {}
  <2>1. \A m \in S : 0..(MaxMs - m) \in SUBSET Nat /\ IsFiniteSet(0..(MaxMs - m))
    BY <1>2, FS_Interval
  <2>2. QED
    BY <2>1 DEF FiniteSubsetsOf
<1>4. ASSUME NEW m \in S, NEW n \in S, n > m
      PROVE  <<0..(MaxMs - n), 0..(MaxMs - m)>> \in R
  <2>1. MaxMs - m \in 0..(MaxMs - m) /\ MaxMs - m \notin 0..(MaxMs - n)
    BY <1>2, <1>4
  <2>2. 0..(MaxMs - n) \subseteq 0..(MaxMs - m)
    BY <1>2, <1>4
  <2>3. <<0..(MaxMs - n), 0..(MaxMs - m)>> \in (SUBSET Nat) \X (SUBSET Nat)
    BY <1>2
  <2>4. QED
    BY <2>1, <2>2, <2>3 DEF StrictSubsetOrdering
<1> HIDE DEF R
<1>5. \E x \in T : \A y \in T : <<y, x>> \notin R
  <2> HIDE DEF T
  <2>1. QED
    BY <1>1, <1>3, WFMin
<1>6. PICK m \in S : \A n \in S : <<0..(MaxMs - n), 0..(MaxMs - m)>> \notin R
  BY <1>5
<1>7. ASSUME NEW n \in S PROVE n <= m
  <2>1. ~(n > m)
    BY <1>4, <1>6
  <2>2. QED
    BY <1>2, <2>1
<1>8. QED
  BY <1>7

LEMMA EventTypes ==
  ASSUME NEW s \in Shapes, NEW ms \in 0..MaxMs
  PROVE  At(s, ms) \in Events /\ At(s, ms).at = ms
BY DEF Events, At

LEMMA MarkedDirty ==
  ASSUME NEW row \in [source : Nat, dirty : BOOLEAN], NEW source \in Nat
  PROVE  LET marked == MarkDirty(row, source) IN
         /\ marked \in [source : Nat, dirty : BOOLEAN] /\ marked.dirty
         /\ marked.source >= row.source /\ marked.source >= source
BY DEF MarkDirty

(* The marks of the bootstrap and of the backfill only raise sources. *)
LEMMA BootMarksRaise ==
  ASSUME TypeOK, NEW b \in Bucket
  PROVE  /\ BootMarks[b] \in [source : Nat, dirty : BOOLEAN]
         /\ BootMarks[b].source >= mark[b].source /\ (mark[b].dirty => BootMarks[b].dirty)
         /\ BootSource(b) # {} => BootMarks[b].dirty
<1>1. mark[b] \in [source : Nat, dirty : BOOLEAN]
  BY DEF TypeOK
<1>2. BootSource(b) \subseteq 0..MaxMs
  BY Times DEF BootSource, TypeOK
<1>3. CASE BootSource(b) = {}
  BY <1>1, <1>3 DEF BootMarks
<1>4. CASE BootSource(b) # {}
  <2> DEFINE m == CHOOSE m \in BootSource(b) : \A n \in BootSource(b) : n <= m
  <2>1. m \in BootSource(b)
    BY <1>2, <1>4, Greatest
  <2>2. m \in Nat
    BY <1>2, <2>1, BoundsAssumption
  <2>3. BootMarks[b] = MarkDirty(mark[b], m)
    BY <1>4 DEF BootMarks
  <2> HIDE DEF m
  <2>4. QED
    BY <1>1, <2>2, <2>3, MarkedDirty
<1>5. QED
  BY <1>3, <1>4
-----------------------------------------------------------------------------
(* The statements on delivery rows *)

Deliveries == [Bucket -> [Provider -> SnapshotRow]]

Snapshots == [Bucket -> [version : Nat, content : SUBSET Events]]

(* The row is for the same version, and not acknowledged where it was not. *)
KeptRow(row, new) ==
  /\ new \in SnapshotRow
  /\ new.version = row.version
  /\ row.status = "missing" <=> new.status = "missing"
  /\ new.status = "synced" => row.status = "synced"

KeptRows(rows, new) == \A b \in Bucket, p \in Provider : KeptRow(rows[b][p], new[b][p])

LEMMA RowTypes ==
  /\ \A p, enabled : InitialStatus(p, enabled) \in {"pending", "disabled"}
  /\ \A status \in SnapshotStatus \ {"processing"}, version \in Nat :
       NewSnapshotRow(status, version) \in SnapshotRow
  /\ \A row \in SnapshotRow : \A p, enabled : KeptRow(row, PolicyRow(row, p, enabled))
  /\ \A row \in SnapshotRow : row.status = "processing" => KeptRow(row, ReleasedRow(row))
  /\ \A row \in SnapshotRow, status \in {"retry", "dead_letter"} :
       row.status = "processing" => KeptRow(row, Settled(row, status))
  /\ \A row \in SnapshotRow : KeptRow(row, row)
<1>1. \A p, enabled : InitialStatus(p, enabled) \in {"pending", "disabled"}
  BY DEF InitialStatus
<1>2. \A status \in SnapshotStatus \ {"processing"}, version \in Nat :
        NewSnapshotRow(status, version) \in SnapshotRow
  BY MaxAttemptsAssumption, NoWorkerAssumption DEF NewSnapshotRow, SnapshotRow
<1>3. ASSUME NEW row \in SnapshotRow, NEW p, NEW enabled PROVE KeptRow(row, PolicyRow(row, p, enabled))
  BY NoWorkerAssumption DEF PolicyRow, SnapshotRow, SnapshotStatus, KeptRow
<1>4. ASSUME NEW row \in SnapshotRow, row.status = "processing" PROVE KeptRow(row, ReleasedRow(row))
  BY <1>4 DEF ReleasedRow, SnapshotRow, SnapshotStatus, KeptRow
<1>5. ASSUME NEW row \in SnapshotRow, NEW status \in {"retry", "dead_letter"}, row.status = "processing"
      PROVE  KeptRow(row, Settled(row, status))
  BY <1>5 DEF Settled, SnapshotRow, SnapshotStatus, KeptRow
<1>6. \A row \in SnapshotRow : KeptRow(row, row)
  BY DEF KeptRow
<1>7. QED
  BY <1>1, <1>2, <1>3, <1>4, <1>5, <1>6

LEMMA ReleaseKeeps ==
  ASSUME NEW rows \in Deliveries, NEW ps
  PROVE  /\ \A expired : LET new == ReleasedExpiredSnapshots(rows, ps, expired)
                         IN new \in Deliveries /\ KeptRows(rows, new)
         /\ \A w : LET new == ReleasedSnapshotLocks(rows, ps, w)
                   IN new \in Deliveries /\ KeptRows(rows, new)
<1>1. \A b \in Bucket, p \in Provider : rows[b][p] \in SnapshotRow
  BY DEF Deliveries
<1>2. ASSUME NEW expired
      PROVE  LET new == ReleasedExpiredSnapshots(rows, ps, expired)
             IN new \in Deliveries /\ KeptRows(rows, new)
  <2> DEFINE new == ReleasedExpiredSnapshots(rows, ps, expired)
  <2>1. ASSUME NEW b \in Bucket, NEW p \in Provider PROVE KeptRow(rows[b][p], new[b][p])
    BY <1>1, RowTypes DEF ReleasedExpiredSnapshots
  <2>2. new \in Deliveries
    BY <2>1 DEF KeptRow, Deliveries, ReleasedExpiredSnapshots
  <2>3. QED
    BY <2>1, <2>2 DEF KeptRows
<1>3. ASSUME NEW w
      PROVE  LET new == ReleasedSnapshotLocks(rows, ps, w)
             IN new \in Deliveries /\ KeptRows(rows, new)
  <2> DEFINE new == ReleasedSnapshotLocks(rows, ps, w)
  <2>1. ASSUME NEW b \in Bucket, NEW p \in Provider PROVE KeptRow(rows[b][p], new[b][p])
    BY <1>1, RowTypes DEF ReleasedSnapshotLocks
  <2>2. new \in Deliveries
    BY <2>1 DEF KeptRow, Deliveries, ReleasedSnapshotLocks
  <2>3. QED
    BY <2>1, <2>2 DEF KeptRows
<1>4. QED
  BY <1>2, <1>3

LEMMA ClaimKeeps ==
  ASSUME NEW rows \in Deliveries, NEW p \in Provider, NEW w \in WorkerId,
         NEW batch \in SUBSET ClaimableSnapshots(rows, p)
  PROVE  /\ ClaimedSnapshots(rows, p, w, batch) \in Deliveries
         /\ KeptRows(rows, ClaimedSnapshots(rows, p, w, batch))
<1> DEFINE new == ClaimedSnapshots(rows, p, w, batch)
<1>1. ASSUME NEW b \in Bucket, NEW q \in Provider PROVE KeptRow(rows[b][q], new[b][q])
  <2>1. rows[b] \in [Provider -> SnapshotRow] /\ rows[b][q] \in SnapshotRow
    BY DEF Deliveries
  <2>2. CASE b \in batch /\ q = p
    <3>1. rows[b][p].status \in {"pending", "retry"}
      BY <2>2 DEF ClaimableSnapshots
    <3> DEFINE n == IF rows[b][p].attempts < MaxAttempts THEN rows[b][p].attempts + 1 ELSE MaxAttempts
               row == [status |-> "processing", version |-> rows[b][p].version, attempts |-> n,
                       lockedBy |-> w]
    <3>2. rows[b][p].attempts \in 0..MaxAttempts /\ rows[b][p].version \in Nat
      BY <2>1, <2>2 DEF SnapshotRow
    <3>3. n \in 0..MaxAttempts
      BY <3>2, MaxAttemptsAssumption
    <3>4. new[b][p] = row
      BY <2>1, <2>2 DEF ClaimedSnapshots, SnapshotRow
    <3> HIDE DEF n
    <3>5. row \in SnapshotRow
      BY <3>2, <3>3, NoWorkerAssumption DEF SnapshotRow, SnapshotStatus
    <3> HIDE DEF new
    <3>6. KeptRow(rows[b][p], row)
      BY <3>1, <3>5 DEF KeptRow
    <3>7. QED
      BY <2>2, <3>4, <3>6
  <2>3. CASE ~(b \in batch /\ q = p)
    <3>1. new[b][q] = rows[b][q]
      BY <2>1, <2>3 DEF ClaimedSnapshots
    <3>2. QED
      BY <2>1, <3>1, RowTypes
  <2>4. QED
    BY <2>2, <2>3
<1>2. new \in Deliveries
  <2>1. \A b \in Bucket : new[b] \in [Provider -> SnapshotRow]
    <3>1. SUFFICES ASSUME NEW b \in Bucket PROVE new[b] = [q \in Provider |-> new[b][q]]
      BY <1>1 DEF KeptRow
    <3>2. QED
      BY DEF ClaimedSnapshots, Deliveries
  <2>2. QED
    BY <2>1 DEF ClaimedSnapshots, Deliveries
<1>3. QED
  BY <1>1, <1>2 DEF KeptRows

LEMMA FailureKeeps ==
  ASSUME NEW rows \in Deliveries, NEW p \in Provider, NEW w, NEW items, NEW permanent
  PROVE  /\ MarkedFailed(rows, p, w, items, permanent) \in Deliveries
         /\ KeptRows(rows, MarkedFailed(rows, p, w, items, permanent))
<1> DEFINE new == MarkedFailed(rows, p, w, items, permanent)
<1>1. ASSUME NEW b \in Bucket, NEW q \in Provider PROVE KeptRow(rows[b][q], new[b][q])
  <2>1. rows[b] \in [Provider -> SnapshotRow] /\ rows[b][q] \in SnapshotRow
    BY DEF Deliveries
  <2>2. CASE q = p /\ LockedBy(rows[b][p], w) /\ \E i \in items : i.bucket = b
    <3>1. \E status \in {"retry", "dead_letter"} : new[b][p] = Settled(rows[b][p], status)
      BY <2>1, <2>2 DEF MarkedFailed
    <3>2. QED
      BY <2>1, <2>2, <3>1, RowTypes DEF LockedBy
  <2>3. CASE ~(q = p /\ LockedBy(rows[b][p], w) /\ \E i \in items : i.bucket = b)
    <3>1. new[b][q] = rows[b][q]
      BY <2>1, <2>3 DEF MarkedFailed
    <3>2. QED
      BY <2>1, <3>1, RowTypes
  <2>4. QED
    BY <2>2, <2>3
<1>2. new \in Deliveries
  <2>1. \A b \in Bucket : new[b] \in [Provider -> SnapshotRow]
    <3>1. SUFFICES ASSUME NEW b \in Bucket PROVE new[b] = [q \in Provider |-> new[b][q]]
      BY <1>1 DEF KeptRow
    <3>2. QED
      BY DEF MarkedFailed, Deliveries
  <2>2. QED
    BY <2>1 DEF MarkedFailed, Deliveries
<1>3. QED
  BY <1>1, <1>2 DEF KeptRows

(* A row is acknowledged for the version that was pushed. *)
LEMMA SuccessKeeps ==
  ASSUME NEW rows \in Deliveries, NEW p \in Provider, NEW w, NEW items
  PROVE  LET new == MarkedSynced(rows, p, w, items) IN
         /\ new \in Deliveries
         /\ \A b \in Bucket, q \in Provider :
              \/ new[b][q] = rows[b][q]
              \/ /\ q = p /\ rows[b][q].status = "processing"
                 /\ new[b][q].status = "synced" /\ new[b][q].version = rows[b][q].version
                 /\ \E i \in items : i.bucket = b /\ i.version = rows[b][q].version
<1> DEFINE new == MarkedSynced(rows, p, w, items)
<1>1. ASSUME NEW b \in Bucket, NEW q \in Provider
      PROVE  /\ new[b][q] \in SnapshotRow
             /\ \/ new[b][q] = rows[b][q]
                \/ /\ q = p /\ rows[b][q].status = "processing"
                   /\ new[b][q].status = "synced" /\ new[b][q].version = rows[b][q].version
                   /\ \E i \in items : i.bucket = b /\ i.version = rows[b][q].version
  <2>1. rows[b] \in [Provider -> SnapshotRow] /\ rows[b][q] \in SnapshotRow
    BY DEF Deliveries
  <2>2. CASE /\ q = p /\ LockedBy(rows[b][p], w)
             /\ \E i \in items : i.bucket = b /\ i.version = rows[b][p].version
    <3>1. new[b][p] = Settled(rows[b][p], "synced")
      BY <2>1, <2>2 DEF MarkedSynced
    <3>2. QED
      BY <2>1, <2>2, <3>1 DEF LockedBy, Settled, SnapshotRow, SnapshotStatus
  <2>3. CASE ~(/\ q = p /\ LockedBy(rows[b][p], w)
               /\ \E i \in items : i.bucket = b /\ i.version = rows[b][p].version)
    <3>1. new[b][q] = rows[b][q]
      BY <2>1, <2>3 DEF MarkedSynced
    <3>2. QED
      BY <2>1, <3>1
  <2>4. QED
    BY <2>2, <2>3
<1>2. new \in Deliveries
  <2>1. \A b \in Bucket : new[b] \in [Provider -> SnapshotRow]
    <3>1. SUFFICES ASSUME NEW b \in Bucket PROVE new[b] = [q \in Provider |-> new[b][q]]
      <4>1. \A b \in Bucket, q \in Provider : new[b][q] \in SnapshotRow
        BY <1>1
      <4> HIDE DEF new
      <4>2. QED
        BY <4>1
    <3>2. QED
      BY DEF MarkedSynced, Deliveries
  <2>2. QED
    BY <2>1 DEF MarkedSynced, Deliveries
<1>3. QED
  BY <1>1, <1>2

(* The rows of a provider that has none are new, the others stay or are
   switched with it. *)
LEMMA PolicyKeeps ==
  ASSUME NEW rows \in Deliveries, NEW stored \in Snapshots, NEW enabled
  PROVE  LET new == AppliedSnapshotPolicy(stored, rows, enabled) IN
         /\ new \in Deliveries
         /\ \A b \in Bucket, q \in Provider :
              \/ KeptRow(rows[b][q], new[b][q])
              \/ new[b][q].version = stored[b].version /\ new[b][q].status # "synced"
<1>0. \A b \in Bucket : stored[b].version \in Nat
  BY DEF Snapshots
<1> DEFINE new == AppliedSnapshotPolicy(stored, rows, enabled)
<1>1. ASSUME NEW b \in Bucket, NEW q \in Provider
      PROVE  /\ new[b][q] \in SnapshotRow
             /\ \/ KeptRow(rows[b][q], new[b][q])
                \/ new[b][q].version = stored[b].version /\ new[b][q].status # "synced"
  <2>1. rows[b][q] \in SnapshotRow /\ stored[b].version \in Nat
    BY <1>0 DEF Deliveries
  <2>2. CASE stored[b].version # 0 /\ rows[b][q].status = "missing"
    <3> DEFINE status == InitialStatus(q, enabled)
    <3>1. new[b][q] = NewSnapshotRow(status, stored[b].version)
      BY <2>2 DEF AppliedSnapshotPolicy
    <3>2. status \in {"pending", "disabled"}
      BY RowTypes
    <3>3. NewSnapshotRow(status, stored[b].version) \in SnapshotRow
      BY <2>1, <3>2, RowTypes DEF SnapshotStatus
    <3> HIDE DEF status
    <3>4. QED
      BY <3>1, <3>2, <3>3 DEF NewSnapshotRow
  <2>3. CASE ~(stored[b].version # 0 /\ rows[b][q].status = "missing")
    <3>1. new[b][q] = rows[b][q] \/ new[b][q] = PolicyRow(rows[b][q], q, enabled)
      BY <2>3 DEF AppliedSnapshotPolicy
    <3>2. KeptRow(rows[b][q], new[b][q])
      BY <2>1, <3>1, RowTypes
    <3>3. QED
      BY <3>2 DEF KeptRow
  <2>4. QED
    BY <2>2, <2>3
<1>2. new \in Deliveries
  BY <1>1 DEF AppliedSnapshotPolicy, Deliveries
<1>3. QED
  BY <1>1, <1>2
-----------------------------------------------------------------------------
(* The statements on snapshots *)

(* Either the bucket's snapshot gets the next version and its rows start
   again, or the content is the one that is stored. *)
LEMMA StoringKeeps ==
  ASSUME NEW stored \in Snapshots, NEW rows \in Deliveries, NEW b \in Bucket,
         NEW content \in SUBSET Events, NEW enabled
  PROVE  LET new == UpsertedSnapshot(stored, b, content)
             newRows == UpsertedRows(stored, rows, b, content, enabled)
         IN /\ new \in Snapshots /\ newRows \in Deliveries
            /\ \A a \in Bucket \ {b} : new[a] = stored[a] /\ newRows[a] = rows[a]
            /\ \/ new[b] = stored[b] /\ newRows[b] = rows[b] /\ stored[b].content = content
               \/ /\ new[b] = [version |-> stored[b].version + 1, content |-> content]
                  /\ \A p \in Provider : /\ newRows[b][p].version = stored[b].version + 1
                                         /\ newRows[b][p].status \in {"pending", "disabled"}
<1> DEFINE new == UpsertedSnapshot(stored, b, content)
           newRows == UpsertedRows(stored, rows, b, content, enabled)
           first == [p \in Provider |-> NewSnapshotRow(InitialStatus(p, enabled), stored[b].version + 1)]
<1>1. stored[b] \in [version : Nat, content : SUBSET Events]
  BY DEF Snapshots
<1>2. CASE Changed(stored, b, content)
  <2>1. new = [stored EXCEPT ![b] = [version |-> stored[b].version + 1, content |-> content]]
    BY <1>1, <1>2 DEF UpsertedSnapshot
  <2>2. newRows = [rows EXCEPT ![b] = first]
    BY <1>2 DEF UpsertedRows
  <2>3. \A p \in Provider : /\ first[p] \in SnapshotRow /\ first[p].version = stored[b].version + 1
                            /\ first[p].status \in {"pending", "disabled"}
    <3>1. SUFFICES ASSUME NEW p \in Provider
                   PROVE  /\ first[p] \in SnapshotRow /\ first[p].version = stored[b].version + 1
                          /\ first[p].status \in {"pending", "disabled"}
      OBVIOUS
    <3> DEFINE status == InitialStatus(p, enabled)
    <3>2. status \in {"pending", "disabled"} /\ stored[b].version + 1 \in Nat
      BY <1>1, RowTypes
    <3>3. NewSnapshotRow(status, stored[b].version + 1) \in SnapshotRow
      BY <3>2, RowTypes DEF SnapshotStatus
    <3> HIDE DEF status
    <3>4. NewSnapshotRow(status, stored[b].version + 1).status = status
      BY DEF NewSnapshotRow
    <3>5. NewSnapshotRow(status, stored[b].version + 1).version = stored[b].version + 1
      BY DEF NewSnapshotRow
    <3>6. first[p] = NewSnapshotRow(status, stored[b].version + 1)
      BY DEF status
    <3>7. QED
      BY <3>2, <3>3, <3>4, <3>5, <3>6
  <2>4. first \in [Provider -> SnapshotRow]
    BY <2>3
  <2> HIDE DEF new, newRows, first
  <2>5. new \in Snapshots /\ newRows \in Deliveries
    BY <1>1, <2>1, <2>2, <2>4 DEF Snapshots, Deliveries
  <2>6. \A a \in Bucket \ {b} : new[a] = stored[a] /\ newRows[a] = rows[a]
    BY <2>1, <2>2 DEF Snapshots, Deliveries
  <2>7. new[b] = [version |-> stored[b].version + 1, content |-> content] /\ newRows[b] = first
    BY <2>1, <2>2 DEF Snapshots, Deliveries
  <2>8. QED
    BY <2>3, <2>5, <2>6, <2>7 DEF new, newRows
<1>3. CASE ~Changed(stored, b, content)
  BY <1>3 DEF Changed, UpsertedSnapshot, UpsertedRows
<1>4. QED
  BY <1>2, <1>3

(* What a provider has of a bucket is replaced by an item with a newer version. *)
LEMMA ProviderKeeps ==
  ASSUME NEW stored \in Snapshots, NEW items \in SUBSET Item,
         \A i, j \in items : i.bucket = j.bucket => i = j
  PROVE  LET new == ProviderUpsert(stored, items) IN
         /\ new \in Snapshots
         /\ \A b \in Bucket :
              \/ new[b] = stored[b]
              \/ \E i \in items : i.bucket = b /\ i.version > stored[b].version /\ new[b] = Copy(i)
         /\ \A i \in items : i.version <= new[i.bucket].version
<1> DEFINE new == ProviderUpsert(stored, items)
<1>1. ASSUME NEW b \in Bucket
      PROVE  /\ new[b] \in [version : Nat, content : SUBSET Events]
             /\ \/ new[b] = stored[b] /\ \A i \in items : i.bucket = b => i.version <= stored[b].version
                \/ \E i \in items : i.bucket = b /\ i.version > stored[b].version /\ new[b] = Copy(i)
  <2>1. stored[b] \in [version : Nat, content : SUBSET Events]
    BY DEF Snapshots
  <2>2. \A i \in items : i.version \in Nat /\ i.content \in SUBSET Events
    BY DEF Item
  <2>3. CASE \E i \in items : i.bucket = b /\ i.version > stored[b].version
    <3>1. PICK i \in items : i.bucket = b /\ i.version > stored[b].version
      BY <2>3
    <3>2. (CHOOSE j \in items : j.bucket = b) = i
      BY <3>1
    <3>3. new[b] = Copy(i)
      BY <2>3, <3>2 DEF ProviderUpsert, Copy
    <3> HIDE DEF new
    <3>4. Copy(i) \in [version : Nat, content : SUBSET Events]
      BY <2>2 DEF Copy
    <3>5. QED
      BY <3>1, <3>3, <3>4
  <2>4. CASE ~\E i \in items : i.bucket = b /\ i.version > stored[b].version
    <3>1. new[b] = stored[b]
      BY <2>4 DEF ProviderUpsert
    <3>2. \A i \in items : i.bucket = b => i.version <= stored[b].version
      BY <2>1, <2>2, <2>4
    <3>3. QED
      BY <2>1, <3>1, <3>2
  <2>5. QED
    BY <2>3, <2>4
<1>2. new \in Snapshots
  <2>1. new = [b \in Bucket |-> new[b]]
    BY DEF ProviderUpsert
  <2> HIDE DEF new
  <2>2. QED
    BY <1>1, <2>1 DEF Snapshots
<1> HIDE DEF new
<1>3. ASSUME NEW i \in items PROVE i.version <= new[i.bucket].version
  <2>1. i.bucket \in Bucket /\ i.version \in Nat
    BY DEF Item
  <2>2. CASE new[i.bucket] = stored[i.bucket] /\ i.version <= stored[i.bucket].version
    BY <2>2
  <2>3. CASE \E j \in items : j.bucket = i.bucket /\ new[i.bucket] = Copy(j)
    <3>1. new[i.bucket] = Copy(i)
      BY <2>3
    <3>2. QED
      BY <2>1, <3>1 DEF Copy
  <2>4. QED
    BY <1>1, <2>1, <2>2, <2>3
<1>4. QED
  BY <1>1, <1>2, <1>3 DEF new

(* A claim copies the snapshots it selects. *)
LEMMA ClaimedItemTypes ==
  ASSUME TypeOK, NEW p, NEW claimed, NEW batch \in SUBSET Bucket
  PROVE  /\ ClaimedItems(p, claimed, batch) \in SUBSET Item
         /\ \A i \in ClaimedItems(p, claimed, batch) : Copy(i) = snapshot[i.bucket]
         /\ \A i, j \in ClaimedItems(p, claimed, batch) : i.bucket = j.bucket => i = j
<1> DEFINE ItemOf(b) == [bucket |-> b, version |-> snapshot[b].version, content |-> snapshot[b].content,
                         final |-> claimed[b][p].attempts >= MaxAttempts]
<1>1. ASSUME NEW b \in batch PROVE ItemOf(b) \in Item /\ Copy(ItemOf(b)) = snapshot[b]
  <2>1. snapshot[b] \in [version : Nat, content : SUBSET Events]
    BY DEF TypeOK
  <2>2. (claimed[b][p].attempts >= MaxAttempts) \in BOOLEAN
    OBVIOUS
  <2>3. QED
    BY <2>1, <2>2 DEF Item, Copy
<1>2. ClaimedItems(p, claimed, batch) = {ItemOf(b) : b \in batch}
  BY DEF ClaimedItems
<1>3. \A b \in batch : ItemOf(b).bucket = b
  OBVIOUS
<1> HIDE DEF ItemOf
<1>4. QED
  BY <1>1, <1>2, <1>3
-----------------------------------------------------------------------------
(* Types *)

Marks1 == [Bucket -> [source : Nat, dirty : BOOLEAN]]

LEMMA RecordTypes ==
  ASSUME TypeOK, NEW e \in Events, NEW source \in Nat, Record(e, source)
  PROVE  log' \subseteq Events /\ mark' \in Marks1 /\ overtaken' \in [Bucket -> SUBSET Events]
<1>1. log' \subseteq Events
  BY DEF Record, TypeOK
<1>2. mark' \in Marks1
  <2>1. \A b \in Bucket : MarkDirty(mark[b], source) \in [source : Nat, dirty : BOOLEAN]
    BY MarkedDirty DEF TypeOK
  <2>2. QED
    BY <2>1 DEF Record, Marks1, TypeOK
<1>3. overtaken' \in [Bucket -> SUBSET Events]
  BY DEF Record, TypeOK
<1>4. QED
  BY <1>1, <1>2, <1>3

LEMMA BotTypes ==
  ASSUME TypeOK, BotStep
  PROVE  TypeOK'
<1>1. ASSUME NEW s \in Shapes, NEW ms \in 1..MaxMs, RecordMessage(s, ms) PROVE TypeOK'
  <2>1. At(s, ms) \in Events /\ ms \in Nat
    BY EventTypes, BoundsAssumption
  <2>2. log' \subseteq Events /\ mark' \in Marks1 /\ overtaken' \in [Bucket -> SUBSET Events]
    BY <1>1, <2>1, RecordTypes DEF RecordMessage
  <2>3. QED
    BY <1>1, <2>2 DEF RecordMessage, TypeOK, queue, remote, Marks1
<1>2. ASSUME NEW s \in Shapes, RecordGateway(s) PROVE TypeOK'
  <2>1. NextSourceSequence \in Nat
    BY BoundsAssumption DEF NextSourceSequence, TypeOK
  <2>2. At(s, clock) \in Events
    BY EventTypes, BoundsAssumption DEF TypeOK
  <2>3. log' \subseteq Events /\ mark' \in Marks1 /\ overtaken' \in [Bucket -> SUBSET Events]
    BY <1>2, <2>1, <2>2, RecordTypes DEF RecordGateway
  <2>4. QED
    BY <1>2, <2>1, <2>3 DEF RecordGateway, TypeOK, queue, remote, Marks1
<1>3. ASSUME NEW enabled, RestartBot(enabled) PROVE TypeOK'
  <2>1. delivery' \in Deliveries
    BY <1>3, PolicyKeeps DEF RestartBot, TypeOK, Deliveries, Snapshots
  <2>2. QED
    BY <1>3, <2>1 DEF RestartBot, TypeOK, local, remote, Deliveries
<1>4. ASSUME Tick PROVE TypeOK'
  BY <1>4, BoundsAssumption DEF Tick, TypeOK, local, queue, remote
<1>5. QED
  BY <1>1, <1>2, <1>3, <1>4 DEF BotStep

LEMMA OperatorTypes ==
  ASSUME TypeOK, OperatorStep
  PROVE  TypeOK'
<1>1. PICK candidates \in SUBSET Bucket : Backfill(candidates)
  BY DEF OperatorStep
<1>2. mark' \in Marks1
  BY <1>1, BootMarksRaise DEF Backfill, TypeOK, Marks1
<1>3. QED
  BY <1>1, <1>2 DEF Backfill, TypeOK, Marks1, queue, remote

(* Every change of a worker's fields that a step makes. *)
LEMMA WorkerFieldTypes ==
  ASSUME TypeOK, NEW w \in WorkerId, NEW ps \in SUBSET Provider
  PROVE  /\ [worker EXCEPT ![w].phase = "running", ![w].enabled = ps] \in [WorkerId -> WorkerState]
         /\ [worker EXCEPT ![w].bootstrapped = TRUE] \in [WorkerId -> WorkerState]
         /\ [worker EXCEPT ![w].todo = ps] \in [WorkerId -> WorkerState]
         /\ [worker EXCEPT ![w].stuck = ps] \in [WorkerId -> WorkerState]
         /\ [worker EXCEPT ![w].todo = {}, ![w].stuck = ps] \in [WorkerId -> WorkerState]
         /\ [worker EXCEPT ![w].phase = "gone", ![w].stuck = ps] \in [WorkerId -> WorkerState]
         /\ [worker EXCEPT ![w].phase = "gone", ![w].todo = {}, ![w].stuck = ps]
              \in [WorkerId -> WorkerState]
<1>1. worker \in [WorkerId -> WorkerState] /\ worker[w] \in WorkerState
  BY DEF TypeOK
<1>2. [worker EXCEPT ![w].phase = "running", ![w].enabled = ps] \in [WorkerId -> WorkerState]
  <2>1. [worker[w] EXCEPT !.phase = "running", !.enabled = ps] \in WorkerState
    BY <1>1 DEF WorkerState
  <2>2. [worker EXCEPT ![w].phase = "running", ![w].enabled = ps] =
          [worker EXCEPT ![w] = [worker[w] EXCEPT !.phase = "running", !.enabled = ps]]
    BY <1>1 DEF WorkerState
  <2>3. QED
    BY <1>1, <2>1, <2>2
<1>3. [worker EXCEPT ![w].bootstrapped = TRUE] \in [WorkerId -> WorkerState]
  <2>1. [worker[w] EXCEPT !.bootstrapped = TRUE] \in WorkerState
    BY <1>1 DEF WorkerState
  <2>2. [worker EXCEPT ![w].bootstrapped = TRUE] =
          [worker EXCEPT ![w] = [worker[w] EXCEPT !.bootstrapped = TRUE]]
    BY <1>1 DEF WorkerState
  <2>3. QED
    BY <1>1, <2>1, <2>2
<1>4. [worker EXCEPT ![w].todo = ps] \in [WorkerId -> WorkerState]
  <2>1. [worker[w] EXCEPT !.todo = ps] \in WorkerState
    BY <1>1 DEF WorkerState
  <2>2. [worker EXCEPT ![w].todo = ps] =
          [worker EXCEPT ![w] = [worker[w] EXCEPT !.todo = ps]]
    BY <1>1 DEF WorkerState
  <2>3. QED
    BY <1>1, <2>1, <2>2
<1>5. [worker EXCEPT ![w].stuck = ps] \in [WorkerId -> WorkerState]
  <2>1. [worker[w] EXCEPT !.stuck = ps] \in WorkerState
    BY <1>1 DEF WorkerState
  <2>2. [worker EXCEPT ![w].stuck = ps] =
          [worker EXCEPT ![w] = [worker[w] EXCEPT !.stuck = ps]]
    BY <1>1 DEF WorkerState
  <2>3. QED
    BY <1>1, <2>1, <2>2
<1>6. [worker EXCEPT ![w].todo = {}, ![w].stuck = ps] \in [WorkerId -> WorkerState]
  <2>1. [worker[w] EXCEPT !.todo = {}, !.stuck = ps] \in WorkerState
    BY <1>1 DEF WorkerState
  <2>2. [worker EXCEPT ![w].todo = {}, ![w].stuck = ps] =
          [worker EXCEPT ![w] = [worker[w] EXCEPT !.todo = {}, !.stuck = ps]]
    BY <1>1 DEF WorkerState
  <2>3. QED
    BY <1>1, <2>1, <2>2
<1>7. [worker EXCEPT ![w].phase = "gone", ![w].stuck = ps] \in [WorkerId -> WorkerState]
  <2>1. [worker[w] EXCEPT !.phase = "gone", !.stuck = ps] \in WorkerState
    BY <1>1 DEF WorkerState
  <2>2. [worker EXCEPT ![w].phase = "gone", ![w].stuck = ps] =
          [worker EXCEPT ![w] = [worker[w] EXCEPT !.phase = "gone", !.stuck = ps]]
    BY <1>1 DEF WorkerState
  <2>3. QED
    BY <1>1, <2>1, <2>2
<1>8. [worker EXCEPT ![w].phase = "gone", ![w].todo = {}, ![w].stuck = ps] \in [WorkerId -> WorkerState]
  <2>1. [worker[w] EXCEPT !.phase = "gone", !.todo = {}, !.stuck = ps] \in WorkerState
    BY <1>1 DEF WorkerState
  <2>2. [worker EXCEPT ![w].phase = "gone", ![w].todo = {}, ![w].stuck = ps] =
          [worker EXCEPT ![w] = [worker[w] EXCEPT !.phase = "gone", !.todo = {}, !.stuck = ps]]
    BY <1>1 DEF WorkerState
  <2>3. QED
    BY <1>1, <2>1, <2>2
<1>9. QED
  BY <1>2, <1>3, <1>4, <1>5, <1>6, <1>7, <1>8

LEMMA RefreshTypes ==
  ASSUME TypeOK, NEW w \in WorkerId, RefreshStep(w)
  PROVE  TypeOK'
<1>1. ASSUME NEW marked \in BOOLEAN, NEW noted \in BOOLEAN, Bootstrap(w, marked, noted) PROVE TypeOK'
  <2>1. mark' \in Marks1
    <3>1. BootMarks \in Marks1
      BY BootMarksRaise DEF Marks1, BootMarks
    <3>2. QED
      BY <1>1, <3>1 DEF Bootstrap, TypeOK, Marks1
  <2>2. worker' \in [WorkerId -> WorkerState]
    BY <1>1, WorkerFieldTypes DEF Bootstrap
  <2>3. QED
    BY <1>1, <2>1, <2>2 DEF Bootstrap, TypeOK, Marks1, queue, remote
<1>2. ASSUME NEW due \in SUBSET Bucket, ListDue(w, due) PROVE TypeOK'
  <2>1. {[bucket |-> b, source |-> mark[b].source] : b \in due} \in SUBSET Listed
    BY DEF TypeOK, Listed
  <2>2. refresh' \in Refresh
    BY <1>2, <2>1, OffIsRefresh DEF ListDue, Refresh
  <2>3. QED
    BY <1>2, <2>2 DEF ListDue, TypeOK, local, queue, remote
<1>3. ASSUME NEW job \in refresh.left, StartBuild(w, job) PROVE TypeOK'
  <2>1. refresh' \in Refresh
    BY <1>3, TablesLeft DEF StartBuild, TypeOK, Refresh
  <2>2. QED
    BY <1>3, <2>1 DEF StartBuild, TypeOK, local, queue, remote
<1>4. ASSUME ReadTable(w) PROVE TypeOK'
  <2>1. Tail(refresh.unread) \in {SubSeq(Tables, i, 4) : i \in 1..5}
    BY <1>4, TablesLeft DEF ReadTable, TypeOK, Refresh
  <2>2. refresh' \in Refresh
    BY <1>4, <2>1 DEF ReadTable, TypeOK, Refresh
  <2>3. QED
    BY <1>4, <2>2 DEF ReadTable, TypeOK, local, queue, remote
<1>5. ASSUME StoreSnapshot(w) PROVE TypeOK'
  <2>1. refresh.job.bucket \in Bucket /\ refresh.found \in SUBSET Events
    BY DEF TypeOK, Refresh, Listed
  <2>2. snapshot' \in Snapshots /\ delivery' \in Deliveries
    BY <1>5, <2>1, StoringKeeps DEF StoreSnapshot, TypeOK, Deliveries, Snapshots
  <2>3. refresh' \in Refresh
    BY <1>5 DEF StoreSnapshot, TypeOK, Refresh
  <2>4. QED
    BY <1>5, <2>2, <2>3 DEF StoreSnapshot, TypeOK, local, remote, Deliveries, Snapshots
<1>6. ASSUME NEW stop \in BOOLEAN, MarkAggregated(w, stop) PROVE TypeOK'
  <2>1. refresh.job.bucket \in Bucket /\ refresh.job.source \in Nat
    BY DEF TypeOK, Refresh, Listed
  <2>2. mark' \in Marks1
    <3>1. mark' = [mark EXCEPT ![JobBucket] = Aggregated(mark[JobBucket], refresh.job.source)]
      BY <1>6 DEF MarkAggregated, JobBucket
    <3>2. mark[JobBucket] \in [source : Nat, dirty : BOOLEAN]
      BY <2>1 DEF TypeOK, JobBucket
    <3>3. Aggregated(mark[JobBucket], refresh.job.source) \in [source : Nat, dirty : BOOLEAN]
      <4>1. (mark[JobBucket].source > refresh.job.source) \in BOOLEAN
        OBVIOUS
      <4>2. QED
        BY <3>2, <4>1 DEF Aggregated
    <3>4. QED
      BY <3>1, <3>3 DEF TypeOK, Marks1
  <2>3. refresh' \in Refresh
    BY <1>6, OffIsRefresh DEF MarkAggregated, TypeOK, Refresh
  <2>4. QED
    BY <1>6, <2>2, <2>3 DEF MarkAggregated, TypeOK, Marks1, queue, remote
<1>7. ASSUME RefreshThrows(w) PROVE TypeOK'
  BY <1>7, OffIsRefresh DEF RefreshThrows, TypeOK, local, queue, remote
<1>8. ASSUME EndRefresh(w) PROVE TypeOK'
  <2>1. worker' \in [WorkerId -> WorkerState]
    <3>1. worker[w].enabled \in SUBSET Provider
      BY DEF TypeOK, WorkerState
    <3>2. QED
      BY <1>8, <3>1, WorkerFieldTypes DEF EndRefresh
  <2>2. QED
    BY <1>8, <2>1, OffIsRefresh DEF EndRefresh, TypeOK, local, queue, remote
<1>9. QED
  BY <1>1, <1>2, <1>3, <1>4, <1>5, <1>6, <1>7, <1>8 DEF RefreshStep

LEMMA StuckTypes ==
  ASSUME TypeOK, NEW w \in WorkerId, NEW p \in Provider, NEW probe \in BOOLEAN
  PROVE  StuckAfter(w, p, probe) \in SUBSET Provider
BY DEF StuckAfter, TypeOK, WorkerState

LEMMA WorkerTypes ==
  ASSUME TypeOK, NEW w \in WorkerId, WorkerStep(w)
  PROVE  TypeOK'
<1>1. delivery \in Deliveries /\ snapshot \in Snapshots
  BY DEF TypeOK, Deliveries, Snapshots
<1>2. ASSUME NEW enabled \in Policies, NEW expired \in SUBSET Bucket, StartWorker(w, enabled, expired)
      PROVE  TypeOK'
  <2>1. delivery' \in Deliveries
    <3>1. AppliedSnapshotPolicy(snapshot, delivery, enabled) \in Deliveries
      BY <1>1, PolicyKeeps
    <3>2. QED
      BY <1>2, <3>1, ReleaseKeeps DEF StartWorker
  <2>2. worker' \in [WorkerId -> WorkerState]
    <3>1. enabled \in SUBSET Provider
      BY PoliciesAssumption
    <3>2. worker' = [worker EXCEPT ![w].phase = "running", ![w].enabled = enabled]
      BY <1>2 DEF StartWorker
    <3>3. QED
      BY <3>1, <3>2, WorkerFieldTypes
  <2>3. QED
    BY <1>2, <2>1, <2>2 DEF StartWorker, TypeOK, local, remote, Deliveries
<1>3. ASSUME NEW p \in Provider, NEW expired \in SUBSET Bucket, NEW batch \in SUBSET Bucket,
             Claim(w, p, expired, batch)
      PROVE  TypeOK'
  <2> DEFINE released == ReleasedExpiredSnapshots(delivery, {p}, expired)
             claimed == ClaimedSnapshots(released, p, w, batch)
  <2>1. batch \subseteq ClaimableSnapshots(released, p) /\ delivery' = claimed
    BY <1>3 DEF Claim, Found
  <2>2. released \in Deliveries
    BY <1>1, ReleaseKeeps
  <2> HIDE DEF released
  <2>3. claimed \in Deliveries
    BY <2>1, <2>2, ClaimKeeps
  <2>4. ClaimedItems(p, claimed, batch) \in SUBSET Item
    BY ClaimedItemTypes
  <2>5. worker' \in [WorkerId -> WorkerState]
    <3>1. worker[w].todo \ {p} \in SUBSET Provider
      BY DEF TypeOK, WorkerState
    <3>2. worker' = [worker EXCEPT ![w].todo = worker[w].todo \ {p}]
      BY <1>3 DEF Claim, TypeOK
    <3>3. QED
      BY <3>1, <3>2, WorkerFieldTypes
  <2> HIDE DEF claimed
  <2>6. pushes' \subseteq Push
    <3>1. pushes' = pushes \cup {[worker |-> w, provider |-> p, awaited |-> TRUE,
                                  items |-> ClaimedItems(p, claimed, batch), answer |-> "none"]}
      BY <1>3 DEF Claim, claimed, released
    <3>2. [worker |-> w, provider |-> p, awaited |-> TRUE,
           items |-> ClaimedItems(p, claimed, batch), answer |-> "none"] \in Push
      BY <2>4 DEF Push
    <3>3. QED
      BY <3>1, <3>2 DEF TypeOK
  <2>7. QED
    BY <1>3, <2>1, <2>3, <2>5, <2>6 DEF Claim, TypeOK, local, Deliveries
<1>4. ASSUME NEW p \in Provider, NEW expired \in SUBSET Bucket, SkipProvider(w, p, expired)
      PROVE  TypeOK'
  <2>1. delivery' \in Deliveries
    BY <1>1, <1>4, ReleaseKeeps DEF SkipProvider
  <2>2. worker' \in [WorkerId -> WorkerState]
    <3>1. worker[w].todo \ {p} \in SUBSET Provider
      BY DEF TypeOK, WorkerState
    <3>2. worker' = [worker EXCEPT ![w].todo = worker[w].todo \ {p}]
      BY <1>4 DEF SkipProvider, TypeOK
    <3>3. QED
      BY <3>1, <3>2, WorkerFieldTypes
  <2>3. QED
    BY <1>4, <2>1, <2>2 DEF SkipProvider, TypeOK, local, remote, Deliveries
<1>a. Unattended(w) \subseteq Push
  <2>1. ASSUME NEW x \in Push PROVE [x EXCEPT !.awaited = FALSE] \in Push
    BY DEF Push
  <2>2. pushes \subseteq Push
    BY DEF TypeOK
  <2>3. QED
    BY <2>1, <2>2 DEF Unattended
<1>b. ASSUME NEW p \in Provider, NEW probe \in BOOLEAN, ClaimThrows(w, p, probe) PROVE TypeOK'
  <2>1. worker' \in [WorkerId -> WorkerState]
    BY <1>b, StuckTypes, WorkerFieldTypes DEF ClaimThrows
  <2>2. QED
    BY <1>a, <1>b, <2>1 DEF ClaimThrows, TypeOK, local, queue
<1>5. ASSUME RoundRejected(w) PROVE TypeOK'
  <2>1. worker' \in [WorkerId -> WorkerState]
    BY <1>5, WorkerFieldTypes DEF RoundRejected
  <2>2. QED
    BY <1>5, <1>a, <2>1 DEF RoundRejected, TypeOK, local, queue
<1>6. ASSUME StopWorker(w) PROVE TypeOK'
  <2>1. delivery' \in Deliveries
    BY <1>1, <1>6, ReleaseKeeps DEF StopWorker
  <2>2. worker' \in [WorkerId -> WorkerState]
    BY <1>6, WorkerFieldTypes DEF StopWorker
  <2>3. QED
    BY <1>6, <2>1, <2>2 DEF StopWorker, TypeOK, local, remote, Deliveries
<1>7. ASSUME CrashWorker(w) PROVE TypeOK'
  <2>1. worker' \in [WorkerId -> WorkerState]
    BY <1>7, WorkerFieldTypes DEF CrashWorker
  <2>2. QED
    BY <1>7, <2>1, OffIsRefresh DEF CrashWorker, TypeOK, local, queue, remote
<1>8. QED
  BY <1>2, <1>3, <1>4, <1>b, <1>5, <1>6, <1>7, RefreshTypes DEF WorkerStep

LEMMA PushTypes ==
  ASSUME TypeOK, NEW x \in pushes, PushOK(x), PushStep(x)
  PROVE  TypeOK'
<1>1. /\ delivery \in Deliveries /\ x \in Push /\ x.provider \in Provider
      /\ x.items \in SUBSET Item /\ cloud[x.provider] \in Snapshots
  BY DEF TypeOK, Deliveries, Snapshots, Push
<1>2. CASE ProviderRuns(x)
  <2> DEFINE stored == ProviderUpsert(cloud[x.provider], x.items)
             answer == IF Conflicts(stored, x.items) THEN "conflict" ELSE "stored"
  <2>1. stored \in Snapshots
    BY <1>1, ProviderKeeps DEF PushOK
  <2>2. cloud' = [cloud EXCEPT ![x.provider] = stored]
        /\ pushes' = (pushes \ {x}) \cup {[x EXCEPT !.answer = answer]}
    BY <1>2 DEF ProviderRuns
  <2>3. answer \in {"stored", "conflict"}
    OBVIOUS
  <2> HIDE DEF stored, answer
  <2>4. [x EXCEPT !.answer = answer] \in Push
    BY <1>1, <2>3 DEF Push
  <2>5. QED
    BY <1>2, <2>1, <2>2, <2>4 DEF ProviderRuns, TypeOK, local, queue, Snapshots
<1>3. ASSUME \/ PushSucceeds(x) \/ \E permanent \in BOOLEAN : PushFails(x, permanent)
             \/ \E noted \in SUBSET x.items, probe \in BOOLEAN : SettlingThrows(x, noted, probe)
      PROVE  TypeOK'
  <2>1. delivery' \in Deliveries
    <3>1. CASE PushSucceeds(x)
      BY <1>1, <3>1, SuccessKeeps DEF PushSucceeds
    <3>2. CASE \E permanent \in BOOLEAN : PushFails(x, permanent)
      BY <1>1, <3>2, FailureKeeps DEF PushFails
    <3>3. CASE \E noted \in SUBSET x.items, probe \in BOOLEAN : SettlingThrows(x, noted, probe)
      <4>1. PICK noted \in SUBSET x.items, probe \in BOOLEAN : SettlingThrows(x, noted, probe)
        BY <3>3
      <4>2. delivery' = MarkedFailed(delivery, x.provider, x.worker, noted, FALSE)
        BY <4>1 DEF SettlingThrows
      <4>3. QED
        BY <1>1, <4>2, FailureKeeps
    <3>4. QED
      BY <1>3, <3>1, <3>2, <3>3
  <2>2. pushes' \subseteq pushes /\ UNCHANGED <<clock, stamp, local, snapshot, cloud, refresh>>
    BY <1>3 DEF PushSucceeds, PushFails, SettlingThrows
  <2>3. worker' \in [WorkerId -> WorkerState]
    <3>1. ASSUME NEW noted \in SUBSET x.items, NEW probe \in BOOLEAN, SettlingThrows(x, noted, probe)
          PROVE  worker' \in [WorkerId -> WorkerState]
      <4>1. x.worker \in WorkerId
        BY <1>1 DEF Push
      <4>2. StuckAfter(x.worker, x.provider, probe) \in SUBSET Provider
        BY <1>1, <4>1, StuckTypes
      <4>3. QED
        BY <3>1, <4>1, <4>2, WorkerFieldTypes DEF SettlingThrows
    <3>2. QED
      BY <1>3, <3>1 DEF PushSucceeds, PushFails, TypeOK
  <2>4. QED
    BY <2>1, <2>2, <2>3 DEF TypeOK, local, Deliveries
<1>4. CASE RequestLost(x)
  BY <1>4 DEF RequestLost, TypeOK, local, queue
<1>5. QED
  BY <1>2, <1>3, <1>4 DEF PushStep
-----------------------------------------------------------------------------
(* The marks *)

(* What only raises sources and sets dirty keeps the listing and the build. *)
LEMMA RaisingKeepsListing ==
  ASSUME TypeOK, mark' \in Marks1, Listing, UNCHANGED refresh,
         \A b \in Bucket : mark'[b].source >= mark[b].source /\ (mark[b].dirty => mark'[b].dirty)
  PROVE  Listing' /\ (Raised => Raised')
<1>1. \A l \in Listed : l.bucket \in Bucket /\ l.source \in Nat
  BY DEF Listed
<1>2. refresh.job \in Listed /\ refresh.left \subseteq Listed
  BY DEF TypeOK, Refresh
<1>3. \A b \in Bucket : mark[b].source \in Nat /\ mark'[b].source \in Nat
  BY DEF TypeOK, Marks1
<1>4. ASSUME NEW l \in Listed, Listed1(l) PROVE Listed1(l)'
  BY <1>1, <1>3, <1>4 DEF Listed1
<1>5. Listing'
  BY <1>2, <1>4 DEF Listing, Busy, JobBucket
<1>6. Raised => Raised'
  BY <1>1, <1>2, <1>3 DEF Raised, JobBucket
<1>7. QED
  BY <1>5, <1>6

(* A recorded event marks every bucket that reads it; a build that did not
   see it finds its source raised. *)
LEMMA RecordKeepsMarks ==
  ASSUME TypeOK, IMarks, NEW e \in Events, e.at # 0, NEW source \in Nat, Record(e, source),
         UNCHANGED <<boot, snapshot, refresh>>
  PROVE  IMarks'
<1>1. mark' \in Marks1
  BY RecordTypes
<1>2. ASSUME NEW b \in Bucket
      PROVE  /\ mark'[b].source >= mark[b].source /\ (mark[b].dirty => mark'[b].dirty)
             /\ b \in Marks(e) => mark'[b].dirty /\ mark'[b].source >= source
  <2>1. mark[b] \in [source : Nat, dirty : BOOLEAN]
    BY DEF TypeOK
  <2>2. mark'[b] = IF b \in Marks(e) THEN MarkDirty(mark[b], source) ELSE mark[b]
    BY DEF Record
  <2>3. QED
    BY <2>1, <2>2, MarkedDirty
<1>3. Listing' /\ (Raised => Raised')
  BY <1>1, <1>2, RaisingKeepsListing DEF IMarks
<1>4. \A f \in log', b \in Bucket : Owed(b, f)' => Owed(b, f) \/ f = e
  BY DEF Owed, Record, Old
<1>5. \A b \in Bucket : Owed(b, e)' => b \in Marks(e) /\ ~(source <= mark[b].source)
  <2>1. SUFFICES ASSUME NEW b \in Bucket, Owed(b, e)' PROVE b \in Marks(e) /\ ~(source <= mark[b].source)
    OBVIOUS
  <2>2. Reads(b, e) /\ e \notin overtaken'[b]
    BY <2>1 DEF Owed, Old
  <2>3. b \in Marks(e)
    BY <2>2, ReadersAreMarked
  <2>4. QED
    BY <2>2, <2>3 DEF Record
<1>6. Busy => (Owed(JobBucket, e)' => Raised')
  <2>1. SUFFICES ASSUME Busy, Owed(JobBucket, e)' PROVE Raised'
    OBVIOUS
  <2>2. JobBucket \in Bucket /\ refresh.job.source \in Nat
    BY DEF TypeOK, Refresh, Listed, JobBucket
  <2>3. refresh.job.source <= mark[JobBucket].source
    BY <2>1 DEF IMarks, Listing, Listed1, JobBucket
  <2>4. /\ ~(source <= mark[JobBucket].source) /\ mark'[JobBucket].source >= source
        /\ mark[JobBucket].source \in Nat /\ mark'[JobBucket].source \in Nat
    <3>1. mark[JobBucket].source \in Nat /\ mark'[JobBucket].source \in Nat
      BY <1>1, <2>2 DEF TypeOK, Marks1
    <3>2. Owed(JobBucket, e)' <=> (e \in log' /\ Reads(JobBucket, e) /\ e \notin overtaken'[JobBucket])
      BY DEF Owed, Old, JobBucket
    <3>3. JobBucket \in Marks(e)
      BY <2>1, <2>2, <3>2, ReadersAreMarked
    <3>4. ~(source <= mark[JobBucket].source)
      BY <2>1, <2>2, <3>2, <3>3 DEF Record
    <3>5. QED
      BY <1>2, <2>2, <3>1, <3>3, <3>4
  <2>5. mark'[JobBucket].source > refresh.job.source
    BY <2>2, <2>3, <2>4
  <2>6. QED
    BY <2>5 DEF Raised, JobBucket
<1>7. JobBucket \in Bucket /\ JobBucket' = JobBucket
  BY DEF TypeOK, Refresh, Listed, JobBucket
<1>8. Reading'
  <2>1. SUFFICES ASSUME refresh.stage = "read" PROVE Reading'
    BY DEF Reading
  <2>2. \A f \in log' : Owed(JobBucket, f)' /\ f.kind \notin Pending => f \in refresh.found \/ Raised'
    BY <1>3, <1>4, <1>6, <1>7, <2>1 DEF IMarks, Reading, Busy, Owed
  <2>3. refresh.found \subseteq {f \in log' : Reads(JobBucket, f)}
    BY <2>1 DEF IMarks, Reading, Record
  <2>4. \A f \in snapshot[JobBucket].content : f.kind \notin Pending => f \in refresh.found
    BY <2>1 DEF IMarks, Reading
  <2>5. QED
    BY <1>7, <2>2, <2>3, <2>4 DEF Reading, Pending
<1>9. Stored'
  <2>1. SUFFICES ASSUME refresh.stage = "aggregate" PROVE Stored'
    BY DEF Stored
  <2>2. \A f \in log' : Owed(JobBucket, f)' => f \in snapshot[JobBucket].content \/ Raised'
    BY <1>3, <1>4, <1>6, <1>7, <2>1 DEF IMarks, Stored, Busy, Owed
  <2>3. QED
    BY <1>7, <2>2 DEF Stored
<1>10. Contents'
  BY DEF IMarks, Contents, Record
<1>11. CleanMeansComplete'
  <2>1. SUFFICES ASSUME NEW b \in Bucket, NEW f \in log', Owed(b, f)'
                 PROVE  mark'[b].dirty \/ f \in snapshot[b].content
    BY DEF CleanMeansComplete
  <2>2. CASE f = e
    BY <1>2, <1>5, <2>1, <2>2
  <2>3. CASE Owed(b, f)
    <3>1. f \in log
      BY <2>3 DEF Owed
    <3>2. mark[b].dirty \/ f \in snapshot[b].content
      BY <2>3, <3>1 DEF IMarks, CleanMeansComplete
    <3>3. QED
      BY <1>2, <3>2
  <2>4. QED
    BY <1>4, <2>1, <2>2, <2>3
<1>12. QED
  BY <1>3, <1>8, <1>9, <1>10, <1>11 DEF IMarks

LEMMA BackfillKeepsMarks ==
  ASSUME TypeOK, IMarks, OperatorStep
  PROVE  IMarks'
<1>1. PICK candidates \in SUBSET Bucket : Backfill(candidates)
  BY DEF OperatorStep
<1>2. UNCHANGED <<log, overtaken, boot, snapshot, refresh>>
  BY <1>1 DEF Backfill, queue
<1>3. \A b \in Bucket : mark'[b].source >= mark[b].source /\ (mark[b].dirty => mark'[b].dirty)
  <2>1. \A b \in Bucket : mark[b].source \in Nat
    BY DEF TypeOK
  <2>2. QED
    BY <1>1, <2>1, BootMarksRaise DEF Backfill
<1>4. Listing' /\ (Raised => Raised')
  <2>1. TypeOK'
    BY OperatorTypes
  <2>2. QED
    BY <1>2, <1>3, <2>1, RaisingKeepsListing DEF IMarks, TypeOK, Marks1
<1>5. \A b, e : Owed(b, e)' <=> Owed(b, e)
  BY <1>2 DEF Owed
<1>6. JobBucket' = JobBucket /\ Pending' = Pending
  BY <1>2 DEF JobBucket, Pending
<1>7. Reading' /\ Stored' /\ Contents'
  BY <1>2, <1>4, <1>5, <1>6 DEF IMarks, Reading, Stored, Contents
<1>8. CleanMeansComplete'
  BY <1>2, <1>3, <1>5 DEF IMarks, CleanMeansComplete
<1>9. QED
  BY <1>4, <1>7, <1>8 DEF IMarks

(* The bootstrap marks what it notes as marked. *)
LEMMA BootstrapKeepsMarks ==
  ASSUME TypeOK, IMarks, NEW w, NEW marked \in BOOLEAN, NEW noted \in BOOLEAN, Bootstrap(w, marked, noted)
  PROVE  IMarks'
<1>1. UNCHANGED <<log, overtaken, snapshot, refresh>> /\ refresh.stage = "off" /\ boot' = noted
  BY DEF Bootstrap, queue, RoundOver
<1>2. Listing' /\ Reading' /\ Stored'
  BY <1>1 DEF IMarks, Listing, Reading, Stored, Busy
<1>3. Contents'
  BY <1>1 DEF IMarks, Contents
<1>4. CleanMeansComplete'
  <2>1. SUFFICES ASSUME NEW b \in Bucket, NEW e \in log, Owed(b, e)'
                 PROVE  mark'[b].dirty \/ e \in snapshot[b].content
    BY <1>1 DEF CleanMeansComplete
  <2>2. mark[b].dirty => mark'[b].dirty
    BY BootMarksRaise DEF Bootstrap
  <2>3. CASE Owed(b, e)
    BY <2>2, <2>3 DEF IMarks, CleanMeansComplete
  <2>4. CASE ~Owed(b, e)
    <3>1. Old(e) /\ noted /\ ~boot /\ b \in BootBuckets(e)
      BY <1>1, <2>1, <2>4 DEF Owed, Old
    <3>2. mark' = BootMarks
      BY <3>1 DEF Bootstrap
    <3>3. e.at \in BootSource(b)
      BY <3>1 DEF BootSource
    <3>4. QED
      BY <3>2, <3>3, BootMarksRaise
  <2>5. QED
    BY <2>3, <2>4
<1>5. QED
  BY <1>2, <1>3, <1>4 DEF IMarks

LEMMA ListKeepsMarks ==
  ASSUME TypeOK, IMarks, UNCHANGED <<log, mark, overtaken, boot, snapshot>>, refresh'.stage \in {"off", "list"},
         \A l \in refresh'.left : Listed1(l), \A l, m \in refresh'.left : l.bucket = m.bucket => l = m,
         refresh'.stage = "off" => refresh'.left = {}
  PROVE  IMarks'
<1>1. Listing'
  BY DEF Listing, Busy, Listed1
<1>2. Reading' /\ Stored'
  BY DEF Reading, Stored
<1>3. \A b, e : Owed(b, e)' <=> Owed(b, e)
  BY DEF Owed
<1>4. Contents' /\ CleanMeansComplete'
  BY <1>3 DEF IMarks, Contents, CleanMeansComplete
<1>5. QED
  BY <1>1, <1>2, <1>4 DEF IMarks

LEMMA StartBuildKeepsMarks ==
  ASSUME TypeOK, IMarks, NEW w, NEW job \in refresh.left, StartBuild(w, job)
  PROVE  IMarks'
<1>1. /\ UNCHANGED <<log, mark, overtaken, boot, snapshot>>
      /\ refresh' = [refresh EXCEPT !.stage = "read", !.left = @ \ {job}, !.job = job,
                                    !.unread = Tables, !.found = {}]
  BY DEF StartBuild, local, queue
<1>2. /\ refresh'.stage = "read" /\ refresh'.left = refresh.left \ {job} /\ refresh'.job = job
      /\ refresh'.unread = Tables /\ refresh'.found = {}
  BY <1>1 DEF TypeOK, Refresh
<1>3. Listing'
  BY <1>1, <1>2 DEF IMarks, Listing, Busy, Listed1, JobBucket
<1>4. job.bucket \in Bucket /\ JobBucket' = job.bucket
  BY <1>2 DEF TypeOK, Refresh, Listed, JobBucket
<1>5. Pending' = Kinds \ {"activity"}
  BY <1>2, TablesLeft DEF Pending
<1>6. \A e \in log : Reads(job.bucket, e) => e.kind \in Pending'
  <2>1. \A e \in log : e.kind \in Kinds
    BY Times DEF TypeOK
  <2>2. \A e \in log : Reads(job.bucket, e) => e.kind # "activity"
    BY DEF Reads
  <2>3. QED
    BY <1>5, <2>1, <2>2
<1>7. \A e \in log : Owed(job.bucket, e)' => Reads(job.bucket, e)
  BY <1>1 DEF Owed
<1>8. \A e \in snapshot[job.bucket].content : e \in log /\ Reads(job.bucket, e)
  BY <1>4 DEF IMarks, Contents
<1>9. Reading'
  BY <1>1, <1>2, <1>4, <1>6, <1>7, <1>8 DEF Reading
<1>10. Stored' /\ Contents' /\ CleanMeansComplete'
  <2>1. \A b, e : Owed(b, e)' <=> Owed(b, e)
    BY <1>1 DEF Owed
  <2>2. QED
    BY <1>1, <1>2, <2>1 DEF IMarks, Stored, Contents, CleanMeansComplete
<1>11. QED
  BY <1>3, <1>9, <1>10 DEF IMarks

LEMMA ReadTableKeepsMarks ==
  ASSUME TypeOK, IMarks, NEW w, ReadTable(w)
  PROVE  IMarks'
<1> DEFINE table == {e \in log : e.kind = Head(refresh.unread) /\ Reads(JobBucket, e)}
<1>1. /\ UNCHANGED <<log, mark, overtaken, boot, snapshot>> /\ refresh.stage = "read"
      /\ refresh' = [refresh EXCEPT !.unread = Tail(@), !.found = @ \cup table]
      /\ refresh.unread # <<>>
  BY DEF ReadTable, local, queue, JobBucket
<1>2. /\ refresh'.stage = "read" /\ refresh'.left = refresh.left /\ refresh'.job = refresh.job
      /\ refresh'.unread = Tail(refresh.unread) /\ refresh'.found = refresh.found \cup table
  BY <1>1 DEF TypeOK, Refresh
<1>3. Listing' /\ JobBucket' = JobBucket /\ Raised' = Raised
  BY <1>1, <1>2 DEF IMarks, Listing, Busy, Listed1, JobBucket, Raised
<1>4. Pending = {Head(refresh.unread)} \cup Pending'
  BY <1>1, <1>2, TablesLeft DEF Pending, TypeOK, Refresh
<1>5. \A b, e : Owed(b, e)' <=> Owed(b, e)
  BY <1>1 DEF Owed
<1>6. Reading'
  <2>1. ASSUME NEW e \in log, Owed(JobBucket, e), e.kind \notin Pending'
        PROVE  e \in refresh'.found \/ Raised
    <3>1. CASE e.kind = Head(refresh.unread)
      BY <1>2, <2>1, <3>1 DEF Owed
    <3>2. CASE e.kind \notin Pending
      BY <1>1, <1>2, <2>1, <3>2 DEF IMarks, Reading
    <3>3. QED
      BY <1>4, <2>1, <3>1, <3>2
  <2>2. refresh'.found \subseteq {e \in log : Reads(JobBucket, e)}
    BY <1>1, <1>2 DEF IMarks, Reading
  <2>3. JobBucket \in Bucket
    BY DEF TypeOK, Refresh, Listed, JobBucket
  <2>4. ASSUME NEW e \in snapshot[JobBucket].content, e.kind \notin Pending'
        PROVE  e \in refresh'.found
    <3>1. e \in log /\ Reads(JobBucket, e)
      BY <2>3 DEF IMarks, Contents
    <3>2. CASE e.kind = Head(refresh.unread)
      BY <1>2, <3>1, <3>2
    <3>3. CASE e.kind \notin Pending
      BY <1>1, <1>2, <3>3 DEF IMarks, Reading
    <3>4. QED
      BY <1>4, <2>4, <3>2, <3>3
  <2>5. QED
    BY <1>1, <1>3, <1>5, <2>1, <2>2, <2>4 DEF Reading
<1>7. Stored' /\ Contents' /\ CleanMeansComplete'
  BY <1>1, <1>2, <1>5 DEF IMarks, Stored, Contents, CleanMeansComplete
<1>8. QED
  BY <1>3, <1>6, <1>7 DEF IMarks

(* What StoreSnapshot leaves as the content is what the build found. *)
LEMMA BuiltIsStored ==
  ASSUME TypeOK, NEW w, StoreSnapshot(w)
  PROVE  /\ JobBucket \in Bucket /\ snapshot'[JobBucket].content = refresh.found
         /\ \A b \in Bucket \ {JobBucket} : snapshot'[b] = snapshot[b] /\ delivery'[b] = delivery[b]
         /\ \/ snapshot'[JobBucket] = snapshot[JobBucket] /\ delivery'[JobBucket] = delivery[JobBucket]
            \/ /\ snapshot'[JobBucket] = [version |-> snapshot[JobBucket].version + 1,
                                          content |-> refresh.found]
               /\ \A p \in Provider :
                    /\ delivery'[JobBucket][p].version = snapshot[JobBucket].version + 1
                    /\ delivery'[JobBucket][p].status \in {"pending", "disabled"}
<1>1. JobBucket \in Bucket /\ refresh.found \in SUBSET Events
  BY DEF TypeOK, Refresh, Listed, JobBucket
<1>2. snapshot \in Snapshots /\ delivery \in Deliveries
  BY DEF TypeOK, Snapshots, Deliveries
<1>3. /\ snapshot' = UpsertedSnapshot(snapshot, JobBucket, refresh.found)
      /\ delivery' = UpsertedRows(snapshot, delivery, JobBucket, refresh.found, worker[w].enabled)
  BY DEF StoreSnapshot, JobBucket
<1>4. QED
  BY <1>1, <1>2, <1>3, StoringKeeps

LEMMA StoreKeepsMarks ==
  ASSUME TypeOK, IMarks, NEW w, StoreSnapshot(w)
  PROVE  IMarks'
<1>1. /\ UNCHANGED <<log, mark, overtaken, boot>> /\ refresh.stage = "read" /\ refresh.unread = <<>>
      /\ refresh' = [refresh EXCEPT !.stage = "aggregate", !.found = {}]
  BY DEF StoreSnapshot, local
<1>2. /\ refresh'.stage = "aggregate" /\ refresh'.left = refresh.left /\ refresh'.job = refresh.job
  BY <1>1 DEF TypeOK, Refresh
<1>3. Listing' /\ JobBucket' = JobBucket /\ Raised' = Raised
  BY <1>1, <1>2 DEF IMarks, Listing, Busy, Listed1, JobBucket, Raised
<1>4. \A b, e : Owed(b, e)' <=> Owed(b, e)
  BY <1>1 DEF Owed
<1>5. Pending = {}
  BY <1>1, TablesLeft DEF Pending
<1>6. Reading'
  BY <1>2 DEF Reading
<1>7. Stored'
  BY <1>1, <1>3, <1>4, <1>5, BuiltIsStored DEF IMarks, Reading, Stored
<1>8. Contents'
  <2>1. SUFFICES ASSUME NEW b \in Bucket PROVE snapshot'[b].content \subseteq {e \in log : Reads(b, e)}
    BY <1>1 DEF Contents
  <2>2. CASE b = JobBucket
    BY <1>1, <2>2, BuiltIsStored DEF IMarks, Reading
  <2>3. CASE b # JobBucket
    BY <2>3, BuiltIsStored DEF IMarks, Contents
  <2>4. QED
    BY <2>2, <2>3
<1>9. CleanMeansComplete'
  <2>1. SUFFICES ASSUME NEW b \in Bucket, NEW e \in log, Owed(b, e)
                 PROVE  mark[b].dirty \/ e \in snapshot'[b].content
    BY <1>1, <1>4 DEF CleanMeansComplete
  <2>2. CASE b = JobBucket
    BY <1>1, <2>2 DEF IMarks, Listing, Busy, Listed1, JobBucket
  <2>3. CASE b # JobBucket
    BY <2>1, <2>3, BuiltIsStored DEF IMarks, CleanMeansComplete
  <2>4. QED
    BY <2>2, <2>3
<1>10. QED
  BY <1>3, <1>6, <1>7, <1>8, <1>9 DEF IMarks

(* The mark is cleared only if the stored snapshot has what was owed. *)
LEMMA AggregatedKeepsMarks ==
  ASSUME TypeOK, IMarks, NEW w, NEW stop \in BOOLEAN, MarkAggregated(w, stop)
  PROVE  IMarks'
<1>1. /\ UNCHANGED <<log, overtaken, boot, snapshot>> /\ refresh.stage = "aggregate"
      /\ mark' = [mark EXCEPT ![JobBucket] = Aggregated(@, refresh.job.source)]
      /\ refresh' = [Off EXCEPT !.stage = "list", !.left = IF stop THEN {} ELSE refresh.left]
  BY DEF MarkAggregated, queue, JobBucket
<1>2. refresh'.stage = "list" /\ refresh'.left \subseteq refresh.left
  BY <1>1 DEF Off
<1>3. JobBucket \in Bucket
  BY DEF TypeOK, Refresh, Listed, JobBucket
<1>4. \A b \in Bucket \ {JobBucket} : mark'[b] = mark[b]
  BY <1>1, <1>3 DEF TypeOK
<1>5. mark'[JobBucket].dirty <=> Raised
  BY <1>1, <1>3 DEF TypeOK, Aggregated, Raised
<1>6. Listing'
  <2>1. \A l \in refresh.left : Listed1(l) /\ l.bucket # JobBucket /\ l.bucket \in Bucket
    BY <1>1 DEF IMarks, Listing, Busy, TypeOK, Refresh, Listed
  <2>2. \A l \in refresh.left : Listed1(l)'
    BY <1>4, <2>1 DEF Listed1
  <2>3. QED
    BY <1>2, <2>2 DEF IMarks, Listing, Busy
<1>7. Reading' /\ Stored'
  BY <1>2 DEF Reading, Stored
<1>8. \A b, e : Owed(b, e)' <=> Owed(b, e)
  BY <1>1 DEF Owed
<1>9. Contents'
  BY <1>1 DEF IMarks, Contents
<1>10. CleanMeansComplete'
  <2>1. SUFFICES ASSUME NEW b \in Bucket, NEW e \in log, Owed(b, e)
                 PROVE  mark'[b].dirty \/ e \in snapshot[b].content
    BY <1>1, <1>8 DEF CleanMeansComplete
  <2>2. CASE b = JobBucket
    BY <1>1, <1>5, <2>1, <2>2 DEF IMarks, Stored
  <2>3. CASE b # JobBucket
    BY <1>4, <2>1, <2>3 DEF IMarks, CleanMeansComplete
  <2>4. QED
    BY <2>2, <2>3
<1>11. QED
  BY <1>6, <1>7, <1>9, <1>10 DEF IMarks

LEMMA StutterKeepsMarks ==
  ASSUME TypeOK, IMarks, UNCHANGED <<local, snapshot, refresh>>
  PROVE  IMarks'
BY DEF local, IMarks, Listing, Listed1, Busy, JobBucket, Reading, Stored, Contents,
   CleanMeansComplete, Owed, Raised, Pending

LEMMA BotKeepsMarks ==
  ASSUME TypeOK, IMarks, BotStep
  PROVE  IMarks'
<1>1. ASSUME NEW s \in Shapes, NEW ms \in 1..MaxMs, RecordMessage(s, ms) PROVE IMarks'
  <2>1. /\ At(s, ms) \in Events /\ At(s, ms).at # 0 /\ ms \in Nat
    BY EventTypes, BoundsAssumption
  <2>2. Record(At(s, ms), ms) /\ UNCHANGED <<boot, snapshot, refresh>>
    BY <1>1 DEF RecordMessage, queue
  <2>3. QED
    BY <2>1, <2>2, RecordKeepsMarks
<1>2. ASSUME NEW s \in Shapes, RecordGateway(s) PROVE IMarks'
  <2>1. clock \in 1..MaxMs /\ NextSourceSequence \in Nat
    BY BoundsAssumption DEF NextSourceSequence, TypeOK
  <2>2. At(s, clock) \in Events /\ At(s, clock).at # 0
    BY <2>1, EventTypes, BoundsAssumption
  <2>3. Record(At(s, clock), NextSourceSequence) /\ UNCHANGED <<boot, snapshot, refresh>>
    BY <1>2 DEF RecordGateway, queue
  <2>4. QED
    BY <2>1, <2>2, <2>3, RecordKeepsMarks
<1>3. ASSUME UNCHANGED <<local, snapshot, refresh>> PROVE IMarks'
  BY <1>3, StutterKeepsMarks
<1>4. QED
  BY <1>1, <1>2, <1>3 DEF BotStep, RestartBot, Tick, queue

LEMMA WorkerKeepsMarks ==
  ASSUME TypeOK, IMarks, NEW w \in WorkerId, WorkerStep(w)
  PROVE  IMarks'
<1>1. CASE RefreshStep(w)
  <2>1. ASSUME NEW due \in SUBSET Bucket, ListDue(w, due) PROVE IMarks'
    <3>1. UNCHANGED <<log, mark, overtaken, boot, snapshot>>
      BY <2>1 DEF ListDue, local, queue
    <3>2. refresh'.stage = "list" /\ refresh'.left = {[bucket |-> b, source |-> mark[b].source] : b \in due}
      BY <2>1 DEF ListDue, Off
    <3>3. \A b \in due : Listed1([bucket |-> b, source |-> mark[b].source])
      BY <2>1 DEF ListDue, Listed1, TypeOK
    <3>4. QED
      BY <3>1, <3>2, <3>3, ListKeepsMarks
  <2>2. ASSUME RefreshThrows(w) \/ EndRefresh(w) PROVE IMarks'
    <3>1. refresh' = Off /\ UNCHANGED <<log, mark, overtaken, boot, snapshot>>
      BY <2>2 DEF RefreshThrows, EndRefresh, local, queue
    <3>2. QED
      BY <3>1, OffIsRefresh, ListKeepsMarks
  <2>3. QED
    BY <1>1, <2>1, <2>2, BootstrapKeepsMarks, StartBuildKeepsMarks, ReadTableKeepsMarks,
       StoreKeepsMarks, AggregatedKeepsMarks DEF RefreshStep
<1>2. CASE CrashWorker(w)
  <2>1. refresh' = Off /\ UNCHANGED <<log, mark, overtaken, boot, snapshot>>
    BY <1>2 DEF CrashWorker, local, queue
  <2>2. QED
    BY <2>1, OffIsRefresh, ListKeepsMarks
<1>3. CASE \/ \E enabled \in Policies, expired \in SUBSET Bucket : StartWorker(w, enabled, expired)
           \/ \E p \in Provider, expired \in SUBSET Bucket :
                \/ \E batch \in SUBSET Bucket : Claim(w, p, expired, batch)
                \/ SkipProvider(w, p, expired)
           \/ \E p \in Provider, probe \in BOOLEAN : ClaimThrows(w, p, probe)
           \/ RoundRejected(w) \/ StopWorker(w)
  <2>1. UNCHANGED <<local, snapshot, refresh>>
    BY <1>3 DEF StartWorker, Claim, SkipProvider, ClaimThrows, RoundRejected, StopWorker, queue
  <2>2. QED
    BY <2>1, StutterKeepsMarks
<1>4. QED
  BY <1>1, <1>2, <1>3 DEF WorkerStep

LEMMA PushKeepsMarks ==
  ASSUME TypeOK, IMarks, NEW x \in pushes, PushStep(x)
  PROVE  IMarks'
<1>1. UNCHANGED <<local, snapshot, refresh>>
  BY DEF PushStep, ProviderRuns, PushSucceeds, PushFails, SettlingThrows, RequestLost, queue
<1>2. QED
  BY <1>1, StutterKeepsMarks
-----------------------------------------------------------------------------
(* The copies *)

LEMMA CopyTypes ==
  ASSUME TypeOK, NEW b \in Bucket
  PROVE  /\ Copies(b) \subseteq [version : Nat, content : SUBSET Events]
         /\ snapshot[b] \in Copies(b) /\ \A p \in Provider : cloud[p][b] \in Copies(b)
         /\ \A i \in Items : i.bucket = b => Copy(i) \in Copies(b)
<1>1. Items \subseteq Item
  BY DEF Items, TypeOK, Push
<1>2. \A i \in Item : Copy(i) \in [version : Nat, content : SUBSET Events]
  BY DEF Item, Copy
<1>3. snapshot[b] \in [version : Nat, content : SUBSET Events]
      /\ \A p \in Provider : cloud[p][b] \in [version : Nat, content : SUBSET Events]
  BY DEF TypeOK
<1>4. QED
  BY <1>1, <1>2, <1>3 DEF Copies

(* Equal versions are equal copies. *)
LEMMA SameVersion ==
  ASSUME TypeOK, Chain, NEW b \in Bucket, NEW c \in Copies(b), NEW d \in Copies(b), c.version = d.version
  PROVE  c = d
<1>1. c \in [version : Nat, content : SUBSET Events] /\ d \in [version : Nat, content : SUBSET Events]
  BY CopyTypes
<1>2. c.content = d.content
  <2>1. c.version <= d.version /\ d.version <= c.version
    BY <1>1
  <2>2. c.content \subseteq d.content /\ d.content \subseteq c.content
    BY <2>1 DEF Chain
  <2>3. QED
    BY <2>2
<1>3. QED
  BY <1>1, <1>2

LEMMA FewerCopies ==
  ASSUME ICopies, UNCHANGED snapshot, \A b \in Bucket : Copies(b)' \subseteq Copies(b)
  PROVE  Chain' /\ Newest'
BY DEF ICopies, Chain, Newest

LEMMA FewerPushes ==
  ASSUME ICopies, UNCHANGED <<snapshot, cloud>>, Items' \subseteq Items
  PROVE  Chain' /\ Newest'
<1>1. \A b \in Bucket : Copies(b)' \subseteq Copies(b)
  BY DEF Copies, Copy
<1>2. QED
  BY <1>1, FewerCopies

LEMMA KeptRowsKeepCopies ==
  ASSUME TypeOK, ICopies, UNCHANGED <<snapshot, cloud>>, KeptRows(delivery, delivery')
  PROVE  RowVersions' /\ SyncedMeansCurrentInCloud'
BY DEF ICopies, KeptRows, KeptRow, RowVersions, SyncedMeansCurrentInCloud

LEMMA StutterKeepsCopies ==
  ASSUME ICopies, UNCHANGED <<queue, remote>>
  PROVE  ICopies'
BY DEF queue, remote, ICopies, Chain, Newest, Copies, Copy, Items, RowVersions, PushOK, SyncedMeansCurrentInCloud

(* Statements on rows that are not about acknowledgements *)
LEMMA RowsKeepCopies ==
  ASSUME TypeOK, ICopies, UNCHANGED <<snapshot, remote>>, KeptRows(delivery, delivery')
  PROVE  ICopies'
<1>1. Chain' /\ Newest'
  BY FewerPushes DEF remote, Items
<1>2. RowVersions' /\ SyncedMeansCurrentInCloud'
  BY KeptRowsKeepCopies DEF remote
<1>3. \A x \in pushes' : PushOK(x)'
  BY DEF remote, ICopies, PushOK
<1>4. QED
  BY <1>1, <1>2, <1>3 DEF ICopies

LEMMA PolicyKeepsCopies ==
  ASSUME TypeOK, ICopies, NEW enabled, NEW rows \in Deliveries, rows = AppliedSnapshotPolicy(snapshot, delivery, enabled),
         delivery' = rows \/ KeptRows(rows, delivery'), UNCHANGED <<snapshot, remote>>
  PROVE  ICopies'
<1>1. \A b \in Bucket, p \in Provider :
         \/ KeptRow(delivery[b][p], rows[b][p])
         \/ rows[b][p].version = snapshot[b].version /\ rows[b][p].status # "synced"
  <2>1. delivery \in Deliveries /\ snapshot \in Snapshots
    BY DEF TypeOK, Deliveries, Snapshots
  <2>2. QED
    BY <2>1, PolicyKeeps
<1>2. ASSUME NEW b \in Bucket, NEW p \in Provider
      PROVE  /\ rows[b][p].status # "missing" => rows[b][p].version = snapshot[b].version
             /\ rows[b][p].status = "synced" => cloud[p][b] = snapshot[b]
  BY <1>1 DEF KeptRow, ICopies, RowVersions, SyncedMeansCurrentInCloud
<1>3. RowVersions' /\ SyncedMeansCurrentInCloud'
  BY <1>2 DEF KeptRows, KeptRow, RowVersions, SyncedMeansCurrentInCloud, remote
<1>4. Chain' /\ Newest'
  BY FewerPushes DEF remote, Items
<1>5. \A x \in pushes' : PushOK(x)'
  BY DEF remote, ICopies, PushOK
<1>6. QED
  BY <1>3, <1>4, <1>5 DEF ICopies

(* A claim sends copies of what is stored. *)
LEMMA ClaimKeepsCopies ==
  ASSUME TypeOK, ICopies, NEW w \in WorkerId, NEW p \in Provider, NEW expired, NEW batch \in SUBSET Bucket,
         Claim(w, p, expired, batch)
  PROVE  ICopies'
<1> DEFINE released == ReleasedExpiredSnapshots(delivery, {p}, expired)
           claimed == ClaimedSnapshots(released, p, w, batch)
           items == ClaimedItems(p, claimed, batch)
           new == [worker |-> w, provider |-> p, awaited |-> TRUE, items |-> items, answer |-> "none"]
<1>1. /\ UNCHANGED <<snapshot, cloud>> /\ delivery' = claimed /\ pushes' = pushes \cup {new}
      /\ batch \subseteq ClaimableSnapshots(released, p)
  BY DEF Claim, Found
<1>2. KeptRows(delivery, claimed)
  <2>1. released \in Deliveries /\ KeptRows(delivery, released)
    BY ReleaseKeeps DEF TypeOK, Deliveries
  <2> HIDE DEF released
  <2>2. KeptRows(released, claimed)
    BY <1>1, <2>1, ClaimKeeps
  <2> HIDE DEF claimed
  <2>3. QED
    BY <2>1, <2>2 DEF KeptRows, KeptRow
<1>3. /\ items \in SUBSET Item /\ \A i \in items : Copy(i) = snapshot[i.bucket]
      /\ \A i, j \in items : i.bucket = j.bucket => i = j
  BY ClaimedItemTypes
<1> HIDE DEF released, claimed, items
<1>4. RowVersions' /\ SyncedMeansCurrentInCloud'
  BY <1>1, <1>2, KeptRowsKeepCopies
<1>5. new.items = items /\ new.answer = "none"
  OBVIOUS
<1> HIDE DEF new
<1>6. Items' = Items \cup items
  BY <1>1, <1>5 DEF Items
<1>7. \A b \in Bucket : Copies(b)' \subseteq Copies(b)
  BY <1>1, <1>3, <1>6 DEF Copies, Copy
<1>8. Chain' /\ Newest'
  BY <1>1, <1>7, FewerCopies
<1>9. \A x \in pushes' : PushOK(x)'
  <2>1. \A x \in pushes : PushOK(x)'
    <3>1. cloud' = cloud /\ \A x \in pushes : PushOK(x)
      BY <1>1 DEF ICopies
    <3>2. QED
      BY <3>1 DEF PushOK
  <2>2. \A x \in {new} : PushOK(x)'
    BY <1>3, <1>5 DEF PushOK
  <2>3. QED
    BY <1>1, <2>1, <2>2
<1>10. QED
  BY <1>4, <1>8, <1>9 DEF ICopies

LEMMA RejectKeepsCopies ==
  ASSUME TypeOK, ICopies, NEW w,
         RoundRejected(w) \/ \E p, probe : ClaimThrows(w, p, probe)
  PROVE  ICopies'
<1> DEFINE Left(x) == IF x.worker = w THEN [x EXCEPT !.awaited = FALSE] ELSE x
<1>1. UNCHANGED <<snapshot, cloud, delivery>> /\ pushes' = {Left(x) : x \in pushes}
  BY DEF RoundRejected, ClaimThrows, Unattended, queue
<1>2. \A x \in pushes : Left(x).items = x.items /\ Left(x).answer = x.answer /\ Left(x).provider = x.provider
  BY DEF TypeOK, Push
<1> HIDE DEF Left
<1>3. Items' = Items
  BY <1>1, <1>2 DEF Items
<1>4. Chain' /\ Newest'
  BY <1>1, <1>3, FewerPushes
<1>5. \A x \in pushes' : PushOK(x)'
  BY <1>1, <1>2 DEF ICopies, PushOK
<1>6. RowVersions' /\ SyncedMeansCurrentInCloud'
  BY <1>1 DEF ICopies, RowVersions, SyncedMeansCurrentInCloud
<1>7. QED
  BY <1>4, <1>5, <1>6 DEF ICopies

(* The new version has what every older one had. *)
LEMMA StoreKeepsCopies ==
  ASSUME TypeOK, IMarks, ICopies, NEW w, StoreSnapshot(w)
  PROVE  ICopies'
<1>1. UNCHANGED <<cloud, pushes>> /\ refresh.stage = "read" /\ Pending = {}
  BY TablesLeft DEF StoreSnapshot, remote, Pending
<1>2. \A b \in Bucket \ {JobBucket} : Copies(b)' = Copies(b) /\ snapshot'[b] = snapshot[b]
  BY <1>1, BuiltIsStored DEF Copies, Copy, Items
<1>3. Copies(JobBucket)' \subseteq Copies(JobBucket) \cup {snapshot'[JobBucket]} /\ JobBucket' = JobBucket
  <2>1. JobBucket' = JobBucket
    BY DEF StoreSnapshot, JobBucket, TypeOK, Refresh
  <2>2. QED
    BY <1>1, <2>1 DEF Copies, Copy, Items
<1>4. JobBucket \in Bucket
  BY BuiltIsStored
<1>5. Copies(JobBucket) \subseteq [version : Nat, content : SUBSET Events]
      /\ snapshot[JobBucket] \in Copies(JobBucket)
  BY <1>4, CopyTypes
<1>6. \A c \in Copies(JobBucket) :
        c.version <= snapshot'[JobBucket].version /\ c.content \subseteq snapshot'[JobBucket].content
  <2>1. SUFFICES ASSUME NEW c \in Copies(JobBucket)
                 PROVE  /\ c.version <= snapshot'[JobBucket].version
                        /\ c.content \subseteq snapshot'[JobBucket].content
    OBVIOUS
  <2>2. c.version <= snapshot[JobBucket].version /\ c.content \subseteq snapshot[JobBucket].content
    BY <1>4, <1>5 DEF ICopies, Chain, Newest
  <2>3. snapshot[JobBucket].content \subseteq snapshot'[JobBucket].content
    BY <1>1, BuiltIsStored DEF IMarks, Reading
  <2>4. snapshot[JobBucket].version <= snapshot'[JobBucket].version
        /\ snapshot[JobBucket].version \in Nat /\ snapshot'[JobBucket].version \in Nat
    BY <1>5, BuiltIsStored
  <2>5. QED
    BY <1>5, <2>2, <2>3, <2>4
<1>7. \/ snapshot'[JobBucket] = snapshot[JobBucket]
      \/ \A c \in Copies(JobBucket) : ~(snapshot'[JobBucket].version <= c.version)
  BY <1>4, <1>5, BuiltIsStored DEF ICopies, Newest
<1>8. Chain'
  <2>1. SUFFICES ASSUME NEW b \in Bucket, NEW c \in Copies(b)', NEW d \in Copies(b)', c.version <= d.version
                 PROVE  c.content \subseteq d.content
    BY DEF Chain
  <2>2. CASE b # JobBucket
    BY <1>2, <2>1, <2>2 DEF ICopies, Chain
  <2>3. CASE b = JobBucket
    BY <1>3, <1>4, <1>5, <1>6, <1>7, <2>1, <2>3 DEF ICopies, Chain
  <2>4. QED
    BY <2>2, <2>3
<1>9. Newest'
  <2>1. SUFFICES ASSUME NEW b \in Bucket, NEW c \in Copies(b)' PROVE c.version <= snapshot'[b].version
    BY DEF Newest
  <2>2. CASE b # JobBucket
    BY <1>2, <2>1, <2>2 DEF ICopies, Newest
  <2>3. CASE b = JobBucket
    <3>1. snapshot'[JobBucket].version <= snapshot'[JobBucket].version
      BY <1>5, BuiltIsStored
    <3>2. QED
      BY <1>3, <1>6, <2>1, <2>3, <3>1
  <2>4. QED
    BY <2>2, <2>3
<1>10. RowVersions' /\ SyncedMeansCurrentInCloud'
  <2>1. SUFFICES ASSUME NEW b \in Bucket, NEW p \in Provider
                 PROVE  /\ delivery'[b][p].status # "missing" => delivery'[b][p].version = snapshot'[b].version
                        /\ delivery'[b][p].status = "synced" => cloud[p][b] = snapshot'[b]
    BY <1>1 DEF RowVersions, SyncedMeansCurrentInCloud
  <2>2. CASE delivery'[b] = delivery[b] /\ snapshot'[b] = snapshot[b]
    BY <2>2 DEF ICopies, RowVersions, SyncedMeansCurrentInCloud
  <2>3. CASE b = JobBucket /\ /\ snapshot'[b].version = snapshot[b].version + 1
                              /\ delivery'[b][p].version = snapshot[b].version + 1
                              /\ delivery'[b][p].status \in {"pending", "disabled"}
    BY <2>3
  <2>4. QED
    BY <2>2, <2>3, BuiltIsStored
<1>11. \A x \in pushes' : PushOK(x)'
  BY <1>1 DEF ICopies, PushOK
<1>12. QED
  BY <1>8, <1>9, <1>10, <1>11 DEF ICopies

(* A provider replaces what it has by a newer copy. *)
LEMMA ProviderRunsUpgrades ==
  ASSUME TypeOK, ICopies, NEW x \in pushes, ProviderRuns(x)
  PROVE  /\ \A p \in Provider, b \in Bucket :
              \/ cloud'[p][b] = cloud[p][b]
              \/ /\ cloud'[p][b] \in Copies(b) /\ cloud'[p][b].version > cloud[p][b].version
                 /\ cloud[p][b].content \subseteq cloud'[p][b].content
         /\ \A i \in x.items : i.version <= cloud'[x.provider][i.bucket].version
<1> DEFINE stored == ProviderUpsert(cloud[x.provider], x.items)
<1>1. x.provider \in Provider /\ x.items \in SUBSET Item /\ cloud[x.provider] \in Snapshots
  BY DEF TypeOK, Push, Snapshots
<1>2. cloud' = [cloud EXCEPT ![x.provider] = stored]
  BY DEF ProviderRuns
<1>3. /\ \A b \in Bucket :
           \/ stored[b] = cloud[x.provider][b]
           \/ \E i \in x.items : /\ i.bucket = b /\ i.version > cloud[x.provider][b].version
                                 /\ stored[b] = Copy(i)
      /\ \A i \in x.items : i.version <= stored[i.bucket].version
  BY <1>1, ProviderKeeps DEF ICopies, PushOK
<1> HIDE DEF stored
<1>4. cloud'[x.provider] = stored /\ \A p \in Provider \ {x.provider} : cloud'[p] = cloud[p]
  BY <1>1, <1>2 DEF TypeOK
<1>5. ASSUME NEW b \in Bucket, NEW i \in x.items, i.bucket = b, i.version > cloud[x.provider][b].version
      PROVE  /\ Copy(i) \in Copies(b) /\ Copy(i).version > cloud[x.provider][b].version
             /\ cloud[x.provider][b].content \subseteq Copy(i).content
  <2>1. Copy(i) \in Copies(b) /\ cloud[x.provider][b] \in Copies(b)
    BY <1>1, <1>5, CopyTypes DEF Items
  <2>2. Copy(i).version = i.version
    BY DEF Copy
  <2>3. i.version \in Nat /\ cloud[x.provider][b].version \in Nat
    BY <1>1 DEF Item, Snapshots
  <2>4. cloud[x.provider][b].version <= Copy(i).version
    BY <1>5, <2>2, <2>3
  <2>5. QED
    BY <1>5, <2>1, <2>2, <2>4 DEF ICopies, Chain
<1>6. QED
  BY <1>3, <1>4, <1>5

LEMMA ProviderRunsKeepsCopies ==
  ASSUME TypeOK, ICopies, NEW x \in pushes, ProviderRuns(x)
  PROVE  ICopies'
<1> DEFINE stored == ProviderUpsert(cloud[x.provider], x.items)
           new == [x EXCEPT !.answer = IF Conflicts(stored, x.items) THEN "conflict" ELSE "stored"]
<1>1. UNCHANGED queue /\ pushes' = (pushes \ {x}) \cup {new}
  BY DEF ProviderRuns
<1>2. x \in Push /\ new.items = x.items /\ new.provider = x.provider
  BY DEF TypeOK, Push
<1> HIDE DEF new
<1>3. Items' = Items
  BY <1>1, <1>2 DEF Items
<1>4. \A b \in Bucket : Copies(b)' \subseteq Copies(b)
  BY <1>1, <1>3, ProviderRunsUpgrades DEF Copies, Copy, queue
<1>5. Chain' /\ Newest'
  BY <1>1, <1>4, FewerCopies DEF queue
<1>6. RowVersions'
  BY <1>1 DEF queue, ICopies, RowVersions
<1>7. \A y \in pushes' : PushOK(y)'
  <2>1. \A p \in Provider, b \in Bucket : cloud'[p][b].version >= cloud[p][b].version
    <3>1. SUFFICES ASSUME NEW p \in Provider, NEW b \in Bucket
                   PROVE  cloud'[p][b].version >= cloud[p][b].version
      OBVIOUS
    <3>2. cloud[p][b].version \in Nat /\ \A c \in Copies(b) : c.version \in Nat
      BY CopyTypes DEF TypeOK
    <3>3. QED
      BY <3>2, ProviderRunsUpgrades
  <2>2. ASSUME NEW y \in pushes PROVE PushOK(y)'
    <3>1. PushOK(y)
      BY DEF ICopies
    <3>2. y.provider \in Provider /\ y.items \subseteq Item
      BY DEF TypeOK, Push
    <3>3. ASSUME NEW i \in y.items, i.version <= cloud[y.provider][i.bucket].version
          PROVE  i.version <= cloud'[y.provider][i.bucket].version
      <4>1. i.bucket \in Bucket /\ i.version \in Nat
        BY <3>2 DEF Item
      <4>2. /\ cloud[y.provider][i.bucket].version \in Nat
            /\ cloud'[y.provider][i.bucket].version >= cloud[y.provider][i.bucket].version
        BY <2>1, <3>2, <4>1 DEF TypeOK
      <4>3. cloud'[y.provider][i.bucket].version \in Nat
        <5>1. cloud[y.provider][i.bucket].version \in Nat
              /\ \A c \in Copies(i.bucket) : c.version \in Nat
          BY <4>1, <4>2, CopyTypes
        <5>2. QED
          BY <3>2, <4>1, <5>1, ProviderRunsUpgrades
      <4>4. QED
        BY <3>3, <4>1, <4>2, <4>3
    <3>4. QED
      BY <3>1, <3>3 DEF PushOK
  <2>3. \A y \in {new} : PushOK(y)'
    <3>1. \A i, j \in x.items : i.bucket = j.bucket => i = j
      BY DEF ICopies, PushOK
    <3>2. \A i \in x.items : i.version <= cloud'[x.provider][i.bucket].version
      BY ProviderRunsUpgrades
    <3>3. QED
      BY <1>2, <3>1, <3>2 DEF PushOK
  <2>4. QED
    BY <1>1, <2>2, <2>3
<1>8. SyncedMeansCurrentInCloud'
  <2>1. SUFFICES ASSUME NEW b \in Bucket, NEW p \in Provider, delivery[b][p].status = "synced"
                 PROVE  cloud'[p][b] = snapshot[b]
    BY <1>1 DEF SyncedMeansCurrentInCloud, queue
  <2>2. cloud[p][b] = snapshot[b]
    BY <2>1 DEF ICopies, SyncedMeansCurrentInCloud
  <2>3. \A c \in Copies(b) : c.version \in Nat /\ c.version <= snapshot[b].version
    BY CopyTypes DEF ICopies, Newest
  <2>4. snapshot[b].version \in Nat
    BY CopyTypes, <2>3
  <2>5. QED
    BY <2>2, <2>3, <2>4, ProviderRunsUpgrades
<1>9. QED
  BY <1>5, <1>6, <1>7, <1>8 DEF ICopies

(* A row is acknowledged for a version its provider has. *)
LEMMA SuccessKeepsCopies ==
  ASSUME TypeOK, ICopies, NEW x \in pushes, PushSucceeds(x)
  PROVE  ICopies'
<1>1. /\ UNCHANGED <<snapshot, cloud>> /\ pushes' = pushes \ {x} /\ x.answer = "stored"
      /\ delivery' = MarkedSynced(delivery, x.provider, x.worker, x.items)
  BY DEF PushSucceeds
<1>2. x.provider \in Provider /\ x.items \subseteq Item
  BY DEF TypeOK, Push
<1>3. \A b \in Bucket, q \in Provider :
        \/ delivery'[b][q] = delivery[b][q]
        \/ /\ q = x.provider /\ delivery[b][q].status = "processing"
           /\ delivery'[b][q].status = "synced" /\ delivery'[b][q].version = delivery[b][q].version
           /\ \E i \in x.items : i.bucket = b /\ i.version = delivery[b][q].version
  <2>1. delivery \in Deliveries
    BY DEF TypeOK, Deliveries
  <2>2. QED
    BY <1>1, <1>2, <2>1, SuccessKeeps
<1>4. Chain' /\ Newest'
  BY <1>1, FewerPushes DEF Items
<1>5. RowVersions'
  BY <1>1, <1>3 DEF ICopies, RowVersions
<1>6. \A y \in pushes' : PushOK(y)'
  BY <1>1 DEF ICopies, PushOK
<1>7. SyncedMeansCurrentInCloud'
  <2>1. SUFFICES ASSUME NEW b \in Bucket, NEW q \in Provider, delivery'[b][q].status = "synced"
                 PROVE  cloud[q][b] = snapshot[b]
    BY <1>1 DEF SyncedMeansCurrentInCloud
  <2>2. CASE delivery'[b][q] = delivery[b][q]
    BY <2>1, <2>2 DEF ICopies, SyncedMeansCurrentInCloud
  <2>3. CASE \E i \in x.items : /\ q = x.provider /\ delivery[b][q].status = "processing"
                                /\ i.bucket = b /\ i.version = delivery[b][q].version
    <3>1. PICK i \in x.items : /\ q = x.provider /\ delivery[b][q].status = "processing"
                               /\ i.bucket = b /\ i.version = delivery[b][q].version
      BY <2>3
    <3>2. i.version = snapshot[b].version
      BY <3>1 DEF ICopies, RowVersions
    <3>3. i.version <= cloud[q][b].version
      BY <1>1, <3>1 DEF ICopies, PushOK
    <3>4. cloud[q][b] \in Copies(b) /\ snapshot[b] \in Copies(b)
      BY CopyTypes
    <3>5. cloud[q][b].version <= snapshot[b].version
      BY <3>4 DEF ICopies, Newest
    <3>6. cloud[q][b].version = snapshot[b].version
      <4>1. cloud[q][b].version \in Nat /\ snapshot[b].version \in Nat
        BY DEF TypeOK
      <4>2. QED
        BY <3>2, <3>3, <3>5, <4>1
    <3>7. QED
      BY <3>4, <3>6, SameVersion DEF ICopies
  <2>4. QED
    BY <1>3, <2>2, <2>3
<1>8. QED
  BY <1>4, <1>5, <1>6, <1>7 DEF ICopies

LEMMA PushKeepsCopies ==
  ASSUME TypeOK, ICopies, NEW x \in pushes, PushStep(x)
  PROVE  ICopies'
<1>1. ASSUME UNCHANGED <<snapshot, cloud>>, pushes' = pushes \ {x},
             KeptRows(delivery, delivery')
      PROVE  ICopies'
  <2>1. Chain' /\ Newest'
    BY <1>1, FewerPushes DEF Items
  <2>2. RowVersions' /\ SyncedMeansCurrentInCloud'
    BY <1>1, KeptRowsKeepCopies
  <2>3. \A y \in pushes' : PushOK(y)'
    BY <1>1 DEF ICopies, PushOK
  <2>4. QED
    BY <2>1, <2>2, <2>3 DEF ICopies
<1>2. /\ x.provider \in Provider /\ delivery \in Deliveries
  BY DEF TypeOK, Push, Deliveries
<1>3. ASSUME NEW permanent, PushFails(x, permanent) PROVE ICopies'
  <2>1. KeptRows(delivery, delivery')
    BY <1>2, <1>3, FailureKeeps DEF PushFails
  <2>2. UNCHANGED <<snapshot, cloud>> /\ pushes' = pushes \ {x}
    BY <1>3 DEF PushFails
  <2>3. QED
    BY <1>1, <2>1, <2>2
<1>4. ASSUME NEW noted, NEW probe, SettlingThrows(x, noted, probe) PROVE ICopies'
  <2>1. KeptRows(delivery, delivery')
    BY <1>2, <1>4, FailureKeeps DEF SettlingThrows
  <2>2. UNCHANGED <<snapshot, cloud>> /\ pushes' = pushes \ {x}
    BY <1>4 DEF SettlingThrows
  <2>3. QED
    BY <1>1, <2>1, <2>2
<1>5. CASE RequestLost(x)
  <2>1. UNCHANGED <<snapshot, cloud, delivery>> /\ pushes' = pushes \ {x}
    BY <1>5 DEF RequestLost, queue
  <2>2. KeptRows(delivery, delivery')
    BY <1>2, <2>1, RowTypes DEF KeptRows, Deliveries
  <2>3. QED
    BY <1>1, <2>1, <2>2
<1>6. QED
  BY <1>3, <1>4, <1>5, ProviderRunsKeepsCopies, SuccessKeepsCopies DEF PushStep

LEMMA WorkerKeepsCopies ==
  ASSUME TypeOK, IMarks, ICopies, NEW w \in WorkerId, WorkerStep(w)
  PROVE  ICopies'
<1>1. delivery \in Deliveries /\ snapshot \in Snapshots
  BY DEF TypeOK, Deliveries, Snapshots
<1>2. ASSUME NEW enabled, NEW expired, StartWorker(w, enabled, expired) PROVE ICopies'
  <2> DEFINE rows == AppliedSnapshotPolicy(snapshot, delivery, enabled)
  <2>1. UNCHANGED <<snapshot, remote>> /\ delivery' = ReleasedExpiredSnapshots(rows, enabled, expired)
    BY <1>2 DEF StartWorker
  <2>2. rows \in Deliveries
    BY <1>1, PolicyKeeps
  <2>3. KeptRows(rows, delivery')
    BY <2>1, <2>2, ReleaseKeeps
  <2>4. QED
    BY <2>1, <2>2, <2>3, PolicyKeepsCopies
<1>3. ASSUME NEW p, NEW expired, SkipProvider(w, p, expired) PROVE ICopies'
  BY <1>1, <1>3, ReleaseKeeps, RowsKeepCopies DEF SkipProvider
<1>4. CASE StopWorker(w)
  BY <1>1, <1>4, ReleaseKeeps, RowsKeepCopies DEF StopWorker
<1>5. CASE RefreshStep(w)
  <2>1. \/ StoreSnapshot(w)
        \/ UNCHANGED <<queue, remote>>
    BY <1>5 DEF RefreshStep, Bootstrap, ListDue, StartBuild, ReadTable, MarkAggregated,
       RefreshThrows, EndRefresh
  <2>2. QED
    BY <2>1, StoreKeepsCopies, StutterKeepsCopies
<1>6. CASE CrashWorker(w)
  BY <1>6, StutterKeepsCopies DEF CrashWorker
<1>7. QED
  BY <1>2, <1>3, <1>4, <1>5, <1>6, ClaimKeepsCopies, RejectKeepsCopies DEF WorkerStep

LEMMA BotKeepsCopies ==
  ASSUME TypeOK, ICopies, BotStep \/ OperatorStep
  PROVE  ICopies'
<1>1. ASSUME NEW enabled, RestartBot(enabled) PROVE ICopies'
  <2> DEFINE rows == AppliedSnapshotPolicy(snapshot, delivery, enabled)
  <2>1. UNCHANGED <<snapshot, remote>> /\ delivery' = rows
    BY <1>1 DEF RestartBot
  <2>2. rows \in Deliveries
    BY PolicyKeeps DEF TypeOK, Deliveries, Snapshots
  <2>3. QED
    BY <2>1, <2>2, PolicyKeepsCopies
<1>2. ASSUME UNCHANGED <<queue, remote>> PROVE ICopies'
  BY <1>2, StutterKeepsCopies
<1>3. QED
  BY <1>1, <1>2 DEF BotStep, OperatorStep, RecordMessage, RecordGateway, Tick, Backfill
-----------------------------------------------------------------------------
(* Theorems *)

LEMMA InitInvariant == Init => IInv
<1> SUFFICES ASSUME Init PROVE IInv
  OBVIOUS
<1>1. \A s \in Shapes : At(s, 0) \in Events /\ Old(At(s, 0))
  BY EventTypes, BoundsAssumption DEF Old
<1>2. TypeOK
  <2>1. clock \in 1..MaxMs
    BY BoundsAssumption DEF Init
  <2>2. log \subseteq Events
    BY <1>1 DEF Init
  <2>3. delivery \in [Bucket -> [Provider -> SnapshotRow]]
    <3>1. NoSnapshotRow \in SnapshotRow
      BY RowTypes DEF NoSnapshotRow, SnapshotStatus
    <3>2. QED
      BY <3>1 DEF Init
  <2>4. refresh \in Refresh
    BY OffIsRefresh DEF Init
  <2>5. QED
    BY <2>1, <2>2, <2>3, <2>4 DEF Init, TypeOK, Unmarked, NoSnapshot, WorkerState
<1>3. IMarks
  <2>1. Listing /\ Reading /\ Stored
    BY OffIsRefresh DEF Init, Listing, Reading, Stored, Busy
  <2>2. Contents
    BY DEF Init, Contents, NoSnapshot
  <2>3. CleanMeansComplete
    BY <1>1 DEF Init, CleanMeansComplete, Owed
  <2>4. QED
    BY <2>1, <2>2, <2>3 DEF IMarks
<1>4. ICopies
  <2>1. \A b \in Bucket : \A c \in Copies(b) : c = NoSnapshot
    BY DEF Init, Copies, Items
  <2>2. Chain /\ Newest
    BY <2>1 DEF Chain, Newest, Init, NoSnapshot
  <2>3. RowVersions /\ SyncedMeansCurrentInCloud /\ \A x \in pushes : PushOK(x)
    BY DEF Init, RowVersions, SyncedMeansCurrentInCloud, NoSnapshotRow, NewSnapshotRow
  <2>4. QED
    BY <2>2, <2>3 DEF ICopies
<1>5. QED
  BY <1>2, <1>3, <1>4 DEF IInv

LEMMA StepInvariant == IInv /\ [Next]_vars => IInv'
<1> SUFFICES ASSUME IInv, [Next]_vars PROVE IInv'
  OBVIOUS
<1>1. TypeOK /\ IMarks /\ ICopies
  BY DEF IInv
<1>2. CASE BotStep
  BY <1>1, <1>2, BotTypes, BotKeepsMarks, BotKeepsCopies DEF IInv
<1>3. CASE OperatorStep
  BY <1>1, <1>3, OperatorTypes, BackfillKeepsMarks, BotKeepsCopies DEF IInv
<1>4. ASSUME NEW w \in WorkerId, WorkerStep(w) PROVE IInv'
  BY <1>1, <1>4, WorkerTypes, WorkerKeepsMarks, WorkerKeepsCopies DEF IInv
<1>5. ASSUME NEW x \in pushes, PushStep(x) PROVE IInv'
  <2>1. PushOK(x)
    BY <1>1 DEF ICopies
  <2>2. QED
    BY <1>1, <1>5, <2>1, PushTypes, PushKeepsMarks, PushKeepsCopies DEF IInv
<1>6. CASE UNCHANGED vars
  <2>1. TypeOK'
    BY <1>1, <1>6 DEF TypeOK, vars, local, queue, remote
  <2>2. IMarks' /\ ICopies'
    BY <1>1, <1>6, StutterKeepsMarks, StutterKeepsCopies DEF vars, queue
  <2>3. QED
    BY <2>1, <2>2 DEF IInv
<1>7. QED
  BY <1>2, <1>3, <1>4, <1>5, <1>6 DEF Next

(* The inductive invariant: the marks lose nothing, and the copies are ordered. *)
THEOREM Invariance == Spec => []IInv
BY InitInvariant, StepInvariant, PTL DEF Spec

(* The variables have their types: rows are locked exactly while they are
   processed, a job is for a bucket, what is unread is a rest of the tables. *)
THEOREM TypeCorrect == Spec => []TypeOK
<1>1. IInv => TypeOK
  BY DEF IInv
<1>2. QED
  BY <1>1, Invariance, PTL

(* No mark is lost to a rebuild that did not see its event (markAggregated
   against recordings, reads, failures and crashes in between). *)
THEOREM CleanBucketsAreComplete == Spec => []CleanMeansComplete
<1>1. IInv => CleanMeansComplete
  BY DEF IInv, IMarks
<1>2. QED
  BY <1>1, Invariance, PTL

(* No answer of an older or repeated push confirms a newer snapshot
   (markSynced). *)
THEOREM SyncedRowsAreCurrent == Spec => []SyncedMeansCurrentInCloud
<1>1. IInv => SyncedMeansCurrentInCloud
  BY DEF IInv, ICopies
<1>2. QED
  BY <1>1, Invariance, PTL

(* What a provider shows of a bucket never loses an event, though requests
   arrive late (snapshotBatchSql). *)
THEOREM CloudKeepsEvents == Spec => CloudNeverGoesBack
<1>1. IInv /\ [Next]_vars =>
        [\A b \in Bucket, p \in Provider : cloud[p][b].content \subseteq cloud'[p][b].content]_vars
  <2> SUFFICES ASSUME IInv, Next
               PROVE  \A b \in Bucket, p \in Provider : cloud[p][b].content \subseteq cloud'[p][b].content
    OBVIOUS
  <2>1. CASE UNCHANGED cloud
    BY <2>1
  <2>2. ASSUME NEW x \in pushes, ProviderRuns(x)
        PROVE  \A b \in Bucket, p \in Provider : cloud[p][b].content \subseteq cloud'[p][b].content
    BY <2>2, ProviderRunsUpgrades DEF IInv
  <2>3. (\E x \in pushes : ProviderRuns(x)) \/ UNCHANGED cloud
    <3>1. CASE BotStep \/ OperatorStep
      BY <3>1 DEF BotStep, OperatorStep, RecordMessage, RecordGateway, RestartBot, Tick, Backfill, remote
    <3>2. ASSUME NEW w \in WorkerId, RefreshStep(w) PROVE UNCHANGED cloud
      BY <3>2 DEF RefreshStep, Bootstrap, ListDue, StartBuild, ReadTable, StoreSnapshot, MarkAggregated,
         RefreshThrows, EndRefresh, remote
    <3>3. ASSUME NEW w \in WorkerId, WorkerStep(w), ~RefreshStep(w) PROVE UNCHANGED cloud
      BY <3>3 DEF WorkerStep, StartWorker, Claim, SkipProvider, ClaimThrows, RoundRejected,
         StopWorker, CrashWorker, remote
    <3>4. ASSUME NEW x \in pushes, PushStep(x) PROVE ProviderRuns(x) \/ UNCHANGED cloud
      BY <3>4 DEF PushStep, PushSucceeds, PushFails, SettlingThrows, RequestLost
    <3>5. QED
      BY <3>1, <3>2, <3>3, <3>4 DEF Next
  <2>4. QED
    BY <2>1, <2>2, <2>3
<1>2. QED
  BY <1>1, Invariance, PTL DEF Spec, CloudNeverGoesBack
=============================================================================
