--------------------------- MODULE LocalEventsProofs ---------------------------
(***************************************************************************)
(* Theorems about LocalEvents, for every guild of finitely many members,   *)
(* every set of channels and roles, and every number of sequences per      *)
(* millisecond.                                                            *)
(*                                                                         *)
(* RowsAreReal is inductive for voice and members.  For a reaction, and    *)
(* for RefusedOnlyNearBaseline, the invariant Ordered is needed: a         *)
(* sequence in the tables is smaller than any a live event can take, or    *)
(* is one that the last baseline may have given.  It holds over restarts,  *)
(* though the counter starts again, because a process that ends does not   *)
(* begin again within the same millisecond.                                *)
(***************************************************************************)
EXTENDS LocalEvents, FiniteSetTheorems, TLAPS

Floor == IF link = "down" THEN clock * Scale ELSE nextSourceSequence

NearBaseline(s) == baselineAt # -1 /\ s <= baselineAt * Scale + Cardinality(User)

Numbered(s) == s < Floor \/ NearBaseline(s)

Ordered ==
  /\ stamp \in Nat /\ stamp < (clock + 1) * Scale
  /\ baselineAt <= clock
  /\ reaction.sequence < Floor
  /\ Numbered(count.sequence)
  /\ \A u \in User : Numbered(member[u].sequence)

SessionRow == [channel : Channel \cup {None}, startedAt : 0..MaxMs, recovered : BOOLEAN]

MemberRow == [roles : Role \cup {Absent}, known : BOOLEAN, sequence : Sequence]

CountRow == [value : 0..Cardinality(User), sequence : Sequence]

ReactionRow == [active : BOOLEAN, known : BOOLEAN, sequence : Sequence]

-----------------------------------------------------------------------------
(* Numbers *)

LEMMA Bounds ==
  /\ Scale \in Nat /\ Scale > 0 /\ MaxMs \in Nat /\ MaxChanges \in Nat
  /\ IsFiniteSet(User) /\ Cardinality(User) \in Nat /\ None \notin Channel /\ Absent \notin Role
  /\ \A S \in SUBSET User : IsFiniteSet(S) /\ Cardinality(S) \in Nat /\ Cardinality(S) <= Cardinality(User)
  BY UserAssumption, NoneAssumption, AbsentAssumption, BoundsAssumption, FS_CardinalityType, FS_Subset

(* The first sequence of a millisecond. *)
LEMMA Instants ==
  /\ \A m \in Nat : m * Scale \in Nat /\ (m + 1) * Scale = m * Scale + Scale
  /\ \A k, m \in Nat : k <= m => k * Scale <= m * Scale
  /\ \A k, m \in Nat : (m - k) * Scale = m * Scale - k * Scale
  <1>1. \A m \in Nat : m * Scale \in Nat /\ (m + 1) * Scale = m * Scale + Scale
    BY Bounds
  <1>2. \A k, m \in Nat : (m - k) * Scale = m * Scale - k * Scale
    BY Bounds
  <1>3. ASSUME NEW k \in Nat, NEW m \in Nat, k <= m PROVE k * Scale <= m * Scale
    <2>1. m - k \in Nat
      BY <1>3
    <2>2. (m - k) * Scale \in Nat
      BY <1>1, <2>1
    <2> QED BY <1>1, <1>2, <2>2
  <1> QED BY <1>1, <1>2, <1>3

LEMMA SequenceRange ==
  ASSUME NEW m \in 0..MaxMs
  PROVE  /\ \A s \in Int : -1 <= s /\ s < (m + 1) * Scale => s \in Sequence
         /\ \A i \in 0..Cardinality(User) : m * Scale + i \in Sequence /\ m * Scale + i \in Nat
         /\ m * Scale \in Nat /\ (m + 1) * Scale = m * Scale + Scale
  <1>1. /\ m \in Nat /\ m + 1 \in Nat /\ MaxMs + 1 \in Nat /\ m + 1 <= MaxMs + 1
    BY Bounds
  <1>2. /\ m * Scale \in Nat /\ (m + 1) * Scale = m * Scale + Scale
        /\ (m + 1) * Scale \in Nat /\ (MaxMs + 1) * Scale \in Nat /\ (m + 1) * Scale <= (MaxMs + 1) * Scale
    BY <1>1, Instants
  <1>3. Sequence = -1..(MaxMs + 1) * Scale + Cardinality(User)
    BY DEF Sequence
  <1> QED BY <1>2, <1>3, Bounds

LEMMA Members ==
  /\ MembersNow \in 0..Cardinality(User)
  /\ \A u \in User : roles[u] = Absent => MembersNow + 1 \in 0..Cardinality(User)
  /\ \A u \in User : roles[u] # Absent => MembersNow - 1 \in 0..Cardinality(User)
  <1> DEFINE S == {u \in User : roles[u] # Absent}
  <1>1. S \subseteq User /\ MembersNow = Cardinality(S)
    BY DEF MembersNow
  <1>2. MembersNow \in Nat /\ MembersNow <= Cardinality(User) /\ IsFiniteSet(S)
    BY <1>1, Bounds
  <1>3. ASSUME NEW u \in User, roles[u] = Absent PROVE MembersNow + 1 <= Cardinality(User)
    <2>1. u \notin S /\ S \cup {u} \subseteq User
      BY <1>3
    <2>2. Cardinality(S \cup {u}) = Cardinality(S) + 1
      BY <1>2, <2>1, FS_AddElement
    <2> QED BY <1>1, <2>1, <2>2, Bounds
  <1>4. ASSUME NEW u \in User, roles[u] # Absent PROVE MembersNow >= 1
    <2>1. u \in S
      BY <1>4
    <2>2. Cardinality(S) # 0
      BY <1>2, <2>1, FS_EmptySet
    <2> QED BY <1>1, <1>2, <2>2
  <1> QED BY <1>2, <1>3, <1>4, Bounds

LEMMA NextSequence ==
  ASSUME TypeOK, stamp \in Nat, stamp < (clock + 1) * Scale
  PROVE  /\ nextSourceSequence \in Nat /\ nextSourceSequence >= clock * Scale /\ nextSourceSequence > stamp - 1
         /\ nextSourceSequence <= (clock + 1) * Scale
         /\ clock * Scale \in Nat /\ (clock + 1) * Scale = clock * Scale + Scale
         /\ nextSourceSequence < (clock + 1) * Scale => nextSourceSequence \in Sequence
  <1>1. clock \in Nat /\ clock * Scale \in Nat /\ (clock + 1) * Scale = clock * Scale + Scale
    BY Instants, Bounds DEF TypeOK
  <1>2. nextSourceSequence = IF clock * Scale > stamp THEN clock * Scale ELSE stamp + 1
    BY DEF nextSourceSequence
  <1>3. /\ nextSourceSequence \in Nat /\ nextSourceSequence >= clock * Scale
        /\ nextSourceSequence > stamp - 1 /\ nextSourceSequence <= (clock + 1) * Scale
    BY <1>1, <1>2, Bounds
  <1>4. nextSourceSequence < (clock + 1) * Scale => nextSourceSequence \in Sequence
    BY <1>3, SequenceRange DEF TypeOK
  <1> QED BY <1>1, <1>3, <1>4

(* One user's number in a numbering of some of the users. *)
LEMMA NumberingRange ==
  ASSUME NEW live, NEW n \in Numberings(live), NEW u \in DOMAIN n
  PROVE  u \in User /\ n[u] \in 0..Cardinality(User) - 1
  <1> DEFINE all == Moved(live) \cup Arrived(live)
  <1>1. n \in [all -> 0..Cardinality(all) - 1]
    BY DEF Numberings
  <1>2. all \subseteq User
    BY DEF Moved, Arrived
  <1>3. u \in all /\ n[u] \in 0..Cardinality(all) - 1
    BY <1>1
  <1> HIDE DEF all
  <1> QED BY <1>2, <1>3, Bounds
-----------------------------------------------------------------------------
(* Types *)

LEMMA TypesUnfolded ==
  ASSUME TypeOK
  PROVE  /\ clock \in 0..MaxMs /\ link \in {"down", "up", "cut"} /\ stamp \in Sequence /\ changes \in 0..MaxChanges
         /\ channel \in [User -> Channel \cup {None}] /\ roles \in [User -> Role \cup {Absent}] /\ reacted \in BOOLEAN
         /\ session \in [User -> SessionRow] /\ lastVoice \in [User -> Sequence]
         /\ member \in [User -> MemberRow] /\ count \in CountRow /\ reaction \in ReactionRow
         /\ \A h \in handlers : h \in [number : 1..MaxChanges, add : BOOLEAN]
         /\ baselineAt \in -1..MaxMs /\ unseen \in [{"voice", "member"} -> SUBSET User] /\ unsure \in BOOLEAN
  BY DEF TypeOK, SessionRow, MemberRow, CountRow, ReactionRow

LEMMA TypesFolded ==
  ASSUME clock' \in 0..MaxMs, link' \in {"down", "up", "cut"}, stamp' \in Sequence, changes' \in 0..MaxChanges,
         channel' \in [User -> Channel \cup {None}], roles' \in [User -> Role \cup {Absent}], reacted' \in BOOLEAN,
         session' \in [User -> SessionRow], lastVoice' \in [User -> Sequence],
         member' \in [User -> MemberRow], count' \in CountRow, reaction' \in ReactionRow,
         \A h \in handlers' : h \in [number : 1..MaxChanges, add : BOOLEAN],
         baselineAt' \in -1..MaxMs, unseen' \in [{"voice", "member"} -> SUBSET User], unsure' \in BOOLEAN
  PROVE  TypeOK'
  BY DEF TypeOK, SessionRow, MemberRow, CountRow, ReactionRow

LEMMA RowTypes ==
  ASSUME TypeOK
  PROVE  /\ \A to \in Channel \cup {None}, recovered \in BOOLEAN : NextSession(to, recovered) \in SessionRow
         /\ \A type : \A row \in MemberRow, hash \in Role \cup {Absent}, s \in Sequence :
              MemberAfter(row, type, hash, s) \in MemberRow
         /\ \A value \in 0..Cardinality(User), s \in Sequence : CountAfter(value, s) \in CountRow
         /\ \A add \in BOOLEAN, s \in Sequence : ReactionAfter(reaction, add, s) \in ReactionRow
  <1>1. \A to \in Channel \cup {None}, recovered \in BOOLEAN : NextSession(to, recovered) \in SessionRow
    BY Bounds, TypesUnfolded DEF NextSession, NoSession, SessionRow
  <1>2. \A row \in MemberRow, hash \in Role \cup {Absent}, s \in Sequence :
          [roles |-> hash, known |-> TRUE, sequence |-> s] \in MemberRow
    BY DEF MemberRow
  <1>3. ASSUME NEW row \in MemberRow, NEW hash \in Role \cup {Absent}, NEW s \in Sequence, NEW type
        PROVE  MemberAfter(row, type, hash, s) \in MemberRow
    BY <1>2 DEF MemberAfter
  <1>4. \A value \in 0..Cardinality(User), s \in Sequence : CountAfter(value, s) \in CountRow
    BY TypesUnfolded DEF CountAfter, CountRow
  <1>5. \A add \in BOOLEAN, s \in Sequence : ReactionAfter(reaction, add, s) \in ReactionRow
    BY TypesUnfolded DEF ReactionAfter, ReactionRow
  <1> QED BY <1>1, <1>3, <1>4, <1>5

LEMMA ReconcileTypes ==
  ASSUME TypeOK, NEW live \in [User -> Channel \cup {None}], NEW n \in Numberings(live), Reconcile(live, n)
  PROVE  session' \in [User -> SessionRow] /\ lastVoice' \in [User -> Sequence]
  <1>1. \A u \in DOMAIN n : clock * Scale + n[u] \in Sequence
    <2> TAKE u \in DOMAIN n
    <2>1. n[u] \in 0..Cardinality(User)
      BY NumberingRange, Bounds
    <2> QED BY <2>1, SequenceRange, TypesUnfolded
  <1>2. \A u \in Recovered(live, n) : u \in DOMAIN n
    BY DEF Recovered
  <1>3. \A u \in User : NextSession(live[u], TRUE) \in SessionRow
    BY RowTypes
  <1> QED BY <1>1, <1>2, <1>3, TypesUnfolded DEF Reconcile

LEMMA TakenSequence ==
  ASSUME TypeOK, Ordered, TakeSequence
  PROVE  /\ stamp' = nextSourceSequence /\ nextSourceSequence \in Sequence /\ nextSourceSequence \in Nat
         /\ nextSourceSequence < (clock + 1) * Scale
  BY NextSequence DEF TakeSequence, Ordered

LEMMA UnseenTypes ==
  ASSUME TypeOK, NEW table \in {"voice", "member"}, NEW u \in User, Seen(table, u) \/ Missed(table, u)
  PROVE  unseen' \in [{"voice", "member"} -> SUBSET User]
  BY TypesUnfolded DEF Seen, Missed

LEMMA ChangeCounts == ASSUME TypeOK, Change PROVE changes' \in 0..MaxChanges /\ changes' = changes + 1 /\ changes' >= 1
  BY TypesUnfolded, Bounds DEF Change

LEMMA VoiceTypes ==
  ASSUME TypeOK, Ordered, NEW u \in User, NEW to \in Channel \cup {None}, VoiceEvent(u, to) \/ UnseenVoice(u, to)
  PROVE  TypeOK'
  <1>1. channel' \in [User -> Channel \cup {None}]
    BY TypesUnfolded DEF VoiceEvent, UnseenVoice
  <1>2. unseen' \in [{"voice", "member"} -> SUBSET User]
    BY UnseenTypes DEF VoiceEvent, UnseenVoice
  <1>3. changes' \in 0..MaxChanges
    BY ChangeCounts DEF VoiceEvent, UnseenVoice
  <1>4. CASE VoiceEvent(u, to)
    <2>1. stamp' \in Sequence /\ nextSourceSequence \in Sequence
      BY <1>4, TakenSequence DEF VoiceEvent
    <2>2. session' \in [User -> SessionRow] /\ lastVoice' \in [User -> Sequence]
      BY <1>4, <2>1, RowTypes, TypesUnfolded DEF VoiceEvent, RecordVoice, voiceTables
    <2> QED BY <1>1, <1>2, <1>3, <1>4, <2>1, <2>2, TypesUnfolded, TypesFolded
            DEF VoiceEvent, memberTables, reactionTables
  <1>5. CASE UnseenVoice(u, to)
    BY <1>1, <1>2, <1>3, <1>5, TypesUnfolded, TypesFolded
       DEF UnseenVoice, voiceTables, memberTables, reactionTables
  <1> QED BY <1>4, <1>5

LEMMA ReconcileGuildTypes ==
  ASSUME TypeOK, NEW n \in Numberings(channel), ReconcileVoiceGuild(n)
  PROVE  TypeOK'
  <1>1. session' \in [User -> SessionRow] /\ lastVoice' \in [User -> Sequence]
    BY ReconcileTypes, TypesUnfolded DEF ReconcileVoiceGuild
  <1>2. unseen' \in [{"voice", "member"} -> SUBSET User]
    BY TypesUnfolded DEF ReconcileVoiceGuild
  <1> QED BY <1>1, <1>2, TypesUnfolded, TypesFolded DEF ReconcileVoiceGuild, discord, memberTables, reactionTables

LEMMA MemberToldTypes ==
  ASSUME TypeOK, Ordered, TakeSequence, NEW u \in User, NEW type, NEW hash \in Role \cup {Absent},
         NEW now \in 0..Cardinality(User),
         RecordMember(u, type, hash, now) \/ UNCHANGED <<member, count>>
  PROVE  stamp' \in Sequence /\ member' \in [User -> MemberRow] /\ count' \in CountRow
  <1>1. stamp' \in Sequence /\ nextSourceSequence \in Sequence
    BY TakenSequence
  <1>2. MemberAfter(member[u], type, hash, nextSourceSequence) \in MemberRow /\ CountAfter(now, nextSourceSequence) \in CountRow
    BY <1>1, RowTypes, TypesUnfolded
  <1> QED BY <1>1, <1>2, TypesUnfolded DEF RecordMember

LEMMA MemberTypes ==
  ASSUME TypeOK, Ordered, NEW u \in User, NEW hash \in Role, MemberJoins(u, hash) \/ RolesChange(u, hash)
  PROVE  TypeOK'
  <1>1. PICK type \in {"join", "update"}, now \in 0..Cardinality(User) : MemberTold(u, type, hash, now)
    <2>1. CASE MemberJoins(u, hash)
      <3>1. MembersNow + 1 \in 0..Cardinality(User) /\ MemberTold(u, "join", hash, MembersNow + 1)
        BY <2>1, Members DEF MemberJoins
      <3> QED BY <3>1
    <2>2. CASE RolesChange(u, hash)
      <3>1. MembersNow \in 0..Cardinality(User) /\ MemberTold(u, "update", hash, MembersNow)
        BY <2>2, Members DEF RolesChange
      <3> QED BY <3>1
    <2> QED BY <2>1, <2>2
  <1>2. RecordMember(u, type, hash, now) \/ UNCHANGED <<member, count>>
    BY <1>1 DEF MemberTold
  <1>3. stamp' \in Sequence /\ member' \in [User -> MemberRow] /\ count' \in CountRow
    BY <1>2, MemberToldTypes DEF MemberJoins, RolesChange
  <1>4. unseen' \in [{"voice", "member"} -> SUBSET User]
    BY <1>1, UnseenTypes DEF MemberTold
  <1>5. changes' \in 0..MaxChanges
    BY ChangeCounts DEF MemberJoins, RolesChange
  <1>6. roles' \in [User -> Role \cup {Absent}]
    BY TypesUnfolded DEF MemberJoins, RolesChange
  <1> QED BY <1>3, <1>4, <1>5, <1>6, TypesUnfolded, TypesFolded
          DEF MemberJoins, RolesChange, voiceTables, reactionTables

LEMMA LeaveTypes ==
  ASSUME TypeOK, Ordered, NEW u \in User, NEW n \in Numberings([channel EXCEPT ![u] = None]), MemberLeaves(u, n)
  PROVE  TypeOK'
  <1> DEFINE live == [channel EXCEPT ![u] = None]
  <1>1. live \in [User -> Channel \cup {None}]
    BY TypesUnfolded
  <1>2. session' \in [User -> SessionRow] /\ lastVoice' \in [User -> Sequence]
    BY <1>1, ReconcileTypes DEF MemberLeaves
  <1>3. stamp' \in Sequence /\ member' \in [User -> MemberRow] /\ count' \in CountRow
    <2>1. MembersNow - 1 \in 0..Cardinality(User)
      BY Members DEF MemberLeaves
    <2> QED BY <2>1, MemberToldTypes DEF MemberLeaves
  <1>4. unseen' \in [{"voice", "member"} -> SUBSET User]
    BY TypesUnfolded DEF MemberLeaves
  <1>5. changes' \in 0..MaxChanges /\ roles' \in [User -> Role \cup {Absent}] /\ channel' \in [User -> Channel \cup {None}]
    BY <1>1, ChangeCounts, TypesUnfolded DEF MemberLeaves
  <1> QED BY <1>2, <1>3, <1>4, <1>5, TypesUnfolded, TypesFolded DEF MemberLeaves, reactionTables

LEMMA SyncTypes ==
  ASSUME TypeOK, NEW cached \in SUBSET User, NEW index \in [cached -> 0..Cardinality(cached) - 1],
         SyncMemberGuild(cached, index)
  PROVE  TypeOK'
  <1>1. \A u \in cached : clock * Scale + index[u] \in Sequence
    <2> TAKE u \in cached
    <2>1. index[u] \in 0..Cardinality(User)
      BY Bounds
    <2> QED BY <2>1, SequenceRange, TypesUnfolded
  <1>2. clock * Scale + Cardinality(cached) \in Sequence
    <2>1. Cardinality(cached) \in 0..Cardinality(User)
      BY Bounds
    <2> QED BY <2>1, SequenceRange, TypesUnfolded
  <1>3. member' \in [User -> MemberRow]
    BY <1>1, RowTypes, TypesUnfolded DEF SyncMemberGuild
  <1>4. count' \in CountRow
    BY <1>2, RowTypes, Members DEF SyncMemberGuild
  <1>5. unseen' \in [{"voice", "member"} -> SUBSET User]
    BY TypesUnfolded DEF SyncMemberGuild
  <1>6. baselineAt' \in -1..MaxMs
    BY TypesUnfolded, Bounds DEF SyncMemberGuild
  <1> QED BY <1>3, <1>4, <1>5, <1>6, TypesUnfolded, TypesFolded DEF SyncMemberGuild, discord, voiceTables, reactionTables

LEMMA ReactionTypes ==
  ASSUME TypeOK, Ordered,
         \/ \E add \in BOOLEAN : ReactionArrives(add)
         \/ \E h \in handlers : ReactionRecorded(h) \/ ReactionDropped(h)
         \/ UnseenReaction
  PROVE  TypeOK'
  <1>1. ASSUME NEW add \in BOOLEAN, ReactionArrives(add) PROVE TypeOK'
    <2>1. changes' \in 0..MaxChanges /\ changes + 1 \in 1..MaxChanges
      BY <1>1, ChangeCounts, TypesUnfolded, Bounds DEF ReactionArrives
    <2>2. \A h \in handlers' : h \in [number : 1..MaxChanges, add : BOOLEAN]
      BY <1>1, <2>1, TypesUnfolded DEF ReactionArrives
    <2> QED BY <1>1, <2>1, <2>2, TypesUnfolded, TypesFolded DEF ReactionArrives, voiceTables, memberTables
  <1>2. ASSUME NEW h \in handlers, ReactionRecorded(h) PROVE TypeOK'
    <2>1. stamp' \in Sequence /\ nextSourceSequence \in Sequence
      BY <1>2, TakenSequence DEF ReactionRecorded
    <2>2. h.add \in BOOLEAN
      BY TypesUnfolded
    <2>3. reaction' \in ReactionRow
      BY <1>2, <2>1, <2>2, RowTypes DEF ReactionRecorded
    <2>4. \A g \in handlers' : g \in [number : 1..MaxChanges, add : BOOLEAN]
      BY <1>2, TypesUnfolded DEF ReactionRecorded
    <2>5. unsure' \in BOOLEAN
      BY <1>2 DEF ReactionRecorded
    <2> QED BY <1>2, <2>1, <2>3, <2>4, <2>5, TypesUnfolded, TypesFolded
            DEF ReactionRecorded, discord, voiceTables, memberTables
  <1>3. ASSUME NEW h \in handlers, ReactionDropped(h) PROVE TypeOK'
    BY <1>3, TypesUnfolded, TypesFolded DEF ReactionDropped, discord, voiceTables, memberTables
  <1>4. CASE UnseenReaction
    <2>1. changes' \in 0..MaxChanges
      BY <1>4, ChangeCounts DEF UnseenReaction
    <2> QED BY <1>4, <2>1, TypesUnfolded, TypesFolded DEF UnseenReaction, voiceTables, memberTables
  <1> QED BY <1>1, <1>2, <1>3, <1>4

LEMMA UnseenMemberTypes ==
  ASSUME TypeOK, NEW u \in User, NEW hash \in Role \cup {Absent}, UnseenMember(u, hash)
  PROVE  TypeOK'
  <1>1. changes' \in 0..MaxChanges
    BY ChangeCounts DEF UnseenMember
  <1>2. roles' \in [User -> Role \cup {Absent}] /\ channel' \in [User -> Channel \cup {None}]
    BY TypesUnfolded DEF UnseenMember
  <1>3. unseen' \in [{"voice", "member"} -> SUBSET User]
    BY TypesUnfolded DEF UnseenMember
  <1> QED BY <1>1, <1>2, <1>3, TypesUnfolded, TypesFolded DEF UnseenMember, voiceTables, memberTables, reactionTables

LEMMA ProcessTypes ==
  ASSUME TypeOK, Start \/ Crash \/ ConnectionLost \/ NewSession \/ Tick
  PROVE  TypeOK'
  <1>1. CASE Start
    <2>1. 0 \in Sequence
      BY SequenceRange, Bounds, TypesUnfolded
    <2> QED BY <1>1, <2>1, TypesUnfolded, TypesFolded DEF Start, discord, voiceTables, memberTables, reactionTables
  <1>2. CASE Crash
    <2>1. clock' \in 0..MaxMs
      BY <1>2, TypesUnfolded, Bounds DEF Crash
    <2> QED BY <1>2, <2>1, TypesUnfolded, TypesFolded DEF Crash, discord, voiceTables, memberTables
  <1>3. CASE ConnectionLost \/ NewSession
    BY <1>3, TypesUnfolded, TypesFolded DEF ConnectionLost, NewSession, discord, voiceTables, memberTables, reactionTables
  <1>4. CASE Tick
    <2>1. clock' \in 0..MaxMs
      BY <1>4, TypesUnfolded, Bounds DEF Tick
    <2> QED BY <1>4, <2>1, TypesUnfolded, TypesFolded DEF Tick, discord, voiceTables, memberTables, reactionTables
  <1> QED BY <1>1, <1>2, <1>3, <1>4

LEMMA TypesStep == ASSUME TypeOK, Ordered, [Next]_vars PROVE TypeOK'
  <1>1. ASSUME NEW u \in User, NEW to \in Channel \cup {None}, VoiceEvent(u, to) \/ UnseenVoice(u, to) PROVE TypeOK'
    BY <1>1, VoiceTypes
  <1>2. ASSUME NEW n \in Numberings(channel), ReconcileVoiceGuild(n) PROVE TypeOK'
    BY <1>2, ReconcileGuildTypes
  <1>3. ASSUME NEW u \in User, NEW hash \in Role, MemberJoins(u, hash) \/ RolesChange(u, hash) PROVE TypeOK'
    BY <1>3, MemberTypes
  <1>4. ASSUME NEW u \in User, NEW n \in Numberings([channel EXCEPT ![u] = None]), MemberLeaves(u, n) PROVE TypeOK'
    BY <1>4, LeaveTypes
  <1>5. ASSUME NEW u \in User, NEW hash \in Role \cup {Absent}, UnseenMember(u, hash) PROVE TypeOK'
    BY <1>5, UnseenMemberTypes
  <1>6. ASSUME NEW cached \in SUBSET User, NEW index \in [cached -> 0..Cardinality(cached) - 1],
               SyncMemberGuild(cached, index)
        PROVE  TypeOK'
    BY <1>6, SyncTypes
  <1>7. CASE \/ \E add \in BOOLEAN : ReactionArrives(add)
             \/ \E h \in handlers : ReactionRecorded(h) \/ ReactionDropped(h)
             \/ UnseenReaction
    BY <1>7, ReactionTypes
  <1>8. CASE Start \/ Crash \/ ConnectionLost \/ NewSession \/ Tick
    BY <1>8, ProcessTypes
  <1>9. CASE UNCHANGED vars
    BY <1>9, TypesUnfolded, TypesFolded DEF vars, discord, voiceTables, memberTables, reactionTables
  <1> QED BY <1>1, <1>2, <1>3, <1>4, <1>5, <1>6, <1>7, <1>8, <1>9 DEF Next
-----------------------------------------------------------------------------
(* Sequences *)

(* What a step does to the clock, the process and its counter. *)
Takes == TakeSequence /\ link # "down" /\ UNCHANGED <<clock, link>>

Stays == UNCHANGED <<clock, stamp>> /\ (link' = link \/ (link # "down" /\ link' # "down"))

LEMMA Clocks ==
  ASSUME [Next]_vars
  PROVE  Takes \/ Stays \/ Start \/ Crash \/ Tick
  <1>1. ASSUME NEW u \in User, NEW to \in Channel \cup {None}, VoiceEvent(u, to) \/ UnseenVoice(u, to) PROVE Takes \/ Stays
    BY <1>1 DEF VoiceEvent, UnseenVoice, Takes, Stays
  <1>2. ASSUME NEW n \in Numberings(channel), ReconcileVoiceGuild(n) PROVE Stays
    BY <1>2 DEF ReconcileVoiceGuild, Stays
  <1>3. ASSUME NEW u \in User, NEW hash \in Role, MemberJoins(u, hash) \/ RolesChange(u, hash) PROVE Takes
    BY <1>3 DEF MemberJoins, RolesChange, Takes
  <1>4. ASSUME NEW u \in User, NEW n \in Numberings([channel EXCEPT ![u] = None]), MemberLeaves(u, n) PROVE Takes
    BY <1>4 DEF MemberLeaves, Takes
  <1>5. ASSUME NEW u \in User, NEW hash \in Role \cup {Absent}, UnseenMember(u, hash) PROVE Stays
    BY <1>5 DEF UnseenMember, Stays
  <1>6. ASSUME NEW cached \in SUBSET User, NEW index \in [cached -> 0..Cardinality(cached) - 1],
               SyncMemberGuild(cached, index)
        PROVE  Stays
    BY <1>6 DEF SyncMemberGuild, Stays
  <1>7. ASSUME NEW h \in handlers, ReactionRecorded(h) \/ ReactionDropped(h) PROVE Takes \/ Stays
    BY <1>7 DEF ReactionRecorded, ReactionDropped, Takes, Stays
  <1>8. ASSUME NEW add \in BOOLEAN, ReactionArrives(add) PROVE Stays
    BY <1>8 DEF ReactionArrives, Stays
  <1>9. CASE UnseenReaction \/ ConnectionLost \/ NewSession \/ UNCHANGED vars
    BY <1>9 DEF UnseenReaction, ConnectionLost, NewSession, vars, Stays
  <1> QED BY <1>1, <1>2, <1>3, <1>4, <1>5, <1>6, <1>7, <1>8, <1>9 DEF Next

LEMMA FloorStep ==
  ASSUME TypeOK, Ordered, [Next]_vars
  PROVE  /\ stamp' \in Nat /\ stamp' < (clock' + 1) * Scale
         /\ Floor \in Nat /\ Floor' \in Nat /\ Floor <= Floor'
         /\ link' # "down" => stamp' < Floor'
         /\ clock' \in Nat /\ clock <= clock'
  <1>1. /\ clock \in Nat /\ clock * Scale \in Nat /\ (clock + 1) * Scale = clock * Scale + Scale
        /\ (clock + 1) * Scale \in Nat /\ stamp \in Nat /\ stamp < (clock + 1) * Scale /\ Scale \in Nat /\ Scale > 0
    BY Instants, Bounds, TypesUnfolded DEF Ordered
  <1>2. /\ Floor = IF link = "down" THEN clock * Scale ELSE IF clock * Scale > stamp THEN clock * Scale ELSE stamp + 1
        /\ Floor' = IF link' = "down" THEN clock' * Scale
                    ELSE IF clock' * Scale > stamp' THEN clock' * Scale ELSE stamp' + 1
    BY DEF Floor, nextSourceSequence
  <1>3. CASE Takes
    BY <1>1, <1>2, <1>3 DEF Takes, TakeSequence, nextSourceSequence
  <1>4. CASE Stays
    BY <1>1, <1>2, <1>4 DEF Stays
  <1>5. CASE Start
    BY <1>1, <1>2, <1>5 DEF Start, discord
  <1>6. CASE Crash \/ Tick
    <2>1. clock' = clock + 1 /\ stamp' = stamp /\ (link' = link \/ link' = "down")
      BY <1>6 DEF Crash, Tick
    <2>2. (clock' + 1) * Scale = clock' * Scale + Scale /\ clock' * Scale \in Nat /\ clock' * Scale = (clock + 1) * Scale
      BY <1>1, <2>1, Instants
    <2> QED BY <1>1, <1>2, <2>1, <2>2
  <1> QED BY <1>3, <1>4, <1>5, <1>6, Clocks

(* The sequences a step may write. *)
Written(s) == (link' # "down" /\ s = stamp') \/ (baselineAt' # -1 /\ s <= baselineAt' * Scale + Cardinality(User))

MembersDone ==
  /\ \A v \in User : member'[v].sequence = member[v].sequence \/ Written(member'[v].sequence)
  /\ count'.sequence = count.sequence \/ Written(count'.sequence)

RestDone ==
  /\ reaction'.sequence = reaction.sequence \/ (link' # "down" /\ reaction'.sequence = stamp')
  /\ baselineAt' = baselineAt \/ (baselineAt' = clock /\ clock' = clock)

LEMMA MemberAfterWrites ==
  ASSUME NEW row, NEW type, NEW hash, NEW s
  PROVE  MemberAfter(row, type, hash, s).sequence \in {row.sequence, s}
  BY DEF MemberAfter

LEMMA RecordMemberWrites ==
  ASSUME TypeOK, TakeSequence, link # "down", link' = link, NEW u \in User, NEW type, NEW hash, NEW now,
         RecordMember(u, type, hash, now) \/ UNCHANGED <<member, count>>
  PROVE  MembersDone
  <1>1. CASE RecordMember(u, type, hash, now)
    <2>1. stamp' = nextSourceSequence
      BY DEF TakeSequence
    <2>2. \A v \in User : member'[v] = IF v = u THEN MemberAfter(member[u], type, hash, nextSourceSequence) ELSE member[v]
      BY <1>1, TypesUnfolded DEF RecordMember
    <2>3. count' = [value |-> now, sequence |-> nextSourceSequence] \/ count' = count
      BY <1>1 DEF RecordMember, CountAfter
    <2> QED BY <2>1, <2>2, <2>3, MemberAfterWrites DEF Written, MembersDone
  <1> QED BY <1>1 DEF MembersDone

LEMMA SyncWrites ==
  ASSUME TypeOK, NEW cached \in SUBSET User, NEW index \in [cached -> 0..Cardinality(cached) - 1],
         SyncMemberGuild(cached, index)
  PROVE  MembersDone
  <1>1. /\ clock * Scale \in Nat /\ clock \in Nat /\ clock # -1 /\ baselineAt' = clock
        /\ Cardinality(cached) \in Nat /\ Cardinality(cached) <= Cardinality(User) /\ Cardinality(User) \in Nat
    BY Instants, Bounds, TypesUnfolded DEF SyncMemberGuild
  <1>2. ASSUME NEW s \in Int, s <= clock * Scale + Cardinality(cached) PROVE Written(s)
    BY <1>1, <1>2 DEF Written
  <1>3. ASSUME NEW v \in User PROVE member'[v].sequence = member[v].sequence \/ Written(member'[v].sequence)
    <2>1. CASE v \in cached
      <3>1. index[v] \in 0..Cardinality(cached) - 1
        BY <2>1
      <3>2. clock * Scale + index[v] \in Int /\ clock * Scale + index[v] <= clock * Scale + Cardinality(cached)
        BY <3>1, <1>1
      <3>3. Written(clock * Scale + index[v])
        BY <3>2, <1>2
      <3>4. member'[v] = MemberAfter(member[v], "sync", roles[v], clock * Scale + index[v])
        BY <2>1 DEF SyncMemberGuild
      <3> QED BY <3>3, <3>4, MemberAfterWrites
    <2>2. CASE v \notin cached
      BY <2>2 DEF SyncMemberGuild
    <2> QED BY <2>1, <2>2
  <1>4. count'.sequence = count.sequence \/ Written(count'.sequence)
    <2>1. Written(clock * Scale + Cardinality(cached))
      BY <1>1, <1>2
    <2> QED BY <2>1 DEF SyncMemberGuild, CountAfter
  <1> QED BY <1>3, <1>4 DEF MembersDone

LEMMA Writes ==
  ASSUME TypeOK, [Next]_vars
  PROVE  MembersDone /\ RestDone
  <1>0. (UNCHANGED <<member, count>> => MembersDone) /\ (UNCHANGED <<reaction, baselineAt>> => RestDone)
    BY DEF MembersDone, RestDone
  <1>1. ASSUME NEW u \in User, NEW to \in Channel \cup {None}, VoiceEvent(u, to) \/ UnseenVoice(u, to)
        PROVE  MembersDone /\ RestDone
    BY <1>0, <1>1 DEF VoiceEvent, UnseenVoice, memberTables, reactionTables
  <1>2. ASSUME NEW n \in Numberings(channel), ReconcileVoiceGuild(n) PROVE MembersDone /\ RestDone
    BY <1>0, <1>2 DEF ReconcileVoiceGuild, memberTables, reactionTables
  <1>3. ASSUME NEW u \in User, NEW hash \in Role, MemberJoins(u, hash) \/ RolesChange(u, hash)
        PROVE  MembersDone /\ RestDone
    <2>1. PICK type, now : MemberTold(u, type, hash, now)
      BY <1>3 DEF MemberJoins, RolesChange
    <2>2. RecordMember(u, type, hash, now) \/ UNCHANGED <<member, count>>
      BY <2>1 DEF MemberTold
    <2>3. TakeSequence /\ link # "down" /\ link' = link /\ UNCHANGED <<baselineAt, reaction>>
      BY <1>3 DEF MemberJoins, RolesChange, reactionTables
    <2>4. MembersDone
      BY <2>2, <2>3, RecordMemberWrites
    <2> QED BY <1>0, <2>3, <2>4
  <1>4. ASSUME NEW u \in User, NEW n \in Numberings([channel EXCEPT ![u] = None]), MemberLeaves(u, n)
        PROVE  MembersDone /\ RestDone
    <2>1. /\ TakeSequence /\ link # "down" /\ link' = link /\ UNCHANGED <<baselineAt, reaction>>
          /\ RecordMember(u, "leave", Absent, MembersNow - 1)
      BY <1>4 DEF MemberLeaves, reactionTables
    <2>2. MembersDone
      BY <2>1, RecordMemberWrites
    <2> QED BY <1>0, <2>1, <2>2
  <1>5. ASSUME NEW u \in User, NEW hash \in Role \cup {Absent}, UnseenMember(u, hash) PROVE MembersDone /\ RestDone
    BY <1>0, <1>5 DEF UnseenMember, memberTables, reactionTables
  <1>6. ASSUME NEW cached \in SUBSET User, NEW index \in [cached -> 0..Cardinality(cached) - 1],
               SyncMemberGuild(cached, index)
        PROVE  MembersDone /\ RestDone
    <2>1. RestDone
      BY <1>6 DEF SyncMemberGuild, reactionTables, RestDone
    <2>2. MembersDone
      BY <1>6, SyncWrites
    <2> QED BY <2>1, <2>2
  <1>7. ASSUME NEW h \in handlers, ReactionRecorded(h) \/ ReactionDropped(h) PROVE MembersDone /\ RestDone
    BY <1>0, <1>7 DEF ReactionRecorded, ReactionDropped, ReactionAfter, TakeSequence, memberTables, RestDone
  <1>8. CASE (\E add \in BOOLEAN : ReactionArrives(add)) \/ UnseenReaction
    BY <1>0, <1>8 DEF ReactionArrives, UnseenReaction, memberTables
  <1>9. CASE Start \/ Crash \/ ConnectionLost \/ NewSession \/ Tick \/ UNCHANGED vars
    <2>1. UNCHANGED <<member, count, baselineAt, reaction>>
      BY <1>9 DEF Start, Crash, ConnectionLost, NewSession, Tick, vars, memberTables, reactionTables
    <2> QED BY <1>0, <2>1
  <1>10. MembersDone /\ RestDone
    BY <1>1, <1>2, <1>3, <1>4, <1>5, <1>6, <1>7, <1>8, <1>9 DEF Next
  <1> QED BY <1>10

LEMMA OrderedFolded ==
  ASSUME stamp' \in Nat, stamp' < (clock' + 1) * Scale, baselineAt' <= clock', reaction'.sequence < Floor',
         Numbered(count.sequence)', \A u \in User : Numbered(member[u].sequence)'
  PROVE  Ordered'
  BY DEF Ordered

LEMMA OrderedStep == ASSUME TypeOK, Ordered, [Next]_vars PROVE Ordered'
  <1>1. /\ stamp' \in Nat /\ stamp' < (clock' + 1) * Scale
        /\ Floor \in Nat /\ Floor' \in Nat /\ Floor <= Floor'
        /\ link' # "down" => stamp' < Floor'
        /\ clock \in Nat /\ clock' \in Nat /\ clock <= clock'
    BY FloorStep, TypesUnfolded
  <1>2. /\ baselineAt \in Int /\ baselineAt >= -1 /\ baselineAt <= clock
        /\ baselineAt' = baselineAt \/ (baselineAt' = clock /\ clock' = clock)
    <2>1. baselineAt \in Int /\ baselineAt >= -1 /\ baselineAt <= clock
      BY TypesUnfolded, Bounds DEF Ordered
    <2> QED BY <2>1, Writes DEF RestDone
  <1>3. baselineAt' <= clock' /\ baselineAt <= baselineAt' /\ baselineAt' \in Int
    BY <1>1, <1>2
  <1>4. TypeOK'
    BY TypesStep
  <1>5. ASSUME NEW s \in Int, Numbered(s)
        PROVE  s < Floor' \/ (baselineAt' # -1 /\ s <= baselineAt' * Scale + Cardinality(User))
    <2>1. CASE s < Floor
      BY <1>1, <2>1
    <2>2. CASE NearBaseline(s)
      <3>1. baselineAt \in Nat /\ baselineAt' \in Nat /\ baselineAt' # -1
        BY <1>2, <1>3, <2>2 DEF NearBaseline
      <3>2. baselineAt * Scale \in Nat /\ baselineAt' * Scale \in Nat /\ baselineAt * Scale <= baselineAt' * Scale
        BY <1>3, <3>1, Instants
      <3>3. s <= baselineAt * Scale + Cardinality(User)
        BY <2>2 DEF NearBaseline
      <3>4. baselineAt * Scale + Cardinality(User) <= baselineAt' * Scale + Cardinality(User)
        BY <3>2, Bounds
      <3>5. s <= baselineAt' * Scale + Cardinality(User)
        <4> DEFINE a == baselineAt * Scale + Cardinality(User)
                   b == baselineAt' * Scale + Cardinality(User)
        <4>1. a \in Int /\ b \in Int
          BY <3>2, Bounds
        <4> HIDE DEF a, b
        <4>2. s <= a /\ a <= b
          BY <3>3, <3>4 DEF a, b
        <4>3. s <= b
          BY <4>1, <4>2, <1>5
        <4> QED BY <4>3 DEF b
      <3> QED BY <3>1, <3>5
    <2> QED BY <1>5, <2>1, <2>2 DEF Numbered
  <1>6. ASSUME NEW s, Written(s)
        PROVE  s < Floor' \/ (baselineAt' # -1 /\ s <= baselineAt' * Scale + Cardinality(User))
    BY <1>1, <1>6 DEF Written
  <1>7. Sequence \subseteq Int
    BY DEF Sequence
  <1>8. Numbered(count.sequence)'
    <2>1. count.sequence \in Int /\ Numbered(count.sequence)
      BY <1>7, TypesUnfolded DEF CountRow, Ordered
    <2>2. count'.sequence = count.sequence \/ Written(count'.sequence)
      BY Writes DEF MembersDone
    <2> QED BY <1>5, <1>6, <2>1, <2>2 DEF Numbered, NearBaseline
  <1>9. ASSUME NEW u \in User PROVE Numbered(member[u].sequence)'
    <2>1. member[u].sequence \in Int /\ Numbered(member[u].sequence)
      BY <1>7, TypesUnfolded DEF MemberRow, Ordered
    <2>2. member'[u].sequence = member[u].sequence \/ Written(member'[u].sequence)
      BY Writes DEF MembersDone
    <2> QED BY <1>5, <1>6, <2>1, <2>2 DEF Numbered, NearBaseline
  <1>10. reaction'.sequence < Floor'
    <2>1. reaction.sequence \in Int /\ reaction.sequence < Floor
      BY <1>7, TypesUnfolded DEF ReactionRow, Ordered
    <2> QED BY <1>1, <2>1, Writes DEF RestDone
  <1> QED BY <1>1, <1>3, <1>8, <1>9, <1>10, OrderedFolded
-----------------------------------------------------------------------------
(* Rows *)

SessionOK(u) == u \in unseen["voice"] \/ session[u].channel = channel[u]

MemberOK(u) == u \in unseen["member"] \/ (member[u].known /\ member[u].roles = roles[u])

LEMMA NextSessionChannel == ASSUME NEW to, NEW recovered PROVE NextSession(to, recovered).channel = to
  BY DEF NextSession, NoSession

(* What reconcileVoiceSessions leaves wrong was wrong and is refused. *)
LEMMA ReconcileLive ==
  ASSUME TypeOK, NEW live \in [User -> Channel \cup {None}], NEW n \in Numberings(live), Reconcile(live, n),
         NEW u \in User
  PROVE  \/ session'[u].channel = live[u]
         \/ u \in DOMAIN n /\ Refuses(u, clock * Scale + n[u]) /\ session[u].channel # live[u]
  <1>1. DOMAIN n = Moved(live) \cup Arrived(live)
    BY DEF Numberings
  <1>2. u \in DOMAIN n => session[u].channel # live[u]
    BY <1>1 DEF Moved, Arrived, NoSession
  <1>3. u \notin DOMAIN n => session[u].channel = live[u] /\ session'[u] = session[u]
    <2>1. ASSUME u \notin DOMAIN n PROVE session[u].channel = live[u]
      BY <1>1, <2>1 DEF Moved, Arrived, NoSession
    <2>2. ASSUME u \notin DOMAIN n PROVE session'[u] = session[u]
      BY <2>2 DEF Reconcile, Recovered
    <2> QED BY <2>1, <2>2
  <1>4. u \in DOMAIN n /\ ~Refuses(u, clock * Scale + n[u]) => session'[u].channel = live[u]
    <2>1. ASSUME u \in DOMAIN n, ~Refuses(u, clock * Scale + n[u]) PROVE session'[u] = NextSession(live[u], TRUE)
      BY <2>1 DEF Reconcile, Recovered
    <2> QED BY <2>1, NextSessionChannel
  <1> QED BY <1>2, <1>3, <1>4

LEMMA SessionsKept ==
  ASSUME UNCHANGED <<session, channel>>, \A u \in User : u \in unseen["voice"] => u \in unseen'["voice"],
         NEW u \in User, SessionOK(u)
  PROVE  SessionOK(u)'
  BY DEF SessionOK

LEMMA VoiceSession ==
  ASSUME TypeOK, NEW v \in User, NEW to \in Channel \cup {None}, VoiceEvent(v, to) \/ UnseenVoice(v, to),
         NEW u \in User, SessionOK(u)
  PROVE  SessionOK(u)'
  <1>1. channel' = [channel EXCEPT ![v] = to] /\ to # channel[v]
    BY DEF VoiceEvent, UnseenVoice
  <1>2. CASE Missed("voice", v) /\ UNCHANGED voiceTables
    BY <1>1, <1>2, TypesUnfolded DEF SessionOK, Missed, voiceTables
  <1>3. CASE VoiceEvent(v, to) /\ RecordVoice(v, channel[v], to, nextSourceSequence) /\ Seen("voice", v)
    <2>1. u # v => session'[u] = session[u]
      BY <1>3, TypesUnfolded DEF RecordVoice, voiceTables
    <2>2. session'[v].channel = to
      <3>1. CASE Duplicate(session[v], EventType(channel[v], to), to)
        <4>1. session' = session
          BY <1>3, <3>1 DEF RecordVoice, voiceTables
        <4>2. session[v].channel = to
          BY <1>1, <3>1 DEF Duplicate, EventType, NoSession
        <4> QED BY <4>1, <4>2
      <3>2. CASE ~Duplicate(session[v], EventType(channel[v], to), to)
        <4>1. session'[v] = NextSession(to, FALSE)
          BY <1>3, <3>2, TypesUnfolded DEF RecordVoice
        <4> QED BY <4>1, NextSessionChannel
      <3> QED BY <3>1, <3>2
    <2>3. u # v => (u \in unseen["voice"] => u \in unseen'["voice"])
      BY <1>3, TypesUnfolded DEF Seen
    <2> QED BY <1>1, <2>1, <2>2, <2>3, TypesUnfolded DEF SessionOK
  <1> QED BY <1>2, <1>3 DEF VoiceEvent, UnseenVoice

LEMMA ReconciledSession ==
  ASSUME TypeOK, NEW n \in Numberings(channel), ReconcileVoiceGuild(n), NEW u \in User, SessionOK(u)
  PROVE  SessionOK(u)'
  <1>1. channel' = channel /\ Reconcile(channel, n)
    BY DEF ReconcileVoiceGuild, discord
  <1>2. unseen'["voice"] = unseen["voice"] \cap {v \in DOMAIN n : Refuses(v, clock * Scale + n[v])}
    BY TypesUnfolded DEF ReconcileVoiceGuild
  <1>3. \/ session'[u].channel = channel[u]
        \/ u \in DOMAIN n /\ Refuses(u, clock * Scale + n[u]) /\ session[u].channel # channel[u]
    BY <1>1, ReconcileLive, TypesUnfolded
  <1> QED BY <1>1, <1>2, <1>3 DEF SessionOK

LEMMA LeftSession ==
  ASSUME TypeOK, NEW v \in User, NEW n \in Numberings([channel EXCEPT ![v] = None]), MemberLeaves(v, n),
         NEW u \in User, SessionOK(u)
  PROVE  SessionOK(u)'
  <1> DEFINE live == [channel EXCEPT ![v] = None]
  <1>1. channel' = live /\ Reconcile(live, n)
    BY DEF MemberLeaves
  <1>2. unseen'["voice"] = (IF channel[v] # None THEN unseen["voice"] \cup {v} ELSE unseen["voice"])
                             \cap {w \in DOMAIN n : Refuses(w, clock * Scale + n[w])}
    BY TypesUnfolded DEF MemberLeaves
  <1>3. live \in [User -> Channel \cup {None}] /\ (live[u] = channel[u] \/ (u = v /\ channel[v] # None))
    BY TypesUnfolded
  <1>4. \/ session'[u].channel = live[u]
        \/ u \in DOMAIN n /\ Refuses(u, clock * Scale + n[u]) /\ session[u].channel # live[u]
    BY <1>1, <1>3, ReconcileLive
  <1> HIDE DEF live
  <1> QED BY <1>1, <1>2, <1>3, <1>4 DEF SessionOK

LEMMA UnseenSession ==
  ASSUME TypeOK, NEW v \in User, NEW hash \in Role \cup {Absent}, UnseenMember(v, hash), NEW u \in User, SessionOK(u)
  PROVE  SessionOK(u)'
  <1>1. session' = session /\ channel' = IF hash = Absent THEN [channel EXCEPT ![v] = None] ELSE channel
    BY DEF UnseenMember, voiceTables
  <1>2. unseen'["voice"] = IF channel' = channel THEN unseen["voice"] ELSE unseen["voice"] \cup {v}
    BY TypesUnfolded DEF UnseenMember
  <1>3. CASE u = v /\ channel' # channel
    BY <1>2, <1>3 DEF SessionOK
  <1>4. CASE u # v \/ channel' = channel
    <2>1. channel'[u] = channel[u]
      BY <1>1, <1>4, TypesUnfolded
    <2> QED BY <1>1, <1>2, <2>1 DEF SessionOK
  <1> QED BY <1>3, <1>4

(* Every other step leaves channels, sessions and what was missed of them. *)
LEMMA SessionStep ==
  ASSUME TypeOK, [Next]_vars, NEW u \in User, SessionOK(u)
  PROVE  SessionOK(u)'
  <1>1. ASSUME NEW v \in User, NEW to \in Channel \cup {None}, VoiceEvent(v, to) \/ UnseenVoice(v, to)
        PROVE  SessionOK(u)'
    BY <1>1, VoiceSession
  <1>2. ASSUME NEW n \in Numberings(channel), ReconcileVoiceGuild(n) PROVE SessionOK(u)'
    BY <1>2, ReconciledSession
  <1>3. ASSUME NEW v \in User, NEW hash \in Role, MemberJoins(v, hash) \/ RolesChange(v, hash) PROVE SessionOK(u)'
    <2>1. Seen("member", v) \/ Missed("member", v)
      BY <1>3 DEF MemberJoins, RolesChange, MemberTold
    <2>2. unseen'["voice"] = unseen["voice"]
      BY <2>1, TypesUnfolded DEF Seen, Missed
    <2>3. UNCHANGED <<session, channel>>
      BY <1>3 DEF MemberJoins, RolesChange, voiceTables
    <2> QED BY <2>2, <2>3, SessionsKept
  <1>4. ASSUME NEW v \in User, NEW n \in Numberings([channel EXCEPT ![v] = None]), MemberLeaves(v, n) PROVE SessionOK(u)'
    BY <1>4, LeftSession
  <1>5. ASSUME NEW v \in User, NEW hash \in Role \cup {Absent}, UnseenMember(v, hash) PROVE SessionOK(u)'
    BY <1>5, UnseenSession
  <1>6. ASSUME NEW cached \in SUBSET User, NEW index \in [cached -> 0..Cardinality(cached) - 1],
               SyncMemberGuild(cached, index)
        PROVE  SessionOK(u)'
    <2>1. UNCHANGED <<session, channel>> /\ unseen'["voice"] = unseen["voice"]
      BY <1>6, TypesUnfolded DEF SyncMemberGuild, discord, voiceTables
    <2> QED BY <2>1, SessionsKept
  <1>7. ASSUME NEW h \in handlers, ReactionRecorded(h) \/ ReactionDropped(h) PROVE SessionOK(u)'
    BY <1>7, SessionsKept DEF ReactionRecorded, ReactionDropped, discord, voiceTables
  <1>8. CASE (\E add \in BOOLEAN : ReactionArrives(add)) \/ UnseenReaction
    BY <1>8, SessionsKept DEF ReactionArrives, UnseenReaction, voiceTables
  <1>9. CASE Start \/ Crash \/ ConnectionLost \/ NewSession \/ Tick \/ UNCHANGED vars
    <2>1. UNCHANGED <<session, channel, unseen>>
      BY <1>9 DEF Start, Crash, ConnectionLost, NewSession, Tick, vars, discord, voiceTables
    <2> QED BY <2>1, SessionsKept
  <1> QED BY <1>1, <1>2, <1>3, <1>4, <1>5, <1>6, <1>7, <1>8, <1>9 DEF Next

LEMMA MembersKept ==
  ASSUME UNCHANGED <<member, roles>>, unseen'["member"] = unseen["member"], NEW u \in User, MemberOK(u)
  PROVE  MemberOK(u)'
  BY DEF MemberOK

Shows(row, hash) == row.known /\ row.roles = hash

(* An event that is understood leaves the row of its user as he is now. *)
LEMMA UnderstoodRow ==
  ASSUME NEW u \in User, NEW type, NEW hash, NEW s, Understood(u, type, s),
         \/ type \in {"join", "update"} /\ hash # Absent
         \/ type = "leave" /\ hash = Absent
  PROVE  Shows(MemberAfter(member[u], type, hash, s), hash)
  <1>1. ~Stale(member[u], s) /\ ~(type = "join" /\ Present(member[u]))
    BY DEF Understood
  <1>2. CASE SameMember(member[u], type, hash)
    <2>1. MemberAfter(member[u], type, hash, s) = member[u]
      BY <1>2 DEF MemberAfter
    <2>2. Shows(member[u], hash)
      BY <1>1, <1>2 DEF SameMember, Present, Shows
    <2> QED BY <2>1, <2>2
  <1>3. CASE ~SameMember(member[u], type, hash)
    BY <1>1, <1>3 DEF MemberAfter, Shows
  <1> QED BY <1>2, <1>3

LEMMA ToldRow ==
  ASSUME TypeOK, NEW v \in User, NEW type, NEW hash, NEW now,
         \/ type \in {"join", "update"} /\ hash # Absent
         \/ type = "leave" /\ hash = Absent,
         roles' = [roles EXCEPT ![v] = hash],
         RecordMember(v, type, hash, now) \/ UNCHANGED <<member, count>>,
         v \notin unseen'["member"] => RecordMember(v, type, hash, now) /\ Understood(v, type, nextSourceSequence),
         unseen["member"] \ {v} \subseteq unseen'["member"],
         NEW u \in User, MemberOK(u)
  PROVE  MemberOK(u)'
  <1>1. roles'[v] = hash /\ \A w \in User : w # v => roles'[w] = roles[w]
    BY TypesUnfolded
  <1>2. CASE u # v
    <2>1. member'[u] = member[u]
      BY <1>2, TypesUnfolded DEF RecordMember
    <2> QED BY <1>1, <1>2, <2>1 DEF MemberOK
  <1>3. CASE v \in unseen'["member"]
    BY <1>2, <1>3 DEF MemberOK
  <1>4. CASE u = v /\ v \notin unseen'["member"]
    <2>1. RecordMember(v, type, hash, now) /\ Understood(v, type, nextSourceSequence)
      BY <1>4
    <2>2. member'[v] = MemberAfter(member[v], type, hash, nextSourceSequence)
      BY <2>1, TypesUnfolded DEF RecordMember
    <2>3. Shows(MemberAfter(member[v], type, hash, nextSourceSequence), hash)
      BY <2>1, UnderstoodRow
    <2>4. Shows(member'[v], hash)
      BY <2>2, <2>3
    <2> QED BY <1>1, <1>4, <2>4 DEF MemberOK, Shows
  <1> QED BY <1>2, <1>3, <1>4

LEMMA ToldMember ==
  ASSUME TypeOK, NEW v \in User, NEW hash \in Role, MemberJoins(v, hash) \/ RolesChange(v, hash),
         NEW u \in User, MemberOK(u)
  PROVE  MemberOK(u)'
  <1>1. hash # Absent /\ roles' = [roles EXCEPT ![v] = hash]
    BY Bounds DEF MemberJoins, RolesChange
  <1>2. PICK type \in {"join", "update"}, now \in {MembersNow, MembersNow + 1} : MemberTold(v, type, hash, now)
    BY DEF MemberJoins, RolesChange
  <1>3. Seen("member", v) => unseen'["member"] = unseen["member"] \ {v}
    BY TypesUnfolded DEF Seen
  <1>4. Missed("member", v) => unseen'["member"] = unseen["member"] \cup {v}
    BY TypesUnfolded DEF Missed
  <1>5. RecordMember(v, type, hash, now) \/ UNCHANGED <<member, count>>
    BY <1>2 DEF MemberTold
  <1>6. Missed("member", v) \/ (Seen("member", v) /\ RecordMember(v, type, hash, now) /\ Understood(v, type, nextSourceSequence))
    BY <1>2 DEF MemberTold
  <1>7. /\ v \notin unseen'["member"] => RecordMember(v, type, hash, now) /\ Understood(v, type, nextSourceSequence)
        /\ unseen["member"] \ {v} \subseteq unseen'["member"]
    <2>1. CASE Missed("member", v)
      BY <1>4, <2>1
    <2>2. CASE ~Missed("member", v)
      BY <1>3, <1>6, <2>2
    <2> QED BY <2>1, <2>2
  <1> QED BY <1>1, <1>5, <1>7, ToldRow

LEMMA LeftMember ==
  ASSUME TypeOK, NEW v \in User, NEW n \in Numberings([channel EXCEPT ![v] = None]), MemberLeaves(v, n),
         NEW u \in User, MemberOK(u)
  PROVE  MemberOK(u)'
  <1>1. roles' = [roles EXCEPT ![v] = Absent] /\ RecordMember(v, "leave", Absent, MembersNow - 1)
    BY DEF MemberLeaves
  <1>2. unseen'["member"] = IF Understood(v, "leave", nextSourceSequence)
                              THEN unseen["member"] \ {v} ELSE unseen["member"] \cup {v}
    BY TypesUnfolded DEF MemberLeaves
  <1>3. v \notin unseen'["member"] => Understood(v, "leave", nextSourceSequence)
    BY <1>2
  <1>4. unseen["member"] \ {v} \subseteq unseen'["member"]
    BY <1>2
  <1> QED BY <1>1, <1>3, <1>4, ToldRow

LEMMA SyncedMember ==
  ASSUME TypeOK, NEW cached \in SUBSET User, NEW index \in [cached -> 0..Cardinality(cached) - 1],
         SyncMemberGuild(cached, index), NEW u \in User, MemberOK(u)
  PROVE  MemberOK(u)'
  <1> DEFINE at == clock * Scale + index[u]
  <1>1. roles' = roles /\ cached \subseteq {v \in User : roles[v] # Absent}
    BY DEF SyncMemberGuild, discord
  <1>2. unseen'["member"] = unseen["member"] \ {v \in cached : ~Stale(member[v], clock * Scale + index[v])}
    BY TypesUnfolded DEF SyncMemberGuild
  <1>3. CASE u \notin cached
    <2>1. member'[u] = member[u]
      BY <1>3 DEF SyncMemberGuild
    <2> QED BY <1>1, <1>2, <1>3, <2>1 DEF MemberOK
  <1>4. CASE u \in cached
    <2>1. member'[u] = MemberAfter(member[u], "sync", roles[u], at) /\ roles[u] # Absent
      BY <1>1, <1>4 DEF SyncMemberGuild
    <2>2. CASE Stale(member[u], at)
      BY <1>1, <1>2, <2>1, <2>2 DEF MemberAfter, MemberOK
    <2>3. CASE ~Stale(member[u], at)
      <3>1. member'[u].known /\ member'[u].roles = roles[u]
        BY <2>1, <2>3 DEF MemberAfter, SameMember, Present
      <3> QED BY <1>1, <3>1 DEF MemberOK
    <2> QED BY <2>2, <2>3
  <1> QED BY <1>3, <1>4

LEMMA MemberStep ==
  ASSUME TypeOK, [Next]_vars, NEW u \in User, MemberOK(u)
  PROVE  MemberOK(u)'
  <1>1. ASSUME NEW v \in User, NEW to \in Channel \cup {None}, VoiceEvent(v, to) \/ UnseenVoice(v, to)
        PROVE  MemberOK(u)'
    <2>1. UNCHANGED <<member, roles>> /\ (Seen("voice", v) \/ Missed("voice", v))
      BY <1>1 DEF VoiceEvent, UnseenVoice, memberTables
    <2>2. unseen'["member"] = unseen["member"]
      BY <2>1, TypesUnfolded DEF Seen, Missed
    <2> QED BY <2>1, <2>2, MembersKept
  <1>2. ASSUME NEW n \in Numberings(channel), ReconcileVoiceGuild(n) PROVE MemberOK(u)'
    <2>1. UNCHANGED <<member, roles>> /\ unseen'["member"] = unseen["member"]
      BY <1>2, TypesUnfolded DEF ReconcileVoiceGuild, discord, memberTables
    <2> QED BY <2>1, MembersKept
  <1>3. ASSUME NEW v \in User, NEW hash \in Role, MemberJoins(v, hash) \/ RolesChange(v, hash) PROVE MemberOK(u)'
    BY <1>3, ToldMember
  <1>4. ASSUME NEW v \in User, NEW n \in Numberings([channel EXCEPT ![v] = None]), MemberLeaves(v, n) PROVE MemberOK(u)'
    BY <1>4, LeftMember
  <1>5. ASSUME NEW v \in User, NEW hash \in Role \cup {Absent}, UnseenMember(v, hash) PROVE MemberOK(u)'
    <2>1. member' = member /\ roles' = [roles EXCEPT ![v] = hash]
      BY <1>5 DEF UnseenMember, memberTables
    <2>2. unseen'["member"] = unseen["member"] \cup {v}
      BY <1>5, TypesUnfolded DEF UnseenMember
    <2> QED BY <2>1, <2>2, TypesUnfolded DEF MemberOK
  <1>6. ASSUME NEW cached \in SUBSET User, NEW index \in [cached -> 0..Cardinality(cached) - 1],
               SyncMemberGuild(cached, index)
        PROVE  MemberOK(u)'
    BY <1>6, SyncedMember
  <1>7. ASSUME NEW h \in handlers, ReactionRecorded(h) \/ ReactionDropped(h) PROVE MemberOK(u)'
    BY <1>7, MembersKept DEF ReactionRecorded, ReactionDropped, discord, memberTables
  <1>8. CASE (\E add \in BOOLEAN : ReactionArrives(add)) \/ UnseenReaction
    BY <1>8, MembersKept DEF ReactionArrives, UnseenReaction, memberTables
  <1>9. CASE Start \/ Crash \/ ConnectionLost \/ NewSession \/ Tick \/ UNCHANGED vars
    <2>1. UNCHANGED <<member, roles, unseen>>
      BY <1>9 DEF Start, Crash, ConnectionLost, NewSession, Tick, vars, discord, memberTables
    <2> QED BY <2>1, MembersKept
  <1> QED BY <1>1, <1>2, <1>3, <1>4, <1>5, <1>6, <1>7, <1>8, <1>9 DEF Next

(* A handler takes a sequence larger than the recorded one. *)
LEMMA RecordedReaction ==
  ASSUME TypeOK, Ordered, NEW h \in handlers, ReactionRecorded(h), handlers' = {}, ~unsure'
  PROVE  (reaction'.known /\ reaction'.active) = reacted'
  <1>1. h.add = reacted /\ reacted' = reacted /\ reaction' = ReactionAfter(reaction, h.add, nextSourceSequence)
    BY DEF ReactionRecorded, discord
  <1>2. nextSourceSequence \in Nat /\ reaction.sequence \in Int /\ reaction.sequence < nextSourceSequence
    <2>1. link # "down"
      BY DEF ReactionRecorded
    <2>2. reaction.sequence < nextSourceSequence
      BY <2>1 DEF Ordered, Floor
    <2>3. nextSourceSequence \in Nat
      BY NextSequence DEF Ordered
    <2>4. reaction.sequence \in Int
      BY TypesUnfolded DEF ReactionRow, Sequence
    <2> QED BY <2>2, <2>3, <2>4
  <1>3. ~(nextSourceSequence < reaction.sequence)
    BY <1>2
  <1>4. h.add \in BOOLEAN /\ reaction.active \in BOOLEAN /\ reaction.known \in BOOLEAN
    BY TypesUnfolded DEF ReactionRow
  <1>5. CASE reaction.known /\ reaction.active = h.add
    <2>1. reaction' = reaction
      BY <1>1, <1>5 DEF ReactionAfter
    <2> QED BY <1>1, <1>4, <1>5, <2>1
  <1>6. CASE ~(reaction.known /\ reaction.active = h.add)
    <2>1. reaction' = [active |-> h.add, known |-> TRUE, sequence |-> nextSourceSequence]
      BY <1>1, <1>3, <1>6 DEF ReactionAfter
    <2> QED BY <1>1, <1>4, <2>1
  <1> QED BY <1>5, <1>6

LEMMA ReactionKept ==
  ASSUME ReactionRowIsReal, UNCHANGED <<reaction, reacted>>, handlers' = {} => handlers = {}, ~unsure' => ~unsure
  PROVE  ReactionRowIsReal'
  BY DEF ReactionRowIsReal

LEMMA ReactionStep == ASSUME TypeOK, Ordered, [Next]_vars, ReactionRowIsReal PROVE ReactionRowIsReal'
  <1>1. ASSUME NEW u \in User, NEW to \in Channel \cup {None}, VoiceEvent(u, to) \/ UnseenVoice(u, to)
        PROVE  ReactionRowIsReal'
    BY <1>1, ReactionKept DEF VoiceEvent, UnseenVoice, reactionTables
  <1>2. ASSUME NEW n \in Numberings(channel), ReconcileVoiceGuild(n) PROVE ReactionRowIsReal'
    BY <1>2, ReactionKept DEF ReconcileVoiceGuild, discord, reactionTables
  <1>3. ASSUME NEW u \in User, NEW hash \in Role, MemberJoins(u, hash) \/ RolesChange(u, hash)
        PROVE  ReactionRowIsReal'
    BY <1>3, ReactionKept DEF MemberJoins, RolesChange, reactionTables
  <1>4. ASSUME NEW u \in User, NEW n \in Numberings([channel EXCEPT ![u] = None]), MemberLeaves(u, n)
        PROVE  ReactionRowIsReal'
    BY <1>4, ReactionKept DEF MemberLeaves, reactionTables
  <1>5. ASSUME NEW u \in User, NEW hash \in Role \cup {Absent}, UnseenMember(u, hash) PROVE ReactionRowIsReal'
    BY <1>5, ReactionKept DEF UnseenMember, reactionTables
  <1>6. ASSUME NEW cached \in SUBSET User, NEW index \in [cached -> 0..Cardinality(cached) - 1],
               SyncMemberGuild(cached, index)
        PROVE  ReactionRowIsReal'
    BY <1>6, ReactionKept DEF SyncMemberGuild, discord, reactionTables
  <1>7. ASSUME NEW h \in handlers, ReactionRecorded(h) PROVE ReactionRowIsReal'
    BY <1>7, RecordedReaction DEF ReactionRowIsReal
  <1>8. ASSUME NEW h \in handlers, ReactionDropped(h) PROVE ReactionRowIsReal'
    BY <1>8 DEF ReactionDropped, ReactionRowIsReal
  <1>9. ASSUME NEW add \in BOOLEAN, ReactionArrives(add) PROVE ReactionRowIsReal'
    BY <1>9 DEF ReactionArrives, ReactionRowIsReal
  <1>10. CASE UnseenReaction
    BY <1>10 DEF UnseenReaction, ReactionRowIsReal
  <1>11. CASE Crash
    <2>1. UNCHANGED <<reaction, reacted>> /\ unsure' = (unsure \/ handlers # {})
      BY <1>11 DEF Crash, discord
    <2> QED BY <2>1 DEF ReactionRowIsReal
  <1>12. CASE Start \/ ConnectionLost \/ NewSession \/ Tick \/ UNCHANGED vars
    <2>1. UNCHANGED <<reaction, reacted, handlers, unsure>>
      BY <1>12 DEF Start, ConnectionLost, NewSession, Tick, vars, discord, reactionTables
    <2> QED BY <2>1, ReactionKept
  <1> QED BY <1>1, <1>2, <1>3, <1>4, <1>5, <1>6, <1>7, <1>8, <1>9, <1>10, <1>11, <1>12 DEF Next
-----------------------------------------------------------------------------
(* The theorems *)

Events == TypeOK /\ Ordered /\ RowsAreReal

LEMMA EventsUnfolded ==
  Events <=> TypeOK /\ Ordered /\ (\A u \in User : SessionOK(u)) /\ (\A u \in User : MemberOK(u)) /\ ReactionRowIsReal
  BY DEF Events, RowsAreReal, OpenSessionIsLive, MemberRowIsReal, SessionOK, MemberOK

LEMMA InitTypes == ASSUME Init PROVE TypeOK
  <1>1. 0 \in 0..MaxMs /\ 0 \in Sequence /\ -1 \in Sequence /\ 0 \in 0..MaxChanges /\ 0 \in 0..Cardinality(User)
        /\ -1 \in -1..MaxMs
    <2>1. 0 \in 0..MaxMs
      BY Bounds
    <2>2. 0 \in Sequence /\ -1 \in Sequence
      <3>1. \A s \in Int : -1 <= s /\ s < (0 + 1) * Scale => s \in Sequence
        BY <2>1, SequenceRange
      <3>2. (0 + 1) * Scale = Scale
        BY Bounds
      <3> QED BY <3>1, <3>2, Bounds
    <2> QED BY <2>1, <2>2, Bounds
  <1>2. [u \in User |-> NoSession] \in [User -> SessionRow]
    BY <1>1 DEF NoSession, SessionRow
  <1>3. NoRow \in MemberRow /\ NoReaction \in ReactionRow /\ [value |-> 0, sequence |-> -1] \in CountRow
    BY <1>1 DEF NoRow, MemberRow, NoReaction, ReactionRow, CountRow
  <1>4. session \in [User -> SessionRow] /\ lastVoice \in [User -> Sequence] /\ member \in [User -> MemberRow]
        /\ count \in CountRow /\ reaction \in ReactionRow
    BY <1>1, <1>2, <1>3 DEF Init
  <1>5. channel \in [User -> Channel \cup {None}] /\ roles \in [User -> Role \cup {Absent}]
        /\ unseen \in [{"voice", "member"} -> SUBSET User]
    BY DEF Init
  <1>6. /\ clock \in 0..MaxMs /\ link \in {"down", "up", "cut"} /\ stamp \in Sequence /\ changes \in 0..MaxChanges
        /\ reacted \in BOOLEAN /\ (\A h \in handlers : h \in [number : 1..MaxChanges, add : BOOLEAN])
        /\ baselineAt \in -1..MaxMs /\ unsure \in BOOLEAN
    BY <1>1 DEF Init
  <1> QED BY <1>4, <1>5, <1>6 DEF TypeOK, SessionRow, MemberRow, CountRow, ReactionRow

LEMMA InitOrdered == ASSUME Init PROVE Ordered
  <1>1. clock = 0 /\ link = "down" /\ stamp = 0 /\ baselineAt = -1
    BY DEF Init
  <1>2. count.sequence = -1 /\ reaction.sequence = -1 /\ \A u \in User : member[u].sequence = -1
    BY DEF Init, NoReaction, NoRow
  <1>3. Floor = 0 /\ (0 + 1) * Scale > 0
    BY <1>1, Bounds DEF Floor
  <1> QED BY <1>1, <1>2, <1>3 DEF Ordered, Numbered

LEMMA InitEvents == ASSUME Init PROVE Events
  <1>1. \A u \in User : SessionOK(u) /\ MemberOK(u)
    BY DEF Init, SessionOK, MemberOK, NoSession
  <1>2. ReactionRowIsReal
    BY DEF Init, ReactionRowIsReal, NoReaction
  <1> QED BY <1>1, <1>2, InitTypes, InitOrdered, EventsUnfolded

LEMMA EventsStep == ASSUME Events, [Next]_vars PROVE Events'
  <1>1. TypeOK /\ Ordered /\ (\A u \in User : SessionOK(u) /\ MemberOK(u)) /\ ReactionRowIsReal
    BY EventsUnfolded
  <1>2. TypeOK' /\ Ordered' /\ ReactionRowIsReal'
    BY <1>1, TypesStep, OrderedStep, ReactionStep
  <1>3. \A u \in User : SessionOK(u)' /\ MemberOK(u)'
    BY <1>1, SessionStep, MemberStep
  <1>4. OpenSessionIsLive'
    BY <1>3 DEF OpenSessionIsLive, SessionOK
  <1>5. MemberRowIsReal'
    BY <1>3 DEF MemberRowIsReal, MemberOK
  <1> QED BY <1>2, <1>4, <1>5 DEF Events, RowsAreReal

THEOREM EventsHold == Spec => []Events
  <1>1. Init => Events
    BY InitEvents
  <1>2. Events /\ [Next]_vars => Events'
    BY EventsStep
  <1> QED BY <1>1, <1>2, PTL DEF Spec

(* A sequence no live event can take is one the last baseline may have given. *)
LEMMA RefusedMeansNear ==
  ASSUME TypeOK, Ordered, NEW s \in Int, Numbered(s), nextSourceSequence < s
  PROVE  baselineAt # -1 /\ (clock - baselineAt) * Scale < Cardinality(User)
  <1>1. nextSourceSequence \in Nat /\ nextSourceSequence >= clock * Scale /\ clock * Scale \in Nat
    BY NextSequence DEF Ordered
  <1>2. Floor \in Nat /\ Floor <= nextSourceSequence
    BY <1>1 DEF Floor
  <1>3. NearBaseline(s)
    BY <1>2, <1>1 DEF Numbered
  <1>4. baselineAt \in Nat /\ clock \in Nat /\ baselineAt <= clock /\ s <= baselineAt * Scale + Cardinality(User)
    BY <1>3, TypesUnfolded, Bounds DEF NearBaseline, Ordered
  <1>5. baselineAt * Scale \in Nat /\ (clock - baselineAt) * Scale = clock * Scale - baselineAt * Scale
    BY <1>4, Instants
  <1>6. clock * Scale < baselineAt * Scale + Cardinality(User)
    <2> DEFINE b == baselineAt * Scale
               c == clock * Scale
    <2>1. b \in Nat /\ c \in Nat /\ c <= nextSourceSequence /\ s <= b + Cardinality(User)
      BY <1>1, <1>4, <1>5
    <2> HIDE DEF b, c
    <2>2. c < b + Cardinality(User)
      BY <1>1, <2>1, Bounds
    <2> QED BY <2>2 DEF b, c
  <1> QED BY <1>1, <1>4, <1>5, <1>6, Bounds

LEMMA OrderedRefuses == ASSUME TypeOK, Ordered PROVE RefusedOnlyNearBaseline
  <1>1. Sequence \subseteq Int
    BY DEF Sequence
  <1>2. ASSUME NEW u \in User, Stale(member[u], nextSourceSequence)
        PROVE  baselineAt # -1 /\ (clock - baselineAt) * Scale < Cardinality(User)
    <2>1. nextSourceSequence < member[u].sequence /\ member[u].sequence \in Int /\ Numbered(member[u].sequence)
      BY <1>1, <1>2, TypesUnfolded DEF Stale, MemberRow, Ordered
    <2> QED BY <2>1, RefusedMeansNear
  <1>3. ASSUME nextSourceSequence < count.sequence
        PROVE  baselineAt # -1 /\ (clock - baselineAt) * Scale < Cardinality(User)
    <2>1. count.sequence \in Int /\ Numbered(count.sequence)
      BY <1>1, TypesUnfolded DEF CountRow, Ordered
    <2> QED BY <1>3, <2>1, RefusedMeansNear
  <1> QED BY <1>2, <1>3 DEF RefusedOnlyNearBaseline

(* Every sequence, session and row stays in its range. *)
THEOREM TypeCorrect == Spec => []TypeOK
  <1>1. Events => TypeOK
    BY DEF Events
  <1> QED BY <1>1, EventsHold, PTL

(* The open voice sessions, member rows and the reaction row of a guild of any
   size show Discord as it is, but for what was missed, refused or failed. *)
THEOREM TablesAreReal == Spec => []RowsAreReal
  <1>1. Events => RowsAreReal
    BY DEF Events
  <1> QED BY <1>1, EventsHold, PTL

(* Over any number of restarts, a live member event is refused, or its count
   ignored, only within the milliseconds whose sequences a baseline used up. *)
THEOREM RefusalsAreNearBaseline == Spec => []RefusedOnlyNearBaseline
  <1>1. Events => RefusedOnlyNearBaseline
    BY OrderedRefuses DEF Events
  <1> QED BY <1>1, EventsHold, PTL
=============================================================================
