------------------------------ MODULE LocalEvents ------------------------------
(***************************************************************************)
(* The voice, member and reaction state the bot keeps in SQLite for one    *)
(* guild: lib/event-local-first.mjs routes gateway events, restart         *)
(* recovery and the member baseline to lib/storage/repositories/           *)
(* analytics-events.mjs, one transaction each.                             *)
(*                                                                         *)
(* Events the bot is not connected for, and writes that fail, are lost.    *)
(* A live event takes its sequence from a counter that follows the clock,  *)
(* in 1/Scale ms; recovery and baseline number their rows from the same    *)
(* instant on without that counter.                                        *)
(*                                                                         *)
(* unseen and unsure are ghosts: what the database cannot know.            *)
(***************************************************************************)
EXTENDS Integers, FiniteSets, FiniteSetsExt, Functions

CONSTANTS
  User,        \* members of the guild that are not bots
  Channel,     \* voice channels
  None,        \* in no channel
  Role,        \* sets of roles, by their hash
  Absent,      \* not in the guild
  Scale,       \* sequences per millisecond (1000 in the code)
  MaxMs,       \* bound: the clock stops here
  MaxChanges   \* bound: changes in Discord

ASSUME UserAssumption == IsFiniteSet(User)
ASSUME NoneAssumption == None \notin Channel
ASSUME AbsentAssumption == Absent \notin Role
ASSUME BoundsAssumption == Scale \in Nat \ {0} /\ MaxMs \in Nat /\ MaxChanges \in Nat

VARIABLES
  clock, link, stamp,           \* link: the bot is down, connected, or cut off
  changes,                      \* changes in Discord so far
  channel, roles, reacted,      \* Discord: voice channel, roles, one reaction
  session, lastVoice,           \* local_voice_session (open ones), MAX(source_sequence)
  member, count,                \* local_member_state, local_member_guild_state
  reaction, handlers,           \* local_reaction_state, handlers awaiting Discord
  baselineAt,                   \* ghost: when the last baseline was recorded
  unseen, unsure                \* ghosts: users, by table, and whether the reaction

discord == <<changes, channel, roles, reacted>>
voiceTables == <<session, lastVoice>>
memberTables == <<member, count, baselineAt>>
reactionTables == <<reaction, handlers, unsure>>
vars == <<clock, link, stamp, discord, voiceTables, memberTables, reactionTables, unseen>>

Sequence == -1..(MaxMs + 1) * Scale + Cardinality(User)

NoSession == [channel |-> None, startedAt |-> 0, recovered |-> FALSE]

NoRow == [roles |-> Absent, known |-> FALSE, sequence |-> -1]

NoReaction == [active |-> FALSE, known |-> FALSE, sequence |-> -1]

MembersNow == Cardinality({u \in User : roles[u] # Absent})

TypeOK ==
  /\ clock \in 0..MaxMs /\ link \in {"down", "up", "cut"}
  /\ stamp \in Sequence /\ changes \in 0..MaxChanges
  /\ channel \in [User -> Channel \cup {None}]
  /\ roles \in [User -> Role \cup {Absent}]
  /\ reacted \in BOOLEAN
  /\ session \in [User -> [channel : Channel \cup {None}, startedAt : 0..MaxMs, recovered : BOOLEAN]]
  /\ lastVoice \in [User -> Sequence]
  /\ member \in [User -> [roles : Role \cup {Absent}, known : BOOLEAN, sequence : Sequence]]
  /\ count \in [value : 0..Cardinality(User), sequence : Sequence]
  /\ reaction \in [active : BOOLEAN, known : BOOLEAN, sequence : Sequence]
  /\ \A h \in handlers : h \in [number : 1..MaxChanges, add : BOOLEAN]
  /\ baselineAt \in -1..MaxMs
  /\ unseen \in [{"voice", "member"} -> SUBSET User]
  /\ unsure \in BOOLEAN

Init ==
  /\ clock = 0 /\ link = "down" /\ stamp = 0 /\ changes = 0
  /\ channel = [u \in User |-> None]
  /\ roles \in [User -> Role]
  /\ reacted = FALSE
  /\ session = [u \in User |-> NoSession] /\ lastVoice = [u \in User |-> -1]
  /\ member = [u \in User |-> NoRow] /\ count = [value |-> 0, sequence |-> -1]
  /\ reaction = NoReaction /\ handlers = {} /\ baselineAt = -1
  /\ unseen = [t \in {"voice", "member"} |-> IF t = "member" THEN User ELSE {}]
  /\ unsure = FALSE

Seen(table, u) == unseen' = [unseen EXCEPT ![table] = @ \ {u}]

Missed(table, u) == unseen' = [unseen EXCEPT ![table] = @ \cup {u}]

Change == changes < MaxChanges /\ changes' = changes + 1

(* Mutant: the sequence is the time in milliseconds. *)
nextSourceSequence_Milliseconds == IF clock > stamp THEN clock ELSE stamp + 1

nextSourceSequence == IF clock * Scale > stamp THEN clock * Scale ELSE stamp + 1

(* Fewer than Scale live events per millisecond. *)
TakeSequence ==
  /\ nextSourceSequence < (clock + 1) * Scale
  /\ stamp' = nextSourceSequence
-----------------------------------------------------------------------------
(* Voice *)

Refuses(u, sequence) == lastVoice[u] # -1 /\ sequence <= lastVoice[u]

EventType(previous, to) ==
  IF previous = None THEN "join" ELSE IF to = None THEN "leave" ELSE "move"

(* Mutant: an open session in another channel also makes a join a duplicate. *)
Duplicate_AnySession(current, type, to) ==
  \/ type \in {"join", "move"} /\ current # NoSession
  \/ type = "leave" /\ current = NoSession

Duplicate(current, type, to) ==
  \/ type \in {"join", "move"} /\ current.channel = to
  \/ type = "leave" /\ current = NoSession

(* Mutant: a session starts at a sequence, not at a time. *)
NextSession_StartsAtSequence(to, recovered) ==
  IF to = None THEN NoSession
  ELSE [channel |-> to, startedAt |-> clock * Scale, recovered |-> recovered]

(* closeVoiceSession and openVoiceSession *)
NextSession(to, recovered) ==
  IF to = None THEN NoSession ELSE [channel |-> to, startedAt |-> clock, recovered |-> recovered]

(* recordVoiceTransition of a gateway event, not refused for its sequence *)
RecordVoice(u, previous, to, sequence) ==
  IF Duplicate(session[u], EventType(previous, to), to)
    THEN UNCHANGED voiceTables
    ELSE /\ session' = [session EXCEPT ![u] = NextSession(to, FALSE)]
         /\ lastVoice' = [lastVoice EXCEPT ![u] = sequence]

(* The router's voice: the handler runs to its commit before anything else. *)
VoiceEvent(u, to) ==
  /\ link = "up" /\ roles[u] # Absent /\ to # channel[u]
  /\ Change /\ TakeSequence
  /\ channel' = [channel EXCEPT ![u] = to]
  /\ \/ /\ ~Refuses(u, nextSourceSequence)
        /\ RecordVoice(u, channel[u], to, nextSourceSequence)
        /\ Seen("voice", u)
     \/ UNCHANGED voiceTables /\ Missed("voice", u)   \* refused, or the write failed
  /\ UNCHANGED <<clock, link, roles, reacted, memberTables, reactionTables>>

(* The users reconcileVoiceSessions records a transition for: those with an
   open session elsewhere, in user order, and then those without. *)
Moved(live) == {u \in User : session[u] # NoSession /\ session[u].channel # live[u]}

Arrived(live) == {u \in User : session[u] = NoSession /\ live[u] # None}

Numberings(live) ==
  LET all == Moved(live) \cup Arrived(live)
  IN {n \in [all -> 0..Cardinality(all) - 1] :
        /\ IsInjective(n)
        /\ \A u \in Moved(live), v \in Arrived(live) : n[u] < n[v]}

(* The users whose transition is not refused for its recovery sequence. *)
Recovered(live, n) == DOMAIN n \ {u \in DOMAIN n : Refuses(u, clock * Scale + n[u])}

(* reconcileVoiceSessions: durations it ends are unknown. *)
Reconcile(live, n) ==
  LET done == Recovered(live, n)
  IN /\ session' = [u \in User |-> IF u \in done THEN NextSession(live[u], TRUE) ELSE session[u]]
     /\ lastVoice' = [u \in User |-> IF u \in done THEN clock * Scale + n[u] ELSE lastVoice[u]]

(* reconcileVoiceGuild at startup and when the bot is invited again *)
ReconcileVoiceGuild(n) ==
  /\ link = "up"
  /\ n \in Numberings(channel)
  /\ Reconcile(channel, n)
  /\ unseen' = [unseen EXCEPT !["voice"] = @ \cap {u \in DOMAIN n : Refuses(u, clock * Scale + n[u])}]
  /\ UNCHANGED <<clock, link, stamp, discord, memberTables, reactionTables>>
-----------------------------------------------------------------------------
(* Members *)

(* updateGuildMemberCount: an equal sequence wins. *)
CountAfter(value, sequence) ==
  IF sequence >= count.sequence THEN [value |-> value, sequence |-> sequence] ELSE count

Present(row) == row.known /\ row.roles # Absent

(* What recordMemberTransition leaves alone, but for its sequence. *)
SameMember(row, type, hash) ==
  \/ type = "join" /\ Present(row)
  \/ type = "leave" /\ row.known /\ ~Present(row)
  \/ type \in {"update", "sync"} /\ Present(row) /\ row.roles = hash

Stale(row, sequence) == row.known /\ sequence < row.sequence

MemberAfter(row, type, hash, sequence) ==
  IF Stale(row, sequence) \/ SameMember(row, type, hash)
    THEN row ELSE [roles |-> hash, known |-> TRUE, sequence |-> sequence]

(* A join of a user who is recorded as present follows a leave nobody saw. *)
Understood(u, type, sequence) ==
  ~Stale(member[u], sequence) /\ ~(type = "join" /\ Present(member[u]))

(* The router's member: join, leave and a change of roles.  now: members. *)
RecordMember(u, type, hash, now) ==
  /\ member' = [member EXCEPT ![u] = MemberAfter(@, type, hash, nextSourceSequence)]
  /\ count' = CountAfter(now, nextSourceSequence)

MemberTold(u, type, hash, now) ==
  \/ /\ RecordMember(u, type, hash, now)
     /\ IF Understood(u, type, nextSourceSequence) THEN Seen("member", u) ELSE Missed("member", u)
  \/ UNCHANGED <<member, count>> /\ Missed("member", u)    \* the write failed

MemberJoins(u, hash) ==
  /\ link = "up" /\ roles[u] = Absent /\ hash # Absent
  /\ Change /\ TakeSequence
  /\ roles' = [roles EXCEPT ![u] = hash]
  /\ MemberTold(u, "join", hash, MembersNow + 1)
  /\ UNCHANGED <<clock, link, channel, reacted, voiceTables, baselineAt, reactionTables>>

RolesChange(u, hash) ==
  /\ link = "up" /\ roles[u] # Absent /\ hash \notin {Absent, roles[u]}
  /\ Change /\ TakeSequence
  /\ roles' = [roles EXCEPT ![u] = hash]
  /\ MemberTold(u, "update", hash, MembersNow)
  /\ UNCHANGED <<clock, link, channel, reacted, voiceTables, baselineAt, reactionTables>>

(* guildMemberRemove records the leave and reconciles the voice sessions; a
   member in a channel has left it in the cache by then.  The update of the
   voice state, before or after, is an event of its own. *)
MemberLeaves(u, n) ==
  LET live == [channel EXCEPT ![u] = None]
  IN /\ link = "up" /\ roles[u] # Absent
     /\ Change /\ TakeSequence
     /\ roles' = [roles EXCEPT ![u] = Absent]
     /\ channel' = live
     /\ n \in Numberings(live)
     /\ Reconcile(live, n)
     /\ RecordMember(u, "leave", Absent, MembersNow - 1)
     /\ unseen' = [unseen EXCEPT
                     !["voice"] = (IF channel[u] # None THEN @ \cup {u} ELSE @)
                                    \cap {v \in DOMAIN n : Refuses(v, clock * Scale + n[v])},
                     !["member"] = IF Understood(u, "leave", nextSourceSequence) THEN @ \ {u} ELSE @ \cup {u}]
     /\ UNCHANGED <<clock, link, reacted, baselineAt, reactionTables>>

(* syncMemberGuild: recordMemberBaseline numbers the members of the cache and
   gives the count the next number.  A failed fetch leaves some out. *)
SyncMemberGuild(cached, index) ==
  LET at(u) == clock * Scale + index[u]
  IN /\ link = "up"
     /\ cached \subseteq {u \in User : roles[u] # Absent}
     /\ IsInjective(index)
     /\ member' = [u \in User |-> IF u \in cached
                     THEN MemberAfter(member[u], "sync", roles[u], at(u)) ELSE member[u]]
     /\ count' = CountAfter(MembersNow, clock * Scale + Cardinality(cached))
     /\ baselineAt' = clock
     /\ unseen' = [unseen EXCEPT !["member"] = @ \ {u \in cached : ~Stale(member[u], at(u))}]
     /\ UNCHANGED <<clock, link, stamp, discord, voiceTables, reactionTables>>
-----------------------------------------------------------------------------
(* Reactions: the handler awaits the roles to assign and partial messages
   before it takes its sequence. *)

ReactionArrives(add) ==
  /\ link = "up" /\ add # reacted
  /\ Change
  /\ reacted' = add
  /\ handlers' = handlers \cup {[number |-> changes + 1, add |-> add]}
  /\ unsure' = FALSE
  /\ UNCHANGED <<clock, link, stamp, channel, roles, voiceTables, memberTables, reaction, unseen>>

Latest(h) == \A g \in handlers : g.number <= h.number

(* Mutant: the upsert keeps the maximum of the column, as it does for others. *)
ReactionAfter_MaxActive(row, add, sequence) ==
  IF row.known /\ (sequence < row.sequence \/ row.active = add) THEN row
  ELSE [active |-> row.active \/ add, known |-> TRUE, sequence |-> sequence]

(* recordReactionTransition *)
ReactionAfter(row, add, sequence) ==
  IF row.known /\ (sequence < row.sequence \/ row.active = add) THEN row
  ELSE [active |-> add, known |-> TRUE, sequence |-> sequence]

(* The handler of an older event that ends last has the last word. *)
ReactionRecorded(h) ==
  /\ link # "down" /\ h \in handlers
  /\ TakeSequence
  /\ reaction' = ReactionAfter(reaction, h.add, nextSourceSequence)
  /\ handlers' = handlers \ {h}
  /\ unsure' = (unsure \/ ~Latest(h) \/ h.add # reacted)
  /\ UNCHANGED <<clock, link, discord, voiceTables, memberTables, unseen>>

(* A fetch, a role change or the write failed. *)
ReactionDropped(h) ==
  /\ h \in handlers
  /\ handlers' = handlers \ {h} /\ unsure' = TRUE
  /\ UNCHANGED <<clock, link, stamp, discord, voiceTables, memberTables, reaction, unseen>>
-----------------------------------------------------------------------------
(* What the bot does not see *)

UnseenVoice(u, to) ==
  /\ link # "up" /\ roles[u] # Absent /\ to # channel[u]
  /\ Change
  /\ channel' = [channel EXCEPT ![u] = to]
  /\ Missed("voice", u)
  /\ UNCHANGED <<clock, link, stamp, roles, reacted, voiceTables, memberTables, reactionTables>>

UnseenMember(u, hash) ==
  /\ link # "up" /\ hash # roles[u]
  /\ Change
  /\ roles' = [roles EXCEPT ![u] = hash]
  /\ channel' = IF hash = Absent THEN [channel EXCEPT ![u] = None] ELSE channel
  /\ unseen' = [unseen EXCEPT !["member"] = @ \cup {u},
                              !["voice"] = IF channel' = channel THEN @ ELSE @ \cup {u}]
  /\ UNCHANGED <<clock, link, stamp, reacted, voiceTables, memberTables, reactionTables>>

UnseenReaction ==
  /\ link # "up"
  /\ Change
  /\ reacted' = ~reacted /\ unsure' = TRUE
  /\ UNCHANGED <<clock, link, stamp, channel, roles, voiceTables, memberTables,
                 reaction, handlers, unseen>>

(* A new process starts its counter again; clientReady comes with the state
   of Discord, before anything is recovered. *)
Start ==
  /\ link = "down"
  /\ link' = "up" /\ stamp' = 0
  /\ UNCHANGED <<clock, discord, voiceTables, memberTables, reactionTables, unseen>>

Crash ==
  /\ link # "down"
  /\ clock < MaxMs /\ clock' = clock + 1
  /\ link' = "down" /\ handlers' = {}
  /\ unsure' = (unsure \/ handlers # {})
  /\ UNCHANGED <<stamp, discord, voiceTables, memberTables, reaction, unseen>>

(* The gateway session is lost, and a new one begins: clientReady comes only
   once per process, so nothing is recovered. *)
ConnectionLost ==
  /\ link = "up" /\ link' = "cut"
  /\ UNCHANGED <<clock, stamp, discord, voiceTables, memberTables, reactionTables, unseen>>

NewSession ==
  /\ link = "cut" /\ link' = "up"
  /\ UNCHANGED <<clock, stamp, discord, voiceTables, memberTables, reactionTables, unseen>>

Tick ==
  /\ clock < MaxMs /\ clock' = clock + 1
  /\ UNCHANGED <<link, stamp, discord, voiceTables, memberTables, reactionTables, unseen>>
-----------------------------------------------------------------------------
Next ==
  \/ \E u \in User, to \in Channel \cup {None} : VoiceEvent(u, to) \/ UnseenVoice(u, to)
  \/ \E n \in Numberings(channel) : ReconcileVoiceGuild(n)
  \/ \E u \in User, hash \in Role : MemberJoins(u, hash) \/ RolesChange(u, hash)
  \/ \E u \in User : \E n \in Numberings([channel EXCEPT ![u] = None]) : MemberLeaves(u, n)
  \/ \E u \in User, hash \in Role \cup {Absent} : UnseenMember(u, hash)
  \/ \E cached \in SUBSET User : \E index \in [cached -> 0..Cardinality(cached) - 1] :
       SyncMemberGuild(cached, index)
  \/ \E add \in BOOLEAN : ReactionArrives(add)
  \/ \E h \in handlers : ReactionRecorded(h) \/ ReactionDropped(h)
  \/ UnseenReaction \/ Start \/ Crash \/ ConnectionLost \/ NewSession \/ Tick

Spec == Init /\ [][Next]_vars
-----------------------------------------------------------------------------
(* A user has an open session exactly in the channel he is in, unless what he
   did last was not seen, failed to be written, or was refused for its
   sequence: every live event and every recovery, in whatever order they come
   and whatever was missed before, leaves the right session open. *)
OpenSessionIsLive ==
  \A u \in User : u \in unseen["voice"] \/ session[u].channel = channel[u]

(* The same of the presence and roles of a member.  A user whose leave was
   missed stays present, and neither the baseline nor his next join corrects
   that. *)
MemberRowIsReal ==
  \A u \in User : u \in unseen["member"] \/ (member[u].known /\ member[u].roles = roles[u])

(* The recorded reaction is the one shown in Discord once no handler is under
   way, unless a handler failed, or one of an older event ended last. *)
ReactionRowIsReal ==
  handlers = {} /\ ~unsure => (reaction.known /\ reaction.active) = reacted

(* The state tables show Discord as it is, as far as the bot was told. *)
RowsAreReal == OpenSessionIsLive /\ MemberRowIsReal /\ ReactionRowIsReal

(* A live member event is refused as stale, or the count it brings ignored,
   only shortly after a baseline: less than one millisecond per Scale members
   the baseline counted, whatever process numbered the rows. *)
RefusedOnlyNearBaseline ==
  (\E u \in User : Stale(member[u], nextSourceSequence)) \/ nextSourceSequence < count.sequence
    => baselineAt # -1 /\ (clock - baselineAt) * Scale < Cardinality(User)
=============================================================================
