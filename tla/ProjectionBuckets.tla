--------------------------- MODULE ProjectionBuckets ---------------------------
(***************************************************************************)
(* The projection buckets of lib/storage/repositories/analytics-           *)
(* projections.mjs for one guild: which buckets a recorded event marks     *)
(* dirty, which it would be marked in by the bootstrap, and which buckets  *)
(* read it when their material is built.                                   *)
(*                                                                         *)
(* An event is [kind, user, channel, previous, startedAt, at]; previous    *)
(* and startedAt matter for voice: the channel that was left and the start *)
(* of the session that ended at "at".  Kind "activity" is the observation  *)
(* of an active member: it marks buckets, and no material reads it.        *)
(***************************************************************************)
EXTENDS Integers

CONSTANT DayLength   \* milliseconds per UTC day (86 400 000 in the code)

ASSUME DayLengthAssumption == DayLength \in Nat \ {0}

None == "none"        \* a NULL channel or user
NoDate == 0           \* a NULL date_utc

utcDate(ms) == ms \div DayLength + 1

utcDatesBetween(start, end) == utcDate(start) .. utcDate(end)

GuildCurrent == [kind |-> "guild_current", day |-> NoDate, channel |-> None, user |-> None]

GuildDaily(d) == [kind |-> "guild_daily", day |-> d, channel |-> None, user |-> None]

ChannelDaily(c, d) == [kind |-> "channel_daily", day |-> d, channel |-> c, user |-> None]

UserDaily(u, d) == [kind |-> "user_daily", day |-> d, channel |-> None, user |-> u]

(* markMessageEvent and markReactionEvent; a message may have no author. *)
ActivityBuckets(e) ==
  {GuildCurrent, GuildDaily(utcDate(e.at)), ChannelDaily(e.channel, utcDate(e.at))}
    \cup (IF e.user = None THEN {} ELSE {UserDaily(e.user, utcDate(e.at))})

(* markMemberEvent and markActiveMemberObservation *)
MemberBuckets(e) ==
  {GuildCurrent, GuildDaily(utcDate(e.at)), UserDaily(e.user, utcDate(e.at))}

(* Mutant: a session that ended is counted on its last day only. *)
VoiceBuckets_LastDayOnly(e) ==
  MemberBuckets(e) \cup
    {ChannelDaily(c, utcDate(e.at)) : c \in {e.channel, e.previous} \ {None}}

(* markVoiceEvent: the session that ended touches every day it spans. *)
VoiceBuckets(e) ==
  LET days == utcDatesBetween(e.startedAt, e.at)
  IN {GuildCurrent}
       \cup {GuildDaily(d) : d \in days}
       \cup {UserDaily(e.user, d) : d \in days}
       \cup {ChannelDaily(c, utcDate(e.at)) : c \in {e.channel} \ {None, e.previous}}
       \cup {ChannelDaily(c, d) : c \in {e.previous} \ {None}, d \in days}

Marks(e) ==
  CASE e.kind \in {"message", "reaction"} -> ActivityBuckets(e)
    [] e.kind = "voice"                   -> VoiceBuckets(e)
    [] OTHER                              -> MemberBuckets(e)

(* markExistingDataDirty groups the raw tables by the day of the event. *)
BootBuckets(e) ==
  CASE e.kind = "activity" -> {}
    [] e.kind = "voice" -> {b \in VoiceBuckets(e) : b.day \in {NoDate, utcDate(e.at)}}
    [] OTHER -> Marks(e)

-----------------------------------------------------------------------------
(* scopeFor: a NULL column of the bucket restricts nothing. *)
SameUser(b, e) == b.user \in {None, e.user}

OnDay(b, e) == b.day \in {NoDate, utcDate(e.at)}

InScope(b, e) == OnDay(b, e) /\ b.channel \in {None, e.channel} /\ SameUser(b, e)

(* The closed sessions buildMaterial counts: those that overlap the day. *)
OverlapsDay(b, e) ==
  b.day = NoDate \/ (/\ e.startedAt < b.day * DayLength
                     /\ e.at > (b.day - 1) * DayLength)

ReadsSession(b, e) ==
  /\ e.previous # None
  /\ b.channel \in {None, e.previous}
  /\ SameUser(b, e) /\ OverlapsDay(b, e)

(* The events whose contribution is in the material of bucket b.  Two parts of
   the material are no events and are left out: the sessions still open and the
   number of members, which buildMaterial counts as they are at that moment.
   No mark is set for them; a bucket keeps what its last rebuild found. *)
Reads(b, e) ==
  CASE e.kind = "activity" -> FALSE
    [] e.kind = "voice"    -> ReadsSession(b, e) \/ InScope(b, e)
    [] e.kind = "member"   -> b.channel = None /\ OnDay(b, e) /\ SameUser(b, e)
    [] OTHER               -> InScope(b, e)
=============================================================================
