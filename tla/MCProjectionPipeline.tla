------------------------ MODULE MCProjectionPipeline ------------------------
(* Small instances of ProjectionPipeline for TLC.  With DayLength = 1 every
   tick of the clock begins a new UTC day. *)
EXTENDS ProjectionPipeline

CONSTANTS w1, supabase, none

Message(c) == [kind |-> "message", user |-> "u1", channel |-> c, previous |-> None, length |-> 0]

Reaction(c) == [kind |-> "reaction", user |-> "u2", channel |-> c, previous |-> None, length |-> 0]

(* u2 leaves voice channel c1 after a session over midnight. *)
Leave == [kind |-> "voice", user |-> "u2", channel |-> None, previous |-> "c1", length |-> 1]

TalkAndVoice == {Message("c1"), Leave}

TalkAndReaction == {Message("c1"), Reaction("c1")}

OnAndOff == {{supabase}, {}}

AlwaysOn == {{supabase}}

OneChannelDay == {ChannelDaily("c1", 2)}
=============================================================================
