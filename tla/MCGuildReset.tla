----------------------------- MODULE MCGuildReset -----------------------------
(* A small instance of GuildReset for TLC. *)
EXTENDS GuildReset, TLC

CONSTANTS g1, d1, c1, r1

KeepNothing == {{}}
=============================================================================
