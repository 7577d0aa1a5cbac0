------------------------------ MODULE SpamPolicy ------------------------------
(***************************************************************************)
(* The spam policy of one guild: the row of guild_spam_policy, the         *)
(* /spamprotection commands (handleSpamProtectionCommand of                *)
(* discord-bot.mjs) and the dashboard (route.ts) that save it, and the     *)
(* cache the bot detects with (createGuildSpamPolicyCache of               *)
(* lib/guild-spam-policy.mjs).                                             *)
(*                                                                         *)
(* A command saves with one statement.  PostgreSQL takes the snapshot of a *)
(* statement before it waits for the advisory lock, and rereads a row that *)
(* changed meanwhile; a row that appeared meanwhile it does not see.       *)
(*                                                                         *)
(* A field stands for the columns that one command writes together.        *)
(***************************************************************************)
EXTENDS Integers, FiniteSets

CONSTANTS
  Field, Value,   \* columns and their values
  Default,        \* DEFAULT_GUILD_SPAM_POLICY
  Form,           \* policies the dashboard sends
  Command,        \* commands that can be handled side by side
  Load,           \* reads of the cache that can be under way
  None, Fallback, \* no policy, and a policy that could not be read
  Ttl,            \* ticks a cached policy is used
  MaxQuery,       \* bound: ticks from the read to its arrival
  MaxSaves,       \* bound: saves that are committed
  MaxCommands     \* bound: commands that are begun

ASSUME DefaultAssumption == Default \in [Field -> Value]
ASSUME FormAssumption == Form \subseteq [Field -> Value]
ASSUME NoneAssumption == {None, Fallback} \cap (Command \cup Load \cup [Field -> Value]) = {} /\ None # Fallback
ASSUME TicksAssumption == Ttl \in Nat \ {0} /\ MaxQuery \in Nat /\ MaxSaves \in Nat /\ MaxCommands \in Nat

VARIABLES
  row,            \* the stored policy, None before the first save
  version,        \* saves committed so far
  command,        \* commands of the process
  begun,          \* commands begun so far
  statements,     \* SAVE_SPAM_POLICY_COMMAND_SQL under way
  entry,          \* the cached policy
  load,           \* reads of the cache
  inFlight,       \* the read a message or command would join
  age,            \* ghost: ticks since a version was superseded
  settled,        \* ghost: newest version whose command was answered
  meant,          \* ghost: what was last saved for each field
  lost            \* ghost: fields a first save overwrote

storedVars == <<row, version, age, meant, lost>>
cacheVars == <<entry, load, inFlight>>
policyVars == <<storedVars, command, begun, statements, cacheVars, settled>>

Policy == [Field -> Value]

Version == 0..MaxSaves

Age == 0..Ttl + MaxQuery + 1

Waiting == [pc |-> "idle"]

Unused == [state |-> "free"]

(* What a read has found: a policy, none, or an error. *)
Found == Policy \cup {None, Fallback}

Statement == [by : Command, orphan : BOOLEAN, field : Field, patch : UNION {[fs -> Value] : fs \in SUBSET Field},
              absent : BOOLEAN \cup {None}]

PolicyTypeOK ==
  /\ row \in Policy \cup {None} /\ version \in Version
  /\ \A c \in Command : \/ command[c] = Waiting
                        \/ command[c] \in [pc : {"reading"}, field : Field, value : Value]
                        \/ command[c] = [pc |-> "saving"]
                        \/ command[c] \in [pc : {"saved"}, version : Version]
  /\ \A s \in statements : s \in Statement
  /\ entry = None \/ entry \in [found : Found, version : Version, left : 1..Ttl]
  /\ \A l \in Load : \/ load[l] = Unused
                     \/ load[l] \in [state : {"asked"}, for : Command \cup {None}, invalidated : BOOLEAN]
                     \/ load[l] \in [state : {"read"}, for : Command \cup {None}, invalidated : BOOLEAN,
                                     found : Found, version : Version, held : 0..MaxQuery]
  /\ inFlight \in Load \cup {None}
  /\ age \in [Version -> Age] /\ settled \in Version
  /\ begun \in 0..MaxCommands
  /\ meant \in Policy /\ lost \subseteq Field

PolicyInit ==
  /\ row = None /\ version = 0
  /\ command = [c \in Command |-> Waiting] /\ statements = {} /\ begun = 0
  /\ entry = None /\ load = [l \in Load |-> Unused] /\ inFlight = None
  /\ age = [v \in Version |-> 0] /\ settled = 0
  /\ meant = Default /\ lost = {}
-----------------------------------------------------------------------------
(* The cache *)

(* Mutant: a read under way is forgotten, but not marked. *)
Invalidated_Forgotten(loads) == loads

(* invalidate(guildId) *)
Invalidated(loads) ==
  IF inFlight = None THEN loads ELSE [loads EXCEPT ![inFlight].invalidated = TRUE]

NewLoad(l, for, loads) ==
  load' = [loads EXCEPT ![l] = [state |-> "asked", for |-> for, invalidated |-> FALSE]]

(* get(guildId) of a message; with an entry, or a read to join, nothing starts. *)
MessageReads(l) ==
  /\ entry = None /\ inFlight = None /\ load[l] = Unused
  /\ NewLoad(l, None, load) /\ inFlight' = l
  /\ UNCHANGED <<begun, storedVars, command, statements, entry, settled>>

(* loadPolicy: the query finds the row as it is, or fails. *)
LoadReads(l) ==
  /\ load[l].state = "asked"
  /\ \E found \in {row, Fallback} :
       load' = [load EXCEPT ![l] = [state |-> "read", for |-> load[l].for, invalidated |-> load[l].invalidated,
                                    found |-> found, version |-> version, held |-> 0]]
  /\ UNCHANGED <<begun, storedVars, command, statements, entry, inFlight, settled>>

InvalidatedAtRemoval ==
  /\ entry' = None /\ inFlight' = None /\ load' = Invalidated(load)
  /\ UNCHANGED <<begun, storedVars, command, statements, settled>>
-----------------------------------------------------------------------------
(* The command *)

BeginCommand(c, field, value, l) ==
  /\ command[c] = Waiting /\ load[l] = Unused
  /\ begun < MaxCommands /\ begun' = begun + 1
  /\ command' = [command EXCEPT ![c] = [pc |-> "reading", field |-> field, value |-> value]]
  /\ entry' = None /\ NewLoad(l, c, Invalidated(load)) /\ inFlight' = l
  /\ UNCHANGED <<storedVars, statements, settled>>

(* Mutant: every field of the policy that was read is written back. *)
getChangedSpamPolicyFields_All(base, next) == Field

getChangedSpamPolicyFields(base, next) == {f \in Field : base[f] # next[f]}

(* With the policy read, the changed fields are saved, unless the policy could
   not be read or nothing changes. *)
Continue(c, found) ==
  LET field == command[c].field
      base == IF found = None THEN Default ELSE found
      next == [base EXCEPT ![field] = command[c].value]
      changed == getChangedSpamPolicyFields(base, next)
  IN  IF found = Fallback \/ base = next
        THEN command' = [command EXCEPT ![c] = Waiting] /\ UNCHANGED statements
        ELSE /\ command' = [command EXCEPT ![c] = [pc |-> "saving"]]
             /\ statements' = statements \cup
                  {[by |-> c, orphan |-> FALSE, field |-> field, absent |-> None,
                    patch |-> [f \in changed |-> next[f]]]}

(* The read arrives: it is cached unless invalidated.  Those that wait for it, a
   command or messages, go on with what it found even when it was invalidated. *)
LoadEnds(l) ==
  /\ load[l].state = "read"
  /\ entry' = IF load[l].invalidated THEN entry
              ELSE [found |-> load[l].found, version |-> load[l].version, left |-> Ttl]
  /\ inFlight' = IF inFlight = l THEN None ELSE inFlight
  /\ load' = [load EXCEPT ![l] = Unused]
  /\ IF load[l].for = None THEN UNCHANGED <<command, statements>> ELSE Continue(load[l].for, load[l].found)
  /\ UNCHANGED <<begun, storedVars, settled>>

(* The statement takes its snapshot, and waits for the lock. *)
Snapshot(s) ==
  /\ s.absent = None
  /\ statements' = (statements \ {s}) \cup {[s EXCEPT !.absent = (row = None)]}
  /\ UNCHANGED <<begun, storedVars, command, cacheVars, settled>>

Saved(policy) ==
  /\ version < MaxSaves /\ version' = version + 1
  /\ row' = policy
  /\ UNCHANGED age

Patched(patch, policy) == [f \in Field |-> IF f \in DOMAIN patch THEN patch[f] ELSE policy[f]]

(* The statement commits: a policy it saw, as it is now, or the defaults, with
   the patch.  A policy saved meanwhile is overwritten if it saw none. *)
Commit(s) ==
  LET stored == IF s.absent THEN Default ELSE row
  IN  /\ s.absent # None
      /\ Saved(Patched(s.patch, stored))
      /\ meant' = [meant EXCEPT ![s.field] = s.patch[s.field]]
      /\ lost' = (IF s.absent /\ row # None THEN Field ELSE lost) \ {s.field}
      /\ statements' = statements \ {s}
      /\ command' = IF s.orphan THEN command
                    ELSE [command EXCEPT ![s.by] = [pc |-> "saved", version |-> version + 1]]
      /\ UNCHANGED <<begun, cacheVars, settled>>

(* The cache is invalidated and the command answered. *)
Reply(c) ==
  /\ command[c].pc = "saved"
  /\ entry' = None /\ inFlight' = None /\ load' = Invalidated(load)
  /\ settled' = IF command[c].version > settled THEN command[c].version ELSE settled
  /\ command' = [command EXCEPT ![c] = Waiting]
  /\ UNCHANGED <<begun, storedVars, statements>>

(* The query fails for the bot: the statement was refused, goes on, or has
   been committed already. *)
Fail(c) ==
  /\ command[c].pc \in {"saving", "saved"}
  /\ command' = [command EXCEPT ![c] = Waiting]
  /\ \E alive \in BOOLEAN :
       statements' = {s \in statements : s.by # c \/ s.orphan}
         \cup {[s EXCEPT !.orphan = TRUE] : s \in {s \in statements : alive /\ s.by = c}}
  /\ UNCHANGED <<begun, storedVars, cacheVars, settled>>
-----------------------------------------------------------------------------
(* PUT of the dashboard: one transaction, every field *)
DashboardSaves(policy) ==
  /\ Saved(policy)
  /\ meant' = policy /\ lost' = {}
  /\ UNCHANGED <<begun, command, statements, cacheVars, settled>>

BotRestarts ==
  /\ command' = [c \in Command |-> Waiting]
  /\ statements' = {[s EXCEPT !.orphan = TRUE] : s \in statements}
  /\ entry' = None /\ load' = [l \in Load |-> Unused] /\ inFlight' = None
  /\ UNCHANGED <<begun, storedVars, settled>>

(* Mutant: a policy is used once more at the moment it expires. *)
Aged_Inclusive(e) == IF e = None \/ e.left = 0 THEN None ELSE [e EXCEPT !.left = @ - 1]

(* The cached policy a moment later. *)
Aged(e) == IF e = None \/ e.left = 1 THEN None ELSE [e EXCEPT !.left = @ - 1]

(* Time passes; a row that was read arrives within MaxQuery. *)
PolicyTick ==
  /\ \A l \in Load : load[l].state = "read" => load[l].held < MaxQuery
  /\ load' = [l \in Load |-> IF load[l].state = "read" THEN [load[l] EXCEPT !.held = @ + 1] ELSE load[l]]
  /\ entry' = Aged(entry)
  /\ age' = [v \in Version |-> IF v < version /\ age[v] < Ttl + MaxQuery + 1 THEN age[v] + 1 ELSE age[v]]
  /\ UNCHANGED <<begun, row, version, meant, lost, command, statements, inFlight, settled>>
-----------------------------------------------------------------------------
PolicyNext ==
  \/ \E l \in Load : MessageReads(l) \/ LoadReads(l) \/ LoadEnds(l)
  \/ \E c \in Command, field \in Field, value \in Value, l \in Load : BeginCommand(c, field, value, l)
  \/ \E s \in statements : Snapshot(s) \/ Commit(s)
  \/ \E c \in Command : Reply(c) \/ Fail(c)
  \/ \E policy \in Form : DashboardSaves(policy)
  \/ InvalidatedAtRemoval \/ BotRestarts \/ PolicyTick

PolicySpec == PolicyInit /\ [][PolicyNext]_policyVars
-----------------------------------------------------------------------------
(* Each field keeps what was last saved for it: by a command that meant this
   field, or by the dashboard, which saves all of them.  Commands that overlap
   do not undo one another's changes, except that one which found no row takes
   back what was saved while it waited. *)
SavedChangesStay ==
  row # None => \A f \in Field \ lost : row[f] = meant[f]

(* What messages and commands that come after the answer to a command find in
   the cache, or in the read they join, is no older than what it saved; and what
   any save superseded is used no longer than the time to live and one query.
   Those that were waiting when a read was invalidated are under the second
   bound only: they use what it finds, though it be older than the answer. *)
FreshPolicy ==
  /\ entry # None => /\ entry.version >= settled
                     /\ age[entry.version] <= MaxQuery + Ttl - entry.left
  /\ inFlight # None /\ load[inFlight].state = "read" => load[inFlight].version >= settled
  /\ \A l \in Load : load[l].state = "read" => age[load[l].version] <= load[l].held
=============================================================================
