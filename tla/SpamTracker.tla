------------------------------ MODULE SpamTracker ------------------------------
(***************************************************************************)
(* What the bot counts to find spam, for one member of one guild: the      *)
(* windows and cooldowns of createGuildSpamDetectionTracker                *)
(* (lib/guild-spam-policy.mjs) and createSpamTracker                       *)
(* (lib/spam-protection.mjs), fed by trackSpam of discord-bot.mjs.         *)
(*                                                                         *)
(* Two of the five modules are kept, "messages" (a count) and "duplicates" *)
(* (a count of one content); mentions, links and channels are counted in   *)
(* the same windows.  A message carries the time it was created, and may   *)
(* arrive late, and after a younger one; nr tells the order of arrival,    *)
(* which is the order of a window's array.                                 *)
(***************************************************************************)
EXTENDS Integers, FiniteSetsExt

CONSTANTS
  Text,         \* contents of messages, by their digest
  NoText,       \* a digest that is not kept
  Rules,        \* policies the guild may have
  Defaults,     \* the rule of a guild without a policy
  Cooldown,     \* ticks
  MaxWindow,    \* ticks: SPAM_POLICY_LIMITS.windowMaxSeconds
  Late,         \* bound: ticks from a message to its arrival
  MaxTicks,     \* bound: the clock stops here
  MaxMessages   \* bound: messages of the member

Module == {"messages", "duplicates"}

Rule == [enabled : BOOLEAN, on : [Module -> BOOLEAN], limit : [Module -> Nat], window : [Module -> 1..MaxWindow]]

ASSUME RulesAssumption ==
  /\ Rules \subseteq Rule /\ Defaults \in Rule \ Rules
  /\ Defaults.enabled /\ Defaults.on = [m \in Module |-> m = "messages"]
ASSUME TrackerAssumption == NoText \notin Text /\ {Cooldown, MaxWindow, Late, MaxTicks, MaxMessages} \subseteq Nat

VARIABLES
  ticks, messages,   \* the clock; messages so far
  rule,              \* the policy in use
  window, until,     \* windows (sets of entries) and cooldowns of the two trackers
  heard,             \* ghost: messages since a tracker last began anew
  steady,            \* ghost: they came in order, under one policy
  verdict            \* ghost: the modules reported of the last message

trackerVars == <<ticks, messages, rule, window, until, heard, steady, verdict>>

Tracker == {"default", "guild"}

TrackerOf(r) == IF r = Defaults THEN "default" ELSE "guild"

Nothing == [due |-> {}, signals |-> {}, allowed |-> {}]

TrackerTypeOK ==
  /\ ticks \in 0..MaxTicks /\ messages \in 0..MaxMessages
  /\ rule \in Rules \cup {Defaults}
  /\ \A t \in Tracker :
       /\ window[t] \subseteq [nr : 1..MaxMessages, at : 0..MaxTicks, text : Text \cup {NoText}]
       /\ until[t] \in 0..MaxTicks + Cooldown
       /\ heard[t] \subseteq [nr : 1..MaxMessages, at : 0..MaxTicks, text : Text, compared : BOOLEAN]
       /\ steady[t] \in BOOLEAN
  /\ \A s \in {"due", "signals", "allowed"} : verdict[s] \subseteq Module

TrackerInit ==
  /\ ticks = 0 /\ messages = 0 /\ rule \in Rules \cup {Defaults}
  /\ window = [t \in Tracker |-> {}] /\ until = [t \in Tracker |-> 0]
  /\ heard = [t \in Tracker |-> {}] /\ steady = [t \in Tracker |-> TRUE]
  /\ verdict = Nothing
-----------------------------------------------------------------------------
(* isSpamProtectionActive, and some module is on *)
Active(r) == r.enabled /\ \E m \in Module : r.on[m]

(* Mutant: a module that is off keeps what it would compare. *)
Kept_Always(r, entry) == entry

Kept(r, entry) == IF r.on["duplicates"] THEN entry ELSE [entry EXCEPT !.text = NoText]

Arrived(text, at) == [nr |-> messages + 1, at |-> at, text |-> text]

(* The default tracker has one window, the guild's the longest of its policy,
   modules that are off included. *)
Longest(r) == IF r = Defaults THEN r.window["messages"] ELSE Max({r.window[m] : m \in Module})

(* The entries of the longest window, and the message. *)
Events(r, text, at) ==
  {Kept(r, e) : e \in {e \in window[TrackerOf(r)] : e.at >= at - Longest(r)} \cup {Arrived(text, at)}}

Counted(events, m, since, digest) ==
  Cardinality({e \in events : e.at >= since /\ (m = "duplicates" => digest # NoText /\ e.text = digest)})

Signals(r, text, at) ==
  LET digest == Kept(r, Arrived(text, at)).text
  IN  {m \in Module : r.on[m] /\ Counted(Events(r, text, at), m, at - r.window[m], digest) >= r.limit[m]}

(* Ghost: what a count over everything heard would report.  The trackers are
   pruned by the clock, those messages are not due. *)
Horizon(t) == IF t = "default" THEN Defaults.window["messages"] ELSE MaxWindow

Reported(r, said, text, at, since) ==
  {m \in Module : r.on[m] /\
     1 + Cardinality({e \in said : /\ e.at >= at - r.window[m] /\ e.at >= since
                                   /\ m = "duplicates" => e.compared /\ e.text = text}) >= r.limit[m]}

BeginAnew(t) ==
  /\ window' = [window EXCEPT ![t] = {}]
  /\ heard' = [heard EXCEPT ![t] = {}] /\ steady' = [steady EXCEPT ![t] = TRUE]

(* record, under an active policy; the default tracker lets go of a cooldown
   that is over *)
Record(text, at) ==
  LET t == TrackerOf(rule)
      signals == Signals(rule, text, at)
      inOrder == \A e \in heard[t] : e.at <= at
  IN  /\ until[t] <= at
      /\ verdict' = [signals |-> signals,
                     allowed |-> Reported(rule, heard[t], text, at, 0),
                     due |-> IF steady[t] /\ inOrder
                               THEN Reported(rule, heard[t], text, at, ticks - Horizon(t)) ELSE {}]
      /\ IF signals # {}
           THEN BeginAnew(t) /\ until' = [until EXCEPT ![t] = at + Cooldown]
           ELSE /\ window' = [window EXCEPT ![t] = Events(rule, text, at)]
                /\ heard' = [heard EXCEPT ![t] = @ \cup
                     {[nr |-> messages + 1, at |-> at, text |-> text, compared |-> rule.on["duplicates"]]}]
                /\ steady' = [steady EXCEPT ![t] = @ /\ inOrder]
                /\ until' = IF t = "default" THEN [until EXCEPT ![t] = 0] ELSE until

Forget(t) == BeginAnew(t) /\ until' = [until EXCEPT ![t] = 0]

(* trackSpam: recorded, not counted while cooling down, or forgotten. *)
Message(text, at) ==
  /\ messages < MaxMessages /\ messages' = messages + 1
  /\ \/ Active(rule) /\ Record(text, at)
     \/ Active(rule) /\ until[TrackerOf(rule)] > at /\ verdict' = Nothing
        /\ UNCHANGED <<window, until, heard, steady>>
     \/ ~Active(rule) /\ Forget("guild") /\ verdict' = Nothing
  /\ UNCHANGED <<ticks, rule>>

PolicyChanges(r) ==
  /\ r # rule /\ rule' = r
  /\ steady' = [t \in Tracker |-> heard[t] = {}]
  /\ UNCHANGED <<ticks, messages, window, until, heard, verdict>>

Newest(entries, e) == \A other \in entries : other.nr <= e.nr

(* The timer that prunes both trackers. *)
Prune ==
  /\ window' = [t \in Tracker |->
       IF \E e \in window[t] : Newest(window[t], e) /\ e.at < ticks - Horizon(t) THEN {} ELSE window[t]]
  /\ until' = [t \in Tracker |-> IF until[t] <= ticks THEN 0 ELSE until[t]]
  /\ UNCHANGED <<ticks, messages, rule, heard, steady, verdict>>

(* guildDelete, or the bot starts anew. *)
ForgetGuild ==
  /\ window' = [t \in Tracker |-> {}] /\ until' = [t \in Tracker |-> 0]
  /\ heard' = [t \in Tracker |-> {}] /\ steady' = [t \in Tracker |-> TRUE]
  /\ UNCHANGED <<ticks, messages, rule, verdict>>

TrackerTick ==
  /\ ticks < MaxTicks /\ ticks' = ticks + 1
  /\ UNCHANGED <<messages, rule, window, until, heard, steady, verdict>>
-----------------------------------------------------------------------------
TrackerNext ==
  \/ \E text \in Text, at \in Max({0, ticks - Late})..ticks : Message(text, at)
  \/ \E r \in Rules \cup {Defaults} : PolicyChanges(r)
  \/ Prune \/ ForgetGuild \/ TrackerTick

TrackerSpec == TrackerInit /\ [][TrackerNext]_trackerVars
-----------------------------------------------------------------------------
(* What is reported is spam by the limits in force, and counts nothing twice,
   nothing from before the last report and, for duplicates, nothing that came
   while contents were not compared (a count of messages goes on while the
   module is off, and reports at once when it is on again); and as long as
   messages come in order under one policy, nothing that is spam by those
   limits goes unreported, however the trackers are pruned. *)
DetectionsAreJust ==
  verdict.due \subseteq verdict.signals /\ verdict.signals \subseteq verdict.allowed
=============================================================================
