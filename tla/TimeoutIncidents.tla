--------------------------- MODULE TimeoutIncidents ---------------------------
(***************************************************************************)
(* Automatic timeouts for spam, and the log message that follows one:      *)
(* handleSpamDetection of discord-bot.mjs, lib/timeout-incidents.mjs,      *)
(* lib/timeout-discord-log.mjs and lib/security-v2-consent.mjs.            *)
(*                                                                         *)
(* Every stage of an incident is an immutable row of security_audit.  What *)
(* Discord carries out is not: a request under way when the bot dies may   *)
(* still take effect, and one whose answer is lost is sent again by the    *)
(* Discord library.                                                        *)
(*                                                                         *)
(* Which messages are reported as spam is SpamTracker's; here any message  *)
(* may be, and again when the gateway delivers it again.  A write to       *)
(* SQLite that throws ends the handler, as does a failed read of the bot's *)
(* own member.                                                             *)
(***************************************************************************)
EXTENDS Integers, FiniteSets

CONSTANTS
  Incident,     \* one for each guild, author and message
  Handler,      \* detections that can be handled side by side
  MaxTries,     \* attempts of the Discord library at one request
  MaxInputs     \* bound: changes of the consent, and restarts

ASSUME MaxTriesAssumption == MaxTries \in Nat \ {0}
ASSUME MaxInputsAssumption == MaxInputs \in Nat

VARIABLES
  audit,        \* security_audit: the status of each stage
  handler,      \* handlers of the process
  calls,        \* requests to Discord under way
  timedOut,     \* incidents whose timeout Discord carried out
  posted,       \* incidents whose log message Discord posted
  consent,      \* guild_security_v2_auto and security_v2_control
  enabled,      \* SECURITY_V2_AUTO_EXECUTION of the process
  inputs,       \* changes of the consent and restarts so far
  requests,     \* ghost: requests made for an incident, by kind
  doubtful      \* ghost: requests made again although they had taken effect

discordVars == <<calls, timedOut, posted, requests, doubtful>>
inputVars == <<consent, enabled, inputs>>
incidentVars == <<audit, handler, discordVars, inputVars>>

Kind == {"timeout", "post"}

Stage == {"spam_detection", "timeout_claim", "timeout_api", "timeout_result",
          "log_claim", "log_sent", "log_result"}

Status == {"detected", "pending", "success", "failed", "skipped", "unknown", "sent", "sent_edit_failed"}

Idle == [pc |-> "idle"]

Answer == {"none", "yes", "no", "ok", "refused", "broken"}

Step == {"member", "first", "claimed", "second", "timeout", "log", "channel", "post", "edit"}

Busy == [pc : Step, of : Incident, fallback : BOOLEAN, answer : Answer, granted : BOOLEAN]

(* A call outlives its handler when the bot dies. *)
Call == [kind : Kind, of : Incident, by : Handler, orphan : BOOLEAN, tries : 1..MaxTries]

IncidentsTypeOK ==
  /\ audit \in [Incident -> [Stage -> Status \cup {"none"}]]
  /\ handler \in [Handler -> Busy \cup {Idle}]
  /\ calls \subseteq Call
  /\ timedOut \subseteq Incident /\ posted \subseteq Incident
  /\ consent \in [auto : {"none", "off", "on"}, stop : BOOLEAN]
  /\ enabled \in BOOLEAN /\ inputs \in 0..MaxInputs
  /\ requests \in [Incident -> [Kind -> Nat]]
  /\ doubtful \subseteq Incident \X Kind

IncidentsInit ==
  /\ audit = [i \in Incident |-> [s \in Stage |-> "none"]]
  /\ handler = [h \in Handler |-> Idle]
  /\ calls = {} /\ timedOut = {} /\ posted = {}
  /\ consent = [auto |-> "none", stop |-> TRUE]
  /\ enabled \in BOOLEAN /\ inputs = 0
  /\ requests = [i \in Incident |-> [k \in Kind |-> 0]]
  /\ doubtful = {}
-----------------------------------------------------------------------------
(* Mutant: INSERT OR REPLACE. *)
Inserted_Replaces(i, stage) == TRUE

(* appendAudit: INSERT OR IGNORE *)
Inserted(i, stage) == audit[i][stage] = "none"

AppendAudit(i, stage, status) ==
  audit' = IF audit[i][stage] = "none" THEN [audit EXCEPT ![i][stage] = status] ELSE audit

At(h, pc) == handler[h].pc = pc

Done(h) == handler' = [handler EXCEPT ![h] = Idle]

Go(h, pc) == handler' = [handler EXCEPT ![h].pc = pc, ![h].answer = "none"]

(* timeoutResult, before a timeout was requested *)
Skip(h) == AppendAudit(handler[h].of, "timeout_result", "skipped") /\ Done(h)

Begin(h, i, fallback) ==
  /\ At(h, "idle")
  /\ AppendAudit(i, "spam_detection", "detected")
  /\ \/ /\ Inserted(i, "spam_detection")
        /\ handler' = [handler EXCEPT ![h] = [pc |-> "member", of |-> i, fallback |-> fallback,
                                              answer |-> "none", granted |-> FALSE]]
     \/ /\ ~Inserted(i, "spam_detection")   \* delivered again
        /\ UNCHANGED handler
  /\ UNCHANGED <<discordVars, inputVars>>

(* The two member fetches.  The consent is read unless the policy is unknown
   or the process has the emergency stop. *)
MemberFetched(h) ==
  /\ At(h, "member")
  /\ \/ Skip(h)
     \/ enabled /\ ~handler[h].fallback /\ Go(h, "first") /\ UNCHANGED audit
  /\ UNCHANGED <<discordVars, inputVars>>

Effective(c) == c.auto = "on" /\ ~c.stop

(* mayAutomaticallyTimeout: the row as it is when the query runs; a query that
   fails denies. *)
ConsentRead(h) ==
  /\ At(h, "first") \/ At(h, "second")
  /\ handler[h].answer = "none"
  /\ \E answer \in {"no"} \cup (IF Effective(consent) THEN {"yes"} ELSE {}) :
       handler' = [handler EXCEPT ![h].answer = answer]
  /\ UNCHANGED <<audit, discordVars, inputVars>>

(* claimTimeout *)
Claim(h) ==
  LET i == handler[h].of
  IN  /\ At(h, "first")
      /\ \/ handler[h].answer = "no" /\ Skip(h)
         \/ /\ handler[h].answer = "yes"
            /\ IF Inserted(i, "timeout_result") /\ Inserted(i, "timeout_claim")
                 THEN AppendAudit(i, "timeout_claim", "pending") /\ Go(h, "claimed")
                 ELSE Done(h) /\ UNCHANGED audit
      /\ UNCHANGED <<discordVars, inputVars>>

(* The member may be protected, out of the bot's reach, or timed out already;
   otherwise the consent is asked for again. *)
Check(h) ==
  /\ At(h, "claimed")
  /\ \/ Skip(h)
     \/ /\ handler' = [handler EXCEPT ![h].pc = "second", ![h].answer = "none",
                                      ![h].granted = Effective(consent)]
        /\ UNCHANGED audit
  /\ UNCHANGED <<discordVars, inputVars>>

(* Mutant: the second answer is not looked at. *)
Allowed_OnceClaimed(h) == handler[h].answer # "none"

Allowed(h) == handler[h].answer = "yes"

Request(h, kind) ==
  LET i == handler[h].of
  IN  /\ calls' = calls \cup {[kind |-> kind, of |-> i, by |-> h, orphan |-> FALSE, tries |-> 1]}
      /\ requests' = [requests EXCEPT ![i][kind] = @ + 1]
      /\ UNCHANGED <<timedOut, posted, doubtful>>

(* timeoutApi, and the timeout it announces *)
CallTimeout(h) ==
  LET i == handler[h].of
  IN  /\ At(h, "second") /\ Allowed(h)
      /\ IF Inserted(i, "timeout_api")
           THEN AppendAudit(i, "timeout_api", "pending") /\ Go(h, "timeout") /\ Request(h, "timeout")
           ELSE Done(h) /\ UNCHANGED <<audit, discordVars>>
      /\ UNCHANGED inputVars

Deny(h) ==
  /\ At(h, "second") /\ handler[h].answer # "none" /\ ~Allowed(h)
  /\ Skip(h)
  /\ UNCHANGED <<discordVars, inputVars>>

(* Mutant: an error of the server is a failure, too. *)
timeoutFailureStatus_NeverUnknown(answer) == "failed"

timeoutFailureStatus(answer) == IF answer = "refused" THEN "failed" ELSE "unknown"

TimeoutAnswered(h) ==
  LET answer == handler[h].answer
      status == IF answer = "ok" THEN "success" ELSE timeoutFailureStatus(answer)
  IN  /\ At(h, "timeout") /\ answer # "none"
      /\ AppendAudit(handler[h].of, "timeout_result", status)
      /\ IF answer = "ok" THEN Go(h, "log") ELSE Done(h)
      /\ UNCHANGED <<discordVars, inputVars>>
-----------------------------------------------------------------------------
(* sendTimeoutIncidentLog *)
ClaimLog(h) ==
  LET i == handler[h].of
  IN  /\ At(h, "log")
      /\ IF audit[i]["timeout_result"] = "success" /\ Inserted(i, "log_claim")
           THEN AppendAudit(i, "log_claim", "pending") /\ Go(h, "channel")
           ELSE Done(h) /\ UNCHANGED audit
      /\ UNCHANGED <<discordVars, inputVars>>

(* The configured channel or the one of the message; any failure ends here. *)
ChannelFetched(h) ==
  /\ At(h, "channel")
  /\ \/ /\ AppendAudit(handler[h].of, "log_result", "failed") /\ Done(h)
        /\ UNCHANGED discordVars
     \/ Go(h, "post") /\ Request(h, "post") /\ UNCHANGED audit
  /\ UNCHANGED inputVars

PostAnswered(h) ==
  LET i == handler[h].of
      answer == handler[h].answer
  IN  /\ At(h, "post") /\ answer # "none"
      /\ \/ answer = "ok" /\ AppendAudit(i, "log_sent", "sent") /\ Go(h, "edit")
         \/ /\ answer # "ok"
            /\ AppendAudit(i, "log_result", timeoutFailureStatus(answer)) /\ Done(h)
      /\ UNCHANGED <<discordVars, inputVars>>

EditAnswered(h) ==
  /\ At(h, "edit")
  /\ \E status \in {"sent", "sent_edit_failed"} : AppendAudit(handler[h].of, "log_result", status)
  /\ Done(h)
  /\ UNCHANGED <<discordVars, inputVars>>

Awaits(h) == At(h, "first") \/ At(h, "second") \/ At(h, "timeout") \/ At(h, "post")

(* A write to SQLite, or the fetch of the bot's own member, throws. *)
Abort(h) ==
  /\ handler[h] # Idle
  /\ Awaits(h) => handler[h].answer # "none"
  /\ Done(h)
  /\ UNCHANGED <<audit, discordVars, inputVars>>
-----------------------------------------------------------------------------
(* Discord carries out a request or not.  The library tries again unless the
   answer is definite; the nonce of a message makes a second attempt find the
   first one's message. *)
Answered(c, answer) == handler' = [handler EXCEPT ![c.by].answer = answer]

TakesEffect(c) ==
  /\ timedOut' = IF c.kind = "timeout" THEN timedOut \cup {c.of} ELSE timedOut
  /\ posted' = IF c.kind = "post" THEN posted \cup {c.of} ELSE posted

Attempt(c, took, answer) ==
  /\ answer = "ok" => took
  /\ answer = "refused" => ~took
  /\ IF took THEN TakesEffect(c) ELSE UNCHANGED <<timedOut, posted>>
  /\ IF answer = "broken" /\ c.tries < MaxTries /\ ~c.orphan
       THEN /\ calls' = (calls \ {c}) \cup {[c EXCEPT !.tries = @ + 1]}
            /\ doubtful' = IF took THEN doubtful \cup {<<c.of, c.kind>>} ELSE doubtful
            /\ UNCHANGED handler
       ELSE /\ calls' = calls \ {c}
            /\ IF c.orphan THEN UNCHANGED handler ELSE Answered(c, answer)
            /\ UNCHANGED doubtful
  /\ UNCHANGED <<audit, requests, inputVars>>
-----------------------------------------------------------------------------
Input == inputs < MaxInputs /\ inputs' = inputs + 1

(* The handlers that wait for their second answer. *)
ConsentChanges(c) ==
  /\ Input
  /\ consent' = c
  /\ handler' = [h \in Handler |-> IF At(h, "second") /\ Effective(c)
                                     THEN [handler[h] EXCEPT !.granted = TRUE] ELSE handler[h]]
  /\ UNCHANGED <<audit, discordVars, enabled>>

(* ENROLL_SECURITY_V2_SQL of every start, invitation and command *)
Enroll == consent.auto = "none" /\ ConsentChanges([consent EXCEPT !.auto = "off"])

(* SET_SECURITY_V2_SQL *)
SetAuto(auto) == consent.auto # "none" /\ ConsentChanges([consent EXCEPT !.auto = auto])

(* The emergency stop, and the loss of a policy that was configured. *)
SetStop(stop) == ConsentChanges([consent EXCEPT !.stop = stop])

(* The bot dies and starts again, with some requests on their way. *)
Restart(lost) ==
  /\ Input
  /\ handler' = [h \in Handler |-> Idle]
  /\ calls' = {[c EXCEPT !.orphan = TRUE] : c \in calls \ lost}
  /\ enabled' \in BOOLEAN
  /\ UNCHANGED <<audit, timedOut, posted, requests, doubtful, consent>>
-----------------------------------------------------------------------------
HandlerStep(h) ==
  \/ MemberFetched(h) \/ ConsentRead(h) \/ Claim(h) \/ Check(h) \/ CallTimeout(h) \/ Deny(h)
  \/ TimeoutAnswered(h) \/ ClaimLog(h) \/ ChannelFetched(h) \/ PostAnswered(h) \/ EditAnswered(h)
  \/ Abort(h)

IncidentsNext ==
  \/ \E h \in Handler, i \in Incident, fallback \in BOOLEAN : Begin(h, i, fallback)
  \/ \E h \in Handler : HandlerStep(h)
  \/ \E c \in calls, took \in BOOLEAN, answer \in {"ok", "refused", "broken"} : Attempt(c, took, answer)
  \/ Enroll \/ \E auto \in {"off", "on"} : SetAuto(auto)
  \/ \E stop \in BOOLEAN : SetStop(stop)
  \/ \E lost \in SUBSET calls : Restart(lost)

IncidentsSpec == IncidentsInit /\ [][IncidentsNext]_incidentVars
-----------------------------------------------------------------------------
(* However often a message is delivered and detected, and whenever the bot
   dies, one timeout at most is requested for it, and one log message. *)
EffectsHappenOnce ==
  \A i \in Incident, k \in Kind : requests[i][k] <= 1

(* What the audit says of an incident is what happened: a success was carried
   out, a skipped timeout was never requested and never will be, a refused one
   was not carried out unless an earlier attempt of the library was; a log
   message follows a recorded success only, and is recorded as it went. *)
ResultsAreTrue ==
  \A i \in Incident :
    LET result == audit[i]["timeout_result"]
        logged == audit[i]["log_result"]
    IN  /\ result = "success" => i \in timedOut
        /\ result = "skipped" => requests[i]["timeout"] = 0
        /\ result = "failed" => i \notin timedOut \/ <<i, "timeout">> \in doubtful
        /\ requests[i]["post"] > 0 => result = "success"
        /\ logged \in {"sent", "sent_edit_failed"} => i \in posted
        /\ logged = "failed" => i \notin posted \/ <<i, "post">> \in doubtful

(* A timeout is requested for a guild only if its consent was in force at some
   moment after the handler, having claimed the incident, asked for it: an
   earlier answer, or one given to another process, does not count. *)
NoTimeoutWithoutConsent ==
  [][\A i \in Incident : requests'[i]["timeout"] > requests[i]["timeout"] =>
       enabled /\ \E h \in Handler : handler[h] # Idle /\ handler[h].of = i /\ handler[h].granted]_incidentVars
=============================================================================
