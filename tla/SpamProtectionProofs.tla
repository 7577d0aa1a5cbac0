------------------------- MODULE SpamProtectionProofs -------------------------
(***************************************************************************)
(* Theorems about the three parts of the spam protection, which share no   *)
(* state: TimeoutIncidents, for every set of messages, any number of       *)
(* detections side by side and any number of attempts and restarts;        *)
(* SpamPolicy, for every set of fields, values, commands and reads and     *)
(* every time to live; and SpamTracker, for every policy, text and number  *)
(* of messages.                                                            *)
(*                                                                         *)
(* No property of the incidents is inductive: they speak of the audit and  *)
(* of Discord, while what relates the two is in the memory of a handler or *)
(* in a request under way.  IInv adds where a handler can be with respect  *)
(* to its incident (WorkOK), what a request under way stands for (CallOK), *)
(* and that an incident is in the hands of one of them at most (SoleOK,    *)
(* CallsApart).  The other two parts say what theirs need where they       *)
(* begin.                                                                  *)
(***************************************************************************)
EXTENDS SpamProtection, FiniteSetTheorems, TLAPS

Working(h) == handler[h] # Idle

SoleOK ==
  \A g, h \in Handler : Working(g) /\ Working(h) /\ handler[g].of = handler[h].of => g = h

ResultOK(i) ==
  /\ audit[i]["timeout_result"] = "success" => i \in timedOut
  /\ audit[i]["timeout_result"] = "skipped" => requests[i]["timeout"] = 0
  /\ audit[i]["timeout_result"] = "failed" => i \notin timedOut \/ <<i, "timeout">> \in doubtful
  /\ requests[i]["post"] > 0 => audit[i]["timeout_result"] = "success"
  /\ audit[i]["log_result"] \in {"sent", "sent_edit_failed"} => i \in posted
  /\ audit[i]["log_result"] = "failed" => i \notin posted \/ <<i, "post">> \in doubtful

IncidentOK(i) ==
  /\ requests[i]["timeout"] <= 1 /\ requests[i]["post"] <= 1
  /\ requests[i]["timeout"] = 0 => i \notin timedOut
  /\ requests[i]["post"] = 0 => i \notin posted
  /\ audit[i]["spam_detection"] = "none" =>
       /\ requests[i]["timeout"] = 0 /\ requests[i]["post"] = 0
       /\ audit[i]["timeout_result"] = "none" /\ audit[i]["log_result"] = "none"
  /\ ResultOK(i)

(* Where a handler is says what was asked for, written and carried out. *)
Before(h) == handler[h].pc \in {"member", "first", "claimed", "second"}

Place(h, i) ==
  /\ audit[i]["spam_detection"] # "none" /\ audit[i]["log_result"] = "none"
  /\ Before(h) => audit[i]["timeout_result"] = "none" /\ requests[i]["timeout"] = 0
  /\ At(h, "timeout") => audit[i]["timeout_result"] = "none"
  /\ handler[h].pc \in {"log", "channel", "post", "edit"} => audit[i]["timeout_result"] = "success"
  /\ handler[h].pc \notin {"post", "edit"} => requests[i]["post"] = 0
  /\ At(h, "edit") => i \in posted

(* An answer that came agrees with what happened. *)
Heard(h, i) ==
  /\ At(h, "timeout") /\ handler[h].answer = "ok" => i \in timedOut
  /\ At(h, "timeout") /\ handler[h].answer = "refused" =>
       i \notin timedOut \/ <<i, "timeout">> \in doubtful
  /\ At(h, "post") /\ handler[h].answer = "ok" => i \in posted
  /\ At(h, "post") /\ handler[h].answer = "refused" =>
       i \notin posted \/ <<i, "post">> \in doubtful

(* The ghost "granted" is set as soon as it must be. *)
Asked(h) ==
  /\ handler[h].pc \in {"first", "claimed", "second"} => enabled
  /\ At(h, "second") /\ (Effective(consent) \/ handler[h].answer = "yes") => handler[h].granted

WorkOK(h) == Working(h) => Place(h, handler[h].of) /\ Heard(h, handler[h].of) /\ Asked(h)

(* A request that took effect and is still under way is repeated. *)
Repeated(c) ==
  /\ c.kind = "timeout" /\ c.of \in timedOut => <<c.of, "timeout">> \in doubtful
  /\ c.kind = "post" /\ c.of \in posted => <<c.of, "post">> \in doubtful

CallOK(c) ==
  /\ requests[c.of][c.kind] # 0
  /\ audit[c.of]["spam_detection"] # "none" /\ audit[c.of]["log_result"] = "none"
  /\ c.kind = "timeout" => audit[c.of]["timeout_result"] = "none"
  /\ c.orphan => \A h \in Handler : Working(h) => handler[h].of # c.of
  /\ ~c.orphan => /\ Working(c.by) /\ handler[c.by].of = c.of
                  /\ At(c.by, c.kind) /\ handler[c.by].answer = "none"
                  /\ Repeated(c)

CallsApart ==
  \A c, d \in calls : ~c.orphan /\ ~d.orphan /\ c.by = d.by => c = d

IInv ==
  /\ IncidentsTypeOK
  /\ SoleOK
  /\ \A i \in Incident : IncidentOK(i)
  /\ \A h \in Handler : WorkOK(h)
  /\ \A c \in calls : CallOK(c)
  /\ CallsApart
-----------------------------------------------------------------------------
(* A busy handler has an incident, an idle one has not. *)
LEMMA Busyness ==
  ASSUME IncidentsTypeOK, NEW h \in Handler, ~At(h, "idle")
  PROVE  handler[h] \in Busy /\ Working(h) /\ handler[h].of \in Incident
<1>1. handler[h] \in Busy \cup {Idle}
  BY DEF IncidentsTypeOK
<1>2. handler[h] # Idle
  BY DEF At, Idle
<1>3. QED
  BY <1>1, <1>2 DEF Working, Busy

LEMMA WorkingIsBusy ==
  ASSUME IncidentsTypeOK, NEW h \in Handler, Working(h)
  PROVE  handler[h] \in Busy /\ handler[h].of \in Incident /\ ~At(h, "idle")
<1>1. handler[h] \in Busy
  BY DEF IncidentsTypeOK, Working
<1>2. QED
  BY <1>1 DEF Busy, At, Step

(* A row of the audit is written once. *)
LEMMA AppendWrites ==
  ASSUME IncidentsTypeOK, NEW i \in Incident, NEW stage \in Stage, NEW status \in Status,
         AppendAudit(i, stage, status)
  PROVE  /\ audit' \in [Incident -> [Stage -> Status \cup {"none"}]]
         /\ \A j \in Incident : j # i => audit'[j] = audit[j]
         /\ \A s \in Stage : s # stage => audit'[i][s] = audit[i][s]
         /\ audit'[i][stage] = IF audit[i][stage] = "none" THEN status ELSE audit[i][stage]
<1>1. audit \in [Incident -> [Stage -> Status \cup {"none"}]]
  BY DEF IncidentsTypeOK
<1>2. CASE audit[i][stage] = "none"
  <2>1. audit' = [audit EXCEPT ![i][stage] = status]
    BY <1>2 DEF AppendAudit
  <2>2. QED
    BY <1>1, <1>2, <2>1
<1>3. CASE audit[i][stage] # "none"
  BY <1>1, <1>3 DEF AppendAudit
<1>4. QED
  BY <1>2, <1>3

LEMMA DoneIdles ==
  ASSUME IncidentsTypeOK, NEW h \in Handler, Done(h)
  PROVE  /\ handler' \in [Handler -> Busy \cup {Idle}]
         /\ handler'[h] = Idle
         /\ \A g \in Handler : g # h => handler'[g] = handler[g]
BY DEF Done, IncidentsTypeOK

LEMMA GoMoves ==
  ASSUME IncidentsTypeOK, NEW h \in Handler, NEW pc \in Step, ~At(h, "idle"), Go(h, pc)
  PROVE  /\ handler' \in [Handler -> Busy \cup {Idle}]
         /\ handler'[h] \in Busy
         /\ handler'[h].pc = pc /\ handler'[h].of = handler[h].of
         /\ handler'[h].answer = "none" /\ handler'[h].granted = handler[h].granted
         /\ \A g \in Handler : g # h => handler'[g] = handler[g]
<1>1. handler \in [Handler -> Busy \cup {Idle}]
  BY DEF IncidentsTypeOK
<1>2. handler[h] \in Busy
  BY Busyness
<1> DEFINE b == [handler[h] EXCEPT !.pc = pc, !.answer = "none"]
<1>3. handler' = [handler EXCEPT ![h] = b]
  BY <1>1 DEF Go
<1>4. /\ b \in Busy
      /\ b.pc = pc /\ b.of = handler[h].of /\ b.answer = "none" /\ b.granted = handler[h].granted
  BY <1>2 DEF Busy, Answer
<1> HIDE DEF b
<1>5. handler'[h] = b
  BY <1>1, <1>3
<1>6. QED
  BY <1>1, <1>3, <1>4, <1>5
-----------------------------------------------------------------------------
(* A step of one handler concerns its incident, and no request for it is
   under way meanwhile. *)
NewCall(i, h, kind) == [kind |-> kind, of |-> i, by |-> h, orphan |-> FALSE, tries |-> 1]

Local(h, i) ==
  /\ handler' \in [Handler -> Busy \cup {Idle}]
  /\ \A g \in Handler : g # h => handler'[g] = handler[g]
  /\ handler'[h] = Idle \/ handler'[h].of = i
  /\ audit' \in [Incident -> [Stage -> Status \cup {"none"}]]
  /\ requests' \in [Incident -> [Kind -> Nat]]
  /\ \A j \in Incident : j # i => audit'[j] = audit[j] /\ requests'[j] = requests[j]
  /\ timedOut' = timedOut /\ posted' = posted /\ doubtful' = doubtful
  /\ consent' = consent /\ enabled' = enabled /\ inputs' = inputs
  /\ \/ calls' = calls
     \/ \E kind \in Kind : /\ calls' = calls \cup {NewCall(i, h, kind)}
                           /\ CallOK(NewCall(i, h, kind))'

Requesting(h) == At(h, "timeout") \/ At(h, "post")

Alone(h, i) ==
  /\ \A c \in calls : c.of # i /\ (~c.orphan => c.by # h)
  /\ \A g \in Handler : g # h /\ Working(g) => handler[g].of # i

LEMMA NoneUnderWay ==
  ASSUME IInv, NEW h \in Handler, ~At(h, "idle"), Requesting(h) => handler[h].answer # "none"
  PROVE  Alone(h, handler[h].of)
<1>1. Working(h)
  BY Busyness DEF IInv
<1>0. \A g \in Handler : g # h /\ Working(g) => handler[g].of # handler[h].of
  BY <1>1 DEF IInv, SoleOK
<1> SUFFICES ASSUME NEW c \in calls
             PROVE  c.of # handler[h].of /\ (~c.orphan => c.by # h)
  BY <1>0 DEF Alone
<1>2. CallOK(c) /\ c \in Call
  BY DEF IInv, IncidentsTypeOK
<1>3. CASE c.orphan
  BY <1>1, <1>2, <1>3 DEF CallOK
<1>4. CASE ~c.orphan
  <2>1. /\ Working(c.by) /\ handler[c.by].of = c.of
        /\ At(c.by, c.kind) /\ handler[c.by].answer = "none"
    BY <1>2, <1>4 DEF CallOK
  <2>2. c.by \in Handler /\ c.kind \in Kind
    BY <1>2 DEF Call
  <2>3. Requesting(c.by)
    BY <2>1, <2>2 DEF Requesting, At, Kind
  <2>4. c.by # h
    BY <2>1, <2>3
  <2>5. QED
    BY <1>1, <2>1, <2>2, <2>4 DEF IInv, SoleOK
<1>5. QED
  BY <1>3, <1>4

(* What a local step must show is about its own incident only. *)
LEMMA LocalKeeps ==
  ASSUME IInv, NEW h \in Handler, NEW i \in Incident,
         Alone(h, i), Local(h, i), IncidentOK(i)', WorkOK(h)'
  PROVE  IInv'
<1>0. IncidentsTypeOK
  BY DEF IInv
<1>1. \A c \in calls : c.of # i /\ (~c.orphan => c.by # h)
  BY DEF Alone
<1>2. \A g \in Handler : g # h => handler'[g] = handler[g]
  BY DEF Local
<1>3. handler'[h] = Idle \/ handler'[h].of = i
  BY DEF Local
<1>4. \A j \in Incident : j # i => audit'[j] = audit[j] /\ requests'[j] = requests[j]
  BY DEF Local
<1>5. /\ timedOut' = timedOut /\ posted' = posted /\ doubtful' = doubtful
      /\ consent' = consent /\ enabled' = enabled /\ inputs' = inputs
  BY DEF Local
<1>6. \/ calls' = calls
      \/ \E kind \in Kind : /\ calls' = calls \cup {NewCall(i, h, kind)}
                            /\ CallOK(NewCall(i, h, kind))'
  BY DEF Local
<1>7. \A kind \in Kind : NewCall(i, h, kind) \in Call
  BY <1>0, MaxTriesAssumption DEF NewCall, Call
<1>8. calls' \subseteq Call
  BY <1>0, <1>6, <1>7 DEF IncidentsTypeOK
<1>9. IncidentsTypeOK'
  BY <1>0, <1>5, <1>8 DEF IncidentsTypeOK, Local
<1>10. \A g \in Handler : g # h /\ Working(g) => handler[g].of \in Incident /\ handler[g].of # i
  BY <1>0, WorkingIsBusy DEF Alone
<1>11. SoleOK'
  <2> SUFFICES ASSUME NEW f \in Handler, NEW g \in Handler, Working(f)', Working(g)',
                      handler'[f].of = handler'[g].of
               PROVE  f = g
    BY DEF SoleOK
  <2>1. CASE f = h
    BY <1>2, <1>3, <1>10, <2>1 DEF Working
  <2>2. CASE g = h
    BY <1>2, <1>3, <1>10, <2>2 DEF Working
  <2>3. CASE f # h /\ g # h
    BY <1>2, <2>3 DEF Working, IInv, SoleOK
  <2>4. QED
    BY <2>1, <2>2, <2>3
<1>12. \A j \in Incident : IncidentOK(j)'
  <2> SUFFICES ASSUME NEW j \in Incident PROVE IncidentOK(j)'
    OBVIOUS
  <2>1. CASE j = i
    BY <2>1
  <2>2. CASE j # i
    <3>1. IncidentOK(j)
      BY DEF IInv
    <3>2. QED
      BY <1>4, <1>5, <2>2, <3>1 DEF IncidentOK, ResultOK
  <2>3. QED
    BY <2>1, <2>2
<1>13. \A g \in Handler : WorkOK(g)'
  <2> SUFFICES ASSUME NEW g \in Handler, g # h, Working(g)'
               PROVE  Place(g, handler[g].of)' /\ Heard(g, handler[g].of)' /\ Asked(g)'
    BY DEF WorkOK
  <2>1. Working(g) /\ handler'[g] = handler[g]
    BY <1>2 DEF Working
  <2>2. Place(g, handler[g].of) /\ Heard(g, handler[g].of) /\ Asked(g)
    BY <2>1 DEF IInv, WorkOK
  <2>3. audit'[handler[g].of] = audit[handler[g].of] /\ requests'[handler[g].of] = requests[handler[g].of]
    BY <1>4, <1>10, <2>1
  <2>4. Place(g, handler[g].of)'
    BY <1>5, <2>1, <2>2, <2>3 DEF Place, Before, At
  <2>5. Heard(g, handler[g].of)'
    BY <1>5, <2>1, <2>2 DEF Heard, At
  <2>6. Asked(g)'
    BY <1>5, <2>1, <2>2 DEF Asked, At
  <2>7. QED
    BY <2>4, <2>5, <2>6
<1>14. \A c \in calls : CallOK(c)'
  <2> SUFFICES ASSUME NEW c \in calls PROVE CallOK(c)'
    OBVIOUS
  <2>1. CallOK(c) /\ c \in Call /\ c.of \in Incident /\ c.by \in Handler
    BY DEF IInv, IncidentsTypeOK, Call
  <2>2. audit'[c.of] = audit[c.of] /\ requests'[c.of] = requests[c.of]
    BY <1>1, <1>4, <2>1
  <2>3. ASSUME c.orphan, NEW g \in Handler, handler'[g] # Idle PROVE handler'[g].of # c.of
    <3>1. CASE g = h
      BY <1>1, <1>3, <2>3, <3>1
    <3>2. CASE g # h
      <4>1. handler'[g] = handler[g]
        BY <1>2, <3>2
      <4>2. QED
        BY <2>1, <2>3, <4>1 DEF CallOK, Working
    <3>3. QED
      BY <3>1, <3>2
  <2>4. c.orphan => \A g \in Handler : Working(g)' => handler'[g].of # c.of
    BY <2>3 DEF Working
  <2>5. ~c.orphan => handler'[c.by] = handler[c.by]
    BY <1>1, <1>2, <2>1
  <2>6. ~c.orphan => /\ Working(c.by)' /\ handler'[c.by].of = c.of
                     /\ At(c.by, c.kind)' /\ handler'[c.by].answer = "none"
                     /\ Repeated(c)'
    BY <1>5, <2>1, <2>5 DEF CallOK, Working, At, Repeated
  <2>7. QED
    BY <2>1, <2>2, <2>4, <2>6 DEF CallOK
<1>15. \A c \in calls' : CallOK(c)'
  BY <1>6, <1>14
<1>16. CallsApart'
  <2>1. CallsApart
    BY DEF IInv
  <2>2. CASE calls' = calls
    BY <2>1, <2>2 DEF CallsApart
  <2>3. ASSUME NEW kind \in Kind, calls' = calls \cup {NewCall(i, h, kind)} PROVE CallsApart'
    <3>1. NewCall(i, h, kind).by = h
      BY DEF NewCall
    <3>2. QED
      BY <1>1, <2>1, <2>3, <3>1 DEF CallsApart
  <2>4. QED
    BY <1>6, <2>2, <2>3
<1>17. QED
  BY <1>9, <1>11, <1>12, <1>13, <1>15, <1>16 DEF IInv
-----------------------------------------------------------------------------
(* The two ways a handler's step ends: it goes on, or it is over. *)
Quiet == UNCHANGED <<discordVars, inputVars>>

OnlyAuditOf(i) ==
  /\ audit' \in [Incident -> [Stage -> Status \cup {"none"}]]
  /\ \A j \in Incident : j # i => audit'[j] = audit[j]

LEMMA OverKeeps ==
  ASSUME IInv, NEW h \in Handler, NEW i \in Incident, Working(h), handler[h].of = i,
         Requesting(h) => handler[h].answer # "none",
         Done(h), Quiet, OnlyAuditOf(i), IncidentOK(i)'
  PROVE  IInv'
<1>1. IncidentsTypeOK /\ requests \in [Incident -> [Kind -> Nat]]
  BY DEF IInv, IncidentsTypeOK
<1>2. /\ handler' \in [Handler -> Busy \cup {Idle}]
      /\ handler'[h] = Idle
      /\ \A g \in Handler : g # h => handler'[g] = handler[g]
  BY <1>1, DoneIdles
<1>3. Local(h, i)
  BY <1>1, <1>2 DEF Local, Quiet, OnlyAuditOf, discordVars, inputVars
<1>4. WorkOK(h)'
  BY <1>2 DEF WorkOK, Working
<1>5. Alone(h, i)
  BY <1>1, NoneUnderWay, WorkingIsBusy
<1>6. QED
  BY <1>3, <1>4, <1>5, LocalKeeps

LEMMA GoingOnKeeps ==
  ASSUME IInv, NEW h \in Handler, NEW i \in Incident, NEW pc \in Step,
         Working(h), handler[h].of = i,
         Requesting(h) => handler[h].answer # "none",
         Go(h, pc), Quiet, OnlyAuditOf(i), IncidentOK(i)', Place(h, i)', Asked(h)'
  PROVE  IInv'
<1>1. /\ IncidentsTypeOK /\ requests \in [Incident -> [Kind -> Nat]] /\ ~At(h, "idle")
  BY WorkingIsBusy DEF IInv, IncidentsTypeOK
<1>2. /\ handler' \in [Handler -> Busy \cup {Idle}]
      /\ handler'[h].of = i /\ handler'[h].answer = "none"
      /\ \A g \in Handler : g # h => handler'[g] = handler[g]
  BY <1>1, GoMoves
<1>3. Local(h, i)
  BY <1>1, <1>2 DEF Local, Quiet, OnlyAuditOf, discordVars, inputVars
<1>4. WorkOK(h)'
  BY <1>2 DEF WorkOK, Heard
<1>5. Alone(h, i)
  BY <1>1, NoneUnderWay, WorkingIsBusy
<1>6. QED
  BY <1>3, <1>4, <1>5, LocalKeeps

(* What is known of a handler at work. *)
LEMMA AtWork ==
  ASSUME IInv, NEW h \in Handler, ~At(h, "idle")
  PROVE  /\ IncidentsTypeOK
         /\ Working(h) /\ handler[h] \in Busy /\ handler[h].of \in Incident
         /\ Place(h, handler[h].of) /\ Heard(h, handler[h].of) /\ Asked(h)
         /\ IncidentOK(handler[h].of)
         /\ audit[handler[h].of] \in [Stage -> Status \cup {"none"}]
         /\ requests[handler[h].of]["timeout"] \in Nat /\ requests[handler[h].of]["post"] \in Nat
<1>1. IncidentsTypeOK
  BY DEF IInv
<1>2. Working(h) /\ handler[h] \in Busy /\ handler[h].of \in Incident
  BY <1>1, Busyness
<1>3. Place(h, handler[h].of) /\ Heard(h, handler[h].of) /\ Asked(h) /\ IncidentOK(handler[h].of)
  BY <1>2 DEF IInv, WorkOK
<1>4. /\ audit[handler[h].of] \in [Stage -> Status \cup {"none"}]
      /\ requests[handler[h].of]["timeout"] \in Nat /\ requests[handler[h].of]["post"] \in Nat
  BY <1>1, <1>2 DEF IncidentsTypeOK, Kind
<1>5. QED
  BY <1>1, <1>2, <1>3, <1>4

(* A row that neither an incident nor its results are read from. *)
LEMMA ClaimsAreSilent ==
  ASSUME IInv, NEW i \in Incident, NEW status \in Status, Quiet,
         NEW stage \in {"timeout_claim", "timeout_api", "log_claim", "log_sent"},
         AppendAudit(i, stage, status)
  PROVE  /\ OnlyAuditOf(i) /\ IncidentOK(i)'
         /\ \A s \in {"spam_detection", "timeout_result", "log_result"} : audit'[i][s] = audit[i][s]
<1>1. IncidentsTypeOK /\ IncidentOK(i)
  BY DEF IInv
<1>2. stage \in Stage
  BY DEF Stage
<1>3. OnlyAuditOf(i)
  BY <1>1, <1>2, AppendWrites DEF OnlyAuditOf
<1>4. \A s \in {"spam_detection", "timeout_result", "log_result"} : audit'[i][s] = audit[i][s]
  <2>1. \A s \in Stage : s # stage => audit'[i][s] = audit[i][s]
    BY <1>1, <1>2, AppendWrites
  <2>2. QED
    BY <2>1 DEF Stage
<1>5. IncidentOK(i)'
  BY <1>1, <1>4 DEF IncidentOK, ResultOK, Quiet, discordVars
<1>6. QED
  BY <1>3, <1>4, <1>5

(* Nothing was requested yet, and nothing will be. *)
LEMMA SkipKeeps ==
  ASSUME IInv, NEW h \in Handler, Before(h), Requesting(h) => handler[h].answer # "none",
         Skip(h), Quiet
  PROVE  IInv'
<1>1. ~At(h, "idle")
  BY DEF Before, At
<1>0. PICK i \in Incident : i = handler[h].of
  BY <1>1, AtWork
<1>2. /\ IncidentsTypeOK /\ Working(h) /\ Place(h, i) /\ IncidentOK(i)
  BY <1>0, <1>1, AtWork
<1>3. AppendAudit(i, "timeout_result", "skipped") /\ Done(h)
  BY <1>0 DEF Skip
<1>4. "timeout_result" \in Stage /\ "skipped" \in Status /\ "spam_detection" \in Stage /\ "log_result" \in Stage
  BY DEF Stage, Status
<1>5. /\ OnlyAuditOf(i)
      /\ audit'[i]["spam_detection"] = audit[i]["spam_detection"]
      /\ audit'[i]["log_result"] = audit[i]["log_result"]
      /\ audit[i]["timeout_result"] = "none" => audit'[i]["timeout_result"] = "skipped"
  <2>1. /\ audit' \in [Incident -> [Stage -> Status \cup {"none"}]]
        /\ \A j \in Incident : j # i => audit'[j] = audit[j]
        /\ \A s \in Stage : s # "timeout_result" => audit'[i][s] = audit[i][s]
        /\ audit'[i]["timeout_result"] = IF audit[i]["timeout_result"] = "none" THEN "skipped"
                                         ELSE audit[i]["timeout_result"]
    BY <1>2, <1>3, <1>4, AppendWrites
  <2>2. QED
    BY <1>4, <2>1 DEF OnlyAuditOf
<1>6. /\ audit'[i]["timeout_result"] = "skipped"
      /\ requests[i]["timeout"] = 0 /\ requests[i]["post"] = 0
      /\ audit[i]["spam_detection"] # "none"
  BY <1>2, <1>5 DEF Place, Before
<1>7. IncidentOK(i)'
  BY <1>2, <1>5, <1>6 DEF IncidentOK, ResultOK, Quiet, discordVars
<1>8. QED
  BY <1>0, <1>2, <1>3, <1>5, <1>7, OverKeeps

(* Nothing is written, and nothing is requested. *)
LEMMA SilentStep ==
  ASSUME IInv, NEW i \in Incident, Quiet, UNCHANGED audit
  PROVE  OnlyAuditOf(i) /\ IncidentOK(i)'
<1>1. IncidentsTypeOK /\ IncidentOK(i)
  BY DEF IInv
<1>2. OnlyAuditOf(i)
  BY <1>1 DEF OnlyAuditOf, IncidentsTypeOK
<1>3. IncidentOK(i)'
  BY <1>1 DEF IncidentOK, ResultOK, Quiet, discordVars
<1>4. QED
  BY <1>2, <1>3

LEMMA StopsSilently ==
  ASSUME IInv, NEW h \in Handler, ~At(h, "idle"), Requesting(h) => handler[h].answer # "none",
         Done(h), Quiet, UNCHANGED audit
  PROVE  IInv'
<1>1. PICK i \in Incident : i = handler[h].of
  BY AtWork
<1>2. Working(h)
  BY AtWork
<1>3. OnlyAuditOf(i) /\ IncidentOK(i)'
  BY SilentStep
<1>4. QED
  BY <1>1, <1>2, <1>3, OverKeeps

(* It goes on after a row that nothing is read from, or none. *)
LEMMA GoesOnSilently ==
  ASSUME IInv, NEW h \in Handler, NEW i \in Incident, NEW pc \in Step, ~At(h, "idle"),
         handler[h].of = i,
         Requesting(h) => handler[h].answer # "none", Go(h, pc), Quiet, OnlyAuditOf(i), IncidentOK(i)',
         \A s \in {"spam_detection", "timeout_result", "log_result"} : audit'[i][s] = audit[i][s],
         pc \in {"first", "claimed"} => Before(h) /\ enabled,
         pc = "channel" => audit[i]["timeout_result"] = "success" /\ requests[i]["post"] = 0,
         pc \in {"first", "claimed", "channel"}
  PROVE  IInv'
<1>1. Working(h) /\ IncidentsTypeOK /\ Place(h, i)
  BY AtWork
<1>2. handler'[h].pc = pc
  BY <1>1, GoMoves
<1>3. requests' = requests /\ enabled' = enabled /\ posted' = posted
  BY DEF Quiet, discordVars, inputVars
<1>4. Place(h, i)'
  <2>1. CASE pc \in {"first", "claimed"}
    BY <1>1, <1>2, <1>3, <2>1 DEF Place, Before, At
  <2>2. CASE pc = "channel"
    BY <1>1, <1>2, <1>3, <2>2 DEF Place, Before, At
  <2>3. QED
    BY <2>1, <2>2
<1>5. Asked(h)'
  BY <1>2, <1>3 DEF Asked, At
<1>6. QED
  BY <1>1, <1>4, <1>5, GoingOnKeeps
-----------------------------------------------------------------------------
(* The steps of a handler, one by one. *)
LEMMA MemberFetchedStep ==
  ASSUME IInv, NEW h \in Handler, MemberFetched(h)
  PROVE  IInv'
<1>1. /\ At(h, "member") /\ ~At(h, "idle") /\ ~Requesting(h) /\ Before(h) /\ Quiet
  BY DEF MemberFetched, At, Requesting, Before, Quiet
<1>2. CASE Skip(h)
  BY <1>1, <1>2, SkipKeeps
<1>3. CASE enabled /\ Go(h, "first") /\ UNCHANGED audit
  <2>1. PICK i \in Incident : i = handler[h].of
    BY <1>1, AtWork
  <2>2. OnlyAuditOf(i) /\ IncidentOK(i)'
    BY <1>1, <1>3, SilentStep
  <2>3. "first" \in Step
    BY DEF Step
  <2>4. QED
    BY <1>1, <1>3, <2>1, <2>2, <2>3, GoesOnSilently
<1>4. QED
  BY <1>2, <1>3 DEF MemberFetched

LEMMA ConsentReadStep ==
  ASSUME IInv, NEW h \in Handler, ConsentRead(h)
  PROVE  IInv'
<1>1. /\ At(h, "first") \/ At(h, "second")
      /\ ~At(h, "idle") /\ ~Requesting(h) /\ Quiet /\ UNCHANGED audit
  BY DEF ConsentRead, At, Requesting, Quiet
<1>2. PICK i \in Incident : i = handler[h].of
  BY <1>1, AtWork
<1>3. /\ IncidentsTypeOK /\ Working(h) /\ handler[h] \in Busy
      /\ Place(h, i) /\ Asked(h)
  BY <1>1, <1>2, AtWork
<1>4. PICK answer \in {"no"} \cup (IF Effective(consent) THEN {"yes"} ELSE {}) :
        handler' = [handler EXCEPT ![h].answer = answer]
  BY DEF ConsentRead
<1>5. answer \in Answer /\ (answer = "yes" => Effective(consent))
  BY <1>4 DEF Answer
<1> DEFINE b == [handler[h] EXCEPT !.answer = answer]
<1>6. /\ b \in Busy /\ b.pc = handler[h].pc /\ b.of = i
      /\ b.answer = answer /\ b.granted = handler[h].granted
  BY <1>2, <1>3, <1>5 DEF Busy
<1>7. handler \in [Handler -> Busy \cup {Idle}] /\ handler' = [handler EXCEPT ![h] = b]
  BY <1>3, <1>4 DEF IncidentsTypeOK
<1> HIDE DEF b
<1>8. handler' \in [Handler -> Busy \cup {Idle}] /\ handler'[h] = b
      /\ \A g \in Handler : g # h => handler'[g] = handler[g]
  BY <1>6, <1>7
<1>9. OnlyAuditOf(i) /\ IncidentOK(i)'
  BY <1>1, SilentStep
<1>10. requests \in [Incident -> [Kind -> Nat]]
  BY <1>3 DEF IncidentsTypeOK
<1>11. Local(h, i)
  BY <1>1, <1>6, <1>8, <1>9, <1>10 DEF Local, Quiet, OnlyAuditOf, discordVars, inputVars
<1>12. handler'[h].pc = handler[h].pc /\ handler'[h].of = i /\ handler'[h].answer = answer
       /\ handler'[h].granted = handler[h].granted
  BY <1>6, <1>8
<1>13. /\ requests' = requests /\ enabled' = enabled /\ posted' = posted /\ consent' = consent
       /\ audit' = audit
  BY <1>1 DEF Quiet, discordVars, inputVars
<1>14. Place(h, i)'
  BY <1>3, <1>12, <1>13 DEF Place, Before, At
<1>15. Heard(h, i)'
  BY <1>1, <1>12 DEF Heard, At
<1>16. Asked(h)'
  BY <1>3, <1>5, <1>12, <1>13 DEF Asked, At, Effective
<1>17. WorkOK(h)'
  BY <1>12, <1>14, <1>15, <1>16 DEF WorkOK
<1>18. Alone(h, i)
  BY <1>1, <1>2, NoneUnderWay
<1>19. QED
  BY <1>9, <1>11, <1>17, <1>18, LocalKeeps

LEMMA ClaimStep ==
  ASSUME IInv, NEW h \in Handler, Claim(h)
  PROVE  IInv'
<1>1. /\ At(h, "first") /\ ~At(h, "idle") /\ ~Requesting(h) /\ Before(h) /\ Quiet
  BY DEF Claim, At, Requesting, Before, Quiet
<1>2. PICK i \in Incident : i = handler[h].of
  BY <1>1, AtWork
<1>3. enabled
  BY <1>1, AtWork DEF Asked, At
<1>4. CASE Skip(h)
  BY <1>1, <1>4, SkipKeeps
<1>5. CASE Done(h) /\ UNCHANGED audit
  BY <1>1, <1>5, StopsSilently
<1>6. CASE AppendAudit(i, "timeout_claim", "pending") /\ Go(h, "claimed")
  <2>1. /\ OnlyAuditOf(i) /\ IncidentOK(i)'
        /\ \A s \in {"spam_detection", "timeout_result", "log_result"} : audit'[i][s] = audit[i][s]
    BY <1>1, <1>6, ClaimsAreSilent DEF Status
  <2>2. "claimed" \in Step
    BY DEF Step
  <2>3. QED
    BY <1>1, <1>2, <1>3, <1>6, <2>1, <2>2, GoesOnSilently
<1>7. QED
  BY <1>2, <1>4, <1>5, <1>6 DEF Claim

LEMMA CheckStep ==
  ASSUME IInv, NEW h \in Handler, Check(h)
  PROVE  IInv'
<1>1. /\ At(h, "claimed") /\ ~At(h, "idle") /\ ~Requesting(h) /\ Before(h) /\ Quiet
  BY DEF Check, At, Requesting, Before, Quiet
<1>2. CASE Skip(h)
  BY <1>1, <1>2, SkipKeeps
<1>3. CASE ~Skip(h)
  <2>1. /\ UNCHANGED audit
        /\ handler' = [handler EXCEPT ![h].pc = "second", ![h].answer = "none",
                                      ![h].granted = Effective(consent)]
    BY <1>3 DEF Check
  <2>2. PICK i \in Incident : i = handler[h].of
    BY <1>1, AtWork
  <2>3. /\ IncidentsTypeOK /\ handler[h] \in Busy /\ Place(h, i) /\ Asked(h)
    BY <1>1, <2>2, AtWork
  <2> DEFINE b == [handler[h] EXCEPT !.pc = "second", !.answer = "none",
                                     !.granted = Effective(consent)]
  <2>4. /\ b \in Busy /\ b.pc = "second" /\ b.of = i
        /\ b.answer = "none" /\ b.granted = Effective(consent)
    <3>1. Effective(consent) \in BOOLEAN
      BY <2>3 DEF Effective, IncidentsTypeOK
    <3>2. QED
      BY <2>2, <2>3, <3>1 DEF Busy, Step, Answer
  <2>5. handler \in [Handler -> Busy \cup {Idle}] /\ handler' = [handler EXCEPT ![h] = b]
    BY <2>1, <2>3 DEF IncidentsTypeOK
  <2> HIDE DEF b
  <2>6. handler' \in [Handler -> Busy \cup {Idle}] /\ handler'[h] = b
        /\ \A g \in Handler : g # h => handler'[g] = handler[g]
    BY <2>4, <2>5
  <2>7. OnlyAuditOf(i) /\ IncidentOK(i)' /\ requests \in [Incident -> [Kind -> Nat]]
    BY <1>1, <2>1, <2>3, SilentStep DEF IncidentsTypeOK
  <2>8. Local(h, i)
    BY <1>1, <2>4, <2>6, <2>7 DEF Local, Quiet, OnlyAuditOf, discordVars, inputVars
  <2>9. handler'[h].pc = "second" /\ handler'[h].of = i /\ handler'[h].answer = "none"
        /\ handler'[h].granted = Effective(consent)
    BY <2>4, <2>6
  <2>10. /\ requests' = requests /\ enabled' = enabled /\ posted' = posted /\ consent' = consent
         /\ audit' = audit
    BY <1>1, <2>1 DEF Quiet, discordVars, inputVars
  <2>11. Place(h, i)'
    BY <1>1, <2>3, <2>9, <2>10 DEF Place, Before, At
  <2>12. Heard(h, i)' /\ Asked(h)'
    BY <1>1, <2>3, <2>9, <2>10 DEF Heard, Asked, At, Effective
  <2>13. WorkOK(h)'
    BY <2>9, <2>11, <2>12 DEF WorkOK
  <2>14. Alone(h, i)
    BY <1>1, <2>2, NoneUnderWay
  <2>15. QED
    BY <2>7, <2>8, <2>13, <2>14, LocalKeeps
<1>4. QED
  BY <1>2, <1>3

LEMMA DenyStep ==
  ASSUME IInv, NEW h \in Handler, Deny(h)
  PROVE  IInv'
<1>1. ~Requesting(h) /\ Before(h) /\ Quiet /\ Skip(h)
  BY DEF Deny, At, Requesting, Before, Quiet
<1>2. QED
  BY <1>1, SkipKeeps

LEMMA AbortStep ==
  ASSUME IInv, NEW h \in Handler, Abort(h)
  PROVE  IInv'
<1>1. handler[h] # Idle /\ (Awaits(h) => handler[h].answer # "none") /\ Done(h) /\ Quiet /\ UNCHANGED audit
  BY DEF Abort, Quiet
<1>2. ~At(h, "idle")
  BY <1>1, WorkingIsBusy DEF IInv, Working
<1>3. Requesting(h) => handler[h].answer # "none"
  BY <1>1 DEF Awaits, Requesting
<1>4. QED
  BY <1>1, <1>2, <1>3, StopsSilently

(* A request begins: the handler waits for it, and its call stands for it. *)
LEMMA RequestStep ==
  ASSUME IInv, NEW h \in Handler, NEW i \in Incident, NEW kind \in Kind,
         ~At(h, "idle"), ~Requesting(h), handler[h].of = i,
         Go(h, kind), Request(h, kind), UNCHANGED inputVars,
         OnlyAuditOf(i),
         \A s \in {"spam_detection", "timeout_result", "log_result"} : audit'[i][s] = audit[i][s],
         requests[i][kind] = 0,
         kind = "timeout" => audit[i]["timeout_result"] = "none",
         kind = "post" => audit[i]["timeout_result"] = "success"
  PROVE  IInv'
<1>1. /\ IncidentsTypeOK /\ Working(h) /\ Place(h, i) /\ IncidentOK(i)
  BY AtWork
<1>2. kind \in Step
  BY DEF Kind, Step
<1>3. /\ handler' \in [Handler -> Busy \cup {Idle}]
      /\ handler'[h] \in Busy
      /\ handler'[h].pc = kind /\ handler'[h].of = i /\ handler'[h].answer = "none"
      /\ \A g \in Handler : g # h => handler'[g] = handler[g]
  BY <1>1, <1>2, GoMoves
<1>4. requests \in [Incident -> [Kind -> Nat]]
  BY <1>1 DEF IncidentsTypeOK
<1>5. requests' = [requests EXCEPT ![i][kind] = @ + 1]
  BY DEF Request
<1>6. /\ requests' \in [Incident -> [Kind -> Nat]]
      /\ \A j \in Incident : j # i => requests'[j] = requests[j]
      /\ requests'[i][kind] = 1
      /\ \A k \in Kind : k # kind => requests'[i][k] = requests[i][k]
  BY <1>4, <1>5
<1>7. /\ timedOut' = timedOut /\ posted' = posted /\ doubtful' = doubtful
      /\ consent' = consent /\ enabled' = enabled /\ inputs' = inputs
      /\ calls' = calls \cup {NewCall(i, h, kind)}
  BY DEF Request, NewCall, inputVars
<1>8. handler'[h] # Idle
  BY <1>3 DEF Busy, Idle, Step
<1>9. kind = "timeout" => i \notin timedOut
  BY <1>1 DEF IncidentOK
<1>10. kind = "post" => i \notin posted
  BY <1>1 DEF IncidentOK
<1>11. /\ audit'[i]["spam_detection"] # "none" /\ audit'[i]["log_result"] = "none"
       /\ audit'[i]["timeout_result"] = audit[i]["timeout_result"]
  BY <1>1 DEF Place
<1> DEFINE c == NewCall(i, h, kind)
<1>12. c.kind = kind /\ c.of = i /\ c.by = h /\ c.orphan = FALSE
  BY DEF NewCall
<1> HIDE DEF c
<1>13. Repeated(c)'
  BY <1>7, <1>9, <1>10, <1>12 DEF Repeated, c, NewCall
<1>14. CallOK(c)'
  <2>1. handler'[c.by] = handler'[h]
    BY <1>12
  <2>2. /\ requests'[c.of][c.kind] # 0
        /\ audit'[c.of]["spam_detection"] # "none" /\ audit'[c.of]["log_result"] = "none"
        /\ c.kind = "timeout" => audit'[c.of]["timeout_result"] = "none"
    BY <1>6, <1>11, <1>12
  <2>3. Working(c.by)' /\ handler'[c.by].of = c.of /\ At(c.by, c.kind)' /\ handler'[c.by].answer = "none"
    BY <1>3, <1>8, <1>12 DEF Working, At, c, NewCall
  <2>4. QED
    BY <1>12, <1>13, <2>2, <2>3 DEF CallOK, c, NewCall
<1>15. Local(h, i)
  <2>1. calls' = calls \cup {NewCall(i, h, kind)} /\ CallOK(NewCall(i, h, kind))'
    BY <1>7, <1>14 DEF c
  <2>2. QED
    BY <1>3, <1>6, <1>7, <2>1 DEF Local, OnlyAuditOf
<1>16. IncidentOK(i)'
  <2>1. CASE kind = "timeout"
    <3>1. requests'[i]["timeout"] = 1 /\ requests'[i]["post"] = requests[i]["post"]
      BY <1>6, <2>1 DEF Kind
    <3>2. QED
      BY <1>1, <1>7, <1>11, <2>1, <3>1 DEF IncidentOK, ResultOK, Place
  <2>2. CASE kind = "post"
    <3>1. requests'[i]["post"] = 1 /\ requests'[i]["timeout"] = requests[i]["timeout"]
      BY <1>6, <2>2 DEF Kind
    <3>2. QED
      BY <1>1, <1>7, <1>11, <2>2, <3>1 DEF IncidentOK, ResultOK, Place
  <2>3. QED
    BY <2>1, <2>2 DEF Kind
<1>17. Place(h, i)'
  <2>1. CASE kind = "timeout"
    <3>1. requests[i]["post"] = 0
      <4>1. requests[i]["post"] \in Nat
        BY AtWork
      <4>2. QED
        BY <1>1, <2>1, <4>1 DEF IncidentOK, ResultOK
    <3>2. requests'[i]["post"] = 0
      BY <1>6, <2>1, <3>1 DEF Kind
    <3>3. QED
      BY <1>3, <1>11, <2>1, <3>2 DEF Place, Before, At
  <2>2. CASE kind = "post"
    BY <1>3, <1>11, <2>2 DEF Place, Before, At
  <2>3. QED
    BY <2>1, <2>2 DEF Kind
<1>18. Heard(h, i)' /\ Asked(h)'
  BY <1>3 DEF Heard, Asked, At, Kind
<1>19. WorkOK(h)'
  BY <1>3, <1>17, <1>18 DEF WorkOK
<1>20. Alone(h, i)
  BY NoneUnderWay
<1>21. QED
  BY <1>15, <1>16, <1>19, <1>20, LocalKeeps

LEMMA CallTimeoutStep ==
  ASSUME IInv, NEW h \in Handler, CallTimeout(h)
  PROVE  IInv'
<1>1. /\ At(h, "second") /\ ~At(h, "idle") /\ ~Requesting(h) /\ Before(h) /\ UNCHANGED inputVars
  BY DEF CallTimeout, At, Requesting, Before
<1>2. PICK i \in Incident : i = handler[h].of
  BY <1>1, AtWork
<1>3. Place(h, i) /\ IncidentsTypeOK
  BY <1>1, <1>2, AtWork
<1>4. CASE Done(h) /\ UNCHANGED <<audit, discordVars>>
  BY <1>1, <1>4, StopsSilently DEF Quiet
<1>5. CASE AppendAudit(i, "timeout_api", "pending") /\ Go(h, "timeout") /\ Request(h, "timeout")
  <2>1. /\ audit' \in [Incident -> [Stage -> Status \cup {"none"}]]
        /\ \A j \in Incident : j # i => audit'[j] = audit[j]
        /\ \A s \in Stage : s # "timeout_api" => audit'[i][s] = audit[i][s]
    BY <1>3, <1>5, AppendWrites DEF Stage, Status
  <2>2. OnlyAuditOf(i)
    BY <2>1 DEF OnlyAuditOf
  <2>3. \A s \in {"spam_detection", "timeout_result", "log_result"} : audit'[i][s] = audit[i][s]
    BY <2>1 DEF Stage
  <2>4. requests[i]["timeout"] = 0 /\ audit[i]["timeout_result"] = "none" /\ "timeout" \in Kind
    BY <1>1, <1>3 DEF Place, Kind
  <2>5. QED
    BY <1>1, <1>2, <1>5, <2>2, <2>3, <2>4, RequestStep
<1>6. QED
  BY <1>2, <1>4, <1>5 DEF CallTimeout

LEMMA ClaimLogStep ==
  ASSUME IInv, NEW h \in Handler, ClaimLog(h)
  PROVE  IInv'
<1>1. At(h, "log") /\ ~At(h, "idle") /\ ~Requesting(h) /\ Quiet
  BY DEF ClaimLog, At, Requesting, Quiet
<1>2. PICK i \in Incident : i = handler[h].of
  BY <1>1, AtWork
<1>3. Place(h, i)
  BY <1>1, <1>2, AtWork
<1>4. CASE Done(h) /\ UNCHANGED audit
  BY <1>1, <1>4, StopsSilently
<1>5. CASE AppendAudit(i, "log_claim", "pending") /\ Go(h, "channel")
  <2>1. /\ OnlyAuditOf(i) /\ IncidentOK(i)'
        /\ \A s \in {"spam_detection", "timeout_result", "log_result"} : audit'[i][s] = audit[i][s]
    BY <1>1, <1>5, ClaimsAreSilent DEF Status
  <2>2. audit[i]["timeout_result"] = "success" /\ requests[i]["post"] = 0 /\ "channel" \in Step
    BY <1>1, <1>3 DEF Place, At, Step
  <2>3. QED
    BY <1>1, <1>2, <1>5, <2>1, <2>2, GoesOnSilently
<1>6. QED
  BY <1>2, <1>4, <1>5 DEF ClaimLog

(* The result of the log message is the last row a handler writes. *)
LEMMA LogResultStep ==
  ASSUME IInv, NEW h \in Handler, NEW i \in Incident, NEW status \in Status,
         ~At(h, "idle"), handler[h].of = i, Requesting(h) => handler[h].answer # "none",
         AppendAudit(i, "log_result", status), Done(h), Quiet,
         status \in {"sent", "sent_edit_failed"} => i \in posted,
         status = "failed" => i \notin posted \/ <<i, "post">> \in doubtful
  PROVE  IInv'
<1>1. IncidentsTypeOK /\ Working(h) /\ Place(h, i) /\ IncidentOK(i)
  BY AtWork
<1>2. /\ audit' \in [Incident -> [Stage -> Status \cup {"none"}]]
      /\ \A j \in Incident : j # i => audit'[j] = audit[j]
      /\ \A s \in Stage : s # "log_result" => audit'[i][s] = audit[i][s]
      /\ audit'[i]["log_result"] = IF audit[i]["log_result"] = "none" THEN status
                                   ELSE audit[i]["log_result"]
  BY <1>1, AppendWrites DEF Stage
<1>3. /\ audit'[i]["spam_detection"] = audit[i]["spam_detection"]
      /\ audit'[i]["timeout_result"] = audit[i]["timeout_result"]
      /\ audit'[i]["log_result"] = status
  BY <1>1, <1>2 DEF Stage, Place
<1>4. audit[i]["spam_detection"] # "none"
  BY <1>1 DEF Place
<1>5. IncidentOK(i)'
  BY <1>1, <1>3, <1>4 DEF IncidentOK, ResultOK, Quiet, discordVars
<1>6. OnlyAuditOf(i)
  BY <1>2 DEF OnlyAuditOf
<1>7. QED
  BY <1>1, <1>5, <1>6, OverKeeps

LEMMA ChannelFetchedStep ==
  ASSUME IInv, NEW h \in Handler, ChannelFetched(h)
  PROVE  IInv'
<1>1. At(h, "channel") /\ ~At(h, "idle") /\ ~Requesting(h) /\ UNCHANGED inputVars
  BY DEF ChannelFetched, At, Requesting
<1>2. PICK i \in Incident : i = handler[h].of
  BY <1>1, AtWork
<1>3. Place(h, i) /\ IncidentOK(i) /\ IncidentsTypeOK
  BY <1>1, <1>2, AtWork
<1>4. audit[i]["timeout_result"] = "success" /\ requests[i]["post"] = 0
  BY <1>1, <1>3 DEF Place, At
<1>5. CASE AppendAudit(i, "log_result", "failed") /\ Done(h) /\ UNCHANGED discordVars
  <2>1. i \notin posted
    BY <1>3, <1>4 DEF IncidentOK
  <2>2. "failed" \in Status /\ Quiet
    BY <1>1, <1>5 DEF Status, Quiet
  <2>3. QED
    BY <1>1, <1>2, <1>5, <2>1, <2>2, LogResultStep
<1>6. CASE Go(h, "post") /\ Request(h, "post") /\ UNCHANGED audit
  <2>1. OnlyAuditOf(i) /\ "post" \in Kind
    BY <1>3, <1>6 DEF OnlyAuditOf, IncidentsTypeOK, Kind
  <2>2. QED
    BY <1>1, <1>2, <1>4, <1>6, <2>1, RequestStep
<1>7. QED
  BY <1>2, <1>5, <1>6 DEF ChannelFetched

LEMMA FailureStatus ==
  ASSUME NEW answer
  PROVE  /\ timeoutFailureStatus(answer) \in {"failed", "unknown"}
         /\ timeoutFailureStatus(answer) = "failed" => answer = "refused"
BY DEF timeoutFailureStatus

LEMMA PostAnsweredStep ==
  ASSUME IInv, NEW h \in Handler, PostAnswered(h)
  PROVE  IInv'
<1>1. At(h, "post") /\ ~At(h, "idle") /\ handler[h].answer # "none" /\ Quiet
  BY DEF PostAnswered, At, Quiet
<1>2. PICK i \in Incident : i = handler[h].of
  BY <1>1, AtWork
<1>3. Place(h, i) /\ Heard(h, i) /\ IncidentOK(i) /\ IncidentsTypeOK /\ Working(h)
  BY <1>1, <1>2, AtWork
<1>4. CASE handler[h].answer = "ok" /\ AppendAudit(i, "log_sent", "sent") /\ Go(h, "edit")
  <2>1. /\ OnlyAuditOf(i) /\ IncidentOK(i)'
        /\ \A s \in {"spam_detection", "timeout_result", "log_result"} : audit'[i][s] = audit[i][s]
    BY <1>1, <1>4, ClaimsAreSilent DEF Status
  <2>2. "edit" \in Step
    BY DEF Step
  <2>3. handler'[h].pc = "edit"
    BY <1>1, <1>3, <1>4, <2>2, GoMoves
  <2>4. i \in posted /\ posted' = posted /\ requests' = requests
    BY <1>1, <1>3, <1>4 DEF Heard, Quiet, discordVars
  <2>5. Place(h, i)'
    BY <1>1, <1>3, <2>1, <2>3, <2>4 DEF Place, Before, At
  <2>6. Asked(h)'
    BY <2>3 DEF Asked, At
  <2>7. QED
    BY <1>1, <1>2, <1>3, <1>4, <2>1, <2>2, <2>5, <2>6, GoingOnKeeps
<1>5. CASE /\ handler[h].answer # "ok"
           /\ AppendAudit(i, "log_result", timeoutFailureStatus(handler[h].answer)) /\ Done(h)
  <2> DEFINE status == timeoutFailureStatus(handler[h].answer)
  <2>1. status \in {"failed", "unknown"} /\ (status = "failed" => handler[h].answer = "refused")
    BY FailureStatus
  <2>2. status = "failed" => i \notin posted \/ <<i, "post">> \in doubtful
    BY <1>1, <1>3, <2>1 DEF Heard
  <2>3. status \in Status
    BY <2>1 DEF Status
  <2>4. QED
    BY <1>1, <1>2, <1>5, <2>1, <2>2, <2>3, LogResultStep
<1>6. QED
  BY <1>2, <1>4, <1>5 DEF PostAnswered

LEMMA EditAnsweredStep ==
  ASSUME IInv, NEW h \in Handler, EditAnswered(h)
  PROVE  IInv'
<1>1. At(h, "edit") /\ ~At(h, "idle") /\ ~Requesting(h) /\ Quiet /\ Done(h)
  BY DEF EditAnswered, At, Requesting, Quiet
<1>2. PICK i \in Incident : i = handler[h].of
  BY <1>1, AtWork
<1>3. i \in posted
  BY <1>1, <1>2, AtWork DEF Place
<1>4. PICK status \in {"sent", "sent_edit_failed"} : AppendAudit(i, "log_result", status)
  BY <1>2 DEF EditAnswered
<1>5. status \in Status /\ status # "failed"
  BY <1>4 DEF Status
<1>6. QED
  BY <1>1, <1>2, <1>3, <1>4, <1>5, LogResultStep

LEMMA TimeoutAnsweredStep ==
  ASSUME IInv, NEW h \in Handler, TimeoutAnswered(h)
  PROVE  IInv'
<1>1. At(h, "timeout") /\ ~At(h, "idle") /\ handler[h].answer # "none" /\ Quiet
  BY DEF TimeoutAnswered, At, Quiet
<1>2. PICK i \in Incident : i = handler[h].of
  BY <1>1, AtWork
<1>3. Place(h, i) /\ Heard(h, i) /\ IncidentOK(i) /\ IncidentsTypeOK /\ Working(h)
  BY <1>1, <1>2, AtWork
<1> DEFINE status == IF handler[h].answer = "ok" THEN "success"
                     ELSE timeoutFailureStatus(handler[h].answer)
<1>4. PICK result \in {"success", "failed", "unknown"} :
        /\ result = "success" <=> handler[h].answer = "ok"
        /\ result = "failed" => handler[h].answer = "refused"
        /\ AppendAudit(i, "timeout_result", result)
  <2>1. AppendAudit(i, "timeout_result", status)
    BY <1>2 DEF TimeoutAnswered
  <2>2. CASE handler[h].answer = "ok"
    BY <2>1, <2>2
  <2>3. CASE handler[h].answer # "ok"
    BY <2>1, <2>3, FailureStatus
  <2>4. QED
    BY <2>2, <2>3
<1>5. /\ audit' \in [Incident -> [Stage -> Status \cup {"none"}]]
      /\ \A j \in Incident : j # i => audit'[j] = audit[j]
      /\ \A s \in Stage : s # "timeout_result" => audit'[i][s] = audit[i][s]
      /\ audit'[i]["timeout_result"] = IF audit[i]["timeout_result"] = "none" THEN result
                                       ELSE audit[i]["timeout_result"]
  BY <1>3, <1>4, AppendWrites DEF Stage, Status
<1>6. /\ audit'[i]["spam_detection"] = audit[i]["spam_detection"]
      /\ audit'[i]["log_result"] = audit[i]["log_result"]
      /\ audit'[i]["timeout_result"] = result
  BY <1>1, <1>3, <1>5 DEF Stage, Place
<1>7. audit[i]["spam_detection"] # "none" /\ audit[i]["log_result"] = "none" /\ requests[i]["post"] = 0
  BY <1>1, <1>3 DEF Place, At
<1>8. /\ result = "success" => i \in timedOut
      /\ result = "failed" => i \notin timedOut \/ <<i, "timeout">> \in doubtful
  BY <1>1, <1>3, <1>4 DEF Heard
<1>9. IncidentOK(i)'
  <2>1. timedOut' = timedOut /\ posted' = posted /\ requests' = requests /\ doubtful' = doubtful
    BY <1>1 DEF Quiet, discordVars
  <2>2. result # "skipped"
    OBVIOUS
  <2>3. ResultOK(i)'
    BY <1>6, <1>7, <1>8, <2>1, <2>2 DEF ResultOK
  <2>4. QED
    BY <1>3, <1>6, <1>7, <2>1, <2>3 DEF IncidentOK
<1>10. OnlyAuditOf(i)
  BY <1>5 DEF OnlyAuditOf
<1>11. CASE handler[h].answer = "ok"
  <2>1. Go(h, "log") /\ "log" \in Step
    BY <1>11 DEF TimeoutAnswered, Step
  <2>2. handler'[h].pc = "log"
    BY <1>1, <1>3, <2>1, GoMoves
  <2>3. requests' = requests /\ posted' = posted
    BY <1>1 DEF Quiet, discordVars
  <2>4. Place(h, i)'
    BY <1>4, <1>6, <1>7, <1>11, <2>2, <2>3 DEF Place, Before, At
  <2>5. Asked(h)'
    BY <2>2 DEF Asked, At
  <2>6. QED
    BY <1>1, <1>2, <1>3, <1>9, <1>10, <2>1, <2>4, <2>5, GoingOnKeeps
<1>12. CASE handler[h].answer # "ok"
  <2>1. Done(h)
    BY <1>12 DEF TimeoutAnswered
  <2>2. QED
    BY <1>1, <1>2, <1>3, <1>9, <1>10, <2>1, OverKeeps
<1>13. QED
  BY <1>11, <1>12
-----------------------------------------------------------------------------
LEMMA StutterKeeps ==
  ASSUME IInv, UNCHANGED incidentVars
  PROVE  IInv'
<1>1. /\ audit' = audit /\ handler' = handler /\ calls' = calls /\ timedOut' = timedOut
      /\ posted' = posted /\ consent' = consent /\ enabled' = enabled /\ inputs' = inputs
      /\ requests' = requests /\ doubtful' = doubtful
  BY DEF incidentVars, discordVars, inputVars
<1>2. IncidentsTypeOK' /\ SoleOK' /\ CallsApart'
  BY <1>1 DEF IInv, IncidentsTypeOK, SoleOK, CallsApart, Working
<1>3. ASSUME NEW i \in Incident PROVE IncidentOK(i)'
  BY <1>1 DEF IInv, IncidentOK, ResultOK
<1>4. ASSUME NEW h \in Handler PROVE WorkOK(h)'
  <2>1. WorkOK(h)
    BY DEF IInv
  <2>2. QED
    BY <1>1, <2>1 DEF WorkOK, Working, Place, Heard, Asked, Before, At, Effective
<1>5. ASSUME NEW c \in calls' PROVE CallOK(c)'
  <2>1. CallOK(c)
    BY <1>1, <1>5 DEF IInv
  <2>2. QED
    BY <1>1, <2>1 DEF CallOK, Working, Repeated, At
<1>6. QED
  BY <1>2, <1>3, <1>4, <1>5 DEF IInv

(* The first delivery of a message puts its incident into one handler's hands. *)
LEMMA BeginStep ==
  ASSUME IInv, NEW h \in Handler, NEW i \in Incident, NEW fallback \in BOOLEAN, Begin(h, i, fallback)
  PROVE  IInv'
<1>1. IncidentsTypeOK /\ IncidentOK(i)
  BY DEF IInv
<1>2. At(h, "idle") /\ Quiet /\ AppendAudit(i, "spam_detection", "detected")
  BY DEF Begin, Quiet
<1>3. CASE ~Inserted(i, "spam_detection") /\ UNCHANGED handler
  BY <1>2, <1>3, StutterKeeps DEF AppendAudit, Inserted, Quiet, incidentVars
<1>4. CASE audit[i]["spam_detection"] = "none"
  <2> DEFINE b == [pc |-> "member", of |-> i, fallback |-> fallback, answer |-> "none", granted |-> FALSE]
  <2>1. handler' = [handler EXCEPT ![h] = b]
    BY <1>4 DEF Begin, Inserted
  <2>2. b \in Busy /\ b.pc = "member" /\ b.of = i /\ b.answer = "none"
    BY DEF Busy, Step, Answer
  <2> HIDE DEF b
  <2>3. /\ handler' \in [Handler -> Busy \cup {Idle}] /\ handler'[h] = b
        /\ \A g \in Handler : g # h => handler'[g] = handler[g]
    BY <1>1, <2>1, <2>2 DEF IncidentsTypeOK
  <2>4. /\ audit' \in [Incident -> [Stage -> Status \cup {"none"}]]
        /\ \A j \in Incident : j # i => audit'[j] = audit[j]
        /\ \A s \in Stage : s # "spam_detection" => audit'[i][s] = audit[i][s]
        /\ audit'[i]["spam_detection"] = IF audit[i]["spam_detection"] = "none" THEN "detected"
                                         ELSE audit[i]["spam_detection"]
    BY <1>1, <1>2, AppendWrites DEF Stage, Status
  <2>5. /\ audit'[i]["spam_detection"] = "detected"
        /\ audit'[i]["timeout_result"] = "none" /\ audit'[i]["log_result"] = "none"
        /\ requests[i]["timeout"] = 0 /\ requests[i]["post"] = 0
    BY <1>1, <1>4, <2>4 DEF IncidentOK, Stage
  <2>6. /\ requests' = requests /\ timedOut' = timedOut /\ posted' = posted /\ doubtful' = doubtful
        /\ calls' = calls /\ consent' = consent /\ enabled' = enabled /\ inputs' = inputs
    BY <1>2 DEF Quiet, discordVars, inputVars
  <2>7. requests \in [Incident -> [Kind -> Nat]]
    BY <1>1 DEF IncidentsTypeOK
  <2>8. Local(h, i)
    BY <2>2, <2>3, <2>4, <2>6, <2>7 DEF Local
  <2>9. IncidentOK(i)'
    BY <1>1, <2>5, <2>6 DEF IncidentOK, ResultOK
  <2>10. WorkOK(h)'
    <3>1. handler'[h].pc = "member" /\ handler'[h].of = i /\ handler'[h].answer = "none"
      BY <2>2, <2>3
    <3>2. Place(h, i)'
      BY <2>5, <2>6, <3>1 DEF Place, Before, At
    <3>3. Heard(h, i)' /\ Asked(h)'
      BY <3>1 DEF Heard, Asked, At
    <3>4. QED
      BY <3>1, <3>2, <3>3 DEF WorkOK
  <2>11. Alone(h, i)
    <3>1. ASSUME NEW c \in calls PROVE c.of # i /\ (~c.orphan => c.by # h)
      <4>1. CallOK(c) /\ c \in Call
        BY <1>1 DEF IInv, IncidentsTypeOK
      <4>2. c.of # i
        BY <1>4, <4>1 DEF CallOK
      <4>3. ~c.orphan => handler[c.by] # Idle /\ c.by \in Handler
        BY <4>1 DEF CallOK, Working, Call
      <4>4. handler[h] = Idle
        BY <1>1, <1>2, WorkingIsBusy DEF Working
      <4>5. QED
        BY <4>2, <4>3, <4>4
    <3>2. ASSUME NEW g \in Handler, Working(g) PROVE handler[g].of # i
      BY <1>4, <3>2 DEF IInv, WorkOK, Place
    <3>3. QED
      BY <3>1, <3>2 DEF Alone
  <2>12. QED
    BY <2>8, <2>9, <2>10, <2>11, LocalKeeps
<1>5. QED
  BY <1>3, <1>4 DEF Begin, Inserted

(* Nobody is at work when the bot is back; what is under way belongs to nobody. *)
LEMMA RestartStep ==
  ASSUME IInv, NEW failed \in SUBSET calls, Restart(failed)
  PROVE  IInv'
<1>1. IncidentsTypeOK
  BY DEF IInv
<1>2. /\ audit' = audit /\ timedOut' = timedOut /\ posted' = posted /\ requests' = requests
      /\ doubtful' = doubtful /\ consent' = consent /\ enabled' \in BOOLEAN
      /\ handler' = [h \in Handler |-> Idle]
      /\ calls' = {[c EXCEPT !.orphan = TRUE] : c \in calls \ failed}
      /\ inputs' = inputs + 1 /\ inputs < MaxInputs
  BY DEF Restart, Input
<1>3. \A h \in Handler : ~(Working(h)')
  BY <1>2 DEF Working
<1>4. ASSUME NEW d \in calls' PROVE d \in Call /\ CallOK(d)' /\ d.orphan
  <2>1. PICK c \in calls : d = [c EXCEPT !.orphan = TRUE]
    BY <1>2, <1>4
  <2>2. CallOK(c) /\ c \in Call
    BY <1>1 DEF IInv, IncidentsTypeOK
  <2>3. d \in Call /\ d.orphan /\ d.of = c.of /\ d.kind = c.kind
    BY <2>1, <2>2 DEF Call
  <2>4. QED
    BY <1>2, <1>3, <2>2, <2>3 DEF CallOK
<1>5. inputs' \in 0..MaxInputs
  BY <1>1, <1>2, MaxInputsAssumption DEF IncidentsTypeOK
<1>6. calls' \subseteq Call
  BY <1>4
<1>7. handler' \in [Handler -> Busy \cup {Idle}]
  BY <1>2
<1>8. IncidentsTypeOK'
  BY <1>1, <1>2, <1>5, <1>6, <1>7 DEF IncidentsTypeOK
<1>9. SoleOK' /\ CallsApart'
  BY <1>3, <1>4 DEF SoleOK, CallsApart
<1>10. ASSUME NEW i \in Incident PROVE IncidentOK(i)'
  BY <1>2 DEF IInv, IncidentOK, ResultOK
<1>11. ASSUME NEW h \in Handler PROVE WorkOK(h)'
  BY <1>3 DEF WorkOK
<1>12. QED
  BY <1>4, <1>8, <1>9, <1>10, <1>11 DEF IInv

(* Consent given while handlers wait for their second answer is noted. *)
LEMMA ConsentStep ==
  ASSUME IInv, NEW c \in [auto : {"none", "off", "on"}, stop : BOOLEAN], ConsentChanges(c)
  PROVE  IInv'
<1>1. IncidentsTypeOK
  BY DEF IInv
<1>2. /\ audit' = audit /\ calls' = calls /\ timedOut' = timedOut /\ posted' = posted
      /\ requests' = requests /\ doubtful' = doubtful /\ enabled' = enabled /\ consent' = c
      /\ inputs' = inputs + 1 /\ inputs < MaxInputs
      /\ handler' = [h \in Handler |-> IF At(h, "second") /\ Effective(c)
                                         THEN [handler[h] EXCEPT !.granted = TRUE] ELSE handler[h]]
  BY DEF ConsentChanges, Input, discordVars
<1>3. ASSUME NEW h \in Handler
      PROVE  /\ handler'[h] \in Busy \cup {Idle}
             /\ ~Working(h) => handler'[h] = handler[h]
             /\ Working(h) => /\ Working(h)'
                              /\ handler'[h].pc = handler[h].pc /\ handler'[h].of = handler[h].of
                              /\ handler'[h].answer = handler[h].answer
                              /\ handler[h].granted => handler'[h].granted
                              /\ At(h, "second") /\ Effective(c) => handler'[h].granted
  <2>1. handler[h] \in Busy \cup {Idle}
    BY <1>1 DEF IncidentsTypeOK
  <2>2. CASE At(h, "second") /\ Effective(c)
    <3>1. handler[h] \in Busy /\ Working(h)
      BY <1>1, <2>2, Busyness DEF At
    <3>2. handler'[h] = [handler[h] EXCEPT !.granted = TRUE]
      BY <1>2, <2>2
    <3>3. /\ handler'[h] \in Busy /\ handler'[h].pc = handler[h].pc /\ handler'[h].of = handler[h].of
          /\ handler'[h].answer = handler[h].answer /\ handler'[h].granted
      BY <3>1, <3>2 DEF Busy
    <3>4. handler'[h] # Idle
      BY <3>3 DEF Busy, Idle, Step
    <3>5. QED
      BY <3>1, <3>3, <3>4 DEF Working
  <2>3. CASE ~(At(h, "second") /\ Effective(c))
    <3>1. handler'[h] = handler[h]
      BY <1>2, <2>3
    <3>2. QED
      BY <2>1, <2>3, <3>1 DEF Working
  <2>4. QED
    BY <2>2, <2>3
<1>4. \A h \in Handler : handler'[h] # Idle => Working(h)
  BY <1>3 DEF Working
<1>5. IncidentsTypeOK'
  <2>1. handler' \in [Handler -> Busy \cup {Idle}]
    BY <1>2, <1>3
  <2>2. inputs' \in 0..MaxInputs
    BY <1>1, <1>2, MaxInputsAssumption DEF IncidentsTypeOK
  <2>3. QED
    BY <1>1, <1>2, <2>1, <2>2 DEF IncidentsTypeOK
<1>6. SoleOK'
  BY <1>3, <1>4 DEF SoleOK, IInv, Working
<1>7. CallsApart'
  BY <1>2 DEF CallsApart, IInv
<1>8. ASSUME NEW i \in Incident PROVE IncidentOK(i)'
  BY <1>2 DEF IInv, IncidentOK, ResultOK
<1>9. ASSUME NEW h \in Handler PROVE WorkOK(h)'
  <2> SUFFICES ASSUME Working(h)' PROVE Place(h, handler[h].of)' /\ Heard(h, handler[h].of)' /\ Asked(h)'
    BY DEF WorkOK
  <2>1. Working(h)
    BY <1>4 DEF Working
  <2>2. /\ handler'[h].pc = handler[h].pc /\ handler'[h].of = handler[h].of
        /\ handler'[h].answer = handler[h].answer
        /\ handler[h].granted => handler'[h].granted
        /\ At(h, "second") /\ Effective(c) => handler'[h].granted
    BY <1>3, <2>1
  <2>3. Place(h, handler[h].of) /\ Heard(h, handler[h].of) /\ Asked(h)
    BY <2>1 DEF IInv, WorkOK
  <2>4. Place(h, handler[h].of)'
    BY <1>2, <2>2, <2>3 DEF Place, Before, At
  <2>5. Heard(h, handler[h].of)'
    BY <1>2, <2>2, <2>3 DEF Heard, At
  <2>6. Asked(h)'
    BY <1>2, <2>2, <2>3 DEF Asked, At, Effective
  <2>7. QED
    BY <2>4, <2>5, <2>6
<1>10. ASSUME NEW d \in calls' PROVE CallOK(d)'
  <2>1. CallOK(d) /\ d \in Call
    BY <1>1, <1>2, <1>10 DEF IInv, IncidentsTypeOK
  <2>2. d.by \in Handler
    BY <2>1 DEF Call
  <2>3. d.orphan => \A h \in Handler : Working(h)' => handler'[h].of # d.of
    BY <1>3, <1>4, <2>1 DEF CallOK, Working
  <2>4. ~d.orphan => /\ Working(d.by)' /\ handler'[d.by].of = d.of
                     /\ At(d.by, d.kind)' /\ handler'[d.by].answer = "none"
    BY <1>3, <2>1, <2>2 DEF CallOK, At
  <2>5. ~d.orphan => Repeated(d)'
    BY <1>2, <2>1 DEF CallOK, Repeated
  <2>6. QED
    BY <1>2, <2>1, <2>3, <2>4, <2>5 DEF CallOK
<1>11. QED
  BY <1>5, <1>6, <1>7, <1>8, <1>9, <1>10 DEF IInv
-----------------------------------------------------------------------------
(* What an attempt at the request c changes in Discord. *)
Effects(c, took) ==
  /\ timedOut' = IF took /\ c.kind = "timeout" THEN timedOut \cup {c.of} ELSE timedOut
  /\ posted' = IF took /\ c.kind = "post" THEN posted \cup {c.of} ELSE posted
  /\ doubtful \subseteq doubtful'
  /\ audit' = audit /\ requests' = requests
  /\ consent' = consent /\ enabled' = enabled /\ inputs' = inputs

LEMMA AttemptEffects ==
  ASSUME NEW c \in Call, NEW took \in BOOLEAN, NEW answer, Attempt(c, took, answer)
  PROVE  Effects(c, took)
<1>1. /\ timedOut' = IF took /\ c.kind = "timeout" THEN timedOut \cup {c.of} ELSE timedOut
      /\ posted' = IF took /\ c.kind = "post" THEN posted \cup {c.of} ELSE posted
  <2>1. CASE took
    BY <2>1 DEF Attempt, TakesEffect
  <2>2. CASE ~took
    BY <2>2 DEF Attempt
  <2>3. QED
    BY <2>1, <2>2
<1>2. doubtful \subseteq doubtful'
  BY DEF Attempt
<1>3. QED
  BY <1>1, <1>2 DEF Attempt, Effects, inputVars

(* No result of the incident is written while a request for it is under way. *)
LEMMA EffectsKeepIncidents ==
  ASSUME IInv, NEW c \in calls, NEW took \in BOOLEAN, Effects(c, took), NEW i \in Incident
  PROVE  IncidentOK(i)'
<1>1. IncidentOK(i) /\ CallOK(c) /\ c \in Call /\ c.kind \in Kind
  BY DEF IInv, IncidentsTypeOK, Call
<1>2. audit' = audit /\ requests' = requests /\ doubtful \subseteq doubtful'
  BY DEF Effects
<1>3. CASE c.of # i
  <2>1. (i \in timedOut' <=> i \in timedOut) /\ (i \in posted' <=> i \in posted)
    BY <1>3 DEF Effects
  <2>2. QED
    BY <1>1, <1>2, <2>1 DEF IncidentOK, ResultOK
<1>4. CASE c.of = i /\ c.kind = "timeout"
  <2>1. /\ posted' = posted /\ (i \in timedOut => i \in timedOut')
        /\ requests[i]["timeout"] # 0 /\ audit[i]["timeout_result"] = "none"
    BY <1>1, <1>4 DEF Effects, CallOK
  <2>2. QED
    BY <1>1, <1>2, <2>1 DEF IncidentOK, ResultOK
<1>5. CASE c.of = i /\ c.kind = "post"
  <2>1. /\ timedOut' = timedOut /\ (i \in posted => i \in posted')
        /\ requests[i]["post"] # 0 /\ audit[i]["log_result"] = "none"
    BY <1>1, <1>5 DEF Effects, CallOK
  <2>2. QED
    BY <1>1, <1>2, <2>1 DEF IncidentOK, ResultOK
<1>6. QED
  BY <1>1, <1>3, <1>4, <1>5 DEF Kind

(* Other requests for its incident are nobody's. *)
LEMMA OthersAreElsewhere ==
  ASSUME IInv, NEW c \in calls, NEW d \in calls, d # c, ~d.orphan
  PROVE  d.of # c.of /\ (~c.orphan => d.by # c.by)
<1>1. CallOK(c) /\ CallOK(d) /\ c \in Call /\ d \in Call
  BY DEF IInv, IncidentsTypeOK
<1>2. Working(d.by) /\ handler[d.by].of = d.of /\ d.by \in Handler /\ c.by \in Handler
  BY <1>1 DEF CallOK, Call
<1>3. CASE c.orphan
  BY <1>1, <1>2, <1>3 DEF CallOK
<1>4. CASE ~c.orphan
  <2>1. d.by # c.by
    BY <1>4 DEF IInv, CallsApart
  <2>2. Working(c.by) /\ handler[c.by].of = c.of
    BY <1>1, <1>4 DEF CallOK
  <2>3. QED
    BY <1>2, <2>1, <2>2 DEF IInv, SoleOK
<1>5. QED
  BY <1>3, <1>4

(* Handlers that do not wait for c notice nothing. *)
LEMMA EffectsKeepHandlers ==
  ASSUME IInv, NEW c \in calls, NEW took \in BOOLEAN, Effects(c, took),
         NEW g \in Handler, c.orphan \/ c.by # g, handler'[g] = handler[g]
  PROVE  WorkOK(g)'
<1> SUFFICES ASSUME Working(g)'
             PROVE  Place(g, handler[g].of)' /\ Heard(g, handler[g].of)' /\ Asked(g)'
  BY DEF WorkOK
<1>1. Working(g) /\ CallOK(c) /\ c \in Call
  BY DEF Working, IInv, IncidentsTypeOK
<1>2. handler[g].of # c.of
  <2>1. CASE c.orphan
    BY <1>1, <2>1 DEF CallOK
  <2>2. CASE ~c.orphan
    <3>1. Working(c.by) /\ handler[c.by].of = c.of /\ c.by \in Handler
      BY <1>1, <2>2 DEF CallOK, Call
    <3>2. QED
      BY <1>1, <2>2, <3>1 DEF IInv, SoleOK
  <2>3. QED
    BY <2>1, <2>2
<1>3. PICK i : i = handler[g].of
  OBVIOUS
<1>4. Place(g, i) /\ Heard(g, i) /\ Asked(g)
  BY <1>1, <1>3 DEF IInv, WorkOK
<1>5. /\ i \in timedOut' <=> i \in timedOut
      /\ i \in posted' <=> i \in posted
      /\ doubtful \subseteq doubtful' /\ audit' = audit /\ requests' = requests
      /\ consent' = consent /\ enabled' = enabled
  BY <1>2, <1>3 DEF Effects
<1>6. Place(g, i)'
  BY <1>4, <1>5 DEF Place, Before, At
<1>7. Heard(g, i)'
  BY <1>4, <1>5 DEF Heard, At
<1>8. Asked(g)'
  BY <1>4, <1>5 DEF Asked, At, Effective
<1>9. handler'[g].of = i
  BY <1>3
<1>10. QED
  BY <1>6, <1>7, <1>8, <1>9

(* The other requests stay what they were, unless their handler is touched. *)
LEMMA EffectsKeepCalls ==
  ASSUME IInv, NEW c \in calls, NEW took \in BOOLEAN, Effects(c, took),
         NEW d \in calls, d # c,
         \A g \in Handler : /\ handler'[g] # Idle => Working(g) /\ handler'[g].of = handler[g].of
                            /\ c.orphan \/ g # c.by => handler'[g] = handler[g]
  PROVE  CallOK(d)'
<1>1. CallOK(d) /\ d \in Call /\ d.by \in Handler
  BY DEF IInv, IncidentsTypeOK, Call
<1>2. audit' = audit /\ requests' = requests /\ doubtful \subseteq doubtful'
  BY DEF Effects
<1>3. d.orphan => \A g \in Handler : Working(g)' => handler'[g].of # d.of
  BY <1>1 DEF CallOK, Working
<1>4. ASSUME ~d.orphan
      PROVE  /\ Working(d.by)' /\ handler'[d.by].of = d.of
             /\ At(d.by, d.kind)' /\ handler'[d.by].answer = "none"
             /\ Repeated(d)'
  <2>1. d.of # c.of /\ (~c.orphan => d.by # c.by)
    BY <1>4, OthersAreElsewhere
  <2>2. handler'[d.by] = handler[d.by]
    BY <1>1, <2>1
  <2>3. (d.of \in timedOut' => d.of \in timedOut) /\ (d.of \in posted' => d.of \in posted)
    BY <2>1 DEF Effects
  <2>4. Repeated(d)'
    BY <1>1, <1>2, <1>4, <2>3 DEF CallOK, Repeated
  <2>5. QED
    BY <1>1, <1>4, <2>2, <2>4 DEF CallOK, Working, At
<1>5. QED
  BY <1>1, <1>2, <1>3, <1>4 DEF CallOK

(* The library tries again: the call stands for one attempt more. *)
LEMMA RetryStep ==
  ASSUME IInv, NEW c \in calls, NEW took \in BOOLEAN, Effects(c, took),
         c.tries < MaxTries, ~c.orphan, UNCHANGED handler,
         calls' = (calls \ {c}) \cup {[c EXCEPT !.tries = @ + 1]},
         doubtful' = IF took THEN doubtful \cup {<<c.of, c.kind>>} ELSE doubtful
  PROVE  IInv'
<1>1. /\ IncidentsTypeOK /\ CallOK(c) /\ c \in Call
      /\ c.kind \in Kind /\ c.by \in Handler /\ c.of \in Incident
  BY DEF IInv, IncidentsTypeOK, Call
<1> DEFINE e == [c EXCEPT !.tries = @ + 1]
<1>2. e \in Call /\ e.kind = c.kind /\ e.of = c.of /\ e.by = c.by /\ e.orphan = c.orphan
  BY <1>1, MaxTriesAssumption DEF Call
<1>3. calls' = (calls \ {c}) \cup {e}
  OBVIOUS
<1> HIDE DEF e
<1>4. Repeated(e)'
  <2>1. Repeated(c)
    BY <1>1 DEF CallOK
  <2>2. ASSUME c.kind = "timeout", c.of \in timedOut' PROVE <<c.of, "timeout">> \in doubtful'
    BY <2>1, <2>2 DEF Effects, Repeated
  <2>3. ASSUME c.kind = "post", c.of \in posted' PROVE <<c.of, "post">> \in doubtful'
    BY <2>1, <2>3 DEF Effects, Repeated
  <2>4. /\ e.kind = "timeout" /\ e.of \in timedOut' => <<e.of, "timeout">> \in doubtful'
        /\ e.kind = "post" /\ e.of \in posted' => <<e.of, "post">> \in doubtful'
    BY <1>2, <2>2, <2>3
  <2>5. QED
    BY <2>4 DEF Repeated, e
<1>5. CallOK(e)'
  <2>1. /\ requests'[e.of][e.kind] # 0
        /\ audit'[e.of]["spam_detection"] # "none" /\ audit'[e.of]["log_result"] = "none"
        /\ e.kind = "timeout" => audit'[e.of]["timeout_result"] = "none"
    BY <1>1, <1>2 DEF CallOK, Effects
  <2>2. /\ handler'[e.by] # Idle /\ handler'[e.by].of = e.of
        /\ handler'[e.by].pc = e.kind /\ handler'[e.by].answer = "none"
    BY <1>1, <1>2 DEF CallOK, Working, At
  <2>3. ~e.orphan
    BY <1>2
  <2>4. QED
    BY <1>4, <2>1, <2>2, <2>3 DEF CallOK, Working, At, e
<1>6. \A d \in calls : d # c => CallOK(d)'
  BY EffectsKeepCalls DEF Working
<1>7. \A d \in calls' : CallOK(d)'
  BY <1>3, <1>5, <1>6 DEF e
<1>8. \A g \in Handler : WorkOK(g)'
  <2>1. ASSUME NEW g \in Handler, g # c.by PROVE WorkOK(g)'
    BY <2>1, EffectsKeepHandlers
  <2>2. WorkOK(c.by)'
    <3>1. PICK h \in Handler : h = c.by
      BY <1>1
    <3>2. PICK i \in Incident : i = c.of
      BY <1>1
    <3>3. /\ Working(h) /\ handler[h].of = i /\ At(h, c.kind) /\ handler[h].answer = "none"
          /\ Place(h, i) /\ handler' = handler
      BY <1>1, <3>1, <3>2 DEF CallOK, IInv, WorkOK
    <3>4. audit' = audit /\ requests' = requests
      BY DEF Effects
    <3>5. Place(h, i)'
      BY <1>1, <3>3, <3>4 DEF Place, Before, At, Kind
    <3>6. Heard(h, i)' /\ Asked(h)'
      BY <1>1, <3>3 DEF Heard, Asked, At, Kind
    <3>7. WorkOK(h)'
      BY <3>3, <3>5, <3>6 DEF WorkOK
    <3>8. QED
      BY <3>1, <3>7
  <2>3. QED
    BY <2>1, <2>2
<1>9. SoleOK'
  BY DEF IInv, SoleOK, Working
<1>10. CallsApart'
  <2>1. \A d \in calls : d # c /\ ~d.orphan => d.by # e.by
    BY <1>2, OthersAreElsewhere
  <2>2. CallsApart
    BY DEF IInv
  <2>3. QED
    BY <1>3, <2>1, <2>2 DEF CallsApart
<1>11. IncidentsTypeOK'
  <2>1. calls' \subseteq Call
    BY <1>1, <1>2, <1>3 DEF IncidentsTypeOK
  <2>2. doubtful' \subseteq Incident \X Kind
    BY <1>1 DEF IncidentsTypeOK
  <2>3. QED
    BY <1>1, <2>1, <2>2 DEF IncidentsTypeOK, Effects
<1>12. \A i \in Incident : IncidentOK(i)'
  BY EffectsKeepIncidents
<1>13. QED
  BY <1>7, <1>8, <1>9, <1>10, <1>11, <1>12 DEF IInv

(* The request is over; its handler, if it still lives, hears the answer. *)
LEMMA AnswerStep ==
  ASSUME IInv, NEW c \in calls, NEW took \in BOOLEAN, NEW answer \in {"ok", "refused", "broken"},
         Effects(c, took), answer = "ok" => took, answer = "refused" => ~took,
         calls' = calls \ {c}, UNCHANGED doubtful,
         IF c.orphan THEN UNCHANGED handler ELSE Answered(c, answer)
  PROVE  IInv'
<1>1. /\ IncidentsTypeOK /\ CallOK(c) /\ c \in Call
      /\ c.kind \in Kind /\ c.by \in Handler /\ c.of \in Incident
  BY DEF IInv, IncidentsTypeOK, Call
<1>2. handler \in [Handler -> Busy \cup {Idle}]
  BY <1>1 DEF IncidentsTypeOK
<1>3. ASSUME ~c.orphan
      PROVE  /\ handler' \in [Handler -> Busy \cup {Idle}]
             /\ handler'[c.by] # Idle
             /\ handler'[c.by].pc = handler[c.by].pc /\ handler'[c.by].of = handler[c.by].of
             /\ handler'[c.by].answer = answer
             /\ \A g \in Handler : g # c.by => handler'[g] = handler[g]
  <2>1. handler[c.by] \in Busy
    BY <1>1, <1>3, WorkingIsBusy DEF CallOK
  <2> DEFINE b == [handler[c.by] EXCEPT !.answer = answer]
  <2>2. /\ b \in Busy /\ b.pc = handler[c.by].pc /\ b.of = handler[c.by].of /\ b.answer = answer
    BY <2>1 DEF Busy, Answer
  <2>3. b # Idle
    BY <2>2 DEF Busy, Idle, Step
  <2>4. handler' = [handler EXCEPT ![c.by] = b]
    BY <1>2, <1>3 DEF Answered
  <2> HIDE DEF b
  <2>5. QED
    BY <1>1, <1>2, <2>2, <2>3, <2>4
<1>4. \A g \in Handler : /\ handler'[g] # Idle => Working(g) /\ handler'[g].of = handler[g].of
                         /\ c.orphan \/ g # c.by => handler'[g] = handler[g]
  <2> SUFFICES ASSUME NEW g \in Handler
               PROVE  /\ handler'[g] # Idle => Working(g) /\ handler'[g].of = handler[g].of
                      /\ c.orphan \/ g # c.by => handler'[g] = handler[g]
    OBVIOUS
  <2>1. CASE c.orphan
    BY <2>1 DEF Working
  <2>2. CASE ~c.orphan /\ g # c.by
    BY <1>3, <2>2 DEF Working
  <2>3. CASE ~c.orphan /\ g = c.by
    BY <1>1, <1>3, <2>3 DEF CallOK
  <2>4. QED
    BY <2>1, <2>2, <2>3
<1>5. \A d \in calls' : CallOK(d)'
  BY <1>4, EffectsKeepCalls
<1>6. \A g \in Handler : WorkOK(g)'
  <2>1. ASSUME NEW g \in Handler, c.orphan \/ g # c.by PROVE WorkOK(g)'
    BY <1>4, <2>1, EffectsKeepHandlers
  <2>2. ASSUME ~c.orphan PROVE WorkOK(c.by)'
    <3>1. PICK h \in Handler : h = c.by
      BY <1>1
    <3>2. PICK i \in Incident : i = c.of
      BY <1>1
    <3>3. /\ Working(h) /\ handler[h].of = i /\ At(h, c.kind) /\ Repeated(c)
          /\ Place(h, i)
      BY <1>1, <2>2, <3>1, <3>2 DEF CallOK, IInv, WorkOK
    <3>4. /\ handler'[h].pc = c.kind /\ handler'[h].of = i /\ handler'[h].answer = answer
      BY <1>3, <2>2, <3>1, <3>3 DEF At
    <3>5. audit' = audit /\ requests' = requests /\ doubtful' = doubtful
      BY DEF Effects
    <3>6. Place(h, i)'
      BY <1>1, <3>3, <3>4, <3>5 DEF Place, Before, At, Kind
    <3>7. Heard(h, i)'
      <4>1. CASE c.kind = "timeout"
        <5>1. answer = "ok" => i \in timedOut'
          BY <3>2, <4>1 DEF Effects
        <5>2. answer = "refused" => i \notin timedOut' \/ <<i, "timeout">> \in doubtful'
          BY <3>2, <3>3, <3>5, <4>1 DEF Effects, Repeated
        <5>3. QED
          BY <3>4, <4>1, <5>1, <5>2 DEF Heard, At
      <4>2. CASE c.kind = "post"
        <5>1. answer = "ok" => i \in posted'
          BY <3>2, <4>2 DEF Effects
        <5>2. answer = "refused" => i \notin posted' \/ <<i, "post">> \in doubtful'
          BY <3>2, <3>3, <3>5, <4>2 DEF Effects, Repeated
        <5>3. QED
          BY <3>4, <4>2, <5>1, <5>2 DEF Heard, At
      <4>3. QED
        BY <1>1, <4>1, <4>2 DEF Kind
    <3>8. Asked(h)'
      BY <1>1, <3>4 DEF Asked, At, Kind
    <3>9. WorkOK(h)'
      BY <3>4, <3>6, <3>7, <3>8 DEF WorkOK
    <3>10. QED
      BY <3>1, <3>9
  <2>3. QED
    BY <2>1, <2>2
<1>7. SoleOK'
  BY <1>4 DEF IInv, SoleOK, Working
<1>8. CallsApart'
  BY DEF IInv, CallsApart
<1>9. IncidentsTypeOK'
  <2>1. handler' \in [Handler -> Busy \cup {Idle}]
    BY <1>2, <1>3
  <2>2. timedOut' \subseteq Incident /\ posted' \subseteq Incident
    BY <1>1 DEF IncidentsTypeOK, Effects
  <2>3. QED
    BY <1>1, <2>1, <2>2 DEF IncidentsTypeOK, Effects
<1>10. \A i \in Incident : IncidentOK(i)'
  BY EffectsKeepIncidents
<1>11. QED
  BY <1>5, <1>6, <1>7, <1>8, <1>9, <1>10 DEF IInv

LEMMA AttemptStep ==
  ASSUME IInv, NEW c \in calls, NEW took \in BOOLEAN, NEW answer \in {"ok", "refused", "broken"},
         Attempt(c, took, answer)
  PROVE  IInv'
<1>1. c \in Call
  BY DEF IInv, IncidentsTypeOK
<1>2. Effects(c, took)
  BY <1>1, AttemptEffects
<1>3. CASE answer = "broken" /\ c.tries < MaxTries /\ ~c.orphan
  BY <1>2, <1>3, RetryStep DEF Attempt
<1>4. CASE ~(answer = "broken" /\ c.tries < MaxTries /\ ~c.orphan)
  BY <1>2, <1>4, AnswerStep DEF Attempt
<1>5. QED
  BY <1>3, <1>4
-----------------------------------------------------------------------------
LEMMA InitHolds == ASSUME IncidentsInit PROVE IInv
<1>1. IncidentsTypeOK
  <2>1. 0 \in 0..MaxInputs
    BY MaxInputsAssumption
  <2>2. QED
    BY <2>1 DEF IncidentsInit, IncidentsTypeOK
<1>2. SoleOK /\ CallsApart
  BY DEF IncidentsInit, SoleOK, CallsApart, Working
<1>3. ASSUME NEW i \in Incident PROVE IncidentOK(i)
  BY DEF IncidentsInit, IncidentOK, ResultOK, Stage, Kind
<1>4. ASSUME NEW h \in Handler PROVE WorkOK(h)
  BY DEF IncidentsInit, WorkOK, Working
<1>5. \A c \in calls : CallOK(c)
  BY DEF IncidentsInit
<1>6. QED
  BY <1>1, <1>2, <1>3, <1>4, <1>5 DEF IInv

LEMMA StepKeeps == ASSUME IInv, [IncidentsNext]_incidentVars PROVE IInv'
<1>1. ASSUME NEW h \in Handler, NEW i \in Incident, NEW fallback \in BOOLEAN, Begin(h, i, fallback)
      PROVE  IInv'
  BY <1>1, BeginStep
<1>2. ASSUME NEW h \in Handler, HandlerStep(h) PROVE IInv'
  BY <1>2, MemberFetchedStep, ConsentReadStep, ClaimStep, CheckStep, CallTimeoutStep, DenyStep,
     TimeoutAnsweredStep, ClaimLogStep, ChannelFetchedStep, PostAnsweredStep, EditAnsweredStep,
     AbortStep DEF HandlerStep
<1>3. ASSUME NEW c \in calls, NEW took \in BOOLEAN, NEW answer \in {"ok", "refused", "broken"},
             Attempt(c, took, answer)
      PROVE  IInv'
  BY <1>3, AttemptStep
<1>4. ASSUME Enroll \/ (\E auto \in {"off", "on"} : SetAuto(auto)) \/ \E stop \in BOOLEAN : SetStop(stop)
      PROVE  IInv'
  <2>1. consent \in [auto : {"none", "off", "on"}, stop : BOOLEAN]
    BY DEF IInv, IncidentsTypeOK
  <2>2. PICK c \in [auto : {"none", "off", "on"}, stop : BOOLEAN] : ConsentChanges(c)
    <3>1. CASE Enroll
      BY <2>1, <3>1 DEF Enroll
    <3>2. ASSUME NEW auto \in {"off", "on"}, SetAuto(auto)
          PROVE  \E c \in [auto : {"none", "off", "on"}, stop : BOOLEAN] : ConsentChanges(c)
      BY <2>1, <3>2 DEF SetAuto
    <3>3. ASSUME NEW stop \in BOOLEAN, SetStop(stop)
          PROVE  \E c \in [auto : {"none", "off", "on"}, stop : BOOLEAN] : ConsentChanges(c)
      BY <2>1, <3>3 DEF SetStop
    <3>4. QED
      BY <1>4, <3>1, <3>2, <3>3
  <2>3. QED
    BY <2>2, ConsentStep
<1>5. ASSUME NEW failed \in SUBSET calls, Restart(failed) PROVE IInv'
  BY <1>5, RestartStep
<1>6. CASE UNCHANGED incidentVars
  BY <1>6, StutterKeeps
<1>7. QED
  BY <1>1, <1>2, <1>3, <1>4, <1>5, <1>6 DEF IncidentsNext
-----------------------------------------------------------------------------
(* Every reachable state of the audit, the handlers and the requests is well
   typed, whatever is delivered, lost and repeated. *)
THEOREM TypeCorrect == IncidentsSpec => []IncidentsTypeOK
<1>1. IncidentsInit => IInv
  BY InitHolds
<1>2. IInv /\ [IncidentsNext]_incidentVars => IInv'
  BY StepKeeps
<1>3. IInv => IncidentsTypeOK
  BY DEF IInv
<1>4. QED
  BY <1>1, <1>2, <1>3, PTL DEF IncidentsSpec

(* One timeout and one log message are requested for a message at most:
   redeliveries, restarts and handlers side by side do not add one
   (handleSpamDetection, appendAudit). *)
THEOREM TimeoutsHappenOnce == IncidentsSpec => []EffectsHappenOnce
<1>1. IncidentsInit => IInv
  BY InitHolds
<1>2. IInv /\ [IncidentsNext]_incidentVars => IInv'
  BY StepKeeps
<1>3. IInv => EffectsHappenOnce
  BY DEF IInv, IncidentOK, EffectsHappenOnce, Kind
<1>4. QED
  BY <1>1, <1>2, <1>3, PTL DEF IncidentsSpec

(* The audit tells what happened in Discord, as far as its answers allow
   (timeoutFailureStatus, sendTimeoutIncidentLog). *)
THEOREM AuditIsTrue == IncidentsSpec => []ResultsAreTrue
<1>1. IncidentsInit => IInv
  BY InitHolds
<1>2. IInv /\ [IncidentsNext]_incidentVars => IInv'
  BY StepKeeps
<1>3. IInv => ResultsAreTrue
  BY DEF IInv, IncidentOK, ResultOK, ResultsAreTrue
<1>4. QED
  BY <1>1, <1>2, <1>3, PTL DEF IncidentsSpec

(* A step that requests a timeout is one of a handler that was allowed to. *)
LEMMA OnlyAllowedRequests ==
  ASSUME IInv, [IncidentsNext]_incidentVars, NEW i \in Incident,
         requests'[i]["timeout"] > requests[i]["timeout"]
  PROVE  enabled /\ \E h \in Handler : handler[h] # Idle /\ handler[h].of = i /\ handler[h].granted
<1>1. requests \in [Incident -> [Kind -> Nat]]
  BY DEF IInv, IncidentsTypeOK
<1>2. requests[i]["timeout"] \in Nat
  BY <1>1 DEF Kind
<1>3. requests' # requests
  BY <1>2
<1>4. PICK h \in Handler : CallTimeout(h) \/ ChannelFetched(h)
  BY <1>3 DEF IncidentsNext, incidentVars, discordVars, inputVars, Begin, HandlerStep, MemberFetched,
              ConsentRead, Claim, Check, Deny, TimeoutAnswered, ClaimLog, PostAnswered, EditAnswered,
              Abort, Attempt, Enroll, SetAuto, SetStop, ConsentChanges, Restart
<1>5. PICK kind \in Kind : Request(h, kind) /\ (kind = "timeout" => CallTimeout(h))
  BY <1>3, <1>4 DEF CallTimeout, ChannelFetched, discordVars, Kind
<1>6. requests' = [requests EXCEPT ![handler[h].of][kind] = @ + 1]
  BY <1>5 DEF Request
<1>7. handler[h].of = i /\ kind = "timeout"
  BY <1>1, <1>2, <1>6 DEF Kind
<1>8. At(h, "second") /\ handler[h].answer = "yes"
  BY <1>5, <1>7 DEF CallTimeout, Allowed
<1>9. Working(h) /\ Asked(h)
  BY <1>8, AtWork DEF At
<1>10. QED
  BY <1>7, <1>8, <1>9 DEF Working, Asked, At

(* Nobody is timed out by a guild that had not consented, or no longer had,
   when the handler asked for the last time (mayAutomaticallyTimeout). *)
THEOREM TimeoutsHaveConsent == IncidentsSpec => NoTimeoutWithoutConsent
<1>1. IncidentsInit => IInv
  BY InitHolds
<1>2. IInv /\ [IncidentsNext]_incidentVars => IInv'
  BY StepKeeps
<1>3. IInv /\ [IncidentsNext]_incidentVars =>
        [\A i \in Incident : requests'[i]["timeout"] > requests[i]["timeout"] =>
           enabled /\ \E h \in Handler : handler[h] # Idle /\ handler[h].of = i /\ handler[h].granted]_incidentVars
  BY OnlyAllowedRequests
<1>4. QED
  BY <1>1, <1>2, <1>3, PTL DEF IncidentsSpec, NoTimeoutWithoutConsent
-----------------------------------------------------------------------------
(***************************************************************************)
(* The stored policy and its cache (SpamPolicy), for every set of fields,  *)
(* values, commands and reads, and every time to live.                     *)
(***************************************************************************)
CommandState(x) ==
  \/ x = Waiting
  \/ x \in [pc : {"reading"}, field : Field, value : Value]
  \/ x = [pc |-> "saving"]
  \/ x \in [pc : {"saved"}, version : Version]

LoadState(x) ==
  \/ x = Unused
  \/ x \in [state : {"asked"}, for : Command \cup {None}, invalidated : BOOLEAN]
  \/ x \in [state : {"read"}, for : Command \cup {None}, invalidated : BOOLEAN,
            found : Found, version : Version, held : 0..MaxQuery]

Entry == [found : Found, version : Version, left : 1..Ttl]

(* PolicyTypeOK does not say that these are functions. *)
PolicyTypes ==
  /\ PolicyTypeOK
  /\ command = [c \in Command |-> command[c]]
  /\ load = [l \in Load |-> load[l]]

LEMMA PolicyConstants ==
  /\ Ttl \in Nat /\ Ttl > 0 /\ MaxQuery \in Nat /\ MaxSaves \in Nat /\ MaxCommands \in Nat
  /\ None \notin Load /\ None \notin Command /\ None \notin Policy /\ Fallback \notin Policy
  /\ Default \in Policy /\ Form \subseteq Policy
  BY TicksAssumption, NoneAssumption, DefaultAssumption, FormAssumption DEF Policy

LEMMA LoadTypes ==
  ASSUME NEW loads, loads = [l \in Load |-> loads[l]], \A l \in Load : LoadState(loads[l])
  PROVE  /\ \A j \in Load : loads[j] # Unused =>
              LET after == [loads EXCEPT ![j].invalidated = TRUE]
              IN  /\ after = [l \in Load |-> after[l]]
                  /\ \A l \in Load : LoadState(after[l])
         /\ \A j \in Load : \A for \in Command \cup {None} :
              LET after == [loads EXCEPT ![j] = [state |-> "asked", for |-> for, invalidated |-> FALSE]]
              IN  /\ after = [l \in Load |-> after[l]]
                  /\ \A l \in Load : LoadState(after[l])
  <1>1. ASSUME NEW j \in Load, loads[j] # Unused
        PROVE  LET after == [loads EXCEPT ![j].invalidated = TRUE]
               IN  /\ after = [l \in Load |-> after[l]]
                   /\ \A l \in Load : LoadState(after[l])
    <2> DEFINE after == [loads EXCEPT ![j].invalidated = TRUE]
    <2>1. /\ after = [l \in Load |-> after[l]] /\ \A l \in Load \ {j} : after[l] = loads[l]
          /\ after[j] = [loads[j] EXCEPT !.invalidated = TRUE]
      OBVIOUS
    <2>2. LoadState([loads[j] EXCEPT !.invalidated = TRUE])
      <3>1. CASE loads[j] \in [state : {"asked"}, for : Command \cup {None}, invalidated : BOOLEAN]
        BY <3>1 DEF LoadState
      <3>2. CASE loads[j] \in [state : {"read"}, for : Command \cup {None}, invalidated : BOOLEAN,
                               found : Found, version : Version, held : 0..MaxQuery]
        BY <3>2 DEF LoadState
      <3> QED BY <1>1, <3>1, <3>2 DEF LoadState
    <2> HIDE DEF after
    <2>3. \A l \in Load : LoadState(after[l])
      BY <2>1, <2>2
    <2> QED BY <2>1, <2>3 DEF after
  <1>2. ASSUME NEW j \in Load, NEW for \in Command \cup {None}
        PROVE  LET after == [loads EXCEPT ![j] = [state |-> "asked", for |-> for, invalidated |-> FALSE]]
               IN  /\ after = [l \in Load |-> after[l]]
                   /\ \A l \in Load : LoadState(after[l])
    BY DEF LoadState
  <1> QED BY <1>1, <1>2

LEMMA PatchedFields ==
  ASSUME NEW f \in Field, NEW policy \in Policy, NEW patch, DOMAIN patch = {f}, patch[f] \in Value
  PROVE  /\ Patched(patch, policy) \in Policy
         /\ Patched(patch, policy)[f] = patch[f]
         /\ \A g \in Field \ {f} : Patched(patch, policy)[g] = policy[g]
  BY DEF Patched, Policy

(* A statement changes the field its command meant, and no other. *)
StatementOK(s) ==
  /\ s \in Statement
  /\ DOMAIN s.patch = {s.field} /\ s.patch[s.field] \in Value
  /\ s.absent # None => s.absent \in BOOLEAN

LEMMA ContinueSaves ==
  ASSUME PolicyTypes, NEW c \in Command, NEW found \in Found, command[c].pc = "reading",
         Continue(c, found)
  PROVE  /\ command' = [k \in Command |-> command'[k]]
         /\ \A k \in Command : CommandState(command'[k])
         /\ \A k \in Command : command'[k].pc = "saved" => command'[k] = command[k]
         /\ \A s \in statements' : s \notin statements => StatementOK(s) /\ s.absent = None
  <1> DEFINE field == command[c].field
             value == command[c].value
             base == IF found = None THEN Default ELSE found
             next == [base EXCEPT ![field] = value]
             changed == getChangedSpamPolicyFields(base, next)
             new == [by |-> c, orphan |-> FALSE, field |-> field, absent |-> None,
                     patch |-> [f \in changed |-> next[f]]]
  <1>1. field \in Field /\ value \in Value
    BY DEF PolicyTypes, PolicyTypeOK, Waiting
  <1>2. \A k \in Command : CommandState(command[k])
    BY DEF PolicyTypes, PolicyTypeOK, CommandState
  <1>3. command = [k \in Command |-> command[k]]
    BY DEF PolicyTypes
  <1>4. \/ command' = [command EXCEPT ![c] = Waiting] /\ UNCHANGED statements
        \/ /\ ~(found = Fallback \/ base = next)
           /\ command' = [command EXCEPT ![c] = [pc |-> "saving"]]
           /\ statements' = statements \cup {new}
    BY DEF Continue
  <1>5. /\ command' = [k \in Command |-> command'[k]]
        /\ \A k \in Command : CommandState(command'[k])
        /\ \A k \in Command : command'[k].pc = "saved" => command'[k] = command[k]
    <2> HIDE DEF field, base, next, new
    <2>1. \A k \in Command \ {c} : command'[k] = command[k]
      BY <1>3, <1>4
    <2>2. command'[c] = Waiting \/ command'[c] = [pc |-> "saving"]
      BY <1>3, <1>4
    <2>3. command' = [k \in Command |-> command'[k]]
      BY <1>3, <1>4
    <2> QED BY <1>2, <2>1, <2>2, <2>3 DEF CommandState, Waiting
  <1>6. ASSUME ~(found = Fallback \/ base = next)
        PROVE  StatementOK(new) /\ new.absent = None
    <2>1. base \in Policy
      BY <1>6, PolicyConstants DEF Found
    <2>2. next \in Policy /\ next[field] = value /\ \A f \in Field \ {field} : next[f] = base[f]
      BY <1>1, <2>1 DEF Policy
    <2> HIDE DEF base, next, field, value
    <2>3. changed = {field}
      <3>1. changed \subseteq {field}
        BY <2>2 DEF getChangedSpamPolicyFields
      <3>2. base[field] # next[field]
        <4>1. \E f \in Field : base[f] # next[f]
          BY <1>6, <2>1, <2>2 DEF Policy
        <4> QED BY <4>1, <2>2
      <3> QED BY <1>1, <3>1, <3>2 DEF getChangedSpamPolicyFields
    <2> HIDE DEF changed
    <2>4. /\ [f \in changed |-> next[f]] \in [{field} -> Value]
          /\ DOMAIN [f \in changed |-> next[f]] = {field}
          /\ [f \in changed |-> next[f]][field] \in Value
      BY <1>1, <2>2, <2>3 DEF Policy
    <2>5. [{field} -> Value] \in {[fs -> Value] : fs \in SUBSET Field}
      BY <1>1
    <2> QED BY <1>1, <2>4, <2>5 DEF StatementOK, Statement
  <1> HIDE DEF new, base, next
  <1> QED BY <1>4, <1>5, <1>6

(* A read under way for a command is the only one, and its command waits for
   it; the read to be joined is under way. *)
Readers ==
  /\ inFlight # None => load[inFlight] # Unused
  /\ \A l \in Load : load[l] # Unused /\ load[l].for # None =>
       /\ command[load[l].for].pc = "reading"
       /\ \A k \in Load \ {l} : load[k] # Unused => load[k].for # load[l].for

TypeInv == PolicyTypes /\ Readers

LEMMA TypesUnfolded ==
  ASSUME TypeInv
  PROVE  /\ row \in Policy \cup {None} /\ version \in Version /\ settled \in Version
         /\ command = [c \in Command |-> command[c]] /\ \A c \in Command : CommandState(command[c])
         /\ load = [l \in Load |-> load[l]] /\ \A l \in Load : LoadState(load[l])
         /\ \A s \in statements : s \in Statement
         /\ entry = None \/ entry \in Entry
         /\ inFlight \in Load \cup {None}
         /\ age \in [Version -> Age] /\ begun \in 0..MaxCommands
         /\ meant \in Policy /\ lost \subseteq Field
  BY DEF TypeInv, PolicyTypes, PolicyTypeOK, CommandState, LoadState, Entry

LEMMA TypesFolded ==
  ASSUME row' \in Policy \cup {None}, version' \in Version, settled' \in Version,
         command' = [c \in Command |-> command'[c]], \A c \in Command : CommandState(command'[c]),
         load' = [l \in Load |-> load'[l]], \A l \in Load : LoadState(load'[l]),
         \A s \in statements' : s \in Statement,
         entry' = None \/ entry' \in Entry,
         inFlight' \in Load \cup {None},
         age' \in [Version -> Age], begun' \in 0..MaxCommands,
         meant' \in Policy, lost' \subseteq Field,
         Readers'
  PROVE  TypeInv'
  BY DEF TypeInv, PolicyTypes, PolicyTypeOK, CommandState, LoadState, Entry

LEMMA InvalidatedLoads ==
  ASSUME TypeInv
  PROVE  /\ Invalidated(load) = [l \in Load |-> Invalidated(load)[l]]
         /\ \A l \in Load : LoadState(Invalidated(load)[l])
         /\ \A l \in Load : l # inFlight => Invalidated(load)[l] = load[l]
         /\ \A l \in Load : l = inFlight => /\ Invalidated(load)[l] = [load[l] EXCEPT !.invalidated = TRUE]
                                            /\ load[l] # Unused
  <1>1. CASE inFlight = None
    BY <1>1, TypesUnfolded, PolicyConstants DEF Invalidated
  <1>2. CASE inFlight # None
    <2>1. inFlight \in Load /\ load[inFlight] # Unused
      BY <1>2, TypesUnfolded DEF TypeInv, Readers
    <2>2. Invalidated(load) = [load EXCEPT ![inFlight].invalidated = TRUE]
      BY <1>2 DEF Invalidated
    <2> QED BY <2>1, <2>2, LoadTypes, TypesUnfolded
  <1> QED BY <1>1, <1>2

(* What marking a read keeps of it. *)
LEMMA MarkedLoad ==
  ASSUME NEW x, LoadState(x), x # Unused
  PROVE  LET y == [x EXCEPT !.invalidated = TRUE]
         IN  /\ y # Unused /\ y.for = x.for /\ y.state = x.state /\ y.invalidated
             /\ x.state = "read" => y.version = x.version /\ y.held = x.held /\ y.found = x.found
  <1>1. CASE x \in [state : {"asked"}, for : Command \cup {None}, invalidated : BOOLEAN]
    BY <1>1 DEF Unused
  <1>2. CASE x \in [state : {"read"}, for : Command \cup {None}, invalidated : BOOLEAN,
                    found : Found, version : Version, held : 0..MaxQuery]
    BY <1>2 DEF Unused
  <1> QED BY <1>1, <1>2 DEF LoadState

LEMMA TypesInitially ==
  ASSUME PolicyInit PROVE TypeInv
  <1>1. Readers
    BY DEF PolicyInit, Readers, Unused
  <1>2. 0 \in Version /\ 0 \in Age /\ 0 \in 0..MaxCommands
    BY PolicyConstants DEF Version, Age
  <1>3. command = [c \in Command |-> command[c]] /\ \A c \in Command : CommandState(command[c])
    BY DEF PolicyInit, CommandState
  <1>4. load = [l \in Load |-> load[l]] /\ \A l \in Load : LoadState(load[l])
    BY DEF PolicyInit, LoadState
  <1> QED BY <1>1, <1>2, <1>3, <1>4, PolicyConstants
          DEF PolicyInit, TypeInv, PolicyTypes, PolicyTypeOK, CommandState, LoadState

LEMMA TypesAfterReads ==
  ASSUME TypeInv, NEW l \in Load, MessageReads(l) \/ LoadReads(l) PROVE TypeInv'
  <1>1. CASE MessageReads(l)
    <2>1. load' = [k \in Load |-> load'[k]] /\ \A k \in Load : LoadState(load'[k])
      BY <1>1, LoadTypes, TypesUnfolded DEF MessageReads, NewLoad
    <2>2. load'[l].for = None /\ load'[l] # Unused /\ \A k \in Load \ {l} : load'[k] = load[k]
      BY <1>1, TypesUnfolded DEF MessageReads, NewLoad, Unused
    <2>3. Readers'
      BY <1>1, <2>2 DEF TypeInv, Readers, MessageReads
    <2> HIDE DEF Readers
    <2> QED BY <1>1, <2>1, <2>3, TypesUnfolded, TypesFolded
            DEF MessageReads, storedVars
  <1>2. CASE LoadReads(l)
    <2>1. load[l] \in [state : {"asked"}, for : Command \cup {None}, invalidated : BOOLEAN]
      BY <1>2, TypesUnfolded DEF LoadReads, LoadState, Unused
    <2>2. PICK found \in {row, Fallback} :
            load' = [load EXCEPT ![l] = [state |-> "read", for |-> load[l].for, invalidated |-> load[l].invalidated,
                                         found |-> found, version |-> version, held |-> 0]]
      BY <1>2 DEF LoadReads
    <2>3. found \in Found /\ version \in Version /\ 0 \in 0..MaxQuery
      BY TypesUnfolded, PolicyConstants DEF Found
    <2>4. /\ load'[l].for = load[l].for /\ load'[l] # Unused /\ LoadState(load'[l])
          /\ load' = [k \in Load |-> load'[k]] /\ \A k \in Load \ {l} : load'[k] = load[k]
      BY <2>1, <2>2, <2>3, TypesUnfolded DEF LoadState, Unused
    <2>5. load[l] # Unused
      BY <2>1 DEF Unused
    <2>6. Readers'
      BY <1>2, <2>4, <2>5 DEF TypeInv, Readers, LoadReads
    <2>7. \A k \in Load : LoadState(load'[k])
      BY <2>4, TypesUnfolded
    <2> QED BY <1>2, <2>4, <2>6, <2>7, TypesUnfolded, TypesFolded
            DEF LoadReads, storedVars
  <1> QED BY <1>1, <1>2

LEMMA TypesAfterEnd ==
  ASSUME TypeInv, NEW l \in Load, LoadEnds(l) PROVE TypeInv'
  <1>1. load[l] \in [state : {"read"}, for : Command \cup {None}, invalidated : BOOLEAN,
                     found : Found, version : Version, held : 0..MaxQuery]
    BY TypesUnfolded DEF LoadEnds, LoadState, Unused
  <1>2. Ttl \in 1..Ttl
    BY PolicyConstants
  <1>3. entry' = None \/ entry' \in Entry
    BY <1>1, <1>2, TypesUnfolded DEF LoadEnds, Entry
  <1>4. /\ load' = [k \in Load |-> load'[k]] /\ load'[l] = Unused
        /\ \A k \in Load \ {l} : load'[k] = load[k]
    BY TypesUnfolded DEF LoadEnds
  <1>5. \A k \in Load : LoadState(load'[k])
    BY <1>4, TypesUnfolded DEF LoadState
  <1>6. inFlight' \in Load \cup {None} /\ (inFlight' # None => load'[inFlight'] # Unused)
    BY <1>4, TypesUnfolded DEF LoadEnds, TypeInv, Readers
  <1>7. /\ command' = [c \in Command |-> command'[c]] /\ \A c \in Command : CommandState(command'[c])
        /\ \A s \in statements' : s \in Statement
        /\ Readers'
    <2>1. CASE load[l].for = None
      <3>1. UNCHANGED <<command, statements>>
        BY <2>1 DEF LoadEnds
      <3>2. Readers'
        BY <1>4, <1>6, <3>1 DEF TypeInv, Readers
      <3> QED BY <3>1, <3>2, TypesUnfolded
    <2>2. CASE load[l].for # None
      <3> DEFINE c == load[l].for
      <3>1. c \in Command /\ command[c].pc = "reading" /\ Continue(c, load[l].found) /\ load[l].found \in Found
        BY <1>1, <2>2 DEF LoadEnds, TypeInv, Readers, Unused
      <3>2. \A k \in Load \ {l} : load[k] # Unused => load[k].for # c
        BY <1>1, <2>2 DEF TypeInv, Readers, Unused
      <3> HIDE DEF c
      <3>3. /\ command' = [k \in Command |-> command'[k]] /\ \A k \in Command : CommandState(command'[k])
            /\ \A s \in statements' : s \notin statements => StatementOK(s)
        BY <3>1, ContinueSaves DEF TypeInv
      <3>4. \A k \in Command \ {c} : command'[k] = command[k]
        BY <3>1, TypesUnfolded DEF Continue
      <3>5. Readers'
        BY <1>4, <1>6, <3>2, <3>4, TypesUnfolded DEF TypeInv, Readers, LoadState
      <3> QED BY <3>3, <3>5, TypesUnfolded DEF StatementOK
    <2> QED BY <2>1, <2>2
  <1> QED BY <1>3, <1>4, <1>5, <1>6, <1>7, TypesUnfolded, TypesFolded DEF LoadEnds, storedVars

LEMMA TypesAfterRemoval ==
  ASSUME TypeInv, InvalidatedAtRemoval PROVE TypeInv'
  <1>1. load' = Invalidated(load)
    BY DEF InvalidatedAtRemoval
  <1>2. \A l \in Load : LoadState(load'[l])
    BY <1>1, InvalidatedLoads
  <1>3. load' = [l \in Load |-> load'[l]]
    BY <1>1, InvalidatedLoads
  <1>4. \A l \in Load : load'[l] # Unused => load[l] # Unused /\ load'[l].for = load[l].for
    <2> TAKE l \in Load
    <2>1. CASE l = inFlight
      BY <1>1, <2>1, InvalidatedLoads, MarkedLoad, TypesUnfolded
    <2>2. CASE l # inFlight
      BY <1>1, <2>2, InvalidatedLoads
    <2> QED BY <2>1, <2>2
  <1>5. Readers'
    BY <1>4 DEF InvalidatedAtRemoval, TypeInv, Readers
  <1> QED BY <1>2, <1>3, <1>5, TypesUnfolded, TypesFolded DEF InvalidatedAtRemoval, storedVars

LEMMA TypesAfterBegin ==
  ASSUME TypeInv, NEW c \in Command, NEW field \in Field, NEW value \in Value, NEW l \in Load,
         BeginCommand(c, field, value, l)
  PROVE  TypeInv'
  <1> DEFINE mid == Invalidated(load)
  <1>1. /\ mid = [k \in Load |-> mid[k]] /\ \A k \in Load : LoadState(mid[k])
    BY InvalidatedLoads
  <1>2. load' = [mid EXCEPT ![l] = [state |-> "asked", for |-> c, invalidated |-> FALSE]]
    BY DEF BeginCommand, NewLoad
  <1>3. \A k \in Load : mid[k] # Unused => load[k] # Unused /\ mid[k].for = load[k].for
    <2> TAKE k \in Load
    <2>1. CASE k = inFlight
      BY <2>1, InvalidatedLoads, MarkedLoad, TypesUnfolded
    <2>2. CASE k # inFlight
      BY <2>2, InvalidatedLoads
    <2> QED BY <2>1, <2>2
  <1> HIDE DEF mid
  <1>4. load' = [k \in Load |-> load'[k]] /\ \A k \in Load : LoadState(load'[k])
    BY <1>1, <1>2, LoadTypes
  <1>5. /\ load'[l].for = c /\ load'[l] # Unused
        /\ \A k \in Load \ {l} : load'[k] # Unused => load[k] # Unused /\ load'[k].for = load[k].for
    BY <1>1, <1>2, <1>3 DEF Unused
  <1>6. /\ command[c] = Waiting /\ inFlight' = l
        /\ command' = [command EXCEPT ![c] = [pc |-> "reading", field |-> field, value |-> value]]
    BY DEF BeginCommand
  <1>7. /\ command' = [k \in Command |-> command'[k]] /\ \A k \in Command : CommandState(command'[k])
        /\ command'[c].pc = "reading" /\ \A k \in Command \ {c} : command'[k] = command[k]
    BY <1>6, TypesUnfolded DEF CommandState
  <1>8. \A k \in Load : load[k] # Unused => load[k].for # c
    BY <1>6, PolicyConstants DEF TypeInv, Readers, Waiting
  <1>9. Readers'
    <2>1. inFlight' # None => load'[inFlight'] # Unused
      BY <1>5, <1>6
    <2>2. ASSUME NEW k \in Load, load'[k] # Unused, load'[k].for # None
          PROVE  /\ command'[load'[k].for].pc = "reading"
                 /\ \A m \in Load \ {k} : load'[m] # Unused => load'[m].for # load'[k].for
      <3>1. CASE k = l
        BY <3>1, <1>5, <1>7, <1>8
      <3>2. CASE k # l
        <4>1. load[k] # Unused /\ load'[k].for = load[k].for /\ load[k].for # c /\ load[k].for \in Command
          BY <3>2, <2>2, <1>5, <1>8, TypesUnfolded DEF LoadState
        <4>2. command[load[k].for].pc = "reading" /\ \A m \in Load \ {k} : load[m] # Unused => load[m].for # load[k].for
          BY <4>1, <2>2 DEF TypeInv, Readers
        <4> QED BY <4>1, <4>2, <1>5, <1>7
      <3> QED BY <3>1, <3>2
    <2> QED BY <2>1, <2>2 DEF Readers
  <1>10. begun' \in 0..MaxCommands
    BY TypesUnfolded, PolicyConstants DEF BeginCommand
  <1> QED BY <1>4, <1>6, <1>7, <1>9, <1>10, TypesUnfolded, TypesFolded DEF BeginCommand, storedVars

LEMMA TypesAfterSnapshot ==
  ASSUME TypeInv, NEW s \in statements, Snapshot(s) PROVE TypeInv'
  <1>1. s \in Statement
    BY TypesUnfolded
  <1>2. [s EXCEPT !.absent = (row = None)] \in Statement
    BY <1>1 DEF Statement
  <1>3. \A t \in statements' : t \in Statement
    BY <1>2, TypesUnfolded DEF Snapshot
  <1>4. Readers'
    BY DEF TypeInv, Readers, Snapshot, cacheVars
  <1> QED BY <1>3, <1>4, TypesUnfolded, TypesFolded DEF Snapshot, storedVars, cacheVars

LEMMA TypesAfterFail ==
  ASSUME TypeInv, NEW c \in Command, Fail(c) PROVE TypeInv'
  <1>1. \A s \in statements : s \in Statement /\ [s EXCEPT !.orphan = TRUE] \in Statement
    BY TypesUnfolded DEF Statement
  <1>2. \A s \in statements' : s \in Statement
    BY <1>1 DEF Fail
  <1>3. /\ command' = [k \in Command |-> command'[k]] /\ \A k \in Command : CommandState(command'[k])
        /\ \A k \in Command : command[k].pc = "reading" => command'[k] = command[k]
    BY TypesUnfolded DEF Fail, CommandState
  <1>4. \A l \in Load : load[l] # Unused => load[l].for \in Command \cup {None}
    BY TypesUnfolded DEF LoadState
  <1>5. Readers'
    BY <1>3, <1>4 DEF TypeInv, Readers, Fail, cacheVars
  <1> QED BY <1>2, <1>3, <1>5, TypesUnfolded, TypesFolded DEF Fail, storedVars, cacheVars

LEMMA TypesAfterReply ==
  ASSUME TypeInv, NEW c \in Command, Reply(c) PROVE TypeInv'
  <1>1. load' = Invalidated(load)
    BY DEF Reply
  <1>2. load' = [l \in Load |-> load'[l]] /\ \A l \in Load : LoadState(load'[l])
    BY <1>1, InvalidatedLoads
  <1>3. \A l \in Load : load'[l] # Unused => /\ load[l] # Unused /\ load'[l].for = load[l].for
                                             /\ load[l].for \in Command \cup {None}
    <2> TAKE l \in Load
    <2>1. load[l] # Unused => load[l].for \in Command \cup {None}
      BY TypesUnfolded DEF LoadState
    <2>2. CASE l = inFlight
      <3>1. LoadState(load[l]) /\ load[l] # Unused /\ load'[l] = [load[l] EXCEPT !.invalidated = TRUE]
        BY <1>1, <2>2, InvalidatedLoads, TypesUnfolded
      <3>2. load'[l].for = load[l].for
        BY <3>1, MarkedLoad
      <3> QED BY <2>1, <3>1, <3>2
    <2>3. CASE l # inFlight
      BY <1>1, <2>1, <2>3, InvalidatedLoads
    <2> QED BY <2>2, <2>3
  <1>4. /\ command' = [k \in Command |-> command'[k]] /\ \A k \in Command : CommandState(command'[k])
        /\ \A k \in Command : command[k].pc = "reading" => command'[k] = command[k]
    BY TypesUnfolded DEF Reply, CommandState
  <1>5. settled' \in Version
    BY TypesUnfolded DEF Reply, CommandState, Waiting
  <1>6. Readers'
    BY <1>3, <1>4 DEF Reply, TypeInv, Readers
  <1> QED BY <1>2, <1>4, <1>5, <1>6, TypesUnfolded, TypesFolded DEF Reply, storedVars

(* Each statement under way has what its command meant, and if its snapshot
   saw a row there is one; only one is awaited by a command, which is saving. *)
Statements ==
  /\ \A s \in statements :
       /\ StatementOK(s)
       /\ s.absent # None /\ ~s.absent => row # None
       /\ ~s.orphan => command[s.by].pc = "saving"
  /\ \A s, t \in statements : ~s.orphan /\ ~t.orphan /\ s.by = t.by => s = t

LEMMA StatementsAfterEnd ==
  ASSUME TypeInv, Statements, NEW l \in Load, LoadEnds(l) PROVE Statements'
  <1>1. row' = row
    BY DEF LoadEnds, storedVars
  <1>2. load[l] \in [state : {"read"}, for : Command \cup {None}, invalidated : BOOLEAN,
                     found : Found, version : Version, held : 0..MaxQuery]
    BY TypesUnfolded DEF LoadEnds, LoadState, Unused
  <1>3. CASE load[l].for = None
    BY <1>1, <1>3 DEF LoadEnds, Statements
  <1>4. CASE load[l].for # None
    <2> DEFINE c == load[l].for
    <2>1. c \in Command /\ command[c].pc = "reading" /\ Continue(c, load[l].found) /\ load[l].found \in Found
      BY <1>2, <1>4 DEF LoadEnds, TypeInv, Readers, Unused
    <2> HIDE DEF c
    <2>2. \A s \in statements' : s \notin statements => StatementOK(s) /\ s.absent = None
      BY <2>1, ContinueSaves DEF TypeInv
    <2>3. \A s \in statements : ~s.orphan => s.by # c
      BY <2>1 DEF Statements
    <2>4. \A s \in statements : s.by \in Command
      BY DEF Statements, StatementOK, Statement
    <2>5. \A k \in Command \ {c} : command'[k] = command[k]
      BY <2>1, TypesUnfolded DEF Continue
    <2>6. \/ statements' = statements
          \/ \E s : s.by = c /\ statements' = statements \cup {s} /\ command'[c].pc = "saving"
      <3> DEFINE field == command[c].field
                 base == IF load[l].found = None THEN Default ELSE load[l].found
                 next == [base EXCEPT ![field] = command[c].value]
                 patch == [f \in getChangedSpamPolicyFields(base, next) |-> next[f]]
                 new == [by |-> c, orphan |-> FALSE, field |-> field, absent |-> None, patch |-> patch]
      <3>2. \/ statements' = statements
            \/ command' = [command EXCEPT ![c] = [pc |-> "saving"]] /\ statements' = statements \cup {new}
        BY <2>1 DEF Continue
      <3> HIDE DEF field, patch
      <3>3. new.by = c
        OBVIOUS
      <3> HIDE DEF new
      <3>1. command' = [command EXCEPT ![c] = [pc |-> "saving"]] => command'[c].pc = "saving"
        BY <2>1, TypesUnfolded
      <3> QED BY <3>1, <3>2, <3>3
    <2>7. \A s \in statements' : s \notin statements => s.by = c /\ command'[c].pc = "saving"
      BY <2>6
    <2>8. ASSUME NEW s \in statements'
          PROVE  StatementOK(s) /\ (s.absent # None /\ ~s.absent => row' # None) /\ (~s.orphan => command'[s.by].pc = "saving")
      <3>1. CASE s \in statements
        BY <3>1, <1>1, <2>3, <2>4, <2>5 DEF Statements
      <3>2. CASE s \notin statements
        BY <3>2, <2>2, <2>7, PolicyConstants
      <3> QED BY <3>1, <3>2
    <2>9. ASSUME NEW s \in statements', NEW t \in statements', ~s.orphan, ~t.orphan, s.by = t.by
          PROVE  s = t
      BY <2>9, <2>3, <2>6 DEF Statements
    <2> QED BY <2>8, <2>9 DEF Statements
  <1> QED BY <1>3, <1>4

LEMMA StatementsAfterSnapshot ==
  ASSUME TypeInv, Statements, NEW s \in statements, Snapshot(s) PROVE Statements'
  <1> DEFINE new == [s EXCEPT !.absent = (row = None)]
  <1>1. StatementOK(s) /\ s \in Statement
    BY DEF Statements, StatementOK
  <1>2. /\ new.by = s.by /\ new.orphan = s.orphan /\ new.field = s.field /\ new.patch = s.patch
        /\ new.absent = (row = None) /\ new \in Statement
    BY <1>1 DEF Statement
  <1>3. /\ statements' = (statements \ {s}) \cup {new} /\ row' = row /\ command' = command
    BY DEF Snapshot, storedVars
  <1> HIDE DEF new
  <1>4. StatementOK(new) /\ (new.absent # None /\ ~new.absent => row # None)
    BY <1>1, <1>2 DEF StatementOK
  <1> QED BY <1>2, <1>3, <1>4 DEF Statements

LEMMA StatementsAfterCommit ==
  ASSUME TypeInv, Statements, NEW s \in statements, Commit(s) PROVE Statements'
  <1>1. statements' = statements \ {s} /\ row' = Patched(s.patch, IF s.absent THEN Default ELSE row)
    BY DEF Commit, Saved
  <1>2. s.absent \in BOOLEAN /\ StatementOK(s)
    BY DEF Statements, StatementOK, Commit
  <1>3. row' # None
    <2>1. (IF s.absent THEN Default ELSE row) \in Policy
      BY <1>2, TypesUnfolded, PolicyConstants DEF Statements, Commit
    <2> QED BY <1>1, <1>2, <2>1, PatchedFields, PolicyConstants DEF StatementOK, Statement
  <1>4. \A t \in statements' : ~t.orphan => command'[t.by] = command[t.by]
    <2> SUFFICES ASSUME NEW t \in statements', ~t.orphan PROVE command'[t.by] = command[t.by]
      OBVIOUS
    <2>1. t \in statements /\ t # s
      BY <1>1
    <2>2. CASE s.orphan
      BY <2>2 DEF Commit
    <2>3. CASE ~s.orphan
      <3>1. t.by # s.by
        BY <2>1, <2>3 DEF Statements
      <3>2. command' = [command EXCEPT ![s.by] = [pc |-> "saved", version |-> version + 1]]
        BY <2>3 DEF Commit
      <3> QED BY <3>1, <3>2, TypesUnfolded
    <2> QED BY <1>2, <2>2, <2>3
  <1> QED BY <1>1, <1>3, <1>4 DEF Statements

LEMMA StatementsAfterFail ==
  ASSUME TypeInv, Statements, NEW c \in Command, Fail(c) PROVE Statements'
  <1>1. \A s \in statements : /\ StatementOK(s) /\ s.by \in Command
                              /\ [s EXCEPT !.orphan = TRUE].orphan /\ StatementOK([s EXCEPT !.orphan = TRUE])
                              /\ [s EXCEPT !.orphan = TRUE].absent = s.absent
    BY DEF Statements, StatementOK, Statement
  <1>2. row' = row /\ \A k \in Command \ {c} : command'[k] = command[k]
    BY TypesUnfolded DEF Fail, storedVars
  <1>3. PICK alive \in BOOLEAN :
          statements' = {s \in statements : s.by # c \/ s.orphan}
            \cup {[s EXCEPT !.orphan = TRUE] : s \in {s \in statements : alive /\ s.by = c}}
    BY DEF Fail
  <1>4. ASSUME NEW s \in statements'
        PROVE  /\ StatementOK(s) /\ (s.absent # None /\ ~s.absent => row' # None)
               /\ ~s.orphan => s \in statements /\ s.by \in Command \ {c}
    <2>1. CASE s \in {t \in statements : t.by # c \/ t.orphan}
      BY <2>1, <1>1, <1>2 DEF Statements
    <2>2. CASE s \in {[t EXCEPT !.orphan = TRUE] : t \in {t \in statements : alive /\ t.by = c}}
      <3>1. PICK t \in statements : s = [t EXCEPT !.orphan = TRUE]
        BY <2>2
      <3> QED BY <3>1, <1>1, <1>2 DEF Statements
    <2> QED BY <1>3, <2>1, <2>2
  <1> QED BY <1>2, <1>4 DEF Statements

LEMMA StatementsAfterRestart ==
  ASSUME TypeInv, Statements, BotRestarts PROVE Statements'
  <1>1. \A s \in statements : /\ StatementOK(s)
                              /\ [s EXCEPT !.orphan = TRUE].orphan /\ StatementOK([s EXCEPT !.orphan = TRUE])
                              /\ [s EXCEPT !.orphan = TRUE].absent = s.absent
    BY DEF Statements, StatementOK, Statement
  <1> QED BY <1>1 DEF BotRestarts, storedVars, Statements

LEMMA StatementsAfterOthers ==
  ASSUME TypeInv, Statements, statements' = statements, row # None => row' # None,
         \A c \in Command : command[c].pc = "saving" => command'[c] = command[c]
  PROVE  Statements'
  BY DEF Statements, StatementOK, Statement

LEMMA TypesAfterCommit ==
  ASSUME TypeInv, Statements, NEW s \in statements, Commit(s) PROVE TypeInv'
  <1> DEFINE stored == IF s.absent THEN Default ELSE row
  <1>1. StatementOK(s) /\ s.absent \in BOOLEAN /\ s.field \in Field /\ s.by \in Command
    BY DEF Statements, StatementOK, Commit, Statement
  <1>2. stored \in Policy
    BY <1>1, TypesUnfolded, PolicyConstants DEF Statements, Commit
  <1>3. row' = Patched(s.patch, stored) /\ version' = version + 1 /\ version < MaxSaves /\ age' = age
    BY DEF Commit, Saved
  <1> HIDE DEF stored
  <1>4. row' \in Policy
    BY <1>1, <1>2, <1>3, PatchedFields DEF StatementOK
  <1>5. version' \in Version /\ version + 1 \in Version
    BY <1>3, TypesUnfolded, PolicyConstants DEF Version
  <1>6. meant' \in Policy
    BY <1>1, TypesUnfolded DEF Commit, StatementOK, Policy
  <1>7. lost' \subseteq Field
    BY TypesUnfolded DEF Commit
  <1>8. \A t \in statements' : t \in Statement
    BY TypesUnfolded DEF Commit
  <1>9. /\ command' = [k \in Command |-> command'[k]] /\ \A k \in Command : CommandState(command'[k])
        /\ \A k \in Command : command[k].pc = "reading" => command'[k] = command[k]
    <2>1. CASE s.orphan
      BY <2>1, TypesUnfolded DEF Commit
    <2>2. CASE ~s.orphan
      <3>1. command' = [command EXCEPT ![s.by] = [pc |-> "saved", version |-> version + 1]]
        BY <2>2 DEF Commit
      <3>2. command[s.by].pc = "saving"
        BY <2>2 DEF Statements
      <3> QED BY <1>1, <1>5, <3>1, <3>2, TypesUnfolded DEF CommandState
    <2> QED BY <2>1, <2>2
  <1>10. \A l \in Load : load[l] # Unused => load[l].for \in Command \cup {None}
    BY TypesUnfolded DEF LoadState
  <1>11. Readers'
    BY <1>9, <1>10 DEF Commit, TypeInv, Readers, cacheVars
  <1> QED BY <1>3, <1>4, <1>5, <1>6, <1>7, <1>8, <1>9, <1>11, TypesUnfolded, TypesFolded DEF Commit, cacheVars

LEMMA TypesAfterDashboard ==
  ASSUME TypeInv, NEW policy \in Form, DashboardSaves(policy) PROVE TypeInv'
  <1>1. policy \in Policy
    BY PolicyConstants
  <1>2. version' \in Version
    BY TypesUnfolded, PolicyConstants DEF DashboardSaves, Saved, Version
  <1>3. Readers'
    BY DEF DashboardSaves, TypeInv, Readers, cacheVars
  <1> QED BY <1>1, <1>2, <1>3, TypesUnfolded, TypesFolded DEF DashboardSaves, Saved, cacheVars

LEMMA TypesAfterRestart ==
  ASSUME TypeInv, BotRestarts PROVE TypeInv'
  <1>1. \A s \in statements : [s EXCEPT !.orphan = TRUE] \in Statement
    BY TypesUnfolded DEF Statement
  <1>2. \A s \in statements' : s \in Statement
    BY <1>1 DEF BotRestarts
  <1>3. command' = [c \in Command |-> command'[c]] /\ \A c \in Command : CommandState(command'[c])
    BY DEF BotRestarts, CommandState
  <1>4. load' = [l \in Load |-> load'[l]] /\ \A l \in Load : LoadState(load'[l])
    BY DEF BotRestarts, LoadState
  <1>5. Readers'
    BY DEF BotRestarts, Readers
  <1> QED BY <1>2, <1>3, <1>4, <1>5, TypesUnfolded, TypesFolded DEF BotRestarts, storedVars

(* One more tick of a read that has found the row. *)
LEMMA HeldLoad ==
  ASSUME TypeInv, NEW l \in Load, PolicyTick
  PROVE  /\ LoadState(load'[l]) /\ (load'[l] = Unused <=> load[l] = Unused)
         /\ load[l] # Unused => /\ load'[l].for = load[l].for /\ load'[l].state = load[l].state
                                /\ load'[l].invalidated = load[l].invalidated
         /\ load[l].state = "read" => load'[l].version = load[l].version /\ load'[l].held = load[l].held + 1
  <1>1. CASE load[l].state = "read"
    <2>1. load[l] \in [state : {"read"}, for : Command \cup {None}, invalidated : BOOLEAN,
                       found : Found, version : Version, held : 0..MaxQuery]
      BY <1>1, TypesUnfolded DEF LoadState, Unused
    <2>2. load[l].held + 1 \in 0..MaxQuery
      BY <1>1, <2>1, PolicyConstants DEF PolicyTick
    <2>3. load'[l] = [load[l] EXCEPT !.held = @ + 1]
      BY <1>1 DEF PolicyTick
    <2> QED BY <2>1, <2>2, <2>3 DEF LoadState, Unused
  <1>2. CASE load[l].state # "read"
    <2>1. load'[l] = load[l]
      BY <1>2 DEF PolicyTick
    <2> QED BY <1>2, <2>1, TypesUnfolded
  <1> QED BY <1>1, <1>2

LEMMA TypesAfterTick ==
  ASSUME TypeInv, PolicyTick PROVE TypeInv'
  <1>1. load' = [l \in Load |-> load'[l]] /\ \A l \in Load : LoadState(load'[l])
    <2>1. load' = [l \in Load |-> load'[l]]
      BY DEF PolicyTick
    <2> QED BY <2>1, HeldLoad
  <1>2. Readers'
    <2>1. \A l \in Load : /\ load'[l] = Unused <=> load[l] = Unused
                          /\ load[l] # Unused => load'[l].for = load[l].for
      BY HeldLoad
    <2>2. inFlight' = inFlight /\ command' = command
      BY DEF PolicyTick
    <2> QED BY <2>1, <2>2, TypesUnfolded DEF TypeInv, Readers
  <1>3. entry' = None \/ entry' \in Entry
    BY TypesUnfolded, PolicyConstants DEF PolicyTick, Aged, Entry
  <1>4. age' \in [Version -> Age]
    BY TypesUnfolded, PolicyConstants DEF PolicyTick, Age
  <1> QED BY <1>1, <1>2, <1>3, <1>4, TypesUnfolded, TypesFolded DEF PolicyTick
-----------------------------------------------------------------------------
(***************************************************************************)
(* The types, and the statements under way.                                *)
(***************************************************************************)
StoredInv == TypeInv /\ Statements

LEMMA StoredStep ==
  ASSUME StoredInv, [PolicyNext]_policyVars PROVE StoredInv'
  <1> USE DEF StoredInv
  <1>1. ASSUME NEW l \in Load, MessageReads(l) \/ LoadReads(l) PROVE StoredInv'
    <2>1. TypeInv'
      BY <1>1, TypesAfterReads
    <2>2. statements' = statements /\ row' = row /\ command' = command
      BY <1>1 DEF MessageReads, LoadReads, storedVars
    <2> QED BY <2>1, <2>2, StatementsAfterOthers
  <1>2. ASSUME NEW l \in Load, LoadEnds(l) PROVE StoredInv'
    BY <1>2, TypesAfterEnd, StatementsAfterEnd
  <1>3. ASSUME NEW c \in Command, NEW field \in Field, NEW value \in Value, NEW l \in Load,
               BeginCommand(c, field, value, l)
        PROVE  StoredInv'
    <2>1. TypeInv'
      BY <1>3, TypesAfterBegin
    <2>2. statements' = statements /\ row' = row
      BY <1>3 DEF BeginCommand, storedVars
    <2>3. \A k \in Command : command[k].pc = "saving" => command'[k] = command[k]
      BY <1>3, TypesUnfolded DEF BeginCommand, Waiting
    <2> QED BY <2>1, <2>2, <2>3, StatementsAfterOthers
  <1>4. ASSUME NEW s \in statements, Snapshot(s) PROVE StoredInv'
    BY <1>4, TypesAfterSnapshot, StatementsAfterSnapshot
  <1>5. ASSUME NEW s \in statements, Commit(s) PROVE StoredInv'
    BY <1>5, TypesAfterCommit, StatementsAfterCommit
  <1>6. ASSUME NEW c \in Command, Reply(c) PROVE StoredInv'
    <2>1. TypeInv'
      BY <1>6, TypesAfterReply
    <2>2. statements' = statements /\ row' = row
      BY <1>6 DEF Reply, storedVars
    <2>3. \A k \in Command : command[k].pc = "saving" => command'[k] = command[k]
      BY <1>6, TypesUnfolded DEF Reply
    <2> QED BY <2>1, <2>2, <2>3, StatementsAfterOthers
  <1>7. ASSUME NEW c \in Command, Fail(c) PROVE StoredInv'
    BY <1>7, TypesAfterFail, StatementsAfterFail
  <1>8. ASSUME NEW policy \in Form, DashboardSaves(policy) PROVE StoredInv'
    <2>1. TypeInv'
      BY <1>8, TypesAfterDashboard
    <2>2. statements' = statements /\ row' = policy /\ command' = command
      BY <1>8 DEF DashboardSaves, Saved
    <2>3. row' # None
      BY <2>2, PolicyConstants
    <2> QED BY <2>1, <2>2, <2>3, StatementsAfterOthers
  <1>9. CASE InvalidatedAtRemoval
    <2>1. TypeInv'
      BY <1>9, TypesAfterRemoval
    <2>2. statements' = statements /\ row' = row /\ command' = command
      BY <1>9 DEF InvalidatedAtRemoval, storedVars
    <2> QED BY <2>1, <2>2, StatementsAfterOthers
  <1>10. CASE BotRestarts
    BY <1>10, TypesAfterRestart, StatementsAfterRestart
  <1>11. CASE PolicyTick
    <2>1. TypeInv'
      BY <1>11, TypesAfterTick
    <2>2. statements' = statements /\ row' = row /\ command' = command
      BY <1>11 DEF PolicyTick
    <2> QED BY <2>1, <2>2, StatementsAfterOthers
  <1>12. CASE UNCHANGED policyVars
    BY <1>12 DEF policyVars, storedVars, cacheVars, TypeInv, PolicyTypes, PolicyTypeOK, Readers, Statements
  <1> QED BY <1>1, <1>2, <1>3, <1>4, <1>5, <1>6, <1>7, <1>8, <1>9, <1>10, <1>11, <1>12 DEF PolicyNext

LEMMA StoredInvariance == PolicySpec => []StoredInv
  <1>1. PolicyInit => StoredInv
    BY TypesInitially DEF StoredInv, Statements, PolicyInit
  <1> QED BY <1>1, StoredStep, PTL DEF PolicySpec

(* The row, the commands, the statements, the cache and the clocks of the      *)
(* guild's spam policy keep their types.                                       *)
THEOREM PolicyTypeCorrect == PolicySpec => []PolicyTypeOK
  <1>1. StoredInv => PolicyTypeOK
    BY DEF StoredInv, TypeInv, PolicyTypes
  <1> QED BY <1>1, StoredInvariance, PTL
-----------------------------------------------------------------------------
(***************************************************************************)
(* What is saved.  Nothing is meant, and nothing lost, before there is a   *)
(* row; that is what the first statement adds its field to.                *)
(***************************************************************************)
NothingBeforeTheFirst == row = None => meant = Default /\ lost = {}

LEMMA SavedByCommit ==
  ASSUME StoredInv, NothingBeforeTheFirst, SavedChangesStay, NEW s \in statements, Commit(s)
  PROVE  NothingBeforeTheFirst' /\ SavedChangesStay'
  <1> DEFINE stored == IF s.absent THEN Default ELSE row
  <1>1. StatementOK(s) /\ s.absent \in BOOLEAN /\ s.field \in Field
    BY DEF StoredInv, Statements, StatementOK, Commit, Statement
  <1>2. stored \in Policy /\ meant \in Policy /\ TypeInv
    BY <1>1, TypesUnfolded, PolicyConstants DEF StoredInv, Statements, Commit
  <1>3. \A f \in Field : f \notin (IF s.absent /\ row # None THEN Field ELSE lost) => stored[f] = meant[f]
    <2>1. CASE row = None
      BY <1>1, <2>1 DEF StoredInv, Statements, Commit, NothingBeforeTheFirst
    <2>2. CASE row # None
      BY <1>1, <2>2 DEF SavedChangesStay
    <2> QED BY <2>1, <2>2
  <1>4. /\ row' = Patched(s.patch, stored)
        /\ meant' = [meant EXCEPT ![s.field] = s.patch[s.field]]
        /\ lost' = (IF s.absent /\ row # None THEN Field ELSE lost) \ {s.field}
    BY DEF Commit, Saved
  <1> HIDE DEF stored
  <1>5. /\ row'[s.field] = s.patch[s.field] /\ row' \in Policy
        /\ \A f \in Field \ {s.field} : row'[f] = stored[f]
    BY <1>1, <1>2, <1>4, PatchedFields DEF StatementOK
  <1>6. meant'[s.field] = s.patch[s.field] /\ \A f \in Field \ {s.field} : meant'[f] = meant[f]
    BY <1>1, <1>2, <1>4 DEF Policy
  <1>7. row' # None
    BY <1>5, PolicyConstants
  <1> QED BY <1>3, <1>4, <1>5, <1>6, <1>7 DEF NothingBeforeTheFirst, SavedChangesStay

(* Each field keeps what was last saved for it, by a command that meant this   *)
(* field or by the dashboard, unless a command that found no row overwrote it  *)
(* (SAVE_SPAM_POLICY_COMMAND_SQL, getChangedSpamPolicyFields).                 *)
THEOREM SavesStay == PolicySpec => []SavedChangesStay
  <1> DEFINE Inv == NothingBeforeTheFirst /\ SavedChangesStay
  <1>1. PolicyInit => Inv
    BY DEF PolicyInit, NothingBeforeTheFirst, SavedChangesStay
  <1>2. ASSUME StoredInv, Inv, [PolicyNext]_policyVars PROVE Inv'
    <2>1. ASSUME UNCHANGED storedVars PROVE Inv'
      BY <1>2, <2>1 DEF storedVars, NothingBeforeTheFirst, SavedChangesStay
    <2>2. ASSUME NEW s \in statements, Commit(s) PROVE Inv'
      BY <1>2, <2>2, SavedByCommit
    <2>3. ASSUME NEW policy \in Form, DashboardSaves(policy) PROVE Inv'
      <3>1. row' = policy /\ meant' = policy /\ lost' = {} /\ policy # None
        BY <2>3, PolicyConstants DEF DashboardSaves, Saved
      <3> QED BY <3>1 DEF NothingBeforeTheFirst, SavedChangesStay
    <2>4. CASE PolicyTick
      BY <2>1, <2>4, <1>2 DEF PolicyTick, NothingBeforeTheFirst, SavedChangesStay
    <2> HIDE DEF Inv
    <2> QED
      BY <1>2, <2>1, <2>2, <2>3, <2>4
         DEF PolicyNext, policyVars, MessageReads, LoadReads, LoadEnds, BeginCommand, Snapshot, Reply, Fail,
             InvalidatedAtRemoval, BotRestarts
  <1>3. Inv => SavedChangesStay
    OBVIOUS
  <1> HIDE DEF Inv
  <1> QED BY <1>1, <1>2, <1>3, StoredInvariance, PTL DEF PolicySpec
-----------------------------------------------------------------------------
(***************************************************************************)
(* What is used.  A read that is not invalidated is the one to be joined,  *)
(* so that a reply reaches it; and what a read has found was superseded no *)
(* longer ago than the read has been on its way.                           *)
(***************************************************************************)
Versions ==
  /\ settled <= version
  /\ \A c \in Command : command[c].pc = "saved" => command[c].version <= version
  /\ \A v \in Version : v >= version => age[v] = 0

ReadOK(x, joined) ==
  /\ joined <=> ~x.invalidated
  /\ x.state = "read" =>
       /\ x.version <= version /\ age[x.version] <= x.held
       /\ joined => x.version >= settled

Loads == \A l \in Load : load[l] # Unused => ReadOK(load[l], l = inFlight)

EntryOK ==
  entry # None => entry.version >= settled /\ age[entry.version] <= MaxQuery + Ttl - entry.left

FreshInv == Versions /\ Loads /\ EntryOK

LEMMA FreshIsFresh ==
  ASSUME StoredInv, FreshInv PROVE FreshPolicy
  <1>1. inFlight # None => inFlight \in Load /\ load[inFlight] # Unused
    BY TypesUnfolded DEF StoredInv, TypeInv, Readers
  <1>2. \A l \in Load : load[l].state = "read" => load[l] # Unused
    BY DEF Unused
  <1> QED BY <1>1, <1>2 DEF FreshInv, Loads, ReadOK, EntryOK, FreshPolicy

LEMMA Numbers ==
  ASSUME StoredInv
  PROVE  /\ version \in Nat /\ version <= MaxSaves /\ settled \in Nat /\ \A v \in Version : v \in Nat /\ age[v] \in Nat
         /\ \A l \in Load : load[l].state = "read" => /\ load[l].version \in Version /\ load[l].held \in 0..MaxQuery
                                                      /\ load[l].found \in Found /\ load[l] # Unused
         /\ entry # None => entry.version \in Version /\ entry.left \in 1..Ttl
         /\ \A c \in Command : command[c].pc = "saved" => command[c].version \in Version
  <1>1. \A l \in Load : load[l].state = "read" => /\ load[l].version \in Version /\ load[l].held \in 0..MaxQuery
                                                  /\ load[l].found \in Found /\ load[l] # Unused
    BY TypesUnfolded DEF StoredInv, LoadState, Unused
  <1>2. \A c \in Command : command[c].pc = "saved" => command[c].version \in Version
    BY TypesUnfolded DEF StoredInv, CommandState, Waiting
  <1>3. entry # None => entry.version \in Version /\ entry.left \in 1..Ttl
    BY TypesUnfolded DEF StoredInv, Entry
  <1> QED BY <1>1, <1>2, <1>3, TypesUnfolded, PolicyConstants DEF StoredInv, Version, Age

(* After the cache is invalidated no read under way is to be joined. *)
LEMMA LoadsInvalidated ==
  ASSUME StoredInv, Loads, NEW l \in Load, load[l] # Unused
  PROVE  LET x == Invalidated(load)[l]
         IN  ReadOK(x, FALSE) /\ x # Unused
  <1>1. LoadState(load[l]) /\ ReadOK(load[l], l = inFlight) /\ TypeInv
    BY TypesUnfolded DEF Loads, StoredInv
  <1>2. CASE l = inFlight
    <2>1. Invalidated(load)[l] = [load[l] EXCEPT !.invalidated = TRUE]
      BY <1>1, <1>2, InvalidatedLoads
    <2> QED BY <1>1, <2>1, MarkedLoad DEF ReadOK
  <1>3. CASE l # inFlight
    <2>1. Invalidated(load)[l] = load[l]
      BY <1>1, <1>3, InvalidatedLoads
    <2>2. load[l].invalidated
      BY <1>1, <1>3 DEF ReadOK, LoadState
    <2> QED BY <1>1, <1>3, <2>1, <2>2 DEF ReadOK
  <1> QED BY <1>2, <1>3

LEMMA FreshAfterReads ==
  ASSUME StoredInv, FreshInv, NEW l \in Load, MessageReads(l) \/ LoadReads(l) PROVE FreshInv'
  <1>1. CASE MessageReads(l)
    <2>1. UNCHANGED <<version, age, settled, command, entry>> /\ inFlight' = l /\ inFlight = None /\ load[l] = Unused
      BY <1>1 DEF MessageReads, storedVars
    <2>2. /\ load'[l] = [state |-> "asked", for |-> None, invalidated |-> FALSE]
          /\ \A k \in Load \ {l} : load'[k] = load[k]
      BY <1>1, TypesUnfolded DEF MessageReads, NewLoad, StoredInv
    <2>3. \A k \in Load : k # inFlight
      BY <2>1, PolicyConstants
    <2>4. Loads'
      BY <2>1, <2>2, <2>3 DEF FreshInv, Loads, ReadOK
    <2> QED BY <2>1, <2>4 DEF FreshInv, Versions, EntryOK
  <1>2. CASE LoadReads(l)
    <2>1. UNCHANGED <<version, age, settled, command, entry, inFlight>>
      BY <1>2 DEF LoadReads, storedVars
    <2>2. load[l] # Unused
      BY <1>2 DEF LoadReads, Unused
    <2>3. /\ load'[l].state = "read" /\ load'[l].version = version /\ load'[l].held = 0
          /\ load'[l].invalidated = load[l].invalidated
          /\ \A k \in Load \ {l} : load'[k] = load[k]
      BY <1>2, TypesUnfolded DEF LoadReads, StoredInv
    <2>4. age[version] <= 0
      BY Numbers, TypesUnfolded DEF FreshInv, Versions, StoredInv
    <2>5. ReadOK(load[l], l = inFlight) /\ settled <= version /\ version <= version
      BY <2>2, Numbers DEF FreshInv, Loads, Versions
    <2>6. ReadOK(load[l], l = inFlight)'
      BY <2>1, <2>3, <2>4, <2>5, Numbers DEF ReadOK
    <2>7. Loads'
      BY <2>1, <2>3, <2>6 DEF FreshInv, Loads, ReadOK
    <2> QED BY <2>1, <2>7 DEF FreshInv, Versions, EntryOK
  <1> QED BY <1>1, <1>2

LEMMA FreshAfterEnd ==
  ASSUME StoredInv, FreshInv, NEW l \in Load, LoadEnds(l) PROVE FreshInv'
  <1>1. UNCHANGED <<version, age, settled>>
    BY DEF LoadEnds, storedVars
  <1>2. load'[l] = Unused /\ \A k \in Load \ {l} : load'[k] = load[k]
    BY TypesUnfolded DEF LoadEnds, StoredInv
  <1>3. inFlight' = (IF inFlight = l THEN None ELSE inFlight)
    BY DEF LoadEnds
  <1>4. Loads'
    BY <1>1, <1>2, <1>3, PolicyConstants DEF FreshInv, Loads, ReadOK
  <1>5. load[l] # Unused /\ load[l].state = "read" /\ load[l].held <= MaxQuery /\ load[l].held \in Nat
        /\ load[l].version \in Version
    BY Numbers, PolicyConstants DEF LoadEnds
  <1>6. ReadOK(load[l], l = inFlight)
    BY <1>5 DEF FreshInv, Loads
  <1>7. EntryOK'
    <2>1. CASE load[l].invalidated
      BY <1>1, <2>1 DEF LoadEnds, FreshInv, EntryOK
    <2>2. CASE ~load[l].invalidated
      <3>1. entry' = [found |-> load[l].found, version |-> load[l].version, left |-> Ttl]
        BY <2>2 DEF LoadEnds
      <3>2. load[l].version >= settled /\ age[load[l].version] <= load[l].held
        BY <1>5, <1>6, <2>2 DEF ReadOK
      <3>3. age[load[l].version] \in Nat
        BY <1>5, Numbers
      <3>4. entry'.version = load[l].version /\ entry'.left = Ttl
        BY <3>1
      <3>5. age[load[l].version] <= MaxQuery + Ttl - Ttl
        BY <1>5, <3>2, <3>3, PolicyConstants
      <3> QED BY <1>1, <3>2, <3>4, <3>5 DEF EntryOK
    <2> QED BY <2>1, <2>2
  <1>8. \A c \in Command : command'[c].pc = "saved" => command'[c] = command[c]
    <2>1. CASE load[l].for = None
      BY <2>1 DEF LoadEnds
    <2>2. CASE load[l].for # None
      <3>1. load[l].for \in Command /\ command[load[l].for].pc = "reading" /\ Continue(load[l].for, load[l].found)
        BY <1>5, <2>2, TypesUnfolded DEF LoadEnds, StoredInv, TypeInv, Readers, LoadState
      <3>2. load[l].found \in Found /\ PolicyTypes
        BY <1>5, Numbers DEF StoredInv, TypeInv
      <3> QED BY <3>1, <3>2, ContinueSaves
    <2> QED BY <2>1, <2>2
  <1> QED BY <1>1, <1>4, <1>7, <1>8 DEF FreshInv, Versions

LEMMA FreshAfterBegin ==
  ASSUME StoredInv, FreshInv, NEW c \in Command, NEW field \in Field, NEW value \in Value, NEW l \in Load,
         BeginCommand(c, field, value, l)
  PROVE  FreshInv'
  <1>1. UNCHANGED <<version, age, settled>> /\ entry' = None /\ inFlight' = l
    BY DEF BeginCommand, storedVars
  <1> DEFINE mid == Invalidated(load)
  <1>2. load' = [mid EXCEPT ![l] = [state |-> "asked", for |-> c, invalidated |-> FALSE]]
    BY DEF BeginCommand, NewLoad
  <1>3. mid = [k \in Load |-> mid[k]]
    BY InvalidatedLoads DEF StoredInv
  <1>4. \A k \in Load : load[k] = Unused => mid[k] = Unused
    BY InvalidatedLoads DEF StoredInv
  <1>5. \A k \in Load : load[k] # Unused => ReadOK(mid[k], FALSE)
    BY LoadsInvalidated DEF FreshInv
  <1> HIDE DEF mid
  <1>6. /\ load'[l] = [state |-> "asked", for |-> c, invalidated |-> FALSE]
        /\ \A k \in Load \ {l} : load'[k] = mid[k]
    BY <1>2, <1>3
  <1>7. Loads'
    BY <1>1, <1>4, <1>5, <1>6 DEF Loads, ReadOK
  <1>8. \A k \in Command : command'[k].pc = "saved" => command'[k] = command[k]
    BY TypesUnfolded DEF BeginCommand, StoredInv
  <1> QED BY <1>1, <1>7, <1>8 DEF FreshInv, Versions, EntryOK

(* The cache is invalidated, and the command's version may become the newest   *)
(* that was answered.                                                          *)
LEMMA FreshAfterInvalidation ==
  ASSUME StoredInv, FreshInv, UNCHANGED <<version, age>>, entry' = None, inFlight' = None,
         load' = Invalidated(load), settled' \in Version, settled' <= version,
         \A c \in Command : command'[c].pc = "saved" => command'[c] = command[c]
  PROVE  FreshInv'
  <1>1. \A l \in Load : load[l] = Unused => load'[l] = Unused
    BY InvalidatedLoads DEF StoredInv
  <1>2. \A l \in Load : load[l] # Unused => ReadOK(load'[l], FALSE)
    BY LoadsInvalidated DEF FreshInv
  <1>3. Loads'
    BY <1>1, <1>2, PolicyConstants DEF Loads, ReadOK
  <1> QED BY <1>3 DEF FreshInv, Versions, EntryOK

LEMMA FreshAfterSave ==
  ASSUME StoredInv, FreshInv, version' = version + 1, version < MaxSaves,
         UNCHANGED <<age, settled, load, inFlight, entry>>,
         \A c \in Command : command'[c].pc = "saved" => command'[c] = command[c] \/ command'[c].version = version + 1
  PROVE  FreshInv'
  <1>1. Versions'
    BY Numbers, PolicyConstants DEF FreshInv, Versions, Version
  <1>2. ASSUME NEW l \in Load, load[l] # Unused PROVE ReadOK(load[l], l = inFlight)'
    BY <1>2, Numbers DEF FreshInv, Loads, ReadOK, Version
  <1>3. Loads' /\ EntryOK'
    BY <1>2 DEF FreshInv, Loads, EntryOK
  <1> QED BY <1>1, <1>3 DEF FreshInv

LEMMA FreshAfterTick ==
  ASSUME StoredInv, FreshInv, PolicyTick PROVE FreshInv'
  <1>1. UNCHANGED <<version, settled, command, inFlight>>
    BY DEF PolicyTick
  <1>2. \A v \in Version : /\ age'[v] <= age[v] + 1 /\ age'[v] \in Nat
                           /\ v >= version => age'[v] = age[v]
    BY Numbers DEF PolicyTick, Version
  <1>3. Versions'
    BY <1>1, <1>2 DEF FreshInv, Versions
  <1>4. ASSUME NEW l \in Load, load'[l] # Unused PROVE ReadOK(load[l], l = inFlight)'
    <2>1. TypeInv /\ load[l] # Unused /\ ReadOK(load[l], l = inFlight)
      BY <1>4, HeldLoad DEF StoredInv, FreshInv, Loads
    <2>2. /\ load'[l].invalidated = load[l].invalidated /\ load'[l].state = load[l].state
          /\ load[l].state = "read" => load'[l].version = load[l].version /\ load'[l].held = load[l].held + 1
      BY <2>1, HeldLoad
    <2>3. load[l].state = "read" => /\ load[l].version \in Version /\ load[l].held \in Nat
                                    /\ age[load[l].version] \in Nat
      BY Numbers
    <2>4. load[l].state = "read" => age'[load[l].version] <= load[l].held + 1
      BY <1>2, <2>1, <2>3 DEF ReadOK
    <2> QED BY <1>1, <2>1, <2>2, <2>4 DEF ReadOK
  <1>5. EntryOK'
    <2>1. CASE entry = None \/ entry.left = 1
      BY <2>1 DEF PolicyTick, Aged, EntryOK
    <2>2. CASE entry # None /\ entry.left # 1
      <3>1. entry \in Entry
        BY <2>2, TypesUnfolded DEF StoredInv
      <3>2. entry' = [entry EXCEPT !.left = @ - 1]
        BY <2>2 DEF PolicyTick, Aged
      <3>3. entry'.version = entry.version /\ entry'.left = entry.left - 1
        BY <3>1, <3>2 DEF Entry
      <3>4. /\ entry.version >= settled /\ age[entry.version] <= MaxQuery + Ttl - entry.left
            /\ entry.version \in Version /\ entry.left \in Nat /\ age[entry.version] \in Nat
        BY <2>2, Numbers DEF FreshInv, EntryOK
      <3>5. age'[entry.version] <= MaxQuery + Ttl - (entry.left - 1)
        BY <1>2, <3>4, PolicyConstants
      <3> QED BY <1>1, <3>3, <3>4, <3>5 DEF EntryOK
    <2> QED BY <2>1, <2>2
  <1>6. Loads'
    BY <1>4 DEF Loads
  <1> QED BY <1>3, <1>5, <1>6 DEF FreshInv

(* A policy in the cache, or in the read that is joined, is no older than what *)
(* an answered command saved; and one that a save superseded is used no longer *)
(* than the time to live and one query, by those that wait for an invalidated  *)
(* read too (createGuildSpamPolicyCache, handleSpamProtectionCommand).         *)
THEOREM PoliciesAreFresh == PolicySpec => []FreshPolicy
  <1>1. PolicyInit => FreshInv
    <2> SUFFICES ASSUME PolicyInit PROVE FreshInv
      OBVIOUS
    <2>1. Versions
      BY DEF PolicyInit, Versions, Waiting
    <2>2. Loads
      BY DEF PolicyInit, Loads
    <2>3. EntryOK
      BY DEF PolicyInit, EntryOK
    <2> QED BY <2>1, <2>2, <2>3 DEF FreshInv
  <1>2. ASSUME StoredInv, FreshInv, [PolicyNext]_policyVars PROVE FreshInv'
    <2>1. ASSUME NEW l \in Load, MessageReads(l) \/ LoadReads(l) PROVE FreshInv'
      BY <1>2, <2>1, FreshAfterReads
    <2>2. ASSUME NEW l \in Load, LoadEnds(l) PROVE FreshInv'
      BY <1>2, <2>2, FreshAfterEnd
    <2>3. ASSUME NEW c \in Command, NEW field \in Field, NEW value \in Value, NEW l \in Load,
                 BeginCommand(c, field, value, l)
          PROVE  FreshInv'
      BY <1>2, <2>3, FreshAfterBegin
    <2>4. ASSUME UNCHANGED <<version, age, settled, cacheVars, command>> PROVE FreshInv'
      BY <1>2, <2>4 DEF cacheVars, FreshInv, Versions, Loads, ReadOK, EntryOK
    <2>5. ASSUME NEW s \in statements, Commit(s) PROVE FreshInv'
      <3>1. version' = version + 1 /\ version < MaxSaves /\ UNCHANGED <<age, settled, load, inFlight, entry>>
        BY <2>5 DEF Commit, Saved, cacheVars
      <3>2. \A c \in Command : command'[c].pc = "saved" =>
               command'[c] = command[c] \/ command'[c].version = version + 1
        BY <1>2, <2>5, TypesUnfolded DEF Commit, StoredInv
      <3> QED BY <1>2, <3>1, <3>2, FreshAfterSave
    <2>6. ASSUME NEW policy \in Form, DashboardSaves(policy) PROVE FreshInv'
      <3>1. version' = version + 1 /\ version < MaxSaves /\ UNCHANGED <<age, settled, load, inFlight, entry, command>>
        BY <2>6 DEF DashboardSaves, Saved, cacheVars
      <3> QED BY <1>2, <3>1, FreshAfterSave
    <2>7. ASSUME NEW c \in Command, Reply(c) PROVE FreshInv'
      <3>1. /\ UNCHANGED <<version, age>> /\ entry' = None /\ inFlight' = None /\ load' = Invalidated(load)
            /\ settled' = IF command[c].version > settled THEN command[c].version ELSE settled
            /\ command[c].pc = "saved" /\ command' = [command EXCEPT ![c] = Waiting]
        BY <2>7 DEF Reply, storedVars
      <3>2. settled' \in Version /\ settled' <= version
        BY <1>2, <3>1, Numbers, TypesUnfolded DEF FreshInv, Versions, StoredInv
      <3>3. \A k \in Command : command'[k].pc = "saved" => command'[k] = command[k]
        BY <1>2, <3>1, TypesUnfolded DEF StoredInv, Waiting
      <3> QED BY <1>2, <3>1, <3>2, <3>3, FreshAfterInvalidation
    <2>8. CASE InvalidatedAtRemoval
      <3>1. /\ UNCHANGED <<version, age, settled, command>> /\ entry' = None /\ inFlight' = None
            /\ load' = Invalidated(load)
        BY <2>8 DEF InvalidatedAtRemoval, storedVars
      <3>2. settled' \in Version /\ settled' <= version
        BY <1>2, <3>1, TypesUnfolded DEF FreshInv, Versions, StoredInv
      <3> QED BY <1>2, <3>1, <3>2, FreshAfterInvalidation
    <2>9. ASSUME NEW c \in Command, Fail(c) PROVE FreshInv'
      <3>1. UNCHANGED <<version, age, settled, entry, load, inFlight>>
        BY <2>9 DEF Fail, storedVars, cacheVars
      <3>2. \A k \in Command : command'[k].pc = "saved" => command'[k] = command[k]
        BY <1>2, <2>9, TypesUnfolded DEF Fail, StoredInv, Waiting
      <3> QED BY <1>2, <3>1, <3>2 DEF FreshInv, Versions, Loads, ReadOK, EntryOK
    <2>10. CASE BotRestarts
      <3>1. /\ UNCHANGED <<version, age, settled>> /\ entry' = None
            /\ \A l \in Load : load'[l] = Unused
            /\ \A c \in Command : command'[c] = Waiting
        BY <2>10 DEF BotRestarts, storedVars
      <3>2. Versions'
        BY <1>2, <3>1 DEF FreshInv, Versions, Waiting
      <3>3. Loads' /\ EntryOK'
        BY <3>1 DEF Loads, EntryOK
      <3> QED BY <3>2, <3>3 DEF FreshInv
    <2>11. CASE PolicyTick
      BY <1>2, <2>11, FreshAfterTick
    <2>12. ASSUME NEW s \in statements, Snapshot(s) PROVE FreshInv'
      BY <2>4, <2>12 DEF Snapshot, storedVars
    <2>13. CASE UNCHANGED policyVars
      BY <2>4, <2>13 DEF policyVars, storedVars
    <2> QED BY <1>2, <2>1, <2>2, <2>3, <2>5, <2>6, <2>7, <2>8, <2>9, <2>10, <2>11, <2>12, <2>13 DEF PolicyNext
  <1>3. StoredInv /\ FreshInv => FreshPolicy
    BY FreshIsFresh
  <1> QED BY <1>1, <1>2, <1>3, StoredInvariance, PTL DEF PolicySpec
-----------------------------------------------------------------------------
(***************************************************************************)
(* What the bot counts (SpamTracker), for every policy, text and number of *)
(* messages.  A window is never more than what was heard since the tracker *)
(* last began anew (WindowOK), and under one policy, with messages in      *)
(* order, never less than what can still count (SteadyOK).                 *)
(***************************************************************************)
Entered == [nr : 1..MaxMessages, at : 0..MaxTicks, text : Text \cup {NoText}]

HeardEntry == [nr : 1..MaxMessages, at : 0..MaxTicks, text : Text, compared : BOOLEAN]

HeardOK(t) ==
  /\ IsFiniteSet(heard[t])
  /\ \A h \in heard[t] : h.nr <= messages /\ h.at <= ticks
  /\ \A g, h \in heard[t] : g.nr = h.nr => g = h

WindowOK(t) ==
  /\ \A e, f \in window[t] : e.nr = f.nr => e = f
  /\ \A e \in window[t] : \E h \in heard[t] :
       /\ h.nr = e.nr /\ h.at = e.at
       /\ e.text # NoText => e.text = h.text /\ h.compared

(* A message that is not in the window is too old for the longest window, or
   for the timer. *)
Accounted(h, t) ==
  \/ h.at < ticks - Horizon(t)
  \/ \E g \in heard[t] : h.at < g.at - Longest(rule)
  \/ \E e \in window[t] : e.nr = h.nr /\ (rule.on["duplicates"] => e.text = h.text)

SteadyOK(t) ==
  steady[t] /\ heard[t] # {} =>
    /\ TrackerOf(rule) = t
    /\ \A g, h \in heard[t] : g.nr <= h.nr => g.at <= h.at
    /\ \A h \in heard[t] : h.compared = rule.on["duplicates"] /\ Accounted(h, t)

TrackerInv ==
  /\ TrackerTypeOK
  /\ window = [t \in Tracker |-> window[t]] /\ until = [t \in Tracker |-> until[t]]
  /\ heard = [t \in Tracker |-> heard[t]] /\ steady = [t \in Tracker |-> steady[t]]
  /\ \A t \in Tracker : HeardOK(t) /\ WindowOK(t) /\ SteadyOK(t)

LEMMA Matched ==
  ASSUME NEW S, NEW T, IsFiniteSet(T),
         \A s \in S : \E t \in T : t.nr = s.nr,
         \A s, u \in S : s.nr = u.nr => s = u
  PROVE  /\ IsFiniteSet(S) /\ Cardinality(S) <= Cardinality(T)
         /\ Cardinality(S) \in Nat /\ Cardinality(T) \in Nat
  <1> DEFINE f == [s \in S |-> CHOOSE t \in T : t.nr = s.nr]
  <1>1. \A s \in S : f[s] \in T /\ f[s].nr = s.nr
    OBVIOUS
  <1>2. f \in [S -> T]
    BY <1>1
  <1> HIDE DEF f
  <1>3. \A s, u \in S : f[s] = f[u] => s = u
    BY <1>1
  <1>4. f \in Injection(S, T)
    BY <1>2, <1>3 DEF Injection, IsInjective
  <1> QED BY <1>4, FS_Injection, FS_CardinalityType

LEMMA TrackerConstants ==
  /\ Cooldown \in Nat /\ MaxWindow \in Nat /\ Late \in Nat /\ MaxTicks \in Nat /\ MaxMessages \in Nat
  /\ NoText \notin Text /\ Rules \cup {Defaults} \subseteq Rule
  /\ \A r \in Rule : /\ r.on \in [Module -> BOOLEAN] /\ r.limit \in [Module -> Nat]
                     /\ r.window \in [Module -> 1..MaxWindow]
  BY RulesAssumption, TrackerAssumption DEF Rule

LEMMA LongestWindow ==
  ASSUME NEW r \in Rules \cup {Defaults}
  PROVE  /\ Longest(r) \in Nat
         /\ \A m \in Module : r.on[m] => r.window[m] <= Longest(r)
  <1>1. r \in Rule /\ \A m \in Module : r.window[m] \in Nat
    BY TrackerConstants
  <1>2. CASE r = Defaults
    <2>1. \A m \in Module : r.on[m] => m = "messages"
      BY <1>2, RulesAssumption
    <2>2. Longest(r) = r.window["messages"] /\ "messages" \in Module
      BY <1>2 DEF Longest, Module
    <2> QED BY <1>1, <2>1, <2>2
  <1>3. CASE r # Defaults
    <2> DEFINE S == {r.window[m] : m \in Module}
    <2>1. \E x \in S : \A y \in S : x >= y
      <3>1. S = {r.window["messages"], r.window["duplicates"]}
        BY DEF Module
      <3>2. r.window["messages"] \in Nat /\ r.window["duplicates"] \in Nat
        BY <1>1 DEF Module
      <3>3. CASE r.window["messages"] >= r.window["duplicates"]
        BY <3>1, <3>2, <3>3
      <3>4. CASE r.window["messages"] < r.window["duplicates"]
        BY <3>1, <3>2, <3>4
      <3> QED BY <3>2, <3>3, <3>4
    <2>2. Max(S) \in S /\ \A y \in S : Max(S) >= y
      BY <2>1 DEF Max
    <2>3. Longest(r) = Max(S)
      BY <1>3 DEF Longest
    <2> HIDE DEF S
    <2>4. \A m \in Module : r.window[m] \in S
      BY DEF S
    <2>5. \A x \in S : x \in Nat
      BY <1>1 DEF S
    <2> QED BY <1>1, <2>2, <2>3, <2>4, <2>5
  <1> QED BY <1>2, <1>3

LEMMA TrackerNames ==
  /\ "default" \in Tracker /\ "guild" \in Tracker /\ "messages" \in Module /\ "duplicates" \in Module
  /\ \A r \in Rules \cup {Defaults} : TrackerOf(r) \in Tracker
  BY DEF Tracker, Module, TrackerOf

LEMMA HorizonIsNumber == \A t \in Tracker : Horizon(t) \in Int
  <1>1. Defaults \in Rule
    BY TrackerConstants
  <1>2. Defaults.window["messages"] \in Int /\ MaxWindow \in Int
    BY <1>1, TrackerConstants, TrackerNames
  <1> QED BY <1>2 DEF Horizon

(* The entries a module counts, but for the message that has just come, and the
   messages heard that it should count, as long as they are not too old. *)
Others(r, text, at, m) ==
  {e \in {Kept(r, e) : e \in {e \in window[TrackerOf(r)] : e.at >= at - Longest(r)}} :
     e.at >= at - r.window[m] /\ (m = "duplicates" => text # NoText /\ e.text = text)}

Justly(r, text, at, since, m) ==
  {h \in heard[TrackerOf(r)] : /\ h.at >= at - r.window[m] /\ h.at >= since
                               /\ m = "duplicates" => h.compared /\ h.text = text}

LEMMA KeptEntry ==
  ASSUME NEW r, NEW e, e \in Entered \/ e \in [nr : Nat, at : Int, text : Text]
  PROVE  /\ Kept(r, e).nr = e.nr /\ Kept(r, e).at = e.at
         /\ r.on["duplicates"] => Kept(r, e) = e
         /\ ~r.on["duplicates"] => Kept(r, e).text = NoText
  BY DEF Kept, Entered

LEMMA CountedIsOneMore ==
  ASSUME TrackerInv, NEW text \in Text, NEW at \in 0..ticks, NEW m \in Module, rule.on[m]
  PROVE  /\ IsFiniteSet(Others(rule, text, at, m))
         /\ Counted(Events(rule, text, at), m, at - rule.window[m], Kept(rule, Arrived(text, at)).text)
              = Cardinality(Others(rule, text, at, m)) + 1
  <1> DEFINE new == Arrived(text, at)
             t == TrackerOf(rule)
             kept == {Kept(rule, e) : e \in {e \in window[t] : e.at >= at - Longest(rule)}}
             others == Others(rule, text, at, m)
             digest == Kept(rule, new).text
  <1>1. /\ ticks \in Nat /\ messages \in Nat /\ rule \in Rule /\ t \in Tracker /\ rule.window[m] \in Nat
        /\ window[t] \subseteq Entered /\ HeardOK(t) /\ WindowOK(t)
    BY TrackerConstants, TrackerNames DEF TrackerInv, TrackerTypeOK, Entered
  <1>2. /\ Kept(rule, new).nr = messages + 1 /\ Kept(rule, new).at = at
        /\ m = "duplicates" => digest = text
    <2>1. new \in [nr : Nat, at : Int, text : Text] /\ new.nr = messages + 1 /\ new.at = at /\ new.text = text
      BY <1>1 DEF Arrived
    <2> QED BY <2>1, KeptEntry
  <1>3. \A e \in others : \E w \in window[t] : e = Kept(rule, w) /\ e.nr = w.nr /\ e.at = w.at
    <2>1. \A w \in window[t] : Kept(rule, w).nr = w.nr /\ Kept(rule, w).at = w.at
      BY <1>1, KeptEntry
    <2> QED BY <2>1 DEF Others
  <1>4. \A e \in others : (\E h \in heard[t] : h.nr = e.nr) /\ e.nr <= messages
    BY <1>1, <1>3 DEF WindowOK, HeardOK
  <1>5. \A d, e \in others : d.nr = e.nr => d = e
    BY <1>1, <1>3 DEF WindowOK
  <1>6. IsFiniteSet(others)
    BY <1>1, <1>4, <1>5, Matched DEF HeardOK
  <1>7. Events(rule, text, at) = kept \cup {Kept(rule, new)}
    BY DEF Events
  <1>8. {e \in Events(rule, text, at) : e.at >= at - rule.window[m] /\ (m = "duplicates" => digest # NoText /\ e.text = digest)}
          = others \cup {Kept(rule, new)}
    <2>1. text # NoText
      BY TrackerConstants
    <2>2. /\ Kept(rule, new).at >= at - rule.window[m]
          /\ m = "duplicates" => digest # NoText /\ Kept(rule, new).text = digest
      BY <1>1, <1>2, <2>1
    <2>3. others = {e \in kept : e.at >= at - rule.window[m] /\ (m = "duplicates" => digest # NoText /\ e.text = digest)}
      BY <1>2, <2>1 DEF Others
    <2> HIDE DEF others, kept, digest, new
    <2> QED BY <1>7, <2>2, <2>3
  <1>9. Kept(rule, new) \notin others
    BY <1>1, <1>2, <1>4
  <1> HIDE DEF others
  <1>10. Cardinality(others \cup {Kept(rule, new)}) = Cardinality(others) + 1
    BY <1>6, <1>9, FS_AddElement
  <1> QED BY <1>6, <1>8, <1>10 DEF Counted, others

LEMMA SignalsAreAllowed ==
  ASSUME TrackerInv, NEW text \in Text, NEW at \in 0..ticks
  PROVE  Signals(rule, text, at) \subseteq Reported(rule, heard[TrackerOf(rule)], text, at, 0)
  <1> SUFFICES ASSUME NEW m \in Module, m \in Signals(rule, text, at)
               PROVE  m \in Reported(rule, heard[TrackerOf(rule)], text, at, 0)
    BY DEF Signals
  <1> DEFINE t == TrackerOf(rule)
             others == Others(rule, text, at, m)
             just == Justly(rule, text, at, 0, m)
  <1>1. /\ ticks \in Nat /\ rule \in Rule /\ t \in Tracker /\ rule.limit[m] \in Nat /\ rule.window[m] \in Nat
        /\ window[t] \subseteq Entered /\ heard[t] \subseteq HeardEntry /\ HeardOK(t) /\ WindowOK(t)
    BY TrackerConstants, TrackerNames DEF TrackerInv, TrackerTypeOK, Entered, HeardEntry
  <1>2. rule.on[m] /\ Cardinality(others) + 1 >= rule.limit[m] /\ IsFiniteSet(others)
    BY CountedIsOneMore DEF Signals
  <1>3. ASSUME NEW e \in others PROVE \E h \in just : h.nr = e.nr
    <2>1. PICK w \in window[t] : e = Kept(rule, w)
      BY DEF Others
    <2>2. /\ e.nr = w.nr /\ e.at = w.at /\ e.at >= at - rule.window[m]
          /\ m = "duplicates" => w.text = text /\ w.text # NoText
      BY <1>1, <1>2, <2>1, KeptEntry DEF Others
    <2>3. PICK h \in heard[t] : h.nr = w.nr /\ h.at = w.at /\ (w.text # NoText => w.text = h.text /\ h.compared)
      BY <1>1 DEF WindowOK
    <2>4. h.at >= 0
      BY <1>1 DEF HeardEntry
    <2> QED BY <2>2, <2>3, <2>4 DEF Justly
  <1>4. \A d, e \in others : d.nr = e.nr => d = e
    <2>1. \A w \in window[t] : Kept(rule, w).nr = w.nr
      BY <1>1, KeptEntry
    <2> QED BY <1>1, <2>1 DEF Others, WindowOK
  <1>5. IsFiniteSet(just)
    BY <1>1, FS_Subset DEF Justly, HeardOK
  <1> HIDE DEF others, just
  <1>6. Cardinality(others) <= Cardinality(just) /\ Cardinality(others) \in Nat /\ Cardinality(just) \in Nat
    BY <1>3, <1>4, <1>5, Matched
  <1>7. 1 + Cardinality(just) >= rule.limit[m]
    BY <1>1, <1>2, <1>6
  <1> QED BY <1>2, <1>7 DEF Reported, just, Justly

LEMMA DueAreSignals ==
  ASSUME TrackerInv, NEW text \in Text, NEW at \in 0..ticks, steady[TrackerOf(rule)],
         \A e \in heard[TrackerOf(rule)] : e.at <= at
  PROVE  Reported(rule, heard[TrackerOf(rule)], text, at, ticks - Horizon(TrackerOf(rule)))
           \subseteq Signals(rule, text, at)
  <1> DEFINE t == TrackerOf(rule)
  <1> SUFFICES ASSUME NEW m \in Module, m \in Reported(rule, heard[t], text, at, ticks - Horizon(t))
               PROVE  m \in Signals(rule, text, at)
    BY DEF Reported
  <1> DEFINE others == Others(rule, text, at, m)
             just == Justly(rule, text, at, ticks - Horizon(t), m)
  <1>1. /\ ticks \in Nat /\ rule \in Rule /\ t \in Tracker /\ rule.limit[m] \in Nat /\ rule.window[m] \in Nat
        /\ window[t] \subseteq Entered /\ heard[t] \subseteq HeardEntry
        /\ HeardOK(t) /\ WindowOK(t) /\ SteadyOK(t)
    BY TrackerConstants, TrackerNames DEF TrackerInv, TrackerTypeOK, Entered, HeardEntry
  <1>2. rule.on[m] /\ 1 + Cardinality(just) >= rule.limit[m]
    BY DEF Reported, Justly
  <1>3. Longest(rule) \in Nat /\ rule.window[m] <= Longest(rule) /\ Horizon(t) \in Int
    BY <1>1, <1>2, LongestWindow, HorizonIsNumber DEF TrackerInv, TrackerTypeOK
  <1>4. ASSUME NEW h \in just PROVE \E e \in others : e.nr = h.nr
    <2>1. /\ h \in heard[t] /\ h.at \in Nat /\ h.at >= at - rule.window[m] /\ h.at >= ticks - Horizon(t)
          /\ m = "duplicates" => h.text = text
      BY <1>1 DEF Justly, HeardEntry
    <2>2. Accounted(h, t)
      BY <1>1, <2>1 DEF SteadyOK
    <2>3. \A g \in heard[t] : g.at \in Nat /\ g.at <= at
      BY <1>1 DEF HeardEntry
    <2>4. ~(\E g \in heard[t] : h.at < g.at - Longest(rule)) /\ ~(h.at < ticks - Horizon(t))
      BY <1>1, <1>3, <2>1, <2>3
    <2>5. PICK w \in window[t] : w.nr = h.nr /\ (rule.on["duplicates"] => w.text = h.text)
      BY <2>2, <2>4 DEF Accounted
    <2>6. w.at = h.at
      BY <1>1, <2>1, <2>5 DEF WindowOK, HeardOK
    <2>7. Kept(rule, w).nr = h.nr /\ Kept(rule, w).at = h.at /\ (m = "duplicates" => Kept(rule, w).text = text)
      BY <1>1, <1>2, <2>1, <2>5, <2>6, KeptEntry
    <2>8. w.at >= at - Longest(rule)
      BY <1>1, <1>3, <2>1, <2>6
    <2>9. text # NoText
      BY TrackerConstants
    <2>10. Kept(rule, w) \in others
      BY <2>1, <2>7, <2>8, <2>9 DEF Others
    <2> QED BY <2>7, <2>10
  <1>5. \A g, h \in just : g.nr = h.nr => g = h
    BY <1>1 DEF Justly, HeardOK
  <1>6. IsFiniteSet(others)
    BY <1>2, CountedIsOneMore
  <1> HIDE DEF others, just
  <1>7. Cardinality(just) <= Cardinality(others) /\ Cardinality(others) \in Nat /\ Cardinality(just) \in Nat
    BY <1>4, <1>5, <1>6, Matched
  <1>8. Cardinality(others) + 1 >= rule.limit[m]
    BY <1>1, <1>2, <1>7
  <1> QED BY <1>2, <1>8, CountedIsOneMore DEF Signals, others

LEMMA TrackerUnfolded ==
  ASSUME TrackerInv
  PROVE  /\ ticks \in 0..MaxTicks /\ messages \in 0..MaxMessages /\ rule \in Rules \cup {Defaults}
         /\ \A t \in Tracker : /\ window[t] \subseteq Entered /\ heard[t] \subseteq HeardEntry
                               /\ until[t] \in 0..MaxTicks + Cooldown /\ steady[t] \in BOOLEAN
                               /\ HeardOK(t) /\ WindowOK(t) /\ SteadyOK(t)
         /\ \A s \in {"due", "signals", "allowed"} : verdict[s] \subseteq Module
         /\ window = [t \in Tracker |-> window[t]] /\ until = [t \in Tracker |-> until[t]]
         /\ heard = [t \in Tracker |-> heard[t]] /\ steady = [t \in Tracker |-> steady[t]]
  BY DEF TrackerInv, TrackerTypeOK, Entered, HeardEntry

LEMMA TrackerFolded ==
  ASSUME ticks' \in 0..MaxTicks, messages' \in 0..MaxMessages, rule' \in Rules \cup {Defaults},
         \A t \in Tracker : /\ window'[t] \subseteq Entered /\ heard'[t] \subseteq HeardEntry
                            /\ until'[t] \in 0..MaxTicks + Cooldown /\ steady'[t] \in BOOLEAN
                            /\ HeardOK(t)' /\ WindowOK(t)' /\ SteadyOK(t)',
         \A s \in {"due", "signals", "allowed"} : verdict'[s] \subseteq Module,
         window' = [t \in Tracker |-> window'[t]], until' = [t \in Tracker |-> until'[t]],
         heard' = [t \in Tracker |-> heard'[t]], steady' = [t \in Tracker |-> steady'[t]]
  PROVE  TrackerInv'
  BY DEF TrackerInv, TrackerTypeOK, Entered, HeardEntry

(* A tracker that another message, or none, has reached. *)
LEMMA TrackerUntouched ==
  ASSUME TrackerInv, NEW t \in Tracker,
         window'[t] = window[t], heard'[t] = heard[t], steady'[t] = steady[t],
         messages' \in Nat, messages' >= messages, ticks' \in Nat, ticks' >= ticks, rule' = rule
  PROVE  HeardOK(t)' /\ WindowOK(t)' /\ SteadyOK(t)'
  <1>1. HeardOK(t) /\ WindowOK(t) /\ SteadyOK(t) /\ heard[t] \subseteq HeardEntry
        /\ messages \in Nat /\ ticks \in Nat /\ Horizon(t) \in Int
    BY TrackerUnfolded, HorizonIsNumber
  <1>2. HeardOK(t)' /\ WindowOK(t)'
    BY <1>1 DEF HeardOK, WindowOK, HeardEntry
  <1>3. ASSUME NEW h \in heard[t], Accounted(h, t) PROVE Accounted(h, t)'
    BY <1>1, <1>3 DEF Accounted, HeardEntry
  <1>4. SteadyOK(t)'
    BY <1>1, <1>3 DEF SteadyOK
  <1> QED BY <1>2, <1>4

LEMMA TrackerBegun ==
  ASSUME NEW t \in Tracker, window'[t] = {}, heard'[t] = {}
  PROVE  HeardOK(t)' /\ WindowOK(t)' /\ SteadyOK(t)'
  BY FS_EmptySet DEF HeardOK, WindowOK, SteadyOK

(* The message is added to what was heard, and to what is left of the window. *)
LEMMA TrackerExtended ==
  ASSUME TrackerInv, NEW text \in Text, NEW at \in 0..ticks, messages < MaxMessages, messages' = messages + 1,
         UNCHANGED <<ticks, rule>>,
         window'[TrackerOf(rule)] = Events(rule, text, at),
         heard'[TrackerOf(rule)] = heard[TrackerOf(rule)] \cup
           {[nr |-> messages + 1, at |-> at, text |-> text, compared |-> rule.on["duplicates"]]},
         steady'[TrackerOf(rule)] = (steady[TrackerOf(rule)] /\ \A e \in heard[TrackerOf(rule)] : e.at <= at)
  PROVE  LET t == TrackerOf(rule)
         IN  /\ window'[t] \subseteq Entered /\ heard'[t] \subseteq HeardEntry
             /\ HeardOK(t)' /\ WindowOK(t)' /\ SteadyOK(t)'
  <1> DEFINE t == TrackerOf(rule)
             new == [nr |-> messages + 1, at |-> at, text |-> text, compared |-> rule.on["duplicates"]]
             added == Kept(rule, Arrived(text, at))
  <1>1. /\ ticks \in Nat /\ messages \in Nat /\ rule \in Rule /\ t \in Tracker /\ at \in Nat
        /\ window[t] \subseteq Entered /\ heard[t] \subseteq HeardEntry
        /\ HeardOK(t) /\ WindowOK(t) /\ SteadyOK(t) /\ Horizon(t) \in Int /\ Longest(rule) \in Nat
        /\ rule.on["duplicates"] \in BOOLEAN
    BY TrackerUnfolded, TrackerConstants, TrackerNames, HorizonIsNumber, LongestWindow
  <1>2. new \in HeardEntry /\ new.nr = messages + 1 /\ new.at = at /\ new.text = text /\ new.compared = rule.on["duplicates"]
    BY <1>1, TrackerUnfolded, TrackerConstants DEF HeardEntry
  <1>3. /\ added.nr = messages + 1 /\ added.at = at /\ added \in Entered
        /\ rule.on["duplicates"] => added.text = text
        /\ ~rule.on["duplicates"] => added.text = NoText
    <2>1. Arrived(text, at) \in [nr : Nat, at : Int, text : Text] /\ Arrived(text, at) \in Entered
      BY <1>1, TrackerUnfolded, TrackerConstants DEF Arrived, Entered
    <2>2. added \in Entered
      BY <2>1 DEF Kept, Entered
    <2> QED BY <2>1, <2>2, KeptEntry DEF Arrived
  <1>4. \A w \in window[t] : /\ Kept(rule, w).nr = w.nr /\ Kept(rule, w).at = w.at /\ Kept(rule, w) \in Entered
                             /\ rule.on["duplicates"] => Kept(rule, w) = w
                             /\ ~rule.on["duplicates"] => Kept(rule, w).text = NoText
    <2> TAKE w \in window[t]
    <2>1. Kept(rule, w) \in Entered
      BY <1>1 DEF Kept, Entered
    <2> QED BY <1>1, <2>1, KeptEntry
  <1>5. window'[t] = {Kept(rule, w) : w \in {w \in window[t] : w.at >= at - Longest(rule)}} \cup {added}
    BY DEF Events
  <1>6. heard'[t] = heard[t] \cup {new}
    OBVIOUS
  <1> HIDE DEF new, added
  <1>7. window'[t] \subseteq Entered /\ heard'[t] \subseteq HeardEntry
    BY <1>1, <1>2, <1>3, <1>4, <1>5, <1>6
  <1>8. \A h \in heard[t] : h.nr <= messages /\ h.nr \in Nat /\ h.at \in Nat
    BY <1>1 DEF HeardOK, HeardEntry
  <1>9. HeardOK(t)'
    <2>1. IsFiniteSet(heard[t] \cup {new})
      BY <1>1, FS_AddElement DEF HeardOK
    <2>2. \A h \in heard'[t] : h.nr <= messages' /\ h.at <= ticks'
      <3>1. \A h \in heard[t] : h.nr <= messages + 1 /\ h.at <= ticks
        BY <1>1, <1>8 DEF HeardOK
      <3>2. new.nr <= messages + 1 /\ new.at <= ticks
        BY <1>1, <1>2
      <3> QED BY <1>6, <3>1, <3>2
    <2>3. \A g, h \in heard'[t] : g.nr = h.nr => g = h
      <3>1. \A h \in heard[t] : h.nr # new.nr
        BY <1>1, <1>2, <1>8
      <3> QED BY <1>1, <1>6, <3>1 DEF HeardOK
    <2> QED BY <1>6, <2>1, <2>2, <2>3 DEF HeardOK
  <1>10. \A e \in window'[t] : e = added \/ \E w \in window[t] : e = Kept(rule, w)
    BY <1>5
  <1>11. \A w \in window[t] : w.nr <= messages
    BY <1>1 DEF WindowOK, HeardOK
  <1>12. WindowOK(t)'
    <2>1. ASSUME NEW e \in window'[t]
          PROVE  \E h \in heard'[t] : h.nr = e.nr /\ h.at = e.at /\ (e.text # NoText => e.text = h.text /\ h.compared)
      <3>1. CASE e = added
        BY <3>1, <1>2, <1>3, <1>6
      <3>2. CASE \E w \in window[t] : e = Kept(rule, w)
        BY <3>2, <1>1, <1>4, <1>6 DEF WindowOK
      <3> QED BY <3>1, <3>2, <1>10
    <2>2. ASSUME NEW d \in window'[t], NEW e \in window'[t], d.nr = e.nr PROVE d = e
      BY <2>2, <1>1, <1>3, <1>4, <1>10, <1>11 DEF WindowOK
    <2> QED BY <2>1, <2>2 DEF WindowOK
  <1>13. SteadyOK(t)'
    <2> SUFFICES ASSUME steady[t], \A e \in heard[t] : e.at <= at PROVE SteadyOK(t)'
      BY DEF SteadyOK
    <2>1. TrackerOf(rule)' = t
      OBVIOUS
    <2>2. ASSUME NEW g \in heard'[t], NEW h \in heard'[t], g.nr <= h.nr PROVE g.at <= h.at
      <3>1. CASE h = new
        BY <3>1, <1>1, <1>2, <1>6
      <3>2. CASE h # new /\ g = new
        BY <3>2, <2>2, <1>1, <1>2, <1>6, <1>8
      <3>3. CASE h # new /\ g # new
        BY <3>3, <2>2, <1>1, <1>6 DEF SteadyOK
      <3> QED BY <3>1, <3>2, <3>3
    <2>3. ASSUME NEW h \in heard'[t] PROVE h.compared = rule.on["duplicates"] /\ Accounted(h, t)'
      <3>1. CASE h = new
        <4>1. added \in window'[t] /\ added.nr = h.nr /\ (rule.on["duplicates"] => added.text = h.text)
          BY <3>1, <1>2, <1>3, <1>5
        <4> QED BY <3>1, <4>1, <1>2 DEF Accounted
      <3>2. CASE h \in heard[t]
        <4>1. h.compared = rule.on["duplicates"] /\ Accounted(h, t) /\ h.at \in Nat
          BY <3>2, <1>1, <1>8 DEF SteadyOK
        <4>2. CASE h.at < ticks - Horizon(t)
          BY <4>1, <4>2 DEF Accounted
        <4>3. CASE \E g \in heard[t] : h.at < g.at - Longest(rule)
          BY <4>1, <4>3, <1>6 DEF Accounted
        <4>4. CASE \E e \in window[t] : e.nr = h.nr /\ (rule.on["duplicates"] => e.text = h.text)
          <5>1. PICK w \in window[t] : w.nr = h.nr /\ (rule.on["duplicates"] => w.text = h.text)
            BY <4>4
          <5>2. w.at = h.at
            BY <5>1, <3>2, <1>1 DEF WindowOK, HeardOK
          <5>3. CASE w.at >= at - Longest(rule)
            <6>1. Kept(rule, w) \in window'[t] /\ Kept(rule, w).nr = h.nr
                  /\ (rule.on["duplicates"] => Kept(rule, w).text = h.text)
              BY <5>1, <5>3, <1>4, <1>5
            <6> QED BY <4>1, <6>1 DEF Accounted
          <5>4. CASE ~(w.at >= at - Longest(rule))
            <6>1. new \in heard'[t] /\ h.at < new.at - Longest(rule)
              BY <4>1, <5>2, <5>4, <1>1, <1>2, <1>6
            <6> QED BY <4>1, <6>1 DEF Accounted
          <5> QED BY <5>3, <5>4
        <4> QED BY <4>1, <4>2, <4>3, <4>4 DEF Accounted
      <3> QED BY <3>1, <3>2, <1>6
    <2> QED BY <2>1, <2>2, <2>3 DEF SteadyOK
  <1> QED BY <1>7, <1>9, <1>12, <1>13

LEMMA AfterRecord ==
  ASSUME TrackerInv, NEW text \in Text, NEW at \in Max({0, ticks - Late})..ticks,
         messages < MaxMessages, messages' = messages + 1, UNCHANGED <<ticks, rule>>, Record(text, at)
  PROVE  TrackerInv' /\ DetectionsAreJust'
  <1> DEFINE t == TrackerOf(rule)
             signals == Signals(rule, text, at)
             inOrder == \A e \in heard[t] : e.at <= at
             new == [nr |-> messages + 1, at |-> at, text |-> text, compared |-> rule.on["duplicates"]]
  <1>1. at \in 0..ticks /\ at \in Nat /\ ticks \in 0..MaxTicks
    <2>1. ticks \in 0..MaxTicks /\ Late \in Nat
      BY TrackerUnfolded, TrackerConstants
    <2>2. Max({0, ticks - Late}) >= 0 /\ Max({0, ticks - Late}) \in Int
      <3>1. \E x \in {0, ticks - Late} : \A y \in {0, ticks - Late} : x >= y
        BY <2>1
      <3>2. Max({0, ticks - Late}) \in {0, ticks - Late} /\ \A y \in {0, ticks - Late} : Max({0, ticks - Late}) >= y
        BY <3>1 DEF Max
      <3> QED BY <2>1, <3>2
    <2> QED BY <2>1, <2>2
  <1>2. messages' \in 0..MaxMessages /\ messages \in Nat /\ t \in Tracker
    BY TrackerUnfolded, TrackerConstants, TrackerNames
  <1>3. verdict' = [signals |-> signals, allowed |-> Reported(rule, heard[t], text, at, 0),
                    due |-> IF steady[t] /\ inOrder
                              THEN Reported(rule, heard[t], text, at, ticks - Horizon(t)) ELSE {}]
    BY DEF Record
  <1>4. /\ signals \subseteq Reported(rule, heard[t], text, at, 0)
        /\ steady[t] /\ inOrder => Reported(rule, heard[t], text, at, ticks - Horizon(t)) \subseteq signals
    BY <1>1, SignalsAreAllowed, DueAreSignals
  <1>5. DetectionsAreJust'
    <2> HIDE DEF signals, inOrder, t
    <2> QED BY <1>3, <1>4 DEF DetectionsAreJust
  <1>6. \A s \in {"due", "signals", "allowed"} : verdict'[s] \subseteq Module
    <2>1. signals \subseteq Module /\ \A since : Reported(rule, heard[t], text, at, since) \subseteq Module
      BY DEF Signals, Reported
    <2> HIDE DEF signals, inOrder, t
    <2> QED BY <1>3, <2>1
  <1>7. CASE signals # {}
    <2>1. /\ window' = [window EXCEPT ![t] = {}] /\ heard' = [heard EXCEPT ![t] = {}]
          /\ steady' = [steady EXCEPT ![t] = TRUE] /\ until' = [until EXCEPT ![t] = at + Cooldown]
      BY <1>7 DEF Record, BeginAnew
    <2>2. at + Cooldown \in 0..MaxTicks + Cooldown
      BY <1>1, TrackerConstants
    <2>3. ASSUME NEW u \in Tracker
          PROVE  /\ window'[u] \subseteq Entered /\ heard'[u] \subseteq HeardEntry
                 /\ until'[u] \in 0..MaxTicks + Cooldown /\ steady'[u] \in BOOLEAN
                 /\ HeardOK(u)' /\ WindowOK(u)' /\ SteadyOK(u)'
      <3>1. CASE u = t
        <4>1. window'[u] = {} /\ heard'[u] = {} /\ steady'[u] = TRUE /\ until'[u] = at + Cooldown
          BY <3>1, <1>2, <2>1, TrackerUnfolded
        <4> QED BY <4>1, <2>2, TrackerBegun
      <3>2. CASE u # t
        <4>1. window'[u] = window[u] /\ heard'[u] = heard[u] /\ steady'[u] = steady[u] /\ until'[u] = until[u]
          BY <3>2, <2>1, TrackerUnfolded
        <4> QED BY <4>1, <1>1, <1>2, TrackerUnfolded, TrackerUntouched
      <3> QED BY <3>1, <3>2
    <2>4. /\ window' = [u \in Tracker |-> window'[u]] /\ until' = [u \in Tracker |-> until'[u]]
          /\ heard' = [u \in Tracker |-> heard'[u]] /\ steady' = [u \in Tracker |-> steady'[u]]
      BY <2>1, TrackerUnfolded
    <2> QED BY <1>2, <1>5, <1>6, <2>3, <2>4, TrackerUnfolded, TrackerFolded
  <1>8. CASE signals = {}
    <2>1. /\ window' = [window EXCEPT ![t] = Events(rule, text, at)]
          /\ heard' = [heard EXCEPT ![t] = heard[t] \cup {new}]
          /\ steady' = [steady EXCEPT ![t] = steady[t] /\ inOrder]
          /\ until' = IF t = "default" THEN [until EXCEPT ![t] = 0] ELSE until
      BY <1>8 DEF Record
    <2>2. ASSUME NEW u \in Tracker
          PROVE  /\ window'[u] \subseteq Entered /\ heard'[u] \subseteq HeardEntry
                 /\ until'[u] \in 0..MaxTicks + Cooldown /\ steady'[u] \in BOOLEAN
                 /\ HeardOK(u)' /\ WindowOK(u)' /\ SteadyOK(u)'
      <3>1. CASE u = t
        <4>1. /\ window'[u] = Events(rule, text, at) /\ heard'[u] = heard[t] \cup {new}
              /\ steady'[u] = (steady[t] /\ inOrder) /\ until'[u] \in {0, until[u]}
          BY <3>1, <1>2, <2>1, TrackerUnfolded
        <4>2. /\ window'[u] \subseteq Entered /\ heard'[u] \subseteq HeardEntry
              /\ HeardOK(u)' /\ WindowOK(u)' /\ SteadyOK(u)'
          BY <3>1, <4>1, <1>1, TrackerExtended
        <4>3. /\ steady[t] \in BOOLEAN /\ inOrder \in BOOLEAN
              /\ until[u] \in 0..MaxTicks + Cooldown /\ 0 \in 0..MaxTicks + Cooldown
          BY <1>2, TrackerUnfolded, TrackerConstants
        <4>4. steady'[u] \in BOOLEAN
          BY <4>1, <4>3
        <4> QED BY <4>1, <4>2, <4>3, <4>4
      <3>2. CASE u # t
        <4>1. window'[u] = window[u] /\ heard'[u] = heard[u] /\ steady'[u] = steady[u] /\ until'[u] = until[u]
          BY <3>2, <2>1, TrackerUnfolded
        <4> QED BY <4>1, <1>1, <1>2, TrackerUnfolded, TrackerUntouched
      <3> QED BY <3>1, <3>2
    <2>3. /\ window' = [u \in Tracker |-> window'[u]] /\ until' = [u \in Tracker |-> until'[u]]
          /\ heard' = [u \in Tracker |-> heard'[u]] /\ steady' = [u \in Tracker |-> steady'[u]]
      BY <2>1, TrackerUnfolded
    <2> QED BY <1>2, <1>5, <1>6, <2>2, <2>3, TrackerUnfolded, TrackerFolded
  <1> QED BY <1>7, <1>8

LEMMA AfterMessage ==
  ASSUME TrackerInv, NEW text \in Text, NEW at \in Max({0, ticks - Late})..ticks, Message(text, at)
  PROVE  TrackerInv' /\ DetectionsAreJust'
  <1>1. messages < MaxMessages /\ messages' = messages + 1 /\ UNCHANGED <<ticks, rule>>
    BY DEF Message
  <1>2. messages' \in 0..MaxMessages /\ messages \in Nat /\ ticks \in Nat
    BY <1>1, TrackerUnfolded, TrackerConstants
  <1>3. CASE Record(text, at)
    BY <1>1, <1>3, AfterRecord
  <1>4. CASE verdict' = Nothing /\ UNCHANGED <<window, until, heard, steady>>
    <2>1. \A t \in Tracker : HeardOK(t)' /\ WindowOK(t)' /\ SteadyOK(t)'
      BY <1>1, <1>2, <1>4, TrackerUntouched
    <2> QED BY <1>1, <1>2, <1>4, <2>1, TrackerUnfolded, TrackerFolded DEF Nothing, DetectionsAreJust
  <1>5. CASE Forget("guild") /\ verdict' = Nothing
    <2>1. /\ window' = [window EXCEPT !["guild"] = {}] /\ heard' = [heard EXCEPT !["guild"] = {}]
          /\ steady' = [steady EXCEPT !["guild"] = TRUE] /\ until' = [until EXCEPT !["guild"] = 0]
      BY <1>5 DEF Forget, BeginAnew
    <2>2. ASSUME NEW u \in Tracker
          PROVE  /\ window'[u] \subseteq Entered /\ heard'[u] \subseteq HeardEntry
                 /\ until'[u] \in 0..MaxTicks + Cooldown /\ steady'[u] \in BOOLEAN
                 /\ HeardOK(u)' /\ WindowOK(u)' /\ SteadyOK(u)'
      <3>1. CASE u = "guild"
        <4>1. window'[u] = {} /\ heard'[u] = {} /\ steady'[u] = TRUE /\ until'[u] = 0
          BY <3>1, <2>1, TrackerUnfolded
        <4>2. 0 \in 0..MaxTicks + Cooldown
          BY TrackerConstants
        <4> QED BY <4>1, <4>2, TrackerBegun
      <3>2. CASE u # "guild"
        <4>1. window'[u] = window[u] /\ heard'[u] = heard[u] /\ steady'[u] = steady[u] /\ until'[u] = until[u]
          BY <3>2, <2>1, TrackerUnfolded
        <4> QED BY <4>1, <1>1, <1>2, TrackerUnfolded, TrackerUntouched
      <3> QED BY <3>1, <3>2
    <2>3. /\ window' = [u \in Tracker |-> window'[u]] /\ until' = [u \in Tracker |-> until'[u]]
          /\ heard' = [u \in Tracker |-> heard'[u]] /\ steady' = [u \in Tracker |-> steady'[u]]
      BY <2>1, TrackerUnfolded
    <2>4. DetectionsAreJust' /\ \A s \in {"due", "signals", "allowed"} : verdict'[s] \subseteq Module
      BY <1>5 DEF Nothing, DetectionsAreJust
    <2> QED BY <1>1, <1>2, <2>2, <2>3, <2>4, TrackerUnfolded, TrackerFolded
  <1> QED BY <1>3, <1>4, <1>5 DEF Message

LEMMA AfterPolicyChange ==
  ASSUME TrackerInv, NEW r \in Rules \cup {Defaults}, PolicyChanges(r)
  PROVE  TrackerInv'
  <1>1. /\ UNCHANGED <<ticks, messages, window, until, heard, verdict>> /\ rule' = r
        /\ steady' = [t \in Tracker |-> heard[t] = {}]
    BY DEF PolicyChanges
  <1>2. \A t \in Tracker : HeardOK(t)' /\ WindowOK(t)'
    BY <1>1, TrackerUnfolded DEF HeardOK, WindowOK
  <1>3. \A t \in Tracker : steady'[t] \in BOOLEAN /\ SteadyOK(t)'
    BY <1>1 DEF SteadyOK
  <1>4. steady' = [t \in Tracker |-> steady'[t]]
    BY <1>1
  <1> QED BY <1>1, <1>2, <1>3, <1>4, TrackerUnfolded, TrackerFolded

LEMMA AfterPrune ==
  ASSUME TrackerInv, Prune PROVE TrackerInv'
  <1>1. UNCHANGED <<ticks, messages, rule, heard, steady, verdict>>
    BY DEF Prune
  <1>2. ASSUME NEW t \in Tracker
        PROVE  \/ window'[t] = window[t]
               \/ /\ window'[t] = {}
                  /\ \E e \in window[t] : (\A d \in window[t] : d.nr <= e.nr) /\ e.at < ticks - Horizon(t)
    BY DEF Prune, Newest
  <1>3. ASSUME NEW t \in Tracker
        PROVE  until'[t] \in 0..MaxTicks + Cooldown
    BY TrackerUnfolded, TrackerConstants DEF Prune
  <1>4. ASSUME NEW t \in Tracker
        PROVE  window'[t] \subseteq Entered /\ HeardOK(t)' /\ WindowOK(t)' /\ SteadyOK(t)'
    <2>1. /\ HeardOK(t) /\ WindowOK(t) /\ SteadyOK(t) /\ heard[t] \subseteq HeardEntry /\ window[t] \subseteq Entered
          /\ Horizon(t) \in Int /\ ticks \in Nat /\ messages \in Nat
      BY TrackerUnfolded, HorizonIsNumber
    <2>2. CASE window'[t] = window[t]
      BY <1>1, <2>1, <2>2, TrackerUntouched
    <2>3. CASE window'[t] # window[t]
      <3>1. window'[t] = {}
        BY <1>2, <2>3
      <3>2. PICK e \in window[t] : (\A d \in window[t] : d.nr <= e.nr) /\ e.at < ticks - Horizon(t)
        BY <1>2, <2>3
      <3>3. HeardOK(t)' /\ WindowOK(t)'
        BY <1>1, <2>1, <3>1 DEF HeardOK, WindowOK
      <3>4. PICK g \in heard[t] : g.nr = e.nr /\ g.at = e.at
        BY <2>1 DEF WindowOK
      <3>5. ASSUME NEW h \in heard[t], steady[t] PROVE Accounted(h, t)'
        <4>1. Accounted(h, t)
          BY <2>1, <3>5 DEF SteadyOK
        <4>2. CASE \E w \in window[t] : w.nr = h.nr /\ (rule.on["duplicates"] => w.text = h.text)
          <5>1. h.nr <= g.nr
            BY <3>2, <3>4, <4>2
          <5>2. h.at <= g.at
            BY <2>1, <3>5, <5>1 DEF SteadyOK
          <5>3. h.at < ticks - Horizon(t)
            BY <2>1, <3>2, <3>4, <5>2 DEF HeardEntry
          <5> QED BY <1>1, <5>3 DEF Accounted, Horizon
        <4>3. CASE ~(\E w \in window[t] : w.nr = h.nr /\ (rule.on["duplicates"] => w.text = h.text))
          BY <1>1, <4>1, <4>3 DEF Accounted
        <4> QED BY <4>2, <4>3
      <3>6. SteadyOK(t)'
        BY <1>1, <2>1, <3>5 DEF SteadyOK
      <3> QED BY <3>1, <3>3, <3>6
    <2> QED BY <2>2, <2>3
  <1>5. window' = [t \in Tracker |-> window'[t]] /\ until' = [t \in Tracker |-> until'[t]]
    BY DEF Prune
  <1> QED BY <1>1, <1>3, <1>4, <1>5, TrackerUnfolded, TrackerFolded

LEMMA AfterForgetGuild ==
  ASSUME TrackerInv, ForgetGuild PROVE TrackerInv'
  <1>1. \A t \in Tracker : window'[t] = {} /\ heard'[t] = {} /\ until'[t] = 0 /\ steady'[t] = TRUE
    BY DEF ForgetGuild
  <1>2. /\ window' = [t \in Tracker |-> window'[t]] /\ until' = [t \in Tracker |-> until'[t]]
        /\ heard' = [t \in Tracker |-> heard'[t]] /\ steady' = [t \in Tracker |-> steady'[t]]
    BY DEF ForgetGuild
  <1>3. \A t \in Tracker : HeardOK(t)' /\ WindowOK(t)' /\ SteadyOK(t)'
    BY <1>1, TrackerBegun
  <1>4. 0 \in 0..MaxTicks + Cooldown
    BY TrackerConstants
  <1> QED BY <1>1, <1>2, <1>3, <1>4, TrackerUnfolded, TrackerFolded DEF ForgetGuild

LEMMA AfterTrackerTick ==
  ASSUME TrackerInv, TrackerTick PROVE TrackerInv'
  <1>1. ticks' \in 0..MaxTicks /\ ticks' >= ticks /\ ticks \in Nat /\ messages \in Nat
    BY TrackerUnfolded, TrackerConstants DEF TrackerTick
  <1>2. UNCHANGED <<messages, rule, window, until, heard, steady, verdict>>
    BY DEF TrackerTick
  <1>3. \A t \in Tracker : HeardOK(t)' /\ WindowOK(t)' /\ SteadyOK(t)'
    BY <1>1, <1>2, TrackerUntouched
  <1> QED BY <1>1, <1>2, <1>3, TrackerUnfolded, TrackerFolded

TrackerJust == TrackerInv /\ DetectionsAreJust

LEMMA TrackerInitially == TrackerInit => TrackerJust
  <1> SUFFICES ASSUME TrackerInit PROVE TrackerJust
    OBVIOUS
  <1>1. \A t \in Tracker : window[t] = {} /\ heard[t] = {} /\ until[t] = 0 /\ steady[t] = TRUE
    BY DEF TrackerInit
  <1>2. \A t \in Tracker : HeardOK(t) /\ WindowOK(t) /\ SteadyOK(t)
    BY <1>1, FS_EmptySet DEF HeardOK, WindowOK, SteadyOK
  <1>3. 0 \in 0..MaxTicks /\ 0 \in 0..MaxMessages /\ 0 \in 0..MaxTicks + Cooldown
    BY TrackerConstants
  <1> QED BY <1>1, <1>2, <1>3 DEF TrackerInit, TrackerJust, TrackerInv, TrackerTypeOK, DetectionsAreJust, Nothing

LEMMA TrackerInvariance == TrackerSpec => []TrackerJust
  <1>1. ASSUME TrackerJust, [TrackerNext]_trackerVars PROVE TrackerJust'
    <2> USE DEF TrackerJust
    <2>1. ASSUME NEW text \in Text, NEW at \in Max({0, ticks - Late})..ticks, Message(text, at) PROVE TrackerJust'
      BY <1>1, <2>1, AfterMessage
    <2>2. ASSUME UNCHANGED verdict PROVE DetectionsAreJust'
      BY <1>1, <2>2 DEF DetectionsAreJust
    <2>3. ASSUME NEW r \in Rules \cup {Defaults}, PolicyChanges(r) PROVE TrackerJust'
      BY <1>1, <2>2, <2>3, AfterPolicyChange DEF PolicyChanges
    <2>4. CASE Prune
      BY <1>1, <2>2, <2>4, AfterPrune DEF Prune
    <2>5. CASE ForgetGuild
      BY <1>1, <2>2, <2>5, AfterForgetGuild DEF ForgetGuild
    <2>6. CASE TrackerTick
      BY <1>1, <2>2, <2>6, AfterTrackerTick DEF TrackerTick
    <2>7. CASE UNCHANGED trackerVars
      <3>1. UNCHANGED <<ticks, messages, rule, window, until, heard, steady, verdict>>
        BY <2>7 DEF trackerVars
      <3>2. \A t \in Tracker : HeardOK(t)' /\ WindowOK(t)' /\ SteadyOK(t)'
        <4>1. ticks \in Nat /\ messages \in Nat
          BY <1>1, TrackerUnfolded
        <4> QED BY <1>1, <3>1, <4>1, TrackerUntouched
      <3> QED BY <1>1, <2>2, <3>1, <3>2, TrackerUnfolded, TrackerFolded
    <2> QED BY <1>1, <2>1, <2>3, <2>4, <2>5, <2>6, <2>7 DEF TrackerNext
  <1> QED BY <1>1, TrackerInitially, PTL DEF TrackerSpec

(* The windows, cooldowns and verdicts of both trackers keep their types.      *)
THEOREM TrackerTypeCorrect == TrackerSpec => []TrackerTypeOK
  <1>1. TrackerJust => TrackerTypeOK
    BY DEF TrackerJust, TrackerInv
  <1> QED BY <1>1, TrackerInvariance, PTL

(* What the trackers report is spam by the limits in force, counts nothing     *)
(* twice or from before the last report, and no duplicate that came while      *)
(* contents were not compared; and as long as messages come in order under one *)
(* policy, no spam goes unreported (record, prune and forgetUser of            *)
(* createGuildSpamDetectionTracker).                                           *)
THEOREM WhatIsReportedIsSpam == TrackerSpec => []DetectionsAreJust
  <1>1. TrackerJust => DetectionsAreJust
    BY DEF TrackerJust
  <1> QED BY <1>1, TrackerInvariance, PTL
-----------------------------------------------------------------------------
(* The parts together *)

(* A behaviour of the spam protection is one of each of its parts, so all that
   is proved of a part holds of it. *)
THEOREM Composition == Spec => IncidentsSpec /\ PolicySpec /\ TrackerSpec
  <1>1. Init => IncidentsInit /\ PolicyInit /\ TrackerInit
    BY DEF Init
  <1>2. [Next]_allVars => [IncidentsNext]_incidentVars /\ [PolicyNext]_policyVars /\ [TrackerNext]_trackerVars
    BY DEF Next, allVars
  <1> QED BY <1>1, <1>2, PTL DEF Spec, IncidentsSpec, PolicySpec, TrackerSpec

(* Every variable of the three parts keeps its type. *)
THEOREM TypesCorrect == Spec => []TypesOK
  <1>1. IncidentsTypeOK /\ PolicyTypeOK /\ TrackerTypeOK => TypesOK
    BY DEF TypesOK
  <1> QED BY <1>1, Composition, TypeCorrect, PolicyTypeCorrect, TrackerTypeCorrect, PTL
=============================================================================
