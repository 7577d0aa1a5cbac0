---------------------------- MODULE SpamProtection ----------------------------
(***************************************************************************)
(* The three parts of the spam protection together: what is detected       *)
(* (SpamTracker), under which policy (SpamPolicy), and what is done about  *)
(* it (TimeoutIncidents).  They share no state: a detection reaches the    *)
(* incidents as any input, and the policy the tracker as any of its rules. *)
(* So a behaviour follows one part while the other two stand still.        *)
(***************************************************************************)
EXTENDS TimeoutIncidents, SpamPolicy, SpamTracker

VARIABLE part    \* the part a behaviour follows

allVars == <<part, incidentVars, policyVars, trackerVars>>

(* A part that stands still does so in one of its initial states. *)
Init ==
  /\ part \in {"incidents", "policy", "tracker"}
  /\ IncidentsInit /\ PolicyInit /\ TrackerInit
  /\ part # "incidents" => enabled
  /\ part # "tracker" => rule = Defaults

Next ==
  \/ part = "incidents" /\ IncidentsNext /\ UNCHANGED <<part, policyVars, trackerVars>>
  \/ part = "policy" /\ PolicyNext /\ UNCHANGED <<part, incidentVars, trackerVars>>
  \/ part = "tracker" /\ TrackerNext /\ UNCHANGED <<part, incidentVars, policyVars>>

Spec == Init /\ [][Next]_allVars

(* Every variable of the three parts has its type. *)
TypesOK == IncidentsTypeOK /\ PolicyTypeOK /\ TrackerTypeOK
=============================================================================
