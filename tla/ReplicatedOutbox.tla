-------------------------- MODULE ReplicatedOutbox --------------------------
(***************************************************************************)
(* What the Multi-DB sync promises, without queues, workers, locks or      *)
(* retries: an event envelope is accepted, each provider may store the     *)
(* event, the envelope is Cloud Complete only once every required provider *)
(* has stored it, and only a Cloud Complete envelope is retired.           *)
(* Providers never forget what they stored.                                *)
(***************************************************************************)
EXTENDS FiniteSets

CONSTANTS Event, Provider, Required

VARIABLES
  envelope,  \* "none", "accepted" or "complete", by event
  stored     \* events each provider has stored

Init ==
  /\ envelope = [e \in Event |-> "none"]
  /\ stored = [p \in Provider |-> {}]

Accept(e) ==
  /\ envelope[e] = "none"
  /\ envelope' = [envelope EXCEPT ![e] = "accepted"]
  /\ UNCHANGED stored

Store(p, events) ==
  /\ stored' = [stored EXCEPT ![p] = @ \cup events]
  /\ UNCHANGED envelope

Complete(events) ==
  /\ \A e \in events : envelope[e] = "accepted" /\ \A p \in Required : e \in stored[p]
  /\ envelope' = [e \in Event |-> IF e \in events THEN "complete" ELSE envelope[e]]
  /\ UNCHANGED stored

Retire(events) ==
  /\ \A e \in events : envelope[e] = "complete"
  /\ envelope' = [e \in Event |-> IF e \in events THEN "none" ELSE envelope[e]]
  /\ UNCHANGED stored

Next ==
  \/ \E e \in Event : Accept(e)
  \/ \E p \in Provider, events \in SUBSET Event : Store(p, events)
  \/ \E events \in SUBSET Event : Complete(events) \/ Retire(events)

Spec == Init /\ [][Next]_<<envelope, stored>>
=============================================================================
