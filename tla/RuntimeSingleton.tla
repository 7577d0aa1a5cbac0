-------------------------- MODULE RuntimeSingleton --------------------------
(***************************************************************************)
(* Bot processes on several hosts that compete for the service lease       *)
(* (lib/runtime-singleton.mjs, driven by startBot and shutdown of          *)
(* discord-bot.mjs) before they connect to Discord.                        *)
(*                                                                         *)
(* A process runs several asynchronous activities at once: startBot        *)
(* (boot), the renewal timer, the handling of a lost lease and shutdown    *)
(* (stop).  Its queries pass the gate of lib/cloud-database.mjs, which     *)
(* times them out and, after a failure, rejects further queries for a      *)
(* while; a query the client has given up may still reach the database.    *)
(*                                                                         *)
(* Time is discrete: clocks run at one rate on every host, and Tick lets   *)
(* the countdowns of the database and of the processes advance together.   *)
(***************************************************************************)
EXTENDS ServiceLease, Integers

CONSTANTS
  Renew,          \* renewSeconds, in ticks
  Safety,         \* proofSafetySeconds
  QueryTimeout,   \* probeTimeoutMs
  Backoff,        \* baseBackoffMs
  MaxFails,       \* bound: consecutive failures that are counted; 0: the gate never closes
  HeartbeatWait,  \* bound: ticks one recordNow call waits for its turn and its write
  Grace,          \* bound: proof countdowns saturate at -Grace
  Prompt          \* are timers, timeouts and callbacks served before time goes on?

(* validateRuntimeConfig. *)
ASSUME WindowAssumption ==
  /\ {Renew, Safety, QueryTimeout, Backoff, HeartbeatWait, Grace} \subseteq Nat
  /\ MaxFails \in Nat
  /\ 0 < Renew /\ Renew < Ttl
  /\ Safety < Ttl - Renew
  /\ Prompt \in BOOLEAN

VARIABLES
  lease,     \* the service_lease row
  proc,      \* bot processes
  calls      \* lease statements sent and not settled

vars == <<lease, proc, calls>>

(* boot: startBot; "ready" is connected to Discord, "idle" is disconnected for
   good.  stop: shutdown or the handling of a lost lease.  timer and the two
   waits count down to the next renewal and to the latest end of what the
   activity awaits; Off is no timer.  fails, backoff: the query gate, which
   is open unless its last fails queries failed. *)
Off == -1

Proc == [boot      : {"new", "acquire", "start", "login", "ready", "idle", "exited"},
         stop      : {"no", "losing", "marking", "stopping", "releasing", "final"},
         token     : Nat,
         proof     : (-Grace)..Ttl,
         timer     : Off..Renew,
         bootWait  : 0..(HeartbeatWait + QueryTimeout),
         stopWait  : 0..(HeartbeatWait + QueryTimeout),
         lost      : BOOLEAN,
         fails     : 0..MaxFails,
         backoff   : 0..(2 * Backoff)]

(* token: the fencing token sent with the statement, and in the answer to an
   acquisition the one it was granted.  live: the client still awaits it. *)
Call == [inst   : Instance,
         op     : {"acquire", "renew", "release"},
         token  : Nat,
         answer : {"none", "granted", "refused"},
         left   : 0..QueryTimeout,
         live   : BOOLEAN]

NewCall(i, op, token) ==
  [inst |-> i, op |-> op, token |-> token, answer |-> "none",
   left |-> QueryTimeout, live |-> TRUE]

Awaited(i, op) == {c \in calls : c.inst = i /\ c.op = op /\ c.live}

(* What stays of the calls cs when nobody awaits them any more: statements
   still on their way to the database. *)
Abandoned(cs) == {[c EXCEPT !.live = FALSE, !.left = 0] : c \in {d \in cs : d.answer = "none"}}

Settled(cs) == (calls \ cs) \cup Abandoned(cs)

Connected(i) == proc[i].boot = "ready"

Running(i) == proc[i].boot \notin {"new", "exited"}

Stopping(p) == p.stop \in {"stopping", "releasing", "final"}

TypeOK ==
  /\ lease \in Lease
  /\ proc \in [Instance -> Proc]
  /\ calls \subseteq Call

NewProc ==
  [boot |-> "new", stop |-> "no", token |-> 0, proof |-> 0,
   timer |-> Off, bootWait |-> 0, stopWait |-> 0, lost |-> FALSE,
   fails |-> 0, backoff |-> 0]

Init ==
  /\ lease = NoLease
  /\ proc = [i \in Instance |-> NewProc]
  /\ calls = {}
-----------------------------------------------------------------------------
(* The query gate of a process: execute and markOffline. *)

Open(p) == p.fails = 0

Admits(p) == Open(p) \/ p.backoff = 0

QuerySucceeded(p) == [p EXCEPT !.fails = 0, !.backoff = 0]

(* transient: an error that closes an open gate.  The backoff doubles with
   each failure; it is cut off after the second one, when the two together
   have outlasted the lease. *)
QueryFailed(p, transient) ==
  IF transient \/ ~Open(p)
    THEN [p EXCEPT !.fails = IF @ < MaxFails THEN @ + 1 ELSE @,
                   !.backoff = IF Open(p) THEN Backoff ELSE 2 * Backoff]
    ELSE p

(* Any other query of the process, from its features or its heartbeats. *)
OtherQuerySucceeds(i) ==
  /\ Running(i) /\ Admits(proc[i])
  /\ proc' = [proc EXCEPT ![i] = QuerySucceeded(@)]
  /\ UNCHANGED <<lease, calls>>

OtherQueryFails(i, transient) ==
  /\ Running(i) /\ Admits(proc[i])
  /\ proc' = [proc EXCEPT ![i] = QueryFailed(@, transient)]
  /\ UNCHANGED <<lease, calls>>

(* The process ends, or dies: its socket closes, its timers stop, and the
   statements it had sent may still be executed. *)
Exited(p) ==
  [NewProc EXCEPT !.boot = "exited", !.token = p.token]

Exit(i) ==
  /\ proc' = [proc EXCEPT ![i] = Exited(@)]
  /\ calls' = Settled({c \in calls : c.inst = i})
  /\ UNCHANGED lease

Crash(i) == Running(i) /\ Exit(i)
-----------------------------------------------------------------------------
(* The database executes a statement, which may have been given up. *)

Allowed(c) ==
  CASE c.op = "acquire" -> Acquirable(lease, c.inst)
    [] c.op = "renew"   -> Renewable(lease, c.inst, c.token)
    [] c.op = "release" -> Owns(lease, c.inst, c.token)

Effect(c) ==
  CASE c.op = "acquire" -> AcquiredLease(lease, c.inst)
    [] c.op = "renew"   -> RenewedLease(lease)
    [] c.op = "release" -> ReleasedLease(lease)

Execute(c) ==
  /\ c.answer = "none"
  /\ lease' = IF Allowed(c) THEN Effect(c) ELSE lease
  /\ LET answered ==
           [c EXCEPT !.answer = IF Allowed(c) THEN "granted" ELSE "refused",
                     !.token  = IF c.op = "acquire" /\ Allowed(c) THEN lease'.token ELSE @]
     IN calls' = (calls \ {c}) \cup (IF c.live THEN {answered} ELSE {})
  /\ UNCHANGED proc
-----------------------------------------------------------------------------
(* startBot *)

(* The forced probe has succeeded: the acquisition is sent. *)
Launch(i) ==
  /\ proc[i].boot = "new"
  /\ proc' = [proc EXCEPT ![i].boot = "acquire"]
  /\ calls' = calls \cup {NewCall(i, "acquire", 0)}
  /\ UNCHANGED lease

(* updateProofDeadline: the time left at the execution counts from the
   receipt of the answer. *)
Acquired(i, c) ==
  /\ proc[i].boot = "acquire"
  /\ c \in Awaited(i, "acquire") /\ c.answer = "granted"
  /\ proc' = [proc EXCEPT ![i] = [QuerySucceeded(@) EXCEPT
                 !.boot = "start", !.token = c.token, !.proof = Ttl,
                 !.bootWait = HeartbeatWait + QueryTimeout]]
  /\ calls' = calls \ {c}
  /\ UNCHANGED lease

(* Exit codes 20, contended, and 23: no answer, whatever the database did. *)
AcquisitionFails(i, c) ==
  /\ proc[i].boot = "acquire"
  /\ c \in Awaited(i, "acquire")
  /\ Exit(i)

(* start() returns: the timer runs, even if stop() has already cleared it,
   and client.login is called without a look at lost or shuttingDown. *)
Started(i) ==
  /\ proc[i].boot = "start"
  /\ proc' = [proc EXCEPT ![i].boot = "login", ![i].bootWait = 0,
                          ![i].timer = IF Stopping(proc[i]) THEN Off ELSE Renew]
  /\ UNCHANGED <<lease, calls>>

LoginSucceeds(i) ==
  /\ proc[i].boot = "login"
  /\ proc' = [proc EXCEPT ![i].boot = "ready"]
  /\ UNCHANGED <<lease, calls>>

(* Behind an open gate the lease is released before the process fails. *)
LoginFails(i) ==
  /\ proc[i].boot = "login"
  /\ IF Open(proc[i])
       THEN /\ proc' = [proc EXCEPT ![i].boot = "idle",
                  ![i].stop = IF @ = "no" THEN "marking" ELSE @,
                  ![i].stopWait = IF proc[i].stop = "no" THEN HeartbeatWait ELSE @]
            /\ UNCHANGED <<lease, calls>>
       ELSE Exit(i)
-----------------------------------------------------------------------------
(* renewOnce and handleLeaseLost *)

(* Mutant: the loss is only recorded. *)
Lose_WithoutShutdown(p) == [p EXCEPT !.lost = TRUE, !.timer = Off]

(* handleLeaseLost reports the loss before anything is disconnected. *)
Lose(p) ==
  IF p.lost \/ Stopping(p) THEN p
  ELSE [p EXCEPT !.lost = TRUE, !.timer = Off,
                 !.stop = IF @ = "no" THEN "losing" ELSE @,
                 !.stopWait = IF p.stop = "no" THEN HeartbeatWait ELSE @]

(* Mutant: the deadline is not checked. *)
RenewalFailed_Never(p) == p

(* The catch block of renewOnce. *)
RenewalFailed(p) == IF p.proof <= Safety THEN Lose(p) ELSE p

RenewTimer(i) ==
  /\ Running(i) /\ proc[i].timer = 0
  /\ \/ /\ Awaited(i, "renew") # {}
        /\ proc' = [proc EXCEPT ![i].timer = Renew]
        /\ UNCHANGED calls
     \/ /\ Awaited(i, "renew") = {} /\ Admits(proc[i])
        /\ proc' = [proc EXCEPT ![i].timer = Renew]
        /\ calls' = calls \cup {NewCall(i, "renew", proc[i].token)}
     \/ /\ Awaited(i, "renew") = {} /\ ~Open(proc[i])  \* suppressed by the gate
        /\ proc' = [proc EXCEPT ![i] = RenewalFailed([@ EXCEPT !.timer = Renew])]
        /\ UNCHANGED calls
  /\ UNCHANGED lease

Renewed(i, c) ==
  /\ c \in Awaited(i, "renew") /\ c.answer = "granted"
  /\ proc' = [proc EXCEPT ![i] = [QuerySucceeded(@) EXCEPT !.proof = Ttl]]
  /\ calls' = calls \ {c}
  /\ UNCHANGED lease

RenewalRejected(i, c) ==
  /\ c \in Awaited(i, "renew") /\ c.answer = "refused"
  /\ proc' = [proc EXCEPT ![i] = Lose(QuerySucceeded(@))]
  /\ calls' = calls \ {c}
  /\ UNCHANGED lease

(* The query fails or times out, whatever the database did with it. *)
RenewalFails(i, c, transient) ==
  /\ c \in Awaited(i, "renew")
  /\ proc' = [proc EXCEPT ![i] = RenewalFailed(QueryFailed(@, transient))]
  /\ calls' = Settled({c})
  /\ UNCHANGED lease
-----------------------------------------------------------------------------
(* shutdown and RuntimeCoordinator.stop *)

(* client.destroy: a login that was already under way fails with it. *)
Disconnected(p) ==
  [p EXCEPT !.boot = IF @ \in {"login", "ready"} THEN "idle" ELSE @]

(* SIGTERM, SIGINT or the local stop file. *)
Signal(i) ==
  /\ Running(i) /\ proc[i].stop \in {"no", "losing"}
  /\ proc' = [proc EXCEPT ![i] = [Disconnected(@) EXCEPT
                 !.stop = "marking", !.stopWait = QueryTimeout]]
  /\ UNCHANGED <<lease, calls>>

(* handleLeaseLost has reported: onLeaseLost shuts down without release. *)
LossReported(i) ==
  /\ proc[i].stop = "losing"
  /\ IF Open(proc[i])
       THEN /\ proc' = [proc EXCEPT ![i] = [Disconnected(@) EXCEPT
                           !.stop = "final", !.stopWait = HeartbeatWait]]
            /\ UNCHANGED <<lease, calls>>
       ELSE Exit(i)

(* The bot_heartbeat update has settled: stop() runs only behind an open gate. *)
StopBegins(i) ==
  /\ proc[i].stop = "marking"
  /\ IF Open(proc[i])
       THEN /\ proc' = [proc EXCEPT ![i].stop = "stopping", ![i].timer = Off,
                                    ![i].stopWait = IF proc[i].lost THEN 0 ELSE HeartbeatWait]
            /\ UNCHANGED <<lease, calls>>
       ELSE Exit(i)

(* "Stopping" is recorded: the lease is released if it was neither lost nor
   not acquired yet, and if the gate admits the statement. *)
ReleaseBegins(i) ==
  LET sends == ~proc[i].lost /\ proc[i].token # 0 /\ Admits(proc[i])
  IN /\ proc[i].stop = "stopping"
     /\ proc' = [proc EXCEPT ![i].stop = IF sends THEN "releasing" ELSE "final",
                             ![i].stopWait = IF sends THEN 0 ELSE HeartbeatWait]
     /\ calls' = IF sends THEN calls \cup {NewCall(i, "release", proc[i].token)} ELSE calls
     /\ UNCHANGED lease

Released(i, c) ==
  /\ c \in Awaited(i, "release") /\ c.answer # "none"
  /\ proc' = [proc EXCEPT ![i] = [QuerySucceeded(@) EXCEPT
                 !.stop = "final", !.stopWait = HeartbeatWait]]
  /\ calls' = calls \ {c}
  /\ UNCHANGED lease

(* Mutant: the rejection of the release is not caught. *)
ReleaseFails_Uncaught(i, c, transient) ==
  /\ c \in Awaited(i, "release")
  /\ proc' = [proc EXCEPT ![i] = QueryFailed(@, transient)]
  /\ calls' = Settled({c})
  /\ UNCHANGED lease

ReleaseFails(i, c, transient) ==
  /\ c \in Awaited(i, "release")
  /\ proc' = [proc EXCEPT ![i] = [QueryFailed(@, transient) EXCEPT
                 !.stop = "final", !.stopWait = HeartbeatWait]]
  /\ calls' = Settled({c})
  /\ UNCHANGED lease

(* The final state is recorded: process.exit. *)
ShutdownEnds(i) == proc[i].stop = "final" /\ Exit(i)
-----------------------------------------------------------------------------
(* Time *)

Less(n) == IF n > 0 THEN n - 1 ELSE n

(* Something whose time has come waits to be served. *)
Due(i) ==
  \/ proc[i].timer = 0
  \/ proc[i].boot = "start" /\ proc[i].bootWait = 0
  \/ proc[i].stop \in {"losing", "marking", "stopping", "final"} /\ proc[i].stopWait = 0
  \/ \E c \in calls : c.inst = i /\ c.live /\ c.left = 0

Aged(p) ==
  [p EXCEPT !.proof = IF p.token # 0 /\ p.boot # "exited" /\ @ > -Grace THEN @ - 1 ELSE @,
            !.timer = Less(@), !.bootWait = Less(@), !.stopWait = Less(@),
            !.backoff = Less(@)]

Tick ==
  /\ Prompt => \A i \in Instance : ~Due(i)
  /\ lease' = [lease EXCEPT !.ttl = Less(@)]
  /\ proc' = [i \in Instance |-> Aged(proc[i])]
  /\ calls' = {[c EXCEPT !.left = Less(@)] : c \in calls}
-----------------------------------------------------------------------------
BootStep(i) ==
  \/ Launch(i)
  \/ \E c \in calls : Acquired(i, c) \/ AcquisitionFails(i, c)
  \/ Started(i)
  \/ LoginSucceeds(i)
  \/ LoginFails(i)

RenewStep(i) ==
  \/ RenewTimer(i)
  \/ \E c \in calls :
       \/ Renewed(i, c)
       \/ RenewalRejected(i, c)
       \/ \E transient \in BOOLEAN : RenewalFails(i, c, transient)

StopStep(i) ==
  \/ LossReported(i)
  \/ StopBegins(i)
  \/ ReleaseBegins(i)
  \/ \E c \in calls :
       \/ Released(i, c)
       \/ \E transient \in BOOLEAN : ReleaseFails(i, c, transient)
  \/ ShutdownEnds(i)

OtherStep(i) ==
  \/ Signal(i)
  \/ Crash(i)
  \/ OtherQuerySucceeds(i)
  \/ \E transient \in BOOLEAN : OtherQueryFails(i, transient)

Next ==
  \/ Tick
  \/ \E c \in calls : Execute(c)
  \/ \E i \in Instance : BootStep(i) \/ RenewStep(i) \/ StopStep(i) \/ OtherStep(i)

Spec == Init /\ [][Next]_vars

(* Clocks go on, timers fire, and every await of a living process ends: the
   gate times out each query.  Nothing makes a login succeed. *)
ProcFairness(i) ==
  /\ WF_vars(\E c \in calls : Acquired(i, c) \/ AcquisitionFails(i, c))
  /\ WF_vars(Started(i))
  /\ WF_vars(RenewTimer(i))
  /\ WF_vars(\E c \in calls : \/ Renewed(i, c) \/ RenewalRejected(i, c)
                              \/ \E transient \in BOOLEAN : RenewalFails(i, c, transient))
  /\ WF_vars(LossReported(i))
  /\ WF_vars(StopBegins(i))
  /\ WF_vars(ReleaseBegins(i))
  /\ WF_vars(\E c \in calls : \/ Released(i, c)
                              \/ \E transient \in BOOLEAN : ReleaseFails(i, c, transient))
  /\ WF_vars(ShutdownEnds(i))

FairSpec == Spec /\ WF_vars(Tick) /\ \A i \in Instance : ProcFairness(i)
-----------------------------------------------------------------------------
(* A fencing token belongs to one process for good, and while the row names
   an owner that knows its token, it is the token of the row: a late answer,
   a takeover or a statement executed after its timeout never makes two
   processes believe in the same token (acquire, updateProofDeadline). *)
OneTokenPerOwner ==
  /\ \A i, j \in Instance :
       i # j /\ proc[i].token # 0 => proc[i].token # proc[j].token
  /\ \A i \in Instance :
       lease.owner = i /\ proc[i].token # 0 => proc[i].token = lease.token

(* While its lease is valid, the row is changed only by time and by a
   statement its owner sent with its token: the late renewals and releases of
   earlier owners, and rivals, never touch it. *)
OwnerIsUndisturbed ==
  [][lease.owner # NoInstance /\ lease.ttl > 0 =>
       \/ lease' = [lease EXCEPT !.ttl = lease'.ttl] /\ lease'.ttl <= lease.ttl
       \/ \E c \in calls \ calls' : c.inst = lease.owner /\ c.op # "acquire"]_vars

(* A process that has not begun to release and whose own countdown leaves
   more than one query timeout does own the unexpired row: the safety margin
   covers what updateProofDeadline gains by counting from the receipt. *)
ProofIsSound ==
  \A i \in Instance :
    /\ proc[i].token # 0 /\ proc[i].proof > QueryTimeout
    /\ ~Stopping(proc[i])
    => lease.owner = i /\ lease.ttl > 0

(* The deadline is compared only where a renewal fails, and a lost lease is
   reported before the client is destroyed: a process stays connected without
   proof of ownership for less than a renewal interval and a report
   (renewOnce, handleLeaseLost).  Grace must reach that far. *)
OverlapIsBounded ==
  \A i \in Instance : Connected(i) => proc[i].proof > -(Renew + HeartbeatWait)

(* A process that is connected although the row names another owner, or none,
   disconnects in the end. *)
StaleOwnerDisconnects ==
  \A i \in Instance : Connected(i) /\ lease.owner # i ~> ~Connected(i)

(* A process that was told to stop, or lost its lease, exits. *)
ShutdownTerminates ==
  \A i \in Instance : proc[i].stop # "no" ~> proc[i].boot = "exited"

(* docs/distributed-runtime.md: the lease is released after Discord is
   disconnected. *)
ReleasedWhenDisconnected ==
  \A c \in calls : c.op = "release" /\ c.answer = "granted" => ~Connected(c.inst)
=============================================================================
