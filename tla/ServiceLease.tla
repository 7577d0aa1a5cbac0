---------------------------- MODULE ServiceLease ----------------------------
(***************************************************************************)
(* The row of table service_lease and the statements of                    *)
(* createRuntimeLeaseRepository (lib/runtime-singleton.mjs) on it.  Each   *)
(* operator is one SQL statement; the database's clock decides expiry, so  *)
(* the row keeps the time left, not a date.                                *)
(***************************************************************************)
EXTENDS Naturals

CONSTANTS
  Instance,     \* one instanceId per bot process ever started
  NoInstance,   \* ownerInstanceId IS NULL
  Ttl           \* ttlSeconds, in ticks

ASSUME NoInstanceAssumption == NoInstance \notin Instance
ASSUME TtlAssumption == Ttl \in Nat \ {0}

(* token 0 is the row before the first acquisition inserts it. *)
Lease == [owner : Instance \cup {NoInstance}, token : Nat, ttl : 0..Ttl]

NoLease == [owner |-> NoInstance, token |-> 0, ttl |-> 0]

(* Mutant: the WHERE clause is dropped. *)
Acquirable_AnyTime(lease, i) == TRUE

(* The WHERE clause of acquire. *)
Acquirable(lease, i) == lease.owner \in {NoInstance, i} \/ lease.ttl = 0

(* Mutant: the token changes only when the row had no owner. *)
NextToken_OnlyWhenFree(lease, i) ==
  IF lease.owner = NoInstance THEN lease.token + 1 ELSE lease.token

NextToken(lease, i) == IF lease.owner = i THEN lease.token ELSE lease.token + 1

(* Mutant: the lease is granted beyond its time to live. *)
AcquiredLease_Longer(lease, i) == [owner |-> i, token |-> NextToken(lease, i), ttl |-> Ttl + 1]

AcquiredLease(lease, i) == [owner |-> i, token |-> NextToken(lease, i), ttl |-> Ttl]

(* Mutant: renew and release look at the service key only. *)
Owns_AnyOwner(lease, i, token) == lease.owner # NoInstance

(* The owner and fencing-token guard of renew and release. *)
Owns(lease, i, token) == lease.owner = i /\ lease.token = token

Renewable(lease, i, token) == Owns(lease, i, token) /\ lease.ttl > 0

RenewedLease(lease) == [lease EXCEPT !.ttl = Ttl]

ReleasedLease(lease) == [lease EXCEPT !.owner = NoInstance, !.ttl = 0]
=============================================================================
