------------------------ MODULE MCMultiProviderSync ------------------------
(* Small instances of MultiProviderSync for TLC. *)
EXTENDS MultiProviderSync, TLC

CONSTANTS e1, e2, supabase, turso, neon, w1, w2, none

AllOn == PolicyOn(Provider)

WithoutNeon == PolicyOn(Provider \ {neon})

(* The provider every deployment has, and one that is switched on and off. *)
BothPolicies == {AllOn, WithoutNeon}

AllEnabled == {AllOn}

OnlyWithoutNeon == {WithoutNeon}

(* A bot that runs with and without Multi-DB definitions. *)
MultiDbOnAndOff == {AllOn, PolicyOff}

Symmetry == Permutations(Event) \cup Permutations(WorkerId)
=============================================================================
