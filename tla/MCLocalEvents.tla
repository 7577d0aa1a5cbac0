---------------------------- MODULE MCLocalEvents ----------------------------
(* A small instance of LocalEvents for TLC. *)
EXTENDS LocalEvents, TLC

CONSTANTS u1, u2, c1, c2, r1, r2

Symmetry == Permutations(User) \cup Permutations(Channel) \cup Permutations(Role)
=============================================================================
