--------------------------- MODULE MCSpamProtection ---------------------------
(* A small instance of SpamProtection for TLC. *)
EXTENDS SpamProtection, TLC

CONSTANTS i1, i2, h1, h2, f1, f2, c1, c2, l1, l2, a, b

Zeros == [f \in Field |-> 0]
OnlyOnes == {[f \in Field |-> 1]}

RuleWith(compare, count, seconds) ==
  [enabled |-> TRUE, on |-> [m \in Module |-> m = "messages" \/ compare],
   limit |-> [m \in Module |-> IF m = "messages" THEN count ELSE 2],
   window |-> [m \in Module |-> IF m = "messages" THEN seconds ELSE 2]]

SomeRules ==
  {RuleWith(TRUE, 3, 1), RuleWith(FALSE, 3, 2), [RuleWith(TRUE, 3, 1) EXCEPT !.enabled = FALSE],
   [RuleWith(TRUE, 3, 1) EXCEPT !.on["messages"] = FALSE]}

TwoInOneTick == RuleWith(FALSE, 2, 1)

Symmetry ==
  Permutations(Command) \cup Permutations(Load) \cup Permutations(Field)
=============================================================================
