----------------------------- MODULE MCRuleBoard -----------------------------
(* RuleBoard on small instances. *)
EXTENDS RuleBoard, TLC

\* Rules, alerts and administrators are interchangeable.
Symmetry == Permutations(Rules) \cup Permutations(Alerts) \cup Permutations(Admins)
=============================================================================
