--------------------------- MODULE MCAlertConsole ---------------------------
(* AlertConsole on small instances: two alerts, a page and a batch of one. *)
EXTENDS AlertConsole, TLC

\* Alerts are interchangeable.
Symmetry == Permutations(Alerts)
=============================================================================
