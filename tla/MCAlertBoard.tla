---------------------------- MODULE MCAlertBoard ----------------------------
(* AlertBoard on small instances. *)
EXTENDS AlertBoard, TLC

\* Requests, alerts and accounts are interchangeable (safety runs only).
Symmetry == Permutations(Requests) \cup Permutations(Alerts) \cup Permutations(Users)
=============================================================================
