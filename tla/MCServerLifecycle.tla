-------------------------- MODULE MCServerLifecycle --------------------------
(* ServerLifecycle on small instances. *)
EXTENDS ServerLifecycle, TLC

\* Requests are interchangeable (safety runs only).
Symmetry == Permutations(Ingests)
=============================================================================
