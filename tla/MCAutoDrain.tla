----------------------------- MODULE MCAutoDrain -----------------------------
(* AutoDrain on small instances. *)
EXTENDS AutoDrain, TLC

\* Handlers are interchangeable (safety runs only).
Symmetry == Permutations(Handlers)
=============================================================================
