------------------------------ MODULE MCOAuth ------------------------------
(* OAuth on small instances. *)
EXTENDS OAuth, TLC

\* Requests are interchangeable, and so are tokens and clients.
Symmetry == Permutations(Slots) \cup Permutations(Pairs) \cup Permutations(Clients)
=============================================================================
