---------------------------- MODULE MCPublicApi ----------------------------
(* PublicApi on small instances. *)
EXTENDS PublicApi, TLC

\* Tokens and columns are interchangeable, and so are requests of one kind.
Symmetry == Permutations(Tokens) \cup Permutations(Calls) \cup Permutations(Creators)
            \cup Permutations(Columns)
=============================================================================
