--------------------------- MODULE MCDesktopSync ---------------------------
(* DesktopSync on small instances. *)
EXTENDS DesktopSync, TLC

\* Two emails and two usernames, so that a row can be refused for its username, for
\* its id and for the id its email has on the desktop, alone and together.
MCProfiles ==
    {[email |-> "e1", username |-> "n1"],
     [email |-> "e1", username |-> "n2"],
     [email |-> "e2", username |-> "n2"]}
=============================================================================
