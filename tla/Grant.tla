------------------------------- MODULE Grant -------------------------------
(***************************************************************************)
(* What the OAuth server of the dashboard promises about the credentials   *)
(* it hands out, whatever requests overlap.  A credential, that is an      *)
(* authorization code or a token pair, is live, then spent, lapsed or      *)
(* gone, and never live again.  Token requests are admitted only on a live *)
(* credential, and only a request admitted in time is paid, with a fresh   *)
(* pair, once the credential is spent.  OAuth is shown to implement this.  *)
(***************************************************************************)

CONSTANTS
    Codes,          \* authorization codes
    Pairs,          \* token pairs
    Takers          \* requests to the token endpoint

Credentials == Codes \cup Pairs

VARIABLES
    phase,          \* [Credentials -> Phase]
    admitted        \* [Takers -> SUBSET Credentials]: what a request may still draw on

Phase == {"absent", "live", "lapsed", "spent", "gone"}

Init ==
    /\ phase = [x \in Credentials |-> "absent"]
    /\ admitted = [t \in Takers |-> {}]

\* The owner of an account consents: a code comes to life.
Consent(k) ==
    /\ phase[k] = "absent"
    /\ phase' = [phase EXCEPT ![k] = "live"]
    /\ UNCHANGED admitted

Admit(t, x) ==
    /\ phase[x] = "live"
    /\ admitted[t] = {}
    /\ admitted' = [admitted EXCEPT ![t] = {x}]
    /\ UNCHANGED phase

\* A redemption or a revocation; a credential may lapse between the two steps.
Spend(x) ==
    /\ phase[x] \in {"live", "lapsed"}
    /\ phase' = [phase EXCEPT ![x] = "spent"]
    /\ UNCHANGED admitted

Issue(t, p) ==
    /\ \E x \in admitted[t] : phase[x] = "spent"
    /\ phase[p] = "absent"
    /\ phase' = [phase EXCEPT ![p] = "live"]
    /\ admitted' = [admitted EXCEPT ![t] = {}]

\* The request fails or is given up; what it spent stays spent.
Withdraw(t) ==
    /\ admitted' = [admitted EXCEPT ![t] = {}]
    /\ UNCHANGED phase

Lapse(x) ==
    /\ phase[x] = "live"
    /\ phase' = [phase EXCEPT ![x] = "lapsed"]
    /\ UNCHANGED admitted

\* An account is deleted, its credentials with it.
Erase(X) ==
    /\ \A x \in X : phase[x] # "absent"
    /\ phase' = [x \in Credentials |-> IF x \in X THEN "gone" ELSE phase[x]]
    /\ UNCHANGED admitted

Next ==
    \/ \E k \in Codes : Consent(k)
    \/ \E t \in Takers, x \in Credentials : Admit(t, x)
    \/ \E x \in Credentials : Spend(x) \/ Lapse(x)
    \/ \E t \in Takers, p \in Pairs : Issue(t, p)
    \/ \E t \in Takers : Withdraw(t)
    \/ \E X \in SUBSET Credentials : Erase(X)

Spec == Init /\ [][Next]_<<phase, admitted>>

=============================================================================
