---------------------------- MODULE OAuthProofs ----------------------------
(***************************************************************************)
(* Theorems about OAuth, for every set of clients, accounts, codes, token  *)
(* pairs and concurrent requests.                                          *)
(***************************************************************************)
EXTENDS OAuth, FiniteSetTheorems, TLAPS

IInv == TypeOK /\ RowsInStep /\ RequestsInStep /\ DeletedAccountHoldsNothing

\* Every variable keeps its type.
LEMMA TypeStep == TypeOK /\ [Next]_vars => TypeOK'
<1> SUFFICES ASSUME TypeOK, [Next]_vars PROVE TypeOK'
  OBVIOUS
<1> USE DEF TypeOK, browser, tables, history, clock, locals
<1>1. ASSUME NEW c \in Clients, Register(c) PROVE TypeOK'
  BY <1>1 DEF Register
<1>2. ASSUME NEW g \in Grants, Authorize(g) PROVE TypeOK'
  BY <1>2 DEF Authorize, Grants
<1>3. ASSUME NEW g \in Grants, NEW allow \in BOOLEAN, Decide(g, allow) PROVE TypeOK'
  <2>1. CASE allow
    BY <1>3, <2>1 DEF Decide, Insert, Credentials
  <2>2. CASE ~allow
    BY <1>3, <2>2 DEF Decide
  <2> QED
    BY <2>1, <2>2
<1>4. ASSUME NEW a \in Accounts, ForgetCookie(a) PROVE TypeOK'
  BY <1>4 DEF ForgetCookie
<1>5. ASSUME NEW a \in Accounts, DeleteAccount(a) PROVE TypeOK'
  BY <1>5 DEF DeleteAccount
<1>6. ASSUME NEW s \in Slots, NEW x \in Credentials, NEW c \in Clients, Redeem(s, x, c) PROVE TypeOK'
  BY <1>6 DEF Redeem
<1>7. ASSUME NEW s \in Slots, SpendCredential(s) PROVE TypeOK'
  BY <1>7 DEF SpendCredential, MarkUsed
<1>8. ASSUME NEW s \in Slots, CreateTokenPair(s) PROVE TypeOK'
  <2> PICK p \in Pairs : Insert(p, NewGrant(s)) /\ parent' = [parent EXCEPT ![p] = cred[s]]
    BY <1>8 DEF CreateTokenPair
  <2> QED
    BY <1>8 DEF CreateTokenPair, Insert, NewGrant, Done, Credentials
<1>9. ASSUME NEW s \in Slots, NEW p \in Pairs, StartRevoke(s, p) PROVE TypeOK'
  BY <1>9 DEF StartRevoke, Credentials
<1>10. ASSUME NEW s \in Slots, Revoke(s) PROVE TypeOK'
  BY <1>10 DEF Revoke, MarkUsed, Done
<1>11. ASSUME NEW s \in Slots, Abort(s) PROVE TypeOK'
  BY <1>11 DEF Abort, Done
<1>12. ASSUME NEW x \in Credentials, Expire(x) PROVE TypeOK'
  BY <1>12 DEF Expire
<1>13. ASSUME NEW p \in Pairs, ExpireAccess(p) PROVE TypeOK'
  BY <1>13 DEF ExpireAccess
<1>14. ASSUME UNCHANGED vars PROVE TypeOK'
  BY <1>14 DEF vars
<1> QED
  BY <1>1, <1>2, <1>3, <1>4, <1>5, <1>6, <1>7, <1>8, <1>9, <1>10, <1>11, <1>12, <1>13, <1>14 DEF Next

\* A new row disturbs no other row, and no request that is under way.
LEMMA InsertStep ==
    ASSUME IInv, NEW x \in Credentials, NEW g \in Grants, Insert(x, g)
    PROVE  /\ state[x] = "absent" /\ state'[x] = "unused" /\ grant'[x] = g
           /\ \A y \in Credentials \ {x} : state'[y] = state[y] /\ grant'[y] = grant[y]
           /\ g.account \notin deleted
           /\ x \notin expired /\ x \notin accessExpired
  BY DEF IInv, TypeOK, RowsInStep, Insert, Credentials

\* The bookkeeping between the statements of a request is inductive.
LEMMA InvStep == IInv /\ [Next]_vars => IInv'
<1> SUFFICES ASSUME IInv, [Next]_vars PROVE IInv'
  OBVIOUS
<1> TypeOK /\ TypeOK'
  BY TypeStep DEF IInv
<1> Codes \subseteq Credentials /\ Pairs \subseteq Credentials /\ None \notin Grants
    /\ None \notin Credentials /\ Codes \cap Pairs = {}
  BY CredentialsAssumption DEF Credentials
<1> DEFINE Rest == RowsInStep' /\ RequestsInStep' /\ DeletedAccountHoldsNothing'
<1> USE DEF browser, tables, history, clock, locals
<1>1. ASSUME NEW c \in Clients, Register(c) PROVE Rest
  BY <1>1 DEF Register, IInv, RowsInStep, RequestsInStep, DeletedAccountHoldsNothing
<1>2. ASSUME NEW g \in Grants, Authorize(g) PROVE Rest
  BY <1>2 DEF Authorize, IInv, RowsInStep, RequestsInStep, DeletedAccountHoldsNothing
<1>3. ASSUME NEW g \in Grants, NEW allow \in BOOLEAN, Decide(g, allow) PROVE Rest
  <2>1. CASE allow
    <3> PICK k \in Codes : Insert(k, g)
      BY <1>3, <2>1 DEF Decide
    <3> /\ UNCHANGED <<deleted, history, clock, locals>>
      BY <1>3, <2>1 DEF Decide
    <3>1. /\ state[k] = "absent" /\ state'[k] = "unused" /\ grant'[k] = g
          /\ \A y \in Credentials \ {k} : state'[y] = state[y] /\ grant'[y] = grant[y]
          /\ g.account \notin deleted
          /\ k \notin expired
      BY InsertStep
    <3>2. RowsInStep'
      BY <3>1 DEF IInv, RowsInStep, TypeOK
    <3>3. RequestsInStep'
      BY <3>1 DEF IInv, RequestsInStep, TypeOK
    <3>4. DeletedAccountHoldsNothing'
      BY <3>1 DEF IInv, DeletedAccountHoldsNothing
    <3> QED
      BY <3>2, <3>3, <3>4
  <2>2. CASE ~allow
    BY <1>3, <2>2 DEF Decide, IInv, RowsInStep, RequestsInStep, DeletedAccountHoldsNothing
  <2> QED
    BY <2>1, <2>2
<1>4. ASSUME NEW a \in Accounts, ForgetCookie(a) PROVE Rest
  BY <1>4 DEF ForgetCookie, IInv, RowsInStep, RequestsInStep, DeletedAccountHoldsNothing
<1>5. ASSUME NEW a \in Accounts, DeleteAccount(a) PROVE Rest
  <2>1. \A x \in Credentials : state'[x] = IF grant[x] # None /\ grant[x].account = a
                                            THEN "deleted" ELSE state[x]
    BY <1>5 DEF DeleteAccount, TypeOK
  <2>2. UNCHANGED <<grant, history, clock, locals>> /\ deleted' = deleted \cup {a}
    BY <1>5 DEF DeleteAccount
  <2>3. RowsInStep'
    BY <2>1, <2>2 DEF IInv, RowsInStep, TypeOK
  <2>4. RequestsInStep'
    BY <2>1, <2>2 DEF IInv, RequestsInStep, RowsInStep, TypeOK
  <2>5. DeletedAccountHoldsNothing'
    BY <2>1, <2>2 DEF IInv, DeletedAccountHoldsNothing
  <2> QED
    BY <2>3, <2>4, <2>5
<1>6. ASSUME NEW s \in Slots, NEW x \in Credentials, NEW c \in Clients, Redeem(s, x, c)
      PROVE Rest
  BY <1>6 DEF Redeem, Redeemable, IInv, TypeOK, RowsInStep, RequestsInStep,
              DeletedAccountHoldsNothing
<1>7. ASSUME NEW s \in Slots, SpendCredential(s) PROVE Rest
  <2>1. \A y \in Credentials : \/ state'[y] = state[y]
                               \/ state[y] = "unused" /\ state'[y] = "used"
    BY <1>7 DEF SpendCredential, MarkUsed, TypeOK
  <2>2. state'[cred[s]] \in {"used", "deleted"} /\ cred[s] \in Credentials
    BY <1>7 DEF SpendCredential, MarkUsed, TypeOK, IInv, RequestsInStep
  <2>3. RowsInStep'
    BY <1>7, <2>1 DEF SpendCredential, IInv, RowsInStep, TypeOK
  <2>4. RequestsInStep'
    BY <1>7, <2>1, <2>2 DEF SpendCredential, IInv, RequestsInStep, TypeOK
  <2>5. DeletedAccountHoldsNothing'
    BY <1>7, <2>1 DEF SpendCredential, IInv, DeletedAccountHoldsNothing
  <2> QED
    BY <2>3, <2>4, <2>5
<1>8. ASSUME NEW s \in Slots, CreateTokenPair(s) PROVE Rest
  <2> PICK p \in Pairs : Insert(p, NewGrant(s)) /\ parent' = [parent EXCEPT ![p] = cred[s]]
    BY <1>8 DEF CreateTokenPair
  <2>1. /\ cred[s] \in Credentials /\ row[s] = grant[cred[s]]
        /\ state[cred[s]] \in {"used", "deleted"}
    BY <1>8 DEF CreateTokenPair, IInv, RequestsInStep
  <2>2. NewGrant(s) \in Grants /\ NewGrant(s) = row[s]
    BY <2>1 DEF NewGrant, IInv, RowsInStep, TypeOK
  <2>3. /\ state[p] = "absent" /\ state'[p] = "unused" /\ grant'[p] = row[s]
        /\ \A y \in Credentials \ {p} : state'[y] = state[y] /\ grant'[y] = grant[y]
        /\ row[s].account \notin deleted
        /\ p \notin expired /\ p \notin accessExpired
    BY <2>2, InsertStep
  <2>4. /\ UNCHANGED <<browser, clock>> /\ parent'[p] = cred[s]
        /\ \A q \in Pairs \ {p} : parent'[q] = parent[q]
        /\ pc'[s] = "idle"
        /\ \A t \in Slots \ {s} : pc'[t] = pc[t] /\ cred'[t] = cred[t] /\ row'[t] = row[t]
    BY <1>8 DEF CreateTokenPair, Done, TypeOK
  <2>5. RowsInStep'
    BY <2>1, <2>3, <2>4 DEF IInv, RowsInStep, TypeOK
  <2>6. RequestsInStep'
    BY <2>3, <2>4 DEF IInv, RequestsInStep
  <2>7. DeletedAccountHoldsNothing'
    BY <2>3, <2>4 DEF IInv, DeletedAccountHoldsNothing
  <2> QED
    BY <2>5, <2>6, <2>7
<1>9. ASSUME NEW s \in Slots, NEW p \in Pairs, StartRevoke(s, p) PROVE Rest
  BY <1>9 DEF StartRevoke, IInv, TypeOK, RowsInStep, RequestsInStep, DeletedAccountHoldsNothing
<1>10. ASSUME NEW s \in Slots, Revoke(s) PROVE Rest
  <2>1. \A y \in Credentials : \/ state'[y] = state[y]
                               \/ state[y] = "unused" /\ state'[y] = "used"
    BY <1>10 DEF Revoke, MarkUsed, TypeOK
  <2>2. /\ UNCHANGED <<browser, grant, history, clock>> /\ pc'[s] = "idle"
        /\ \A t \in Slots \ {s} : pc'[t] = pc[t] /\ cred'[t] = cred[t] /\ row'[t] = row[t]
    BY <1>10 DEF Revoke, Done, TypeOK
  <2>3. RowsInStep'
    BY <2>1, <2>2 DEF IInv, RowsInStep, TypeOK
  <2>4. RequestsInStep'
    BY <2>1, <2>2 DEF IInv, RequestsInStep, TypeOK
  <2>5. DeletedAccountHoldsNothing'
    BY <2>1, <2>2 DEF IInv, DeletedAccountHoldsNothing
  <2> QED
    BY <2>3, <2>4, <2>5
<1>11. ASSUME NEW s \in Slots, Abort(s) PROVE Rest
  BY <1>11 DEF Abort, Done, IInv, TypeOK, RowsInStep, RequestsInStep, DeletedAccountHoldsNothing
<1>12. ASSUME NEW x \in Credentials, Expire(x) PROVE Rest
  BY <1>12 DEF Expire, IInv, RowsInStep, RequestsInStep, DeletedAccountHoldsNothing
<1>13. ASSUME NEW p \in Pairs, ExpireAccess(p) PROVE Rest
  BY <1>13 DEF ExpireAccess, IInv, RowsInStep, RequestsInStep, DeletedAccountHoldsNothing
<1>14. ASSUME UNCHANGED vars PROVE Rest
  BY <1>14 DEF vars, IInv, RowsInStep, RequestsInStep, DeletedAccountHoldsNothing
<1> QED
  BY <1>1, <1>2, <1>3, <1>4, <1>5, <1>6, <1>7, <1>8, <1>9, <1>10, <1>11, <1>12, <1>13, <1>14
     DEF Next, IInv

LEMMA InitInv == Init => IInv
<1> SUFFICES ASSUME Init PROVE IInv
  OBVIOUS
<1> None \notin Grants /\ None \notin Credentials /\ Pairs \subseteq Credentials
  BY CredentialsAssumption DEF Credentials
<1>1. TypeOK
  BY DEF Init, TypeOK
<1>2. RowsInStep /\ RequestsInStep /\ DeletedAccountHoldsNothing
  BY DEF Init, RowsInStep, RequestsInStep, DeletedAccountHoldsNothing
<1> QED
  BY <1>1, <1>2 DEF IInv

LEMMA BookkeepingIsInvariant == Spec => []IInv
  BY InitInv, InvStep, PTL DEF Spec

\* Every variable keeps its type, whatever requests overlap.
THEOREM TypeCorrect == Spec => []TypeOK
<1>1. IInv => TypeOK
  BY DEF IInv
<1> QED
  BY <1>1, BookkeepingIsInvariant, PTL

\* Along any chain of rotations the client and the account stay those of the
\* code, and nothing that was exchanged is accepted again.
THEOREM ChainsKeepTheirGrant == Spec => []ChainKeepsItsGrant
<1>1. IInv => ChainKeepsItsGrant
  BY CredentialsAssumption DEF IInv, TypeOK, RowsInStep, ChainKeepsItsGrant, Redeemable,
     ValidateOAuthToken
<1> QED
  BY <1>1, BookkeepingIsInvariant, PTL

\* A deleted account leaves no usable code or token behind, not even one that a
\* request under way was about to create.
THEOREM DeletionIsComplete == Spec => []DeletedAccountHoldsNothing
<1>1. IInv => DeletedAccountHoldsNothing
  BY DEF IInv
<1> QED
  BY <1>1, BookkeepingIsInvariant, PTL

-----------------------------------------------------------------------------
(* The refinement: each step of the server is a step of Grant or none. *)

phaseBar == [x \in Credentials |-> GrantPhase(x)]
admittedBar == [s \in Slots |-> Redeeming(s)]

\* Steps that touch neither the tables, the clock nor the requests are invisible.
LEMMA Stutters ==
    ASSUME UNCHANGED <<state, expired, pc, cred>>
    PROVE  UNCHANGED <<phaseBar, admittedBar>>
  BY DEF phaseBar, admittedBar, GrantPhase, Redeeming

\* Spending, redeemed or revoked, is Spend of a live or lapsed credential.
LEMMA SpendStep ==
    ASSUME IInv, NEW x \in Credentials, state[x] # "absent", MarkUsed(x),
           UNCHANGED <<expired, admittedBar>>
    PROVE  [Promised!Next]_<<phaseBar, admittedBar>>
<1>1. CASE state[x] = "unused"
  <2>1. state' = [state EXCEPT ![x] = "used"]
    BY <1>1 DEF MarkUsed, IInv, TypeOK
  <2>2. phaseBar[x] \in {"live", "lapsed"}
    BY <1>1 DEF phaseBar, GrantPhase
  <2>3. phaseBar' = [phaseBar EXCEPT ![x] = "spent"]
    BY <2>1 DEF phaseBar, GrantPhase, IInv, TypeOK
  <2>4. Promised!Spend(x)
    BY <2>2, <2>3 DEF Promised!Spend, phaseBar, admittedBar
  <2> QED
    BY <2>4 DEF Promised!Next, Promised!Credentials, Credentials
<1>2. CASE state[x] # "unused"
  <2>1. state' = state
    BY <1>2 DEF MarkUsed, IInv, TypeOK
  <2>2. phaseBar' = phaseBar
    BY <2>1 DEF phaseBar, GrantPhase
  <2> QED
    BY <2>2
<1> QED
  BY <1>1, <1>2

\* A request that ends without a pair withdraws.
LEMMA WithdrawStep ==
    ASSUME IInv, NEW s \in Slots, Done(s), UNCHANGED <<state, expired>>
    PROVE  [Promised!Next]_<<phaseBar, admittedBar>>
<1>1. phaseBar' = phaseBar
  BY DEF phaseBar, GrantPhase
<1>2. admittedBar' = [admittedBar EXCEPT ![s] = {}]
  BY DEF admittedBar, Redeeming, Done, IInv, TypeOK
<1>3. Promised!Withdraw(s)
  BY <1>1, <1>2 DEF Promised!Withdraw, phaseBar, admittedBar
<1> QED
  BY <1>3 DEF Promised!Next

LEMMA RefinementStep == IInv /\ [Next]_vars => [Promised!Next]_<<phaseBar, admittedBar>>
<1> SUFFICES ASSUME IInv, [Next]_vars
             PROVE  [Promised!Next]_<<phaseBar, admittedBar>>
  OBVIOUS
<1> Codes \subseteq Credentials /\ Pairs \subseteq Credentials
    /\ Promised!Credentials = Credentials
  BY DEF Credentials, Promised!Credentials
<1> TypeOK
  BY DEF IInv
<1> DEFINE Simulated == [Promised!Next]_<<phaseBar, admittedBar>>
<1> USE DEF browser, tables, history, clock, locals
<1>1. ASSUME NEW c \in Clients, Register(c) PROVE Simulated
  BY <1>1, Stutters DEF Register
<1>2. ASSUME NEW g \in Grants, Authorize(g) PROVE Simulated
  BY <1>2, Stutters DEF Authorize
<1>3. ASSUME NEW g \in Grants, NEW allow \in BOOLEAN, Decide(g, allow) PROVE Simulated
  <2>1. CASE allow
    <3> PICK k \in Codes : Insert(k, g)
      BY <1>3, <2>1 DEF Decide
    <3>1. state[k] = "absent" /\ k \notin expired
      BY DEF Insert, IInv, RowsInStep
    <3>2. UNCHANGED <<expired, pc, cred>> /\ state' = [state EXCEPT ![k] = "unused"]
      BY <1>3 DEF Decide, Insert
    <3>3. phaseBar[k] = "absent" /\ phaseBar' = [phaseBar EXCEPT ![k] = "live"]
      BY <3>1, <3>2 DEF phaseBar, GrantPhase, TypeOK
    <3>4. admittedBar' = admittedBar
      BY <3>2 DEF admittedBar, Redeeming
    <3>5. Promised!Consent(k)
      BY <3>3, <3>4 DEF Promised!Consent, phaseBar, admittedBar
    <3> QED
      BY <3>5 DEF Promised!Next
  <2>2. CASE ~allow
    BY <1>3, <2>2, Stutters DEF Decide
  <2> QED
    BY <2>1, <2>2
<1>4. ASSUME NEW a \in Accounts, ForgetCookie(a) PROVE Simulated
  BY <1>4, Stutters DEF ForgetCookie
<1>5. ASSUME NEW a \in Accounts, DeleteAccount(a) PROVE Simulated
  <2> DEFINE X == {x \in Credentials : grant[x] # None /\ grant[x].account = a}
  <2>1. \A x \in X : phaseBar[x] # "absent"
    BY DEF phaseBar, GrantPhase, IInv, RowsInStep, TypeOK
  <2>2. phaseBar' = [x \in Credentials |-> IF x \in X THEN "gone" ELSE phaseBar[x]]
    BY <1>5 DEF DeleteAccount, phaseBar, GrantPhase, TypeOK
  <2>3. admittedBar' = admittedBar
    BY <1>5 DEF DeleteAccount, admittedBar, Redeeming
  <2>4. Promised!Erase(X)
    BY <2>1, <2>2, <2>3 DEF Promised!Erase, phaseBar, admittedBar
  <2> QED
    BY <2>4 DEF Promised!Next
<1>6. ASSUME NEW s \in Slots, NEW x \in Credentials, NEW c \in Clients, Redeem(s, x, c)
      PROVE Simulated
  <2>1. phaseBar[x] = "live" /\ phaseBar' = phaseBar
    BY <1>6 DEF Redeem, Redeemable, phaseBar, GrantPhase
  <2>2. admittedBar[s] = {} /\ admittedBar' = [admittedBar EXCEPT ![s] = {x}]
    BY <1>6 DEF Redeem, admittedBar, Redeeming, TypeOK
  <2>3. Promised!Admit(s, x)
    BY <2>1, <2>2 DEF Promised!Admit, phaseBar, admittedBar
  <2> QED
    BY <2>3 DEF Promised!Next
<1>7. ASSUME NEW s \in Slots, SpendCredential(s) PROVE Simulated
  <2>1. cred[s] \in Credentials /\ state[cred[s]] # "absent"
    BY <1>7 DEF SpendCredential, IInv, RequestsInStep
  <2>2. MarkUsed(cred[s]) /\ UNCHANGED expired
    BY <1>7 DEF SpendCredential
  <2>3. admittedBar' = admittedBar
    BY <1>7 DEF SpendCredential, admittedBar, Redeeming, TypeOK
  <2> QED
    BY <2>1, <2>2, <2>3, SpendStep
<1>8. ASSUME NEW s \in Slots, CreateTokenPair(s) PROVE Simulated
  <2> PICK p \in Pairs : Insert(p, NewGrant(s))
    BY <1>8 DEF CreateTokenPair
  <2>1. /\ cred[s] \in Credentials /\ row[s] = grant[cred[s]]
        /\ state[cred[s]] \in {"used", "deleted"}
        /\ state[cred[s]] = "deleted" => row[s].account \in deleted
    BY <1>8 DEF CreateTokenPair, IInv, RequestsInStep, RowsInStep
  <2>2. state[p] = "absent" /\ state[cred[s]] = "used" /\ p \notin expired
    BY <2>1 DEF Insert, NewGrant, IInv, RowsInStep
  <2>3. UNCHANGED expired /\ state' = [state EXCEPT ![p] = "unused"] /\ Done(s)
    BY <1>8 DEF CreateTokenPair, Insert
  <2>4. phaseBar[p] = "absent" /\ phaseBar' = [phaseBar EXCEPT ![p] = "live"]
    BY <2>2, <2>3 DEF phaseBar, GrantPhase, TypeOK
  <2>5. admittedBar[s] = {cred[s]} /\ phaseBar[cred[s]] = "spent"
    BY <1>8, <2>1, <2>2 DEF CreateTokenPair, admittedBar, Redeeming, phaseBar, GrantPhase
  <2>6. admittedBar' = [admittedBar EXCEPT ![s] = {}]
    BY <2>3 DEF Done, admittedBar, Redeeming, TypeOK
  <2>7. Promised!Issue(s, p)
    BY <2>4, <2>5, <2>6 DEF Promised!Issue, phaseBar, admittedBar
  <2> QED
    BY <2>7 DEF Promised!Next
<1>9. ASSUME NEW s \in Slots, NEW p \in Pairs, StartRevoke(s, p) PROVE Simulated
  <2>1. phaseBar' = phaseBar
    BY <1>9 DEF StartRevoke, phaseBar, GrantPhase
  <2>2. admittedBar' = admittedBar
    BY <1>9 DEF StartRevoke, admittedBar, Redeeming, TypeOK
  <2> QED
    BY <2>1, <2>2
<1>10. ASSUME NEW s \in Slots, Revoke(s) PROVE Simulated
  <2>1. cred[s] \in Credentials /\ state[cred[s]] # "absent"
    BY <1>10 DEF Revoke, IInv, RequestsInStep
  <2>2. MarkUsed(cred[s]) /\ UNCHANGED expired
    BY <1>10 DEF Revoke
  <2>3. admittedBar' = admittedBar
    BY <1>10 DEF Revoke, Done, admittedBar, Redeeming, TypeOK
  <2> QED
    BY <2>1, <2>2, <2>3, SpendStep
<1>11. ASSUME NEW s \in Slots, Abort(s) PROVE Simulated
  BY <1>11, WithdrawStep DEF Abort
<1>12. ASSUME NEW x \in Credentials, Expire(x) PROVE Simulated
  <2>1. admittedBar' = admittedBar
    BY <1>12 DEF Expire, admittedBar, Redeeming
  <2>2. CASE state[x] = "unused" /\ x \notin expired
    <3>1. phaseBar[x] = "live" /\ phaseBar' = [phaseBar EXCEPT ![x] = "lapsed"]
      BY <1>12, <2>2 DEF Expire, phaseBar, GrantPhase, TypeOK
    <3>2. Promised!Lapse(x)
      BY <2>1, <3>1 DEF Promised!Lapse, phaseBar, admittedBar
    <3> QED
      BY <3>2 DEF Promised!Next
  <2>3. CASE state[x] # "unused" \/ x \in expired
    <3>1. phaseBar' = phaseBar
      BY <1>12, <2>3 DEF Expire, phaseBar, GrantPhase, TypeOK
    <3> QED
      BY <2>1, <3>1
  <2> QED
    BY <2>2, <2>3
<1>13. ASSUME NEW p \in Pairs, ExpireAccess(p) PROVE Simulated
  BY <1>13, Stutters DEF ExpireAccess
<1>14. ASSUME UNCHANGED vars PROVE Simulated
  BY <1>14, Stutters DEF vars
<1> QED
  BY <1>1, <1>2, <1>3, <1>4, <1>5, <1>6, <1>7, <1>8, <1>9, <1>10, <1>11, <1>12, <1>13, <1>14
     DEF Next

\* The OAuth server implements the abstract grant, for any number of requests
\* that overlap, fail or die anywhere.
THEOREM ServerImplementsGrant == Spec => ImplementsGrant
<1>1. Init => Promised!Init
  BY DEF Init, Promised!Init, Promised!Credentials, Credentials, GrantPhase, Redeeming
<1>2. IInv /\ [Next]_vars =>
        [Promised!Next]_<<[x \in Credentials |-> GrantPhase(x)],
                          [s \in Slots |-> Redeeming(s)]>>
  BY RefinementStep DEF phaseBar, admittedBar
<1> QED
  BY <1>1, <1>2, BookkeepingIsInvariant, PTL DEF Spec, ImplementsGrant, Promised!Spec

-----------------------------------------------------------------------------
(* Reuse is bounded by the overlap. *)

\* A request is not the maker of any pair of the credential it is redeeming: it
\* read the credential unspent, and a credential with pairs is spent.
LEMMA MakersStep == IInv /\ MakersInStep /\ [Next]_vars => MakersInStep'
<1> SUFFICES ASSUME IInv, MakersInStep, [Next]_vars PROVE MakersInStep'
  OBVIOUS
<1> TypeOK /\ Pairs \subseteq Credentials /\ None \notin Credentials
  BY CredentialsAssumption DEF IInv, Credentials
<1> USE DEF browser, tables, history, clock, locals
<1>1. ASSUME NEW s \in Slots, NEW x \in Credentials, NEW c \in Clients, Redeem(s, x, c)
      PROVE MakersInStep'
  <2>1. \A p \in Pairs : parent[p] # x
    BY <1>1 DEF Redeem, Redeemable, IInv, RowsInStep
  <2> QED
    BY <1>1, <2>1 DEF Redeem, MakersInStep, TypeOK
<1>2. ASSUME NEW s \in Slots, CreateTokenPair(s) PROVE MakersInStep'
  <2> PICK p \in Pairs : /\ Insert(p, NewGrant(s))
                         /\ parent' = [parent EXCEPT ![p] = cred[s]]
                         /\ maker' = [maker EXCEPT ![p] = s]
    BY <1>2 DEF CreateTokenPair
  <2>1. parent[p] = None /\ cred[s] # None
    BY <1>2 DEF CreateTokenPair, Insert, IInv, RowsInStep, RequestsInStep
  <2>2. \A q \in Pairs : parent[q] = cred[s] => maker[q] # s
    BY <1>2 DEF CreateTokenPair, MakersInStep
  <2>3. /\ pc'[s] = "idle"
        /\ \A t \in Slots \ {s} : pc'[t] = pc[t] /\ cred'[t] = cred[t]
    BY <1>2 DEF CreateTokenPair, Done, TypeOK
  <2>4. /\ parent'[p] = cred[s] /\ maker'[p] = s
        /\ \A q \in Pairs \ {p} : parent'[q] = parent[q] /\ maker'[q] = maker[q]
    BY DEF TypeOK
  <2> QED
    BY <2>1, <2>2, <2>3, <2>4 DEF MakersInStep
<1>3. ASSUME UNCHANGED <<history, locals>> PROVE MakersInStep'
  BY <1>3 DEF MakersInStep
<1>4. ASSUME NEW s \in Slots, SpendCredential(s) PROVE MakersInStep'
  BY <1>4 DEF SpendCredential, MakersInStep, TypeOK
<1>5. ASSUME NEW s \in Slots, Done(s), UNCHANGED history PROVE MakersInStep'
  BY <1>5 DEF Done, MakersInStep, TypeOK
<1>6. ASSUME NEW s \in Slots, NEW p \in Pairs, StartRevoke(s, p) PROVE MakersInStep'
  BY <1>6 DEF StartRevoke, MakersInStep, TypeOK
<1>7. ASSUME NEW c \in Clients, Register(c) PROVE UNCHANGED <<history, locals>>
  BY <1>7 DEF Register
<1>8. ASSUME NEW g \in Grants, NEW allow \in BOOLEAN, Decide(g, allow) \/ Authorize(g)
      PROVE UNCHANGED <<history, locals>>
  BY <1>8 DEF Decide, Authorize
<1>9. ASSUME NEW a \in Accounts, ForgetCookie(a) \/ DeleteAccount(a)
      PROVE UNCHANGED <<history, locals>>
  BY <1>9 DEF ForgetCookie, DeleteAccount
<1>10. ASSUME NEW s \in Slots, Revoke(s) \/ Abort(s) PROVE Done(s) /\ UNCHANGED history
  BY <1>10 DEF Revoke, Abort
<1>11. ASSUME NEW x \in Credentials, Expire(x) PROVE UNCHANGED <<history, locals>>
  BY <1>11 DEF Expire
<1>12. ASSUME NEW p \in Pairs, ExpireAccess(p) PROVE UNCHANGED <<history, locals>>
  BY <1>12 DEF ExpireAccess
<1>13. ASSUME UNCHANGED vars PROVE UNCHANGED <<history, locals>>
  BY <1>13 DEF vars
<1> QED
  BY <1>1, <1>2, <1>3, <1>4, <1>5, <1>6, <1>7, <1>8, <1>9, <1>10, <1>11, <1>12, <1>13 DEF Next

\* Overlapping redemptions yield at most one pair each.
THEOREM ReuseIsBoundedByOverlap == Spec => []ReuseIsBounded
<1>1. Init => MakersInStep
  BY CredentialsAssumption DEF Init, MakersInStep
<1>2. IInv /\ MakersInStep => ReuseIsBounded
  <2> SUFFICES ASSUME MakersInStep, NEW x \in Credentials
               PROVE  Cardinality(Children(x)) \leq Cardinality(Slots)
    BY DEF ReuseIsBounded
  <2> DEFINE f == [p \in Children(x) |-> maker[p]]
  <2>1. f \in Injection(Children(x), Slots)
    BY CredentialsAssumption DEF Injection, IsInjective, MakersInStep, Children
  <2> QED
    BY <2>1, SlotsAssumption, FS_Injection
<1> QED
  BY <1>1, <1>2, BookkeepingIsInvariant, MakersStep, PTL DEF Spec

=============================================================================
