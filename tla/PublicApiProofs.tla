-------------------------- MODULE PublicApiProofs --------------------------
(***************************************************************************)
(* Theorems about PublicApi, for every set of accounts, tokens, calls and  *)
(* requests, every limit and every window.                                 *)
(***************************************************************************)
EXTENDS PublicApi, FiniteSetTheorems, TLAPS

IInv == TypeOK /\ InStep /\ RateIsBounded /\ TokensAreBounded /\ AnsweredPutIsStored

\* Every variable keeps its type.
LEMMA TypeStep == TypeOK /\ InStep /\ [Next]_vars => TypeOK'
<1> SUFFICES ASSUME TypeOK, InStep, [Next]_vars PROVE TypeOK'
  OBVIOUS
<1> USE IdentifiersAssumption DEF TypeOK, tables, limits, calls, creates, Reset, EndCreate
<1>1. ASSUME NEW a \in Accounts, NEW c \in Creators, CountTokens(c, a) PROVE TypeOK'
  BY <1>1 DEF CountTokens
<1>2. ASSUME NEW c \in Creators, InsertToken(c) PROVE TypeOK'
  BY <1>2 DEF InsertToken
<1>3. ASSUME NEW c \in Creators, AbortCreate(c) PROVE TypeOK'
  BY <1>3 DEF AbortCreate
<1>4. ASSUME NEW t \in Tokens, RevokeToken(t) \/ Expire(t) PROVE TypeOK'
  BY <1>4 DEF RevokeToken, Expire
<1>5. ASSUME NEW a \in Accounts, DeleteAccount(a) PROVE TypeOK'
  BY <1>5 DEF DeleteAccount
<1>6. ASSUME NEW c \in Calls, NEW t \in Tokens, NEW columns \in SUBSET Columns,
             Authenticate(c, t, columns) PROVE TypeOK'
  BY <1>6 DEF Authenticate, Identifiers
<1>7. ASSUME NEW c \in Calls, NEW ip \in Addresses, Anonymous(c, ip) PROVE TypeOK'
  BY <1>7 DEF Anonymous, Identifiers
<1>8. ASSUME NEW c \in Calls, CountHits(c) PROVE TypeOK'
  BY <1>8 DEF CountHits
<1>9. ASSUME NEW c \in Calls, RecordHit(c) PROVE TypeOK'
  <2> DEFINE same == {h \in hits : h.id = caller[c] /\ h.at = now}
             new == [id |-> caller[c], at |-> now, nth |-> Cardinality(same) + 1]
  <2>1. Cardinality(same) \in Nat /\ Cardinality(same) + 1 \leq MaxHits
    <3>1. IsFiniteSet(hits) /\ same \in SUBSET hits /\ Cardinality(hits) < MaxHits
      BY <1>9 DEF RecordHit, InStep
    <3>2. IsFiniteSet(same) /\ Cardinality(same) \leq Cardinality(hits)
      BY <3>1, FS_Subset
    <3> QED
      BY <3>1, <3>2, FS_CardinalityType, LimitsAssumption
  <2>2. new \in Hit
    BY <1>9, <2>1, LimitsAssumption DEF RecordHit, Hit, InStep
  <2>3. hits' = hits \cup {new}
    BY <1>9 DEF RecordHit
  <2> HIDE DEF new
  <2> QED
    BY <1>9, <2>2, <2>3 DEF RecordHit
<1>10. ASSUME NEW c \in Calls, Degrade(c) PROVE TypeOK'
  BY <1>10 DEF Degrade
<1>11. ASSUME Cleanup PROVE TypeOK'
  BY <1>11 DEF Cleanup
<1>12. ASSUME NEW c \in Calls, AnswerRead(c) \/ EndCall(c) PROVE TypeOK'
  BY <1>12 DEF AnswerRead, EndCall
<1>13. ASSUME NEW c \in Calls, FindSubscription(c) PROVE TypeOK'
  BY <1>13 DEF FindSubscription
<1>14. ASSUME NEW c \in Calls, WriteSubscription(c) PROVE TypeOK'
  <2>1. account[c] \in Accounts
    BY <1>14 DEF WriteSubscription, InStep
  <2>2. \A row \in Rows : Columns_Written(c, row) \in Rows
    BY DEF Columns_Written, Rows
  <2>3. Defaults \in Rows
    BY DEF Defaults, Rows
  <2>4. subscription' \in [Accounts -> Rows \cup {None}]
    BY <1>14, <2>1, <2>2, <2>3 DEF WriteSubscription
  <2> QED
    BY <1>14, <2>4 DEF WriteSubscription
<1>15. ASSUME Tick PROVE TypeOK'
  BY <1>15, LimitsAssumption DEF Tick
<1>16. ASSUME UNCHANGED vars PROVE TypeOK'
  BY <1>16 DEF vars
<1> QED
  BY <1>1, <1>2, <1>3, <1>4, <1>5, <1>6, <1>7, <1>8, <1>9, <1>10, <1>11, <1>12, <1>13, <1>14,
     <1>15, <1>16 DEF Next

-----------------------------------------------------------------------------
(* Three facts about two counts that share a bound: rows, and requests about *)
(* to insert one.                                                            *)

\* Smaller sets stay within the bound.
LEMMA CountKept ==
    ASSUME NEW A, NEW B, IsFiniteSet(A), IsFiniteSet(B), NEW A2 \in SUBSET A, NEW B2 \in SUBSET B,
           NEW K \in Nat, Cardinality(A) + Cardinality(B) < K
    PROVE  Cardinality(A2) + Cardinality(B2) < K
<1>1. /\ IsFiniteSet(A2) /\ Cardinality(A2) \leq Cardinality(A)
      /\ IsFiniteSet(B2) /\ Cardinality(B2) \leq Cardinality(B)
  BY FS_Subset
<1> QED
  BY <1>1, FS_CardinalityType

\* Whatever is under way, a count below the limit leaves room for all of it.
LEMMA CountAdmitted ==
    ASSUME NEW A, NEW C, IsFiniteSet(A), IsFiniteSet(C), NEW B \in SUBSET C, NEW L \in Nat,
           Cardinality(A) < L
    PROVE  Cardinality(A) + Cardinality(B) < L + Cardinality(C)
<1>1. IsFiniteSet(B) /\ Cardinality(B) \leq Cardinality(C)
  BY FS_Subset
<1> QED
  BY <1>1, FS_CardinalityType

\* A request that inserts its row moves from one count to the other.
LEMMA CountMoved ==
    ASSUME NEW A, NEW B, IsFiniteSet(A), IsFiniteSet(B), NEW x, NEW b \in B,
           NEW A2 \in SUBSET (A \cup {x}), NEW B2 \in SUBSET (B \ {b}),
           NEW K \in Nat, Cardinality(A) + Cardinality(B) < K
    PROVE  Cardinality(A2) + Cardinality(B2) < K
<1>1. IsFiniteSet(A \cup {x}) /\ Cardinality(A \cup {x}) \leq Cardinality(A) + 1
  <2>1. Cardinality(A) \in Nat
    BY FS_CardinalityType
  <2>2. /\ IsFiniteSet(A \cup {x})
        /\ \/ Cardinality(A \cup {x}) = Cardinality(A)
           \/ Cardinality(A \cup {x}) = Cardinality(A) + 1
    BY FS_AddElement
  <2> QED
    BY <2>1, <2>2
<1>2. IsFiniteSet(B \ {b}) /\ Cardinality(B \ {b}) = Cardinality(B) - 1
  BY FS_RemoveElement
<1>3. /\ IsFiniteSet(A2) /\ Cardinality(A2) \leq Cardinality(A \cup {x})
      /\ IsFiniteSet(B2) /\ Cardinality(B2) \leq Cardinality(B \ {b})
  BY <1>1, <1>2, FS_Subset
<1> QED
  BY <1>1, <1>2, <1>3, FS_CardinalityType

-----------------------------------------------------------------------------

\* No step takes the window of an identifier past its bound.
LEMMA RateStep == IInv /\ [Next]_vars => RateIsBounded'
<1> SUFFICES ASSUME IInv, [Next]_vars, NEW id \in Identifiers
             PROVE  (Cardinality(InWindow(id)) + Cardinality(Recording(id))
                       < Limit(id) + Cardinality(Calls))'
  BY DEF RateIsBounded
<1> DEFINE K == Limit(id) + Cardinality(Calls)
           Bounded == (Cardinality(InWindow(id)) + Cardinality(Recording(id)) < K)'
<1>0. /\ IsFiniteSet(InWindow(id)) /\ IsFiniteSet(Recording(id)) /\ IsFiniteSet(Calls)
      /\ Cardinality(InWindow(id)) + Cardinality(Recording(id)) < K
      /\ K \in Nat /\ Limit(id) \in Nat /\ Limit(id)' = Limit(id)
  <2>1. InWindow(id) \in SUBSET hits /\ Recording(id) \in SUBSET Calls
    BY DEF InWindow, Recording
  <2> QED
    BY <2>1, FS_Subset, FS_CardinalityType, ActorsAssumption, LimitsAssumption
       DEF IInv, InStep, RateIsBounded, Limit
<1>1. ASSUME InWindow(id)' \in SUBSET InWindow(id), Recording(id)' \in SUBSET Recording(id)
      PROVE  Bounded
  <2> HIDE DEF K
  <2> QED
    BY <1>0, <1>1, CountKept
<1>2. ASSUME NEW c \in Calls, CountHits(c) PROVE Bounded
  <2>1. InWindow(id)' = InWindow(id)
    BY <1>2 DEF CountHits, limits, InWindow
  <2>2. CASE caller[c] = id /\ Admits(id)
    <3>1. InWindow(id) \cap purged = {}
      <4> SUFFICES ASSUME NEW h \in InWindow(id), h \in purged PROVE FALSE
        OBVIOUS
      <4>1. h.at \in Nat /\ now \in Nat /\ h.at + RETENTION < now /\ h.at + WINDOW \geq now
        BY LimitsAssumption DEF IInv, TypeOK, InStep, InWindow, Hit
      <4> QED
        BY <4>1, RetentionAssumption
    <3>2. Cardinality(InWindow(id)) < Limit(id)
      <4>1. InWindow(id) \ purged = InWindow(id)
        BY <3>1
      <4> QED
        BY <2>2, <4>1 DEF Admits
    <3>3. Recording(id)' \in SUBSET Calls
      BY DEF Recording
    <3> QED
      BY <1>0, <2>1, <3>2, <3>3, CountAdmitted
  <2>3. CASE ~(caller[c] = id /\ Admits(id))
    <3>1. Recording(id)' \in SUBSET Recording(id)
      BY <1>2, <2>3 DEF CountHits, Recording, Reset, IInv, TypeOK
    <3> QED
      BY <1>1, <2>1, <3>1
  <2> QED
    BY <2>2, <2>3
<1>3. ASSUME NEW c \in Calls, RecordHit(c) PROVE Bounded
  <2> PICK new : new.id = caller[c] /\ hits' = hits \cup {new}
    BY <1>3 DEF RecordHit
  <2>1. now' = now /\ pc' = [pc EXCEPT ![c] = "handle"] /\ caller' = caller /\ pc[c] = "record"
    BY <1>3 DEF RecordHit
  <2>2. CASE caller[c] = id
    <3>1. InWindow(id)' \in SUBSET (InWindow(id) \cup {new})
      BY <2>1 DEF InWindow
    <3>2. c \in Recording(id) /\ Recording(id)' \in SUBSET (Recording(id) \ {c})
      BY <2>1, <2>2 DEF Recording, IInv, TypeOK
    <3> HIDE DEF K
    <3> QED
      BY <1>0, <3>1, <3>2, CountMoved
  <2>3. CASE caller[c] # id
    <3>1. InWindow(id)' \in SUBSET InWindow(id)
      BY <2>1, <2>3 DEF InWindow
    <3>2. Recording(id)' \in SUBSET Recording(id)
      BY <2>1 DEF Recording, IInv, TypeOK
    <3> QED
      BY <1>1, <3>1, <3>2
  <2> QED
    BY <2>2, <2>3
<1>4. ASSUME Tick PROVE Bounded
  <2>1. now' = now + 1 /\ UNCHANGED <<limits, calls>>
    BY <1>4 DEF Tick
  <2>2. InWindow(id)' \in SUBSET InWindow(id)
    <3> SUFFICES ASSUME NEW h \in hits, h.at + WINDOW \geq now + 1 PROVE h.at + WINDOW \geq now
      BY <2>1 DEF InWindow, limits
    <3>1. h.at \in Nat /\ now \in Nat
      BY LimitsAssumption DEF IInv, TypeOK, Hit
    <3> QED
      BY <3>1, RetentionAssumption
  <2>3. Recording(id)' = Recording(id)
    BY <2>1 DEF Recording, calls
  <2> QED
    BY <1>1, <2>2, <2>3
<1>5. ASSUME UNCHANGED <<now, hits>>,
             \A c \in Calls : pc'[c] = "record" => pc[c] = "record" /\ caller'[c] = caller[c]
      PROVE  Bounded
  BY <1>1, <1>5 DEF InWindow, Recording
<1>6. ASSUME \/ Cleanup \/ UNCHANGED vars
             \/ \E a \in Accounts : DeleteAccount(a) \/ \E c \in Creators : CountTokens(c, a)
             \/ \E c \in Creators : InsertToken(c) \/ AbortCreate(c)
             \/ \E t \in Tokens : RevokeToken(t) \/ Expire(t)
      PROVE  Bounded
  <2>1. UNCHANGED <<now, hits, pc, caller>>
    BY <1>6 DEF Cleanup, DeleteAccount, CountTokens, InsertToken, AbortCreate, RevokeToken, Expire,
                calls, limits, vars
  <2> QED
    BY <1>5, <2>1
<1>7. ASSUME NEW c \in Calls,
             \/ \E t \in Tokens, columns \in SUBSET Columns : Authenticate(c, t, columns)
             \/ \E ip \in Addresses : Anonymous(c, ip)
             \/ Degrade(c) \/ AnswerRead(c) \/ FindSubscription(c) \/ WriteSubscription(c)
             \/ EndCall(c)
      PROVE  Bounded
  <2>1. UNCHANGED <<now, hits>>
    BY <1>7 DEF Authenticate, Anonymous, Degrade, AnswerRead, FindSubscription, WriteSubscription,
                EndCall, limits
  <2>2. \A d \in Calls : pc'[d] = "record" => pc[d] = "record" /\ caller'[d] = caller[d]
    BY <1>7 DEF Authenticate, Anonymous, Degrade, AnswerRead, FindSubscription, WriteSubscription,
                EndCall, Reset, IInv, TypeOK
  <2> QED
    BY <1>5, <2>1, <2>2
<1> QED
  BY <1>0, <1>2, <1>3, <1>4, <1>6, <1>7 DEF Next

\* No step takes the tokens of an account past their bound, and its active tokens
\* stay finitely many.
LEMMA TokensStep ==
    IInv /\ [Next]_vars => TokensAreBounded' /\ \A a \in Accounts : IsFiniteSet(ActiveTokens(a)')
<1> SUFFICES ASSUME IInv, [Next]_vars, NEW a \in Accounts
             PROVE  /\ (Cardinality(ActiveTokens(a)) + Cardinality(Inserting(a))
                          < MAX_ACTIVE_TOKENS_PER_USER + Cardinality(Creators))'
                    /\ IsFiniteSet(ActiveTokens(a)')
  BY DEF TokensAreBounded
<1> DEFINE K == MAX_ACTIVE_TOKENS_PER_USER + Cardinality(Creators)
           Bounded == /\ (Cardinality(ActiveTokens(a)) + Cardinality(Inserting(a)) < K)'
                      /\ IsFiniteSet(ActiveTokens(a)')
<1>0. /\ IsFiniteSet(ActiveTokens(a)) /\ IsFiniteSet(Inserting(a)) /\ IsFiniteSet(Creators)
      /\ Cardinality(ActiveTokens(a)) + Cardinality(Inserting(a)) < K
      /\ K \in Nat
  <2>1. Inserting(a) \in SUBSET Creators
    BY DEF Inserting
  <2> QED
    BY <2>1, FS_Subset, FS_CardinalityType, ActorsAssumption, LimitsAssumption
       DEF IInv, InStep, TokensAreBounded
<1>1. ASSUME ActiveTokens(a)' \in SUBSET ActiveTokens(a), Inserting(a)' \in SUBSET Inserting(a)
      PROVE  Bounded
  <2> HIDE DEF K
  <2> QED
    BY <1>0, <1>1, CountKept, FS_Subset
<1>2. ASSUME NEW c \in Creators, NEW b \in Accounts, CountTokens(c, b) PROVE Bounded
  <2>1. ActiveTokens(a)' = ActiveTokens(a)
    BY <1>2 DEF CountTokens, tables, ActiveTokens
  <2>2. CASE b = a
    <3>1. Cardinality(ActiveTokens(a)) < MAX_ACTIVE_TOKENS_PER_USER
      BY <1>2, <2>2 DEF CountTokens, HasQuota
    <3>2. Inserting(a)' \in SUBSET Creators
      BY DEF Inserting
    <3> QED
      BY <1>0, <2>1, <3>1, <3>2, CountAdmitted, LimitsAssumption
  <2>3. CASE b # a
    <3>1. Inserting(a)' \in SUBSET Inserting(a)
      BY <1>2, <2>3 DEF CountTokens, Inserting, IInv, TypeOK
    <3> QED
      BY <1>1, <2>1, <3>1
  <2> QED
    BY <2>2, <2>3
<1>3. ASSUME NEW c \in Creators, InsertToken(c) PROVE Bounded
  <2> PICK t \in Tokens : /\ token' = [token EXCEPT ![t] = "active"]
                          /\ owner' = [owner EXCEPT ![t] = creator[c]]
    BY <1>3 DEF InsertToken
  <2>1. cpc[c] = "insert" /\ EndCreate(c)
    BY <1>3 DEF InsertToken
  <2>2. CASE creator[c] = a
    <3>1. ActiveTokens(a)' \in SUBSET (ActiveTokens(a) \cup {t})
      BY DEF ActiveTokens, IInv, TypeOK
    <3>2. c \in Inserting(a) /\ Inserting(a)' \in SUBSET (Inserting(a) \ {c})
      BY <2>1, <2>2 DEF Inserting, EndCreate, IInv, TypeOK
    <3>3. IsFiniteSet(ActiveTokens(a) \cup {t})
      BY <1>0, FS_AddElement
    <3> HIDE DEF K
    <3> QED
      BY <1>0, <3>1, <3>2, <3>3, CountMoved, FS_Subset
  <2>3. CASE creator[c] # a
    <3>1. ActiveTokens(a)' \in SUBSET ActiveTokens(a)
      BY <2>3 DEF ActiveTokens, IInv, TypeOK
    <3>2. Inserting(a)' \in SUBSET Inserting(a)
      BY <2>1 DEF Inserting, EndCreate, IInv, TypeOK
    <3> QED
      BY <1>1, <3>1, <3>2
  <2> QED
    BY <2>2, <2>3
<1>4. ASSUME NEW c \in Creators, AbortCreate(c) PROVE Bounded
  <2>1. ActiveTokens(a)' = ActiveTokens(a)
    BY <1>4 DEF AbortCreate, tables, ActiveTokens
  <2>2. Inserting(a)' \in SUBSET Inserting(a)
    BY <1>4 DEF AbortCreate, Inserting, EndCreate, IInv, TypeOK
  <2> QED
    BY <1>1, <2>1, <2>2
<1>5. ASSUME \/ \E t \in Tokens : RevokeToken(t) \/ Expire(t)
             \/ \E b \in Accounts : DeleteAccount(b)
      PROVE  Bounded
  <2>1. ActiveTokens(a)' \in SUBSET ActiveTokens(a)
    BY <1>5 DEF RevokeToken, Expire, DeleteAccount, ActiveTokens, IInv, TypeOK
  <2>2. Inserting(a)' = Inserting(a)
    BY <1>5 DEF RevokeToken, Expire, DeleteAccount, Inserting, creates
  <2> QED
    BY <1>1, <2>1, <2>2
<1>6. ASSUME \/ Tick \/ Cleanup \/ UNCHANGED vars
             \/ \E c \in Calls :
                  \/ \E t \in Tokens, columns \in SUBSET Columns : Authenticate(c, t, columns)
                  \/ \E ip \in Addresses : Anonymous(c, ip)
                  \/ CountHits(c) \/ RecordHit(c) \/ Degrade(c)
                  \/ AnswerRead(c) \/ FindSubscription(c) \/ WriteSubscription(c) \/ EndCall(c)
      PROVE  Bounded
  <2>1. UNCHANGED <<token, owner, cpc, creator>>
    BY <1>6 DEF Tick, Cleanup, vars, Authenticate, Anonymous, CountHits, RecordHit, Degrade,
                AnswerRead, FindSubscription, WriteSubscription, EndCall, tables, creates
  <2>2. ActiveTokens(a)' = ActiveTokens(a) /\ Inserting(a)' = Inserting(a)
    BY <2>1 DEF ActiveTokens, Inserting
  <2> QED
    BY <1>1, <2>2
<1> QED
  BY <1>2, <1>3, <1>4, <1>5, <1>6 DEF Next

\* The bookkeeping between the statements of a request is inductive.
LEMMA InStepStep == IInv /\ [Next]_vars => InStep'
<1> SUFFICES ASSUME IInv, [Next]_vars PROVE InStep'
  OBVIOUS
<1> DEFINE Hits == IsFiniteSet(hits) /\ \A h \in purged : h.at + RETENTION < now
           Owned == /\ \A t \in Tokens : token[t] # "absent" => owner[t] \in Accounts
                    /\ \A c \in Creators : cpc[c] = "insert" => creator[c] \in Accounts
           Called(c) == /\ pc[c] \in {"count", "record"} => caller[c] \in Identifiers
                        /\ put[c] # {} => account[c] \in Accounts
                        /\ pc[c] \in {"write", "ok"} => put[c] # {}
                        /\ pc[c] = "write" /\ found[c] /\ account[c] \notin deleted
                             => subscription[account[c]] # None
<1>0. Hits /\ Owned /\ (\A c \in Calls : Called(c)) /\ TypeOK
  BY DEF IInv, InStep
<1>1. Hits'
  <2>1. CASE UNCHANGED <<now, hits, purged>>
    BY <1>0, <2>1
  <2>2. ASSUME NEW c \in Calls, RecordHit(c) PROVE Hits'
    BY <1>0, <2>2, FS_AddElement DEF RecordHit
  <2>3. CASE Cleanup
    BY <1>0, <2>3 DEF Cleanup, Purgeable
  <2>4. CASE Tick
    <3> SUFFICES ASSUME NEW h \in purged, h.at + RETENTION < now PROVE h.at + RETENTION < now + 1
      BY <1>0, <2>4 DEF Tick, limits
    <3>1. h.at \in Nat /\ now \in Nat
      BY <1>0, LimitsAssumption DEF TypeOK, Hit
    <3> QED
      BY <3>1, RetentionAssumption
  <2> QED
    BY <2>1, <2>2, <2>3, <2>4
       DEF Next, vars, CountTokens, InsertToken, AbortCreate, RevokeToken, Expire, DeleteAccount,
           Authenticate, Anonymous, CountHits, Degrade, AnswerRead, FindSubscription,
           WriteSubscription, EndCall, limits
<1>2. Owned'
  <2>1. CASE UNCHANGED <<token, owner, cpc, creator>>
    BY <1>0, <2>1
  <2>2. CASE \E a \in Accounts, c \in Creators : CountTokens(c, a)
    BY <1>0, <2>2 DEF CountTokens, tables, TypeOK
  <2>3. CASE \E c \in Creators : InsertToken(c) \/ AbortCreate(c)
    BY <1>0, <2>3 DEF InsertToken, AbortCreate, EndCreate, tables, TypeOK
  <2>4. CASE \E t \in Tokens : RevokeToken(t) \/ Expire(t)
    BY <1>0, <2>4 DEF RevokeToken, Expire, creates, TypeOK
  <2>5. CASE \E a \in Accounts : DeleteAccount(a)
    BY <1>0, <2>5 DEF DeleteAccount, creates, TypeOK
  <2> QED
    BY <2>1, <2>2, <2>3, <2>4, <2>5
       DEF Next, vars, Tick, Cleanup, Authenticate, Anonymous, CountHits, RecordHit, Degrade,
           AnswerRead, FindSubscription, WriteSubscription, EndCall, tables, creates
<1>3. \A c \in Calls : Called(c)'
  <2>1. CASE UNCHANGED <<calls, deleted, subscription>>
    BY <1>0, <2>1 DEF calls
  <2>2. ASSUME NEW a \in Accounts, DeleteAccount(a) PROVE \A c \in Calls : Called(c)'
    BY <1>0, <2>2 DEF DeleteAccount, calls, TypeOK
  <2>3. ASSUME NEW c \in Calls, NEW t \in Tokens, NEW columns \in SUBSET Columns,
               Authenticate(c, t, columns) PROVE \A d \in Calls : Called(d)'
    BY <1>0, <2>3 DEF Authenticate, tables, Identifiers, TypeOK
  <2>4. ASSUME NEW c \in Calls, NEW ip \in Addresses, Anonymous(c, ip)
        PROVE  \A d \in Calls : Called(d)'
    BY <1>0, <2>4 DEF Anonymous, tables, Identifiers, TypeOK
  <2>5. ASSUME NEW c \in Calls,
               CountHits(c) \/ RecordHit(c) \/ Degrade(c) \/ AnswerRead(c) \/ EndCall(c)
        PROVE  \A d \in Calls : Called(d)'
    BY <1>0, <2>5 DEF CountHits, RecordHit, Degrade, AnswerRead, EndCall, Reset, tables, TypeOK
  <2>6. ASSUME NEW c \in Calls, FindSubscription(c) PROVE \A d \in Calls : Called(d)'
    BY <1>0, <2>6 DEF FindSubscription, tables, TypeOK
  <2>7. ASSUME NEW c \in Calls, WriteSubscription(c) PROVE \A d \in Calls : Called(d)'
    <3>1. \A a \in Accounts : subscription[a] # None => subscription'[a] # None
      BY <1>0, <2>7, IdentifiersAssumption
         DEF WriteSubscription, Insertable, Columns_Written, Defaults, Rows, TypeOK
    <3>2. /\ UNCHANGED <<deleted, account, put>> /\ pc' = [pc EXCEPT ![c] = "ok"]
          /\ found' = [found EXCEPT ![c] = FALSE] /\ caller' = [caller EXCEPT ![c] = None]
          /\ pc[c] = "write"
      BY <2>7 DEF WriteSubscription, tables
    <3> QED
      BY <1>0, <3>1, <3>2 DEF TypeOK
  <2> QED
    BY <2>1, <2>2, <2>3, <2>4, <2>5, <2>6, <2>7
       DEF Next, vars, Tick, Cleanup, CountTokens, InsertToken, AbortCreate, RevokeToken, Expire,
           tables
<1> QED
  BY <1>1, <1>2, <1>3, TokensStep DEF InStep

\* A stored PUT stays stored: an UPDATE keeps the columns it does not name, and an
\* INSERT that would bring the defaults back is refused.
LEMMA PutStep == IInv /\ [Next]_vars => AnsweredPutIsStored'
<1> SUFFICES ASSUME IInv, [Next]_vars PROVE AnsweredPutIsStored'
  OBVIOUS
<1> DEFINE Stored(c) == pc[c] = "ok" /\ account[c] \notin deleted =>
                          /\ subscription[account[c]] # None
                          /\ \A f \in put[c] : subscription[account[c]][f] # None
<1>0. (\A c \in Calls : Stored(c)) /\ TypeOK /\ InStep
  BY DEF IInv, AnsweredPutIsStored
<1>1. CASE UNCHANGED <<calls, deleted, subscription>>
  BY <1>0, <1>1 DEF calls, AnsweredPutIsStored
<1>2. ASSUME NEW a \in Accounts, DeleteAccount(a) PROVE AnsweredPutIsStored'
  BY <1>0, <1>2 DEF DeleteAccount, calls, TypeOK, InStep, AnsweredPutIsStored
<1>3. ASSUME NEW c \in Calls, UNCHANGED <<deleted, subscription>>, pc'[c] # "ok",
             \A d \in Calls \ {c} : /\ pc'[d] = pc[d] /\ account'[d] = account[d]
                                    /\ put'[d] = put[d]
      PROVE  AnsweredPutIsStored'
  BY <1>0, <1>3 DEF AnsweredPutIsStored
<1>4. ASSUME NEW c \in Calls,
             \/ \E t \in Tokens, columns \in SUBSET Columns : Authenticate(c, t, columns)
             \/ \E ip \in Addresses : Anonymous(c, ip)
             \/ CountHits(c) \/ RecordHit(c) \/ Degrade(c)
             \/ AnswerRead(c) \/ FindSubscription(c) \/ EndCall(c)
      PROVE  AnsweredPutIsStored'
  <2>1. /\ UNCHANGED <<deleted, subscription>> /\ pc'[c] # "ok"
        /\ \A d \in Calls \ {c} : pc'[d] = pc[d] /\ account'[d] = account[d] /\ put'[d] = put[d]
    BY <1>0, <1>4 DEF Authenticate, Anonymous, CountHits, RecordHit, Degrade, AnswerRead,
                      FindSubscription, EndCall, Reset, tables, TypeOK
  <2> QED
    BY <1>3, <2>1
<1>5. ASSUME NEW c \in Calls, WriteSubscription(c) PROVE AnsweredPutIsStored'
  <2> DEFINE a == account[c]
  <2>1. a \in Accounts /\ put[c] \subseteq Columns /\ (found[c] /\ a \notin deleted => subscription[a] # None)
    BY <1>0, <1>5 DEF WriteSubscription, InStep, TypeOK
  <2>2. /\ UNCHANGED <<deleted, account, put>> /\ pc' = [pc EXCEPT ![c] = "ok"]
    BY <1>5 DEF WriteSubscription, tables
  <2>3. \A b \in Accounts \ {a} : subscription'[b] = subscription[b]
    BY <1>0, <1>5 DEF WriteSubscription, TypeOK
  <2>4. ASSUME a \notin deleted
        PROVE  /\ subscription'[a] # None
               /\ \A f \in Columns : \/ f \in put[c] /\ subscription'[a][f] = c
                                     \/ /\ f \notin put[c]
                                        /\ subscription[a] # None =>
                                             subscription'[a][f] = subscription[a][f]
    <3>1. CASE found[c]
      <4>1. subscription[a] \in Rows /\ subscription'[a] = Columns_Written(c, subscription[a])
        BY <1>0, <1>5, <2>1, <2>4, <3>1 DEF WriteSubscription, TypeOK
      <4>2. Columns_Written(c, subscription[a]) \in Rows
        BY <4>1 DEF Columns_Written, Rows
      <4>3. subscription'[a] # None
        BY <4>1, <4>2, IdentifiersAssumption
      <4> QED
        BY <4>1, <4>3 DEF Columns_Written
    <3>2. CASE ~found[c]
      <4>1. subscription[a] = None /\ subscription'[a] = Columns_Written(c, Defaults)
        BY <1>0, <1>5, <2>1, <3>2 DEF WriteSubscription, Insertable, TypeOK
      <4>2. Columns_Written(c, Defaults) \in Rows
        BY DEF Columns_Written, Defaults, Rows
      <4>3. subscription'[a] # None
        BY <4>1, <4>2, IdentifiersAssumption
      <4> QED
        BY <4>1, <4>3 DEF Columns_Written
    <3> QED
      BY <3>1, <3>2 DEF TypeOK
  <2>5. SUFFICES ASSUME NEW d \in Calls, pc'[d] = "ok", account[d] \notin deleted
                 PROVE  /\ subscription'[account[d]] # None
                        /\ \A f \in put[d] : subscription'[account[d]][f] # None
    BY <2>2 DEF AnsweredPutIsStored
  <2>6. CASE d = c
    BY <2>1, <2>4, <2>5, <2>6, IdentifiersAssumption
  <2>7. CASE d # c
    <3>1. /\ pc[d] = "ok" /\ account[d] \in Accounts /\ put[d] \subseteq Columns
          /\ subscription[account[d]] # None
          /\ \A f \in put[d] : subscription[account[d]][f] # None
      BY <1>0, <2>2, <2>5, <2>7 DEF TypeOK, InStep
    <3> QED
      BY <2>3, <2>4, <2>5, <3>1, IdentifiersAssumption
  <2> QED
    BY <2>6, <2>7
<1> QED
  BY <1>1, <1>2, <1>4, <1>5
     DEF Next, vars, Tick, Cleanup, CountTokens, InsertToken, AbortCreate, RevokeToken, Expire,
         tables

LEMMA Initially == Init => IInv
<1> SUFFICES ASSUME Init PROVE IInv
  OBVIOUS
<1> USE DEF Init
<1>1. TypeOK
  BY LimitsAssumption DEF TypeOK
<1>2. \A a \in Accounts : ActiveTokens(a) = {} /\ Inserting(a) = {}
  BY DEF ActiveTokens, Inserting
<1>3. \A id \in Identifiers : InWindow(id) = {} /\ Recording(id) = {}
  BY DEF InWindow, Recording
<1>4. /\ IsFiniteSet({}) /\ Cardinality({}) = 0
      /\ Cardinality(Calls) \in Nat /\ Cardinality(Creators) \in Nat
  BY FS_EmptySet, FS_CardinalityType, ActorsAssumption
<1>5. InStep
  <2>1. \A a \in Accounts : IsFiniteSet(ActiveTokens(a))
    BY <1>2, <1>4
  <2> QED
    BY <1>4, <2>1 DEF InStep
<1>6. RateIsBounded
  <2>1. \A id \in Identifiers : /\ Cardinality(InWindow(id)) = 0 /\ Cardinality(Recording(id)) = 0
                                /\ Limit(id) \in Nat \ {0}
    BY <1>3, <1>4, LimitsAssumption DEF Limit
  <2> QED
    BY <1>4, <2>1 DEF RateIsBounded
<1>7. TokensAreBounded
  <2>1. \A a \in Accounts : Cardinality(ActiveTokens(a)) = 0 /\ Cardinality(Inserting(a)) = 0
    BY <1>2, <1>4
  <2> QED
    BY <1>4, <2>1, LimitsAssumption DEF TokensAreBounded
<1>8. AnsweredPutIsStored
  BY DEF AnsweredPutIsStored
<1> QED
  BY <1>1, <1>5, <1>6, <1>7, <1>8 DEF IInv

\* The invariant that carries the theorems below holds in every state.
LEMMA Invariant == Spec => []IInv
<1>1. IInv /\ [Next]_vars => IInv'
  BY TypeStep, InStepStep, RateStep, TokensStep, PutStep DEF IInv
<1> QED
  BY Initially, <1>1, PTL DEF Spec

-----------------------------------------------------------------------------

\* Every variable has its type.
THEOREM TypeCorrect == Spec => []TypeOK
BY Invariant, PTL DEF IInv

\* However many calls overlap, the window of a token or an address holds at most the
\* limit and the overlapping calls (withPublicRateLimit, withScopedAuth).
THEOREM RateBounded == Spec => []RateIsBounded
BY Invariant, PTL DEF IInv

\* However many requests overlap, an account holds at most the maximum and the
\* overlapping requests (create_api_token).
THEOREM TokensBounded == Spec => []TokensAreBounded
BY Invariant, PTL DEF IInv

\* An answered PUT of a subscription is stored until its account goes
\* (upsertSubscription).
THEOREM PutsAreStored == Spec => []AnsweredPutIsStored
BY Invariant, PTL DEF IInv

=============================================================================
