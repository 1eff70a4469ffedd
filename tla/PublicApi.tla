----------------------------- MODULE PublicApi -----------------------------
(***************************************************************************)
(* The versioned HTTP interface of the dashboard (app/api/v1): API tokens, *)
(* the rate limit, and the one resource its clients write, the alert       *)
(* subscription of an account.                                             *)
(*                                                                         *)
(* A call is authenticated, counted against the limit, recorded, and then  *)
(* handled, in statements of their own:                                    *)
(*   withScopedAuth         Authenticate (validateToken)                   *)
(*   withPublicRateLimit    Anonymous                                      *)
(*   checkRateLimit         CountHits, RecordHit                           *)
(*   upsertSubscription     FindSubscription, WriteSubscription            *)
(* Tokens are created by requests of the dashboard; the engine counts and  *)
(* inserts in two statements:                                              *)
(*   create_api_token       CountTokens, InsertToken                       *)
(*                                                                         *)
(* Abstractions.  Time is a number of ticks and the windows are measured   *)
(* in them.  A subscription is the set of its columns, each with the call  *)
(* that wrote it last.  Other handlers of the interface only read.  Scopes *)
(* restrict which calls a token may make and are left out.                 *)
(***************************************************************************)
EXTENDS Naturals, FiniteSets

CONSTANTS
    Accounts,
    Tokens,         \* API tokens (random, never drawn twice)
    Addresses,      \* client addresses, for calls without a token
    Calls,          \* concurrent calls of the interface
    Creators,       \* concurrent requests to create a token
    Columns,        \* columns of a subscription a call may write
    None,           \* no row, no caller, a column nobody has written
    MAX_ACTIVE_TOKENS_PER_USER,
    DEFAULT_TOKEN_LIMIT, DEFAULT_IP_LIMIT,
    WINDOW,         \* the window of the rate limit (60 seconds)
    RETENTION,      \* age at which a recorded hit may be deleted (5 minutes)
    MaxTime,        \* bound: ticks
    MaxHits         \* bound: hits recorded

Identifiers == Tokens \cup Addresses

Rows == [Columns -> Calls \cup {None}]

ASSUME IdentifiersAssumption == None \notin Calls \cup Accounts \cup Identifiers \cup Rows
ASSUME ActorsAssumption == IsFiniteSet(Calls) /\ IsFiniteSet(Creators)
ASSUME LimitsAssumption ==
    /\ MAX_ACTIVE_TOKENS_PER_USER \in Nat \ {0}
    /\ DEFAULT_TOKEN_LIMIT \in Nat \ {0} /\ DEFAULT_IP_LIMIT \in Nat \ {0}
    /\ MaxTime \in Nat /\ MaxHits \in Nat
\* A hit that may be deleted no longer counts.
ASSUME RetentionAssumption == WINDOW \in Nat /\ RETENTION \in Nat /\ WINDOW \leq RETENTION

VARIABLES
    now,
    deleted,        \* accounts that no longer exist
    token,          \* [Tokens -> "absent", "active", or "over": expired, or its row deleted]
    owner,          \* account_id of a token
    hits,           \* every hit ever recorded: for whom, when, the n-th of its kind
    purged,         \* those of them deleted from rate_limit_hits
    subscription,   \* alert_subscriptions, None for no row
    pc,             \* a call: its next step
    caller, account, put, found,  \* its identifier, account, columns, and what it read
    cpc, creator    \* a token request: its next step, its account

tables == <<deleted, token, owner>>
limits == <<hits, purged>>
calls  == <<pc, caller, account, put, found>>
creates == <<cpc, creator>>
vars == <<now, tables, limits, subscription, calls, creates>>

Hit == [id : Identifiers, at : 0..MaxTime, nth : 1..MaxHits]

TypeOK ==
    /\ now \in 0..MaxTime
    /\ deleted \subseteq Accounts
    /\ token \in [Tokens -> {"absent", "active", "over"}]
    /\ owner \in [Tokens -> Accounts \cup {None}]
    /\ hits \subseteq Hit /\ purged \subseteq hits
    /\ subscription \in [Accounts -> Rows \cup {None}]
    /\ pc \in [Calls -> {"idle", "count", "record", "handle", "write", "ok"}]
    /\ caller \in [Calls -> Identifiers \cup {None}]
    /\ account \in [Calls -> Accounts \cup {None}]
    /\ put \in [Calls -> SUBSET Columns]
    /\ found \in [Calls -> BOOLEAN]
    /\ cpc \in [Creators -> {"idle", "insert"}]
    /\ creator \in [Creators -> Accounts \cup {None}]

Init ==
    /\ now = 0
    /\ deleted = {}
    /\ token = [t \in Tokens |-> "absent"]
    /\ owner = [t \in Tokens |-> None]
    /\ hits = {}
    /\ purged = {}
    /\ subscription = [a \in Accounts |-> None]
    /\ pc = [c \in Calls |-> "idle"]
    /\ caller = [c \in Calls |-> None]
    /\ account = [c \in Calls |-> None]
    /\ put = [c \in Calls |-> {}]
    /\ found = [c \in Calls |-> FALSE]
    /\ cpc = [c \in Creators |-> "idle"]
    /\ creator = [c \in Creators |-> None]

-----------------------------------------------------------------------------
(* Tokens *)

ActiveTokens(a) == {t \in Tokens : token[t] = "active" /\ owner[t] = a}

HasQuota_OffByOne(a) == Cardinality(ActiveTokens(a)) \leq MAX_ACTIVE_TOKENS_PER_USER
HasQuota(a) == Cardinality(ActiveTokens(a)) < MAX_ACTIVE_TOKENS_PER_USER

EndCreate(c) ==
    /\ cpc' = [cpc EXCEPT ![c] = "idle"]
    /\ creator' = [creator EXCEPT ![c] = None]

\* create_api_token counts the active tokens.  (The router has counted them just
\* before, which turns away requests that would be turned away here or could have
\* been.)  The session of the request is a signed token that outlives the account.
CountTokens(c, a) ==
    /\ cpc[c] = "idle"
    /\ HasQuota(a)
    /\ cpc' = [cpc EXCEPT ![c] = "insert"]
    /\ creator' = [creator EXCEPT ![c] = a]
    /\ UNCHANGED <<now, tables, limits, subscription, calls>>

InsertToken(c) ==
    /\ cpc[c] = "insert"
    /\ creator[c] \notin deleted        \* the foreign key account_id
    /\ \E t \in Tokens :
         /\ token[t] = "absent"
         /\ token' = [token EXCEPT ![t] = "active"]
         /\ owner' = [owner EXCEPT ![t] = creator[c]]
    /\ EndCreate(c)
    /\ UNCHANGED <<now, deleted, limits, subscription, calls>>

\* A statement fails, or the engine does not answer.
AbortCreate(c) ==
    /\ cpc[c] # "idle"
    /\ EndCreate(c)
    /\ UNCHANGED <<now, tables, limits, subscription, calls>>

\* tokens.revoke deletes the row.
RevokeToken(t) ==
    /\ token[t] # "absent"
    /\ token' = [token EXCEPT ![t] = "over"]
    /\ UNCHANGED <<now, deleted, owner, limits, subscription, calls, creates>>

Expire(t) ==
    /\ token[t] = "active"
    /\ token' = [token EXCEPT ![t] = "over"]
    /\ UNCHANGED <<now, deleted, owner, limits, subscription, calls, creates>>

\* users.delete: tokens and subscription go with the account (ON DELETE CASCADE).
DeleteAccount(a) ==
    /\ deleted' = deleted \cup {a}
    /\ token' = [t \in Tokens |-> IF owner[t] = a THEN "over" ELSE token[t]]
    /\ subscription' = [subscription EXCEPT ![a] = None]
    /\ UNCHANGED <<now, owner, limits, calls, creates>>

-----------------------------------------------------------------------------
(* A call *)

\* withScopedAuth: the row of the token is read once; what happens to the token
\* afterwards does not concern the call.  A call that writes names its columns.
Authenticate(c, t, columns) ==
    /\ pc[c] = "idle"
    /\ token[t] = "active"
    /\ pc' = [pc EXCEPT ![c] = "count"]
    /\ caller' = [caller EXCEPT ![c] = t]
    /\ account' = [account EXCEPT ![c] = owner[t]]
    /\ put' = [put EXCEPT ![c] = columns]
    /\ UNCHANGED <<now, tables, limits, subscription, found, creates>>

Anonymous(c, ip) ==
    /\ pc[c] = "idle"
    /\ pc' = [pc EXCEPT ![c] = "count"]
    /\ caller' = [caller EXCEPT ![c] = ip]
    /\ UNCHANGED <<now, tables, limits, subscription, account, put, found, creates>>

Limit(id) == IF id \in Tokens THEN DEFAULT_TOKEN_LIMIT ELSE DEFAULT_IP_LIMIT

InWindow(id) == {h \in hits : h.id = id /\ h.at + WINDOW \geq now}

Reset(c) ==
    /\ pc' = [pc EXCEPT ![c] = "idle"]
    /\ caller' = [caller EXCEPT ![c] = None]
    /\ account' = [account EXCEPT ![c] = None]
    /\ put' = [put EXCEPT ![c] = {}]
    /\ found' = [found EXCEPT ![c] = FALSE]

Admits_OffByOne(id) == Cardinality(InWindow(id) \ purged) \leq Limit(id)
Admits(id) == Cardinality(InWindow(id) \ purged) < Limit(id)

\* SELECT count(*) of the window; over the limit the call is answered with 429.
CountHits(c) ==
    /\ pc[c] = "count"
    /\ IF Admits(caller[c])
         THEN pc' = [pc EXCEPT ![c] = "record"] /\ UNCHANGED <<caller, account, put, found>>
         ELSE Reset(c)
    /\ UNCHANGED <<now, tables, limits, subscription, creates>>

RecordHit(c) ==
    /\ pc[c] = "record"
    /\ Cardinality(hits) < MaxHits
    /\ LET nth == Cardinality({h \in hits : h.id = caller[c] /\ h.at = now}) + 1 IN
         hits' = hits \cup {[id |-> caller[c], at |-> now, nth |-> nth]}
    /\ pc' = [pc EXCEPT ![c] = "handle"]
    /\ UNCHANGED <<now, tables, purged, subscription, caller, account, put, found, creates>>

\* "rate limiting should never block valid requests": when either statement fails
\* the call goes on unrecorded.
Degrade(c) ==
    /\ pc[c] \in {"count", "record"}
    /\ pc' = [pc EXCEPT ![c] = "handle"]
    /\ UNCHANGED <<now, tables, limits, subscription, caller, account, put, found, creates>>

\* The cleanup that one call in a hundred starts, for every identifier.
Purgeable(h) == h.at + RETENTION < now
Cleanup ==
    /\ purged' = purged \cup {h \in hits : Purgeable(h)}
    /\ UNCHANGED <<now, tables, hits, subscription, calls, creates>>

\* A call that only reads is answered.
AnswerRead(c) ==
    /\ pc[c] = "handle"
    /\ put[c] = {}
    /\ Reset(c)
    /\ UNCHANGED <<now, tables, limits, subscription, creates>>

\* upsertSubscription: findFirst
FindSubscription(c) ==
    /\ pc[c] = "handle"
    /\ put[c] # {}
    /\ found' = [found EXCEPT ![c] = subscription[account[c]] # None]
    /\ pc' = [pc EXCEPT ![c] = "write"]
    /\ UNCHANGED <<now, tables, limits, subscription, caller, account, put, creates>>

Columns_Written(c, row) == [f \in Columns |-> IF f \in put[c] THEN c ELSE row[f]]
Defaults == [f \in Columns |-> None]

\* The INSERT of a call that found no row: the unique index on user_id and the
\* foreign key refuse it when a row has appeared or the account has gone.
Insertable_Replaces(a) == a \notin deleted
Insertable(a) == a \notin deleted /\ subscription[a] = None

\* UPDATE ... WHERE user_id, of the columns given only (nothing when the row has
\* gone), or INSERT with defaults for the others.
WriteSubscription(c) ==
    LET a == account[c] IN
    /\ pc[c] = "write"
    /\ IF found[c]
         THEN subscription' = IF subscription[a] = None THEN subscription
                ELSE [subscription EXCEPT ![a] = Columns_Written(c, @)]
         ELSE /\ Insertable(a)
              /\ subscription' = [subscription EXCEPT ![a] = Columns_Written(c, Defaults)]
    /\ pc' = [pc EXCEPT ![c] = "ok"]
    /\ found' = [found EXCEPT ![c] = FALSE]
    /\ caller' = [caller EXCEPT ![c] = None]
    /\ UNCHANGED <<now, tables, limits, account, put, creates>>

\* The answer is sent, or a statement failed.
EndCall(c) ==
    /\ pc[c] # "idle"
    /\ Reset(c)
    /\ UNCHANGED <<now, tables, limits, subscription, creates>>

Tick ==
    /\ now < MaxTime
    /\ now' = now + 1
    /\ UNCHANGED <<tables, limits, subscription, calls, creates>>

Next ==
    \/ Tick \/ Cleanup
    \/ \E a \in Accounts : DeleteAccount(a) \/ \E c \in Creators : CountTokens(c, a)
    \/ \E c \in Creators : InsertToken(c) \/ AbortCreate(c)
    \/ \E t \in Tokens : RevokeToken(t) \/ Expire(t)
    \/ \E c \in Calls :
         \/ \E t \in Tokens, columns \in SUBSET Columns : Authenticate(c, t, columns)
         \/ \E ip \in Addresses : Anonymous(c, ip)
         \/ CountHits(c) \/ RecordHit(c) \/ Degrade(c)
         \/ AnswerRead(c) \/ FindSubscription(c) \/ WriteSubscription(c) \/ EndCall(c)

Spec == Init /\ [][Next]_vars

-----------------------------------------------------------------------------
(* Properties *)

\* Calls between the count and the record of one identifier.
Recording(id) == {c \in Calls : pc[c] = "record" /\ caller[c] = id}

\* The limit counts and records in two statements, so that overlapping calls pass
\* it together; but the window never holds more recorded calls than the limit and
\* the calls that overlapped the last one that fitted, whatever the pace of the
\* clock and of the cleanup.
RateIsBounded ==
    \A id \in Identifiers :
        Cardinality(InWindow(id)) + Cardinality(Recording(id)) < Limit(id) + Cardinality(Calls)

Inserting(a) == {c \in Creators : cpc[c] = "insert" /\ creator[c] = a}

\* An account never holds more active tokens than the maximum and the requests
\* that overlapped the last one that fitted, though both counts are made before
\* the insert and neither is repeated by it.
TokensAreBounded ==
    \A a \in Accounts :
        Cardinality(ActiveTokens(a)) + Cardinality(Inserting(a))
          < MAX_ACTIVE_TOKENS_PER_USER + Cardinality(Creators)

\* A PUT that is answered with success is stored: what it wrote is there, or was
\* replaced by another call that wrote the same column, never by the defaults of
\* a racing INSERT, as long as the account exists.
AnsweredPutIsStored ==
    \A c \in Calls : pc[c] = "ok" /\ account[c] \notin deleted =>
        /\ subscription[account[c]] # None
        /\ \A f \in put[c] : subscription[account[c]][f] # None

\* What keeps these properties true between the statements of a request: deleted
\* hits no longer count, only calls with a token write, and a row that was found
\* stays until its account goes.
InStep ==
    /\ IsFiniteSet(hits) /\ \A a \in Accounts : IsFiniteSet(ActiveTokens(a))
    /\ \A h \in purged : h.at + RETENTION < now
    /\ \A t \in Tokens : token[t] # "absent" => owner[t] \in Accounts
    /\ \A c \in Calls :
         /\ pc[c] \in {"count", "record"} => caller[c] \in Identifiers
         /\ put[c] # {} => account[c] \in Accounts
         /\ pc[c] \in {"write", "ok"} => put[c] # {}
         /\ pc[c] = "write" /\ found[c] /\ account[c] \notin deleted
              => subscription[account[c]] # None
    /\ \A c \in Creators : cpc[c] = "insert" => creator[c] \in Accounts

=============================================================================
