------------------------------- MODULE OAuth -------------------------------
(***************************************************************************)
(* The OAuth 2.1 server of the dashboard (packages/dashboard/app/oauth and *)
(* server/oauth.ts): consent, authorization codes, rotating token pairs,   *)
(* revocation, and the deletion of the account behind them.                *)
(*                                                                         *)
(* Every await of a handler is a statement of its own: the token endpoint  *)
(* reads the row of a code or of a pair, checks it, marks it used, and     *)
(* inserts a new pair, in three statements and no transaction, so that     *)
(* requests interleave between them and may die there.                     *)
(*                                                                         *)
(* Abstractions.  A client stands for its id, redirect URI, scope and PKCE *)
(* verifier: a request that presents another of these is refused like one  *)
(* that presents another client.  Time is the sets of what has expired.    *)
(* A consent page is named by the grant it asks for.                       *)
(***************************************************************************)
EXTENDS Naturals, FiniteSets

CONSTANTS
    Clients,        \* OAuth clients
    Accounts,       \* people who consent
    Codes,          \* authorization codes (random, never drawn twice)
    Pairs,          \* access and refresh token pairs (random, likewise)
    Slots,          \* concurrent requests to the token and revocation endpoints
    None            \* no cookie, no grant, no parent

Credentials == Codes \cup Pairs
Grants == [client : Clients, account : Accounts]

ASSUME CredentialsAssumption ==
    /\ Codes \cap Pairs = {}
    /\ None \notin Credentials \cup Grants \cup Slots
ASSUME SlotsAssumption == IsFiniteSet(Slots)

VARIABLES
    registered,     \* oauth_clients
    deleted,        \* accounts that no longer exist
    csrf,           \* [Accounts -> Grants or None]: the page whose csrf cookie the browser has
    state,          \* oauth_codes.used_at, oauth_tokens.revoked_at, or no row
    grant,          \* client_id and account_id of a row
    expired,        \* codes and refresh tokens past their expiry
    accessExpired,  \* pairs whose access token is past its expiry
    parent, maker,  \* history: the credential and the request a pair was created from
    pc, cred, row   \* a request: its next step, its credential, the grant it read

browser == <<registered, deleted, csrf>>
history == <<parent, maker>>
tables  == <<state, grant, history>>
clock   == <<expired, accessExpired>>
locals  == <<pc, cred, row>>
vars    == <<browser, tables, clock, locals>>

TypeOK ==
    /\ registered \subseteq Clients
    /\ deleted \subseteq Accounts
    /\ csrf \in [Accounts -> Grants \cup {None}]
    /\ state \in [Credentials -> {"absent", "unused", "used", "deleted"}]
    /\ grant \in [Credentials -> Grants \cup {None}]
    /\ expired \subseteq Credentials
    /\ accessExpired \subseteq Pairs
    /\ parent \in [Pairs -> Credentials \cup {None}]
    /\ maker \in [Pairs -> Slots \cup {None}]
    /\ pc \in [Slots -> {"idle", "spend", "create", "revoke"}]
    /\ cred \in [Slots -> Credentials \cup {None}]
    /\ row \in [Slots -> Grants \cup {None}]

Init ==
    /\ registered = {}
    /\ deleted = {}
    /\ csrf = [a \in Accounts |-> None]
    /\ state = [x \in Credentials |-> "absent"]
    /\ grant = [x \in Credentials |-> None]
    /\ expired = {}
    /\ accessExpired = {}
    /\ parent = [p \in Pairs |-> None]
    /\ maker = [p \in Pairs |-> None]
    /\ pc = [s \in Slots |-> "idle"]
    /\ cred = [s \in Slots |-> None]
    /\ row = [s \in Slots |-> None]

-----------------------------------------------------------------------------
(* Registration and consent *)

Register(c) ==
    /\ registered' = registered \cup {c}
    /\ UNCHANGED <<deleted, csrf, tables, clock, locals>>

\* GET /oauth/authorize: opens a consent page and overwrites the csrf cookie, so
\* that of several open pages only the last one can be submitted.  The session
\* is a signed token: it outlives the account.
Authorize(g) ==
    /\ g.client \in registered
    /\ csrf' = [csrf EXCEPT ![g.account] = g]
    /\ UNCHANGED <<registered, deleted, tables, clock, locals>>

\* Max-Age of the cookie (600 seconds).
ForgetCookie(a) ==
    /\ csrf' = [csrf EXCEPT ![a] = None]
    /\ UNCHANGED <<registered, deleted, tables, clock, locals>>

Insert(x, g) ==
    /\ state[x] = "absent"
    /\ g.account \notin deleted         \* the foreign key account_id
    /\ state' = [state EXCEPT ![x] = "unused"]
    /\ grant' = [grant EXCEPT ![x] = g]

\* POST /oauth/authorize/decision: "allow" inserts a code, anything else does not;
\* both clear the cookie.  What the client asked for is not checked again.
Decide(g, allow) ==
    /\ csrf[g.account] = g
    /\ IF allow THEN \E k \in Codes : Insert(k, g) /\ UNCHANGED history
                ELSE UNCHANGED tables
    /\ csrf' = [csrf EXCEPT ![g.account] = None]
    /\ UNCHANGED <<registered, deleted, clock, locals>>

-----------------------------------------------------------------------------
(* The token endpoint *)

\* The row is there, unused, not expired, and belongs to the client who asks; the
\* codes of handleAuthorizationCode and the refresh tokens of refreshTokenPair
\* are checked alike.
Redeemable_Reusable(x, c) ==
    /\ state[x] \in {"unused", "used"}
    /\ x \notin expired
    /\ grant[x].client = c
Redeemable_NeverExpires(x, c) ==
    /\ state[x] = "unused"
    /\ grant[x].client = c
Redeemable(x, c) ==
    /\ state[x] = "unused"
    /\ x \notin expired
    /\ grant[x].client = c

Redeem(s, x, c) ==
    /\ pc[s] = "idle"
    /\ Redeemable(x, c)
    /\ pc' = [pc EXCEPT ![s] = "spend"]
    /\ cred' = [cred EXCEPT ![s] = x]
    /\ row' = [row EXCEPT ![s] = grant[x]]
    /\ UNCHANGED <<browser, tables, clock>>

Done(s) ==
    /\ pc' = [pc EXCEPT ![s] = "idle"]
    /\ cred' = [cred EXCEPT ![s] = None]
    /\ row' = [row EXCEPT ![s] = None]

\* UPDATE ... SET used_at / revoked_at WHERE id = row.id: whether another request
\* has spent the credential since it was read is not part of the WHERE clause.
MarkUsed(x) ==
    state' = [state EXCEPT ![x] = IF @ = "unused" THEN "used" ELSE @]

SpendCredential_Skipped(s) ==
    /\ pc[s] = "spend"
    /\ pc' = [pc EXCEPT ![s] = "create"]
    /\ UNCHANGED <<browser, tables, clock, cred, row>>
SpendCredential(s) ==
    /\ pc[s] = "spend"
    /\ MarkUsed(cred[s])
    /\ pc' = [pc EXCEPT ![s] = "create"]
    /\ UNCHANGED <<browser, grant, history, clock, cred, row>>

\* createTokenPair takes client, account and scope from the row that was read.
NewGrant(s) == row[s]

CreateTokenPair(s) ==
    /\ pc[s] = "create"
    /\ \E p \in Pairs :
         /\ Insert(p, NewGrant(s))
         /\ parent' = [parent EXCEPT ![p] = cred[s]]
         /\ maker' = [maker EXCEPT ![p] = s]
    /\ Done(s)
    /\ UNCHANGED <<browser, clock>>

\* POST /oauth/revoke with either token of a pair that is not yet revoked.
StartRevoke(s, p) ==
    /\ pc[s] = "idle"
    /\ state[p] = "unused"
    /\ pc' = [pc EXCEPT ![s] = "revoke"]
    /\ cred' = [cred EXCEPT ![s] = p]
    /\ UNCHANGED <<browser, tables, clock, row>>

Revoke(s) ==
    /\ pc[s] = "revoke"
    /\ MarkUsed(cred[s])
    /\ Done(s)
    /\ UNCHANGED <<browser, grant, history, clock>>

\* A statement fails, or the process that serves the request dies: what was spent
\* stays spent, and the client is left without a pair.
Abort(s) ==
    /\ pc[s] # "idle"
    /\ Done(s)
    /\ UNCHANGED <<browser, tables, clock>>

-----------------------------------------------------------------------------
(* Time, deletion of an account *)

\* Ten minutes for a code, a week for a refresh token, which outlives the fifteen
\* minutes of its access token.
Expire(x) ==
    /\ state[x] # "absent"
    /\ x \in Pairs => x \in accessExpired
    /\ expired' = expired \cup {x}
    /\ UNCHANGED <<browser, tables, accessExpired, locals>>

ExpireAccess(p) ==
    /\ state[p] # "absent"
    /\ accessExpired' = accessExpired \cup {p}
    /\ UNCHANGED <<browser, tables, expired, locals>>

\* Both foreign keys account_id say ON DELETE CASCADE.
DeleteAccount_NoCascade(a) ==
    /\ deleted' = deleted \cup {a}
    /\ UNCHANGED <<registered, csrf, tables, clock, locals>>
DeleteAccount(a) ==
    /\ deleted' = deleted \cup {a}
    /\ state' = [x \in Credentials |->
            IF grant[x] # None /\ grant[x].account = a THEN "deleted" ELSE state[x]]
    /\ UNCHANGED <<registered, csrf, grant, history, clock, locals>>

Next ==
    \/ \E c \in Clients : Register(c)
    \/ \E g \in Grants : Authorize(g) \/ \E allow \in BOOLEAN : Decide(g, allow)
    \/ \E a \in Accounts : ForgetCookie(a) \/ DeleteAccount(a)
    \/ \E s \in Slots :
         \/ \E x \in Credentials, c \in Clients : Redeem(s, x, c)
         \/ SpendCredential(s) \/ CreateTokenPair(s)
         \/ \E p \in Pairs : StartRevoke(s, p)
         \/ Revoke(s) \/ Abort(s)
    \/ \E x \in Credentials : Expire(x)
    \/ \E p \in Pairs : ExpireAccess(p)

Spec == Init /\ [][Next]_vars

-----------------------------------------------------------------------------
(* Properties *)

\* The server implements the abstract grant: whatever requests overlap, fail or
\* die, tokens are paid only to requests that were admitted while the credential
\* was live, and nothing spent, expired or deleted comes back to life.
GrantPhase(x) ==
    CASE state[x] = "absent"  -> "absent"
      [] state[x] = "unused"  -> IF x \in expired THEN "lapsed" ELSE "live"
      [] state[x] = "used"    -> "spent"
      [] state[x] = "deleted" -> "gone"
Redeeming(s) == IF pc[s] \in {"spend", "create"} THEN {cred[s]} ELSE {}

Promised == INSTANCE Grant WITH
    Takers   <- Slots,
    phase    <- [x \in Credentials |-> GrantPhase(x)],
    admitted <- [s \in Slots |-> Redeeming(s)]

ImplementsGrant == Promised!Spec

\* validateOAuthToken: what the MCP endpoint accepts as an access token.
ValidateOAuthToken(p) == state[p] = "unused" /\ p \notin accessExpired

Children(x) == {p \in Pairs : parent[p] = x}

\* A token pair never carries more than what someone consented to: along any chain
\* of rotations the client and the account stay those of the code it began with,
\* and nothing it was exchanged for is accepted any more.  The row is read in one
\* statement and the pair written two statements later.
ChainKeepsItsGrant ==
    \A p \in Pairs : state[p] # "absent" =>
        /\ parent[p] # None
        /\ grant[p] = grant[parent[p]]
        /\ \A c \in Clients : ~Redeemable(parent[p], c)
        /\ parent[p] \in Pairs => ~ValidateOAuthToken(parent[p])

\* Nothing of a deleted account works any more, though requests on its behalf
\* were under way when it was deleted and its owner's session lives on.
DeletedAccountHoldsNothing ==
    \A x \in Credentials :
        grant[x] # None /\ grant[x].account \in deleted => state[x] = "deleted"

\* A credential is exchanged at most once by each request that had read it
\* unspent: the overlap of n requests costs at most n - 1 pairs too many, and one
\* request at a time none.  Retries, failures and revocations in between add none.
ReuseIsBounded ==
    \A x \in Credentials : Cardinality(Children(x)) \leq Cardinality(Slots)

\* What keeps these properties true between the statements of a request:
\* a row has a grant, the locals of a request still name the row it read, the
\* credential it is about to replace is already spent, only rows expire, and rows
\* vanish only with their account.
RowsInStep ==
    /\ \A x \in Credentials :
         /\ grant[x] = None <=> state[x] = "absent"
         /\ state[x] = "deleted" => grant[x].account \in deleted
         /\ x \in expired => state[x] # "absent"
    /\ \A p \in Pairs :
         /\ parent[p] = None <=> state[p] = "absent"
         /\ p \in accessExpired => state[p] # "absent"
         /\ state[p] # "absent" => /\ grant[p] = grant[parent[p]]
                                   /\ state[parent[p]] \in {"used", "deleted"}
RequestsInStep ==
    \A s \in Slots :
        /\ pc[s] # "idle" => cred[s] \in Credentials /\ state[cred[s]] # "absent"
        /\ pc[s] \in {"spend", "create"} => row[s] = grant[cred[s]]
        /\ pc[s] = "create" => state[cred[s]] \in {"used", "deleted"}
\* No request creates two pairs from one credential.
MakersInStep ==
    /\ \A p \in Pairs : parent[p] # None => maker[p] \in Slots
    /\ \A p, q \in Pairs : parent[p] = parent[q] /\ parent[p] # None /\ p # q => maker[p] # maker[q]
    /\ \A s \in Slots, p \in Pairs :
         pc[s] \in {"spend", "create"} /\ parent[p] = cred[s] => maker[p] # s

=============================================================================
