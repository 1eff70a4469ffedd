# Verification of the scemas-platform engine

SCEMAS ingests sensor readings, checks them against threshold rules, raises
alerts, lets operators handle them, and shuts down in stages. The engine is a set
of Rust crates (`crates/`) over one Postgres database; a Next.js dashboard, a Tauri
desktop application and two edge workers (`packages/`) sit around it. This directory
holds TLA+ models of the engine and of the parts around it that keep state, TLC runs
that check them and TLAPS proofs of what matters most. `PROJECT.json` maps every
definition to the lines it stands for.

## 1. Inventory

| component | state | operations | what is hard | what makes it correct |
|---|---|---|---|---|
| Alerts (`scemas-alerting`: controller.rs, blackboard.rs, lifecycle.rs) | tables `alerts`, `audit_logs`, whose columns name `accounts`; `Blackboard.active_alerts` under a tokio `RwLock` | evaluate a reading; acknowledge, resolve, each also in batches | each handler is 3 to 5 awaited statements; the lock is held across some of them; futures are dropped; restart empties the blackboard; the dashboard deletes accounts beside it | the alert state machine; rows, audit log and blackboard agree; handling is never undone; nobody waits forever for the lock |
| Rules (same crate) | table `threshold_rules`, `alerts.rule_id`; `Blackboard.active_rules` | create, edit, (de)activate, delete, load at boot | table first, blackboard later, administrators concurrently; deletion against insertion of alerts | the blackboard tracks the table; alerts keep their rule |
| Evaluator, dispatcher (same crate) | none | match rules, classify, match subscriptions | boundary values, zone filters | the documented predicates |
| Server lifecycle (`scemas-server`: lib.rs, main.rs; `scemas-core`: lifecycle.rs) | phase, drain stage, in-flight count | boot, drain cascade, stop | check-then-count on other threads; timeouts; requests that hang, with the blackboard's lock or a connection | the drain waits for what it says, ends unless a wait without a timeout does not, and loses no counter |
| Ingestion route (routes.rs; `scemas-telemetry`) | in-flight guard, three counters, `sensor_readings` | admit, authorise, validate, persist, evaluate, aggregate, record health | dropped at any await, database failing at any statement | exact in-flight count; counters backed by rows |
| Health and auto-drain (distribution.rs, health.rs) | gate, critical count, latch, `Notify`; `platform_status`, `ingestion_counters` | snapshot, flush, request a drain | compare-exchange gate with roll-back, late judges, dropped futures | spaced snapshots; a drain exactly on sustained failure |
| Aggregation (distribution.rs) | `analytics` | two upserts per reading | rounding, buckets | the stored average is the average |
| Access manager (access.rs) | `accounts`, `devices`, `api_tokens`, sessions | signup, login, device registry, tokens | limits counted apart from inserts; registry sync against edits | limits are exceeded by overlap only; a device's zone is what the rest of the system understands by it |
| OAuth server (dashboard: app/oauth, server/oauth.ts) | `oauth_clients`, `oauth_codes`, `oauth_tokens`, the csrf cookie | register, consent, redeem, refresh, revoke | look up, mark and insert in three statements; failures between them; deletion of the account | a credential never lives twice; a pair carries what was consented to; reuse is bounded |
| Public API (app/api/v1, server/api-auth.ts, rate-limit.ts, handlers/subscriptions.ts) | `api_tokens`, `rate_limit_hits`, `alert_subscriptions` | authenticate, count, record, upsert | count-then-write, fail-open, cleanup, look up then write | limits hold up to the overlap; what was answered is stored |
| Alert queue (alerts-manager.tsx, routers/alerts.ts) | two cached views, the fetch of each, a mutation | page, poll, patch, switch modes | pages are read at different times; fetches and patches overwrite each other; refusals answered as success | no alert twice, none lost, none shown as handled that is not |
| Zone names (regions.rs, build.rs, zones.ts, generate-monitoring-network.ts) | two generated catalogues; zone columns of devices, rules, subscriptions, alerts | resolve, expand, save, list | one list of regions is written into two catalogues of different shape | engine and dashboard mean the same zone by the same name |
| Desktop synchronisation (`scemas-desktop`: sync.rs) | local and remote database, the task's mode and rows | full pass, poll, by timer or by hand | a failing row ends the whole pass; rows are written long after they were read; accounts on both sides, under three unique columns | what can be replicated arrives; closed alerts stay closed |
| Pager (`packages/pager`) | history in memory, sockets, each page's list | webhook, connect, broadcast, reconnect | broadcasts around the connection, lost sockets, hibernation | pages follow the server, in order, without repetition |
| Reports, dashboard read routes, API worker, CLI, user interfaces | little or none | read, forward, display | nothing that lasts | not modelled |

How they interact: routes call the controllers through `Arc`s on tokio's worker
threads; the controllers share the `PgPool`; the ingestion route calls access,
telemetry, alerting and distribution in turn; distribution notifies main.rs, which
runs the drain on the same runtime; the dashboard and the desktop call the routes or
the same controllers. OAuth, rate limit and subscriptions are the dashboard's own
statements on the same database, and so is what it lists. `dispatch_alerts` calls
webhooks, one of which is the pager. Postgres is the only state that survives a
restart.

The hazards found while reading, each at its line and with the properties that
cover it or the reason why none does yet, are under `hazards` in `PROJECT.json`.

## 2. Plan

Order of work: the alert path first, because everything the platform is for passes
through it; then the server's shutdown, where several threads meet timeouts; then
the components around them.

| step | modules | what for | state |
|---|---|---|---|
| 1 | `AlertLifecycle`, `AlertBoard` | the alert state machine and the interleaved handlers compared with it | done, proved |
| 2 | `RuleBoard` | rules, their copy on the blackboard, the alerts that refer to them | done, proved |
| 3 | `ServerLifecycle` | boot, drain cascade, ingestion, counters, restart | done, proved |
| 4 | `AutoDrain`, `AutoDrainHistory` | health snapshots and the drain they request | done, proved |
| 5 | `Grant`, `OAuth` | the credentials of the dashboard's OAuth server, compared with an abstract grant | done, proved |
| 6 | `PublicApi` | API tokens, rate limit, subscriptions | done, proved |
| 7 | `DesktopSync` | two databases, both under `AlertLifecycle`, and the task between them | done; safety proved |
| 8 | `AlertConsole` | the operator's view over `AlertLifecycle` | done, proved |
| 9 | `Pager` | history, broadcast, reconnection | done; safety proved |
| 10 | `ZoneNames` | the two catalogues of zones and all that is saved under their names | done, proved |
| 11 | `Alerting` | `AlertBoard` and `RuleBoard` composed: an evaluation that raises alerts of rules being edited | open |
| 12 | `RuleTable` | an atomic rule table, and what of it `RuleBoard` implements with edits and deletions at once | open |

Abstract specifications: `AlertLifecycle`, which `AlertBoard` follows in every step but
those of a request that another one overtook, and which is the engine in `AlertConsole`
and twice in `DesktopSync`; `Grant`, implemented by `OAuth` with any number of requests.
The runs are bounded to two or three actors per kind everywhere; what depends on more
actors is left to the proofs. Comparison, severity, validation and averages are floating
point arithmetic and stay out (section 8).

## 3. Modules

**`AlertLifecycle`** is `lifecycle.rs` as a specification: rows appear as active and
then follow `can_transition`. **`AlertBoard`** is `AlertingManager` and `Blackboard`
without the rules. State: the columns of `alerts` and the entries of `audit_logs`
that the handlers write (`status`, `acknowledgedBy`, `acknowledgedAt`, `resolvedAt`,
`audit`), the accounts they refer to, the blackboard and its write lock
(`activeAlerts`, `writer`), and per handler the next await and its locals. The history
variable `overtaken` has, for a request that has read its rows, those that another
request wrote since. An action is what runs between two awaits:

| code | actions |
|---|---|
| `evaluate_reading`, `persist_alert`, `dispatch_alerts` | `StartEvaluation`, `PersistAlert`, `PostAlerts`, `DispatchAlerts`, `AbortEvaluation` |
| `transition_alert` | `TransitionSelect`, `TransitionUpdate`, `TransitionPublish`, `TransitionAudit` |
| `batch_transition` | `BatchSelect`, `BatchCommit`, `BatchPublish` |
| an error (`?`), a dropped future, the response, a restart | `AbortRequest`, `Return`, `Restart` |
| `users.delete` of the dashboard | `DeleteAccount` |

Three details carry weight. `transition_alert` keeps the write guard across its audit
INSERT, and `evaluate_reading` across `dispatch_alerts`, which is why `writer` is a
variable. And Postgres' READ COMMITTED re-evaluates only `alerts.id = eligible.id` on
a row that changed while the batch UPDATE waited for it, which is why `BatchCommit`
updates `hit`, the rows selected by the earlier snapshot. And both columns that name an
account are foreign keys with `onDelete: 'set null'` (`schema.ts:113`, `132`):
`DeleteAccount` clears them, whatever is under way, and a statement that names a
deleted account is `Refused`.

**`RuleBoard`** is the other half of `AlertingManager`. State: `threshold_rules`
(`rule`: status and a version for the contents), `alerts.rule_id` (`ruleOf`, `nulled`),
`activeRules`, the lock, the administrators' requests, and the rules an evaluation still
has to raise alerts for. Four history variables record how blackboard and table came
apart: `overtaken`, the requests whose rule another one wrote before they published it;
`missed`, the rules whose last writer ended between table and blackboard; `outrun`,
those that an overtaken request published last; `revived`, those an edit put back
although they are inactive. `Told` and `Settled` are the rules without the first two,
and without the third, of these causes. The foreign key of `alerts.rule_id` is in
`Deletable` and `HasRule`.

**`ServerLifecycle`** is `from_config`, `drain` and `wait_for_inflight` of `lib.rs`,
`LifecycleState` of `lifecycle.rs`, the route `ingest_telemetry` and
`IngestionHealth`. State: the three atomics, the counters, a snapshot being taken by
each caller of `IngestionHealth::snapshot` and how far it got, the request's next
step, the rows and the counters in Postgres; and what the end of the drain waits for,
the blackboard's write lock (`writer`) and the connections that `pool.close()` wants
back (`busy`). An evaluation keeps the lock from `PostAlerts` to `EndEvaluation`
(`controller.rs:102-126`), across the statements of `dispatch_alerts`. The handlers of
the other routes are not counted and appear as one `Operator` that may hold the lock or
a connection. After the final flush come `AlertingManager::shutdown`
(`ReadBlackboard`, `AuditShutdown`) and the closing of the pool (`ClosePool`,
`PoolClosed`). `timedOut`, `flushed` and `late` record
what happened to this drain, so that properties can say when they apply.

**`AutoDrain`** is `record_ingestion_health` and the branch of
`with_graceful_shutdown` that waits for the notification. State: the clock, the gate,
the count, the latch, the `Notify` permit, the readings counted and persisted, the
handlers, and the rows of `platform_status` this process wrote. `dropped` records
that a handler was dropped. **`AutoDrainHistory`** adds the times at which readings
were rejected and accepted, which only the documentation speaks of.

**`OAuth`** is the authorization server of the dashboard: `oauth/register`,
`oauth/authorize` with its decision, `oauth/token`, `oauth/revoke` and `server/oauth.ts`.
State: the rows of `oauth_codes` and `oauth_tokens` as one table of credentials
(`state`, `grant`, `expired`, `accessExpired`), the csrf cookie of a browser, and per
request the row it read. `parent` and `maker` record from which credential and by which
request a pair was created. **`Grant`** is what the server promises: a credential is
live, then spent, lapsed or gone, and a pair is issued only to a request that was
admitted while its credential was live. `Promised == INSTANCE Grant WITH phase <- ...,
admitted <- ...` maps one to the other.

| code | actions |
|---|---|
| `register`, `GET authorize`, `decision`, age of the cookie | `Register`, `Authorize`, `Decide`, `ForgetCookie` |
| `handleAuthorizationCode`, `refreshTokenPair` | `Redeem` (the checks), `SpendCredential`, `CreateTokenPair`, `Abort` |
| `revoke` | `StartRevoke`, `Revoke`, `Abort` |
| expiry, `users.delete` with its cascades | `Expire`, `ExpireAccess`, `DeleteAccount` |

**`PublicApi`** is the versioned interface under `app/api/v1`. State: tokens and their
owners, the hits of the rate limit with those the cleanup deleted, subscriptions as
the call that wrote each column last, and the locals of calls and of token requests.
`CountHits` and `RecordHit` are the two statements of `checkRateLimit`, `Degrade` its
`catch`; `FindSubscription` and `WriteSubscription` those of `upsertSubscription`;
`CountTokens` and `InsertToken` those of `create_api_token`.

**`DesktopSync`** is `sync.rs`: `StartFull`, the stages `PullAccount`, `PullRule`,
`PullAlert`, joined by `NextStage`, and `StartPoll`. A failing row is `EndPass`. Around
the task are the writers of both sides. An account is its id with a profile, email and
username, since all three are unique (`schema.ts:20-22`): accounts are opened on both
sides, each with an id of its own, and changed (`users.updateDetails`) and deleted
remotely. `referred` has the local accounts that a session or an audit row refers to,
whose id can no longer be changed. `Conflicts` is all that the INSERT of `pull_accounts`
can fail on: such an id, a username taken by another account, or an id that is there
with another email. `link` is down while the task is without the remote database, from
a failed statement, a restart or the `http` mode on. `Remote` and `Local` are two instances of
`AlertLifecycle`, over the two `alerts` tables.

**`AlertConsole`** is the alert queue: `alerts.list` with its cursor (`Select`,
`NextCursor`), the two views react-query keeps (`cache`) with their fetches (`Poll`,
`FetchNextPage`, `ReadPage`, `FinishFetch`), the operator (`GoLive`, `Pause`,
`Refresh`, `Mutate`) and the way of a mutation through the dashboard's server to the
engine and back (`Serve`, `Refuse`, `Settle`). The engine is `AlertLifecycle`.

**`Pager`** is `server.ts` and `worker.ts` with the script of `page.ts`: `Webhook` is
one turn of the event loop, `Connect` sends the history, `Deliver` is `onmessage`,
`Disconnect`, `Restart` and `Hibernate` are the faults.

**`ZoneNames`** has no concurrency: it relates two translations of one list. The
operators under "The engine" are `build.rs` and `regions.rs`, those under "The
dashboard" are `zones.ts` and the zone condition of `routers/alerts.ts`; the actions
are what dashboard and engine save under a zone, and `Ingest`, which compares,
evaluates and raises. A rule's zone is resolved twice, by the dashboard and again by
the engine (`RuleZone`, with `Canonical` for `controller.rs:136-138` and `179-181`).
The desktop saves rules through the same `create_rule` and `edit_rule`; what else it
could save is in section 8.

How they are composed: `OAuth` instantiates `Grant`; `AlertBoard` implements
`AlertLifecycle`, and `AlertConsole` and `DesktopSync` build on `AlertLifecycle` in
place of the handlers. The `MC*` modules add symmetry sets and, for `ZoneNames`, a part
of the catalogue. The `*Proofs` modules hold the theorems, two of them about two
components each: `ReplicaProofs` (`DesktopSync` and `Pager`) and `DashboardProofs`
(`ZoneNames` and `AlertConsole`). This is why `Pager` and `AlertConsole` have names of
their own for what is `Init`, `Next`, `Spec` and `TypeOK` elsewhere (`PagerInit`,
`QueueInit`, ...). Definitions whose names
continue another one (`Publish_Adds`, `TookGate_Always`, `Show_Merges`, ...) are changed
forms of it that no specification uses: each breaks a property, and so shows that the
property depends on the code.

## 4. Runs

| run | asks | bounds and why they are enough | states |
|---|---|---|---|
| `alerts_race` | do row, audit log and blackboard agree under any interleaving? is handling permanent? who leaves the lifecycle? | one alert, two operators who may lose their accounts, two requests, one evaluation: each conflict is between two handlers on one row; batches that mix eligible and other rows, and more actors, are left to the theorems | 318 k |
| `alerts_live` | is every request answered, does every evaluation end? | two requests and one evaluation compete for the lock, so that one waits while the others pass it on | 51 k |
| `rules` | does the blackboard follow the table? do alerts keep their rule? | two administrators, who overtake each other, on two rules with two contents; one evaluation that raises an alert while deletions are open | 1.62 M |
| `drain` | is the in-flight count exact, do counters survive, does the drain end? | two requests (one late, one counted; or one that holds the lock and one that waits for it), a hard timeout after one poll in place of 600, one crash or restart | 454 k |
| `autodrain` | are snapshots spaced, drains justified, failures free, signals delivered? | two handlers, interval of 2 seconds, 2 critical snapshots, so that gate, give-back and latch are all raced for; one restart | 191 k |
| `oauth` | is the abstract grant implemented, do chains keep their grant, is reuse bounded, does a deleted account hold nothing? | two clients, one account, one code, three pairs, two requests: one pair from the code, one from its rotation, and one from the overlap | 287 k |
| `publicapi` | are both limits exceeded by overlap only? is an answered write stored? | limits of one, two overlapping calls and two token requests, two columns; window and retention of zero ticks while the clock makes one, so that hits leave the window and are deleted | 974 k |
| `console` | are pages disjoint, is anything missed, is a view ahead of the table? | two alerts on pages of one, two stamps that may be equal, two clicks; both modes and every mutation | 1.16 M |
| `sync` | do rules and alerts arrive, does a late write reopen an alert? | one account of each side, three profiles of which two share an email and two a username, so that each of the three conflicts occurs and goes away; a rule with two contents, one alert, one change of these on the desktop; the link fails any number of times | 789 k |
| `sync_stuck` | do rules arrive as long as the remote database is reachable? | as `sync` | finding |
| `pager` | does each page show the server's history, in order and once? do events get there? | two pages, a history of two events, four events and three faults: the history overflows, a socket is lost with messages in it, a server forgets | 30 k |
| `zones` | do engine and dashboard agree whom an alert concerns and where it is listed? | three regions, a ward of two and a ward of one, a legacy id, an unknown id; sensors inside and outside the catalogue; two alerts | 55 k |

Eight further configurations show disagreements with the documentation that section 7
describes; each ends with a counterexample: `tlc -config alerts_lifecycle_race.cfg
MCAlertBoard`, `rules_ghost.cfg` and `rules_inactive.cfg` with `MCRuleBoard`,
`drain_quiesce.cfg` and `drain_hung.cfg` with `MCServerLifecycle`, `autodrain_lost.cfg`
with `MCAutoDrain`, `autodrain_cumulative.cfg` and `autodrain_silent.cfg` with
`AutoDrainHistory`.

Bounds in the modules: `MaxVersion` (`RuleBoard`, `DesktopSync`), `PollLimit`,
`MaxRestarts` (`ServerLifecycle`), `MaxTime`, `MaxReadings`, `MaxRestarts`
(`AutoDrain`), `MaxTime`, `MaxHits` (`PublicApi`), `MaxLocal` (`DesktopSync`),
`MaxStamp`, `MaxClicks` (`AlertConsole`), `MaxPosted`, `MaxOutages` (`Pager`),
`MaxDevices`, `MaxRules`, `MaxAlerts` (`ZoneNames`). Symmetry is used only in runs
without liveness properties.

Deadlock is checked in all runs but those of `AutoDrain`, `Pager` and `AlertConsole`,
where the model ends because what is bounded runs out. A stopped server
that nobody restarts is an explicit stutter (`Exited`). The runs of `Pager` and
`AlertConsole` check the types as well; those of all modules with a specification of
their own are proved (section 6).

## 5. Fairness

- `AlertBoard`: a handler whose statement or lock is available is polled (tokio:
  weak fairness on every step of a running handler). The blackboard's `RwLock` is
  fair by its documentation, it queues waiters first in, first out, so the steps that
  take the lock are strongly fair. A statement that a foreign key refuses fails
  (`AbortRefused`). Nothing makes operators send requests, other statements fail,
  handlers be dropped or accounts be deleted.
- `ServerLifecycle`: only the drain's own task (`DrainStep`) is weakly fair, and its
  turn at the blackboard's lock strongly (first in, first out, as above). No statement
  is assumed to be answered, so requests may hang for good, with the lock or a
  connection, and the drain's own two statements (`DrainStatement`) as well. Three waits
  of the drain have no timeout: for these two, for the lock, and for the connections.
  `DrainTerminates` says that nothing else can keep it: the drain ends unless, from some
  time on, it is in one of them (`Blocked`).
- `AutoDrain`: handlers and the task that waits for the notification are weakly fair.
  Time and clients are not.
- `DesktopSync`: a pass that is under way goes on (weak fairness on writing a row and
  on the next stage). One task serves two timers with `tokio::select!`, so that a full
  pass is possible again and again but not all the time: `StartFull` is strongly fair.
  Nothing makes either side's users act, or the link fail or come back; rules and alerts
  need arrive only if it is not down again and again.
- `Pager`: the timer that `onclose` sets fires, and an open socket delivers what was
  sent (weak fairness on both, for each page). `MaxOutages` makes the faults finite.
- `OAuth`, `PublicApi`, `AlertConsole` and `ZoneNames` state no liveness: their
  requests may be given up at any point, and no loop of theirs must end.

## 6. Proofs

All theorems (42 of them, 5233 proof obligations with their lemmas) hold for every value of the
constants; the assumptions are those the
modules declare (`ActorsAssumption`, `UsersAssumption`, `RulesAssumption`,
`LifecycleAssumption`, `AutoDrainAssumption`, `CredentialsAssumption`,
`SlotsAssumption`, `IdentifiersAssumption`, `LimitsAssumption`, `RetentionAssumption`,
`RowsAssumption`, `BoundsAssumption`, `CatalogueAssumption`, `HistoryAssumption`,
`QueueAssumption`): identifiers of different kinds differ, bounds are numbers, concurrent
requests are finitely many, a hit that may be deleted no longer counts (`RETENTION` is
five minutes, `WINDOW` one), the alerts of a queue are finitely many and at least one,
and the catalogue is one the generator writes.

**`AlertBoardProofs`.** `RowsTellTheirHistory`, `AuditIsBacked`, `SuccessIsAudited`
and `BoardIsPersisted` are not inductive: each depends on what a handler remembers
from before its last await. `HandlersInStep` says that for every step of every
handler (the rows a request moves exist and, once moved, carry the column it wrote;
the alerts of an evaluation are in the table exactly if it inserted them; no two
evaluations share an alert). `IInv` is all five with the types and is kept by each
action, `DeleteAccount` included: it clears names, not times (`DeletionKeepsRows`), and
it clears them on both sides of what the invariants relate. From `IInv` follow the four
invariants and `HandlingIsPermanent` as a property of every step: `AccountWriters` says
that a name disappears from an alert by another name or with its account.

`OvertakenAloneLeaveLifecycle` is about any number of requests at once. What a request
read of a row is still true when it writes, unless `overtaken` has the row
(`ReadsAreFresh`, kept by every step: `ReadsStayFresh`); so each step changes a status
as `lifecycle.rs` allows, but for those rows. `alerts_lifecycle_race` shows that the
exception is real.

**`RuleBoardProofs`.** `AlertsKeepTheirRule` for any number of administrators: a
deletion has collected alerts of its own rule only, and the foreign key makes sure it
has collected all of them. `BoardTracksRules` for any number of administrators
too: what a request is about to publish is right for the row unless another has
overtaken it, and of the requests about to publish one rule at most one was not
overtaken (`PublishersInStep`), so that the last writer of a rule, and no other, takes
it out of `missed` and `outrun`. `rules_ghost` and `rules_inactive` show that `outrun`
and `revived` are needed.

**`ServerLifecycleProofs`.** `InflightIsExact` together with the types, since the
count could otherwise wrap. `AcceptedIsStored` through a sharper bound: the counters,
every snapshot under way and the row in Postgres are bounded by the readings whose
request is past the increment or gone (`Counted`). The two theorems about the drain
come from one invariant, `DrainInv`: once draining, nobody is admitted; at the end of
the waits nobody is left but late requests; and if there is none, what the final
snapshot has read is still what the counters hold.

**`AutoDrainProofs`.** The gate: a handler that holds it, or still may take it, is
`Apart` from every snapshot and every other holder, that is, each of them is at most
the time it found the gate at, or an interval later than its own. This is kept when a
gate is given back, because compare-exchange gives it back only to the handler whose
time is still in it. `JudgeInv`: each written row is judged at most once, so the
count is at most the number of judged critical rows.

**`OAuthProofs`.** Three named parts carry the induction. `RowsInStep`: a pair's
parent is spent or gone and has its grant. `RequestsInStep`: what a request remembers is
still the grant of the row it read, and before it inserts that row is spent.
`MakersInStep`: no request makes two pairs of one credential, so that the makers of a
credential's children are different requests and there are at most as many children as
requests. The refinement needs the first two: `Issue` asks for a spent credential, which
the code never looks at again.

**`PublicApiProofs`.** Both limits count rows together with the requests that will
still write. When one passes its check, its rows are below the limit and the others that
may still write are all but itself. `InStep` adds that deleted hits are outside the
window and that rows are finite. `AnsweredPutIsStored` rests on its last part: a row that
was found stays until its account goes.

**`ReplicaProofs`.** *Desktop.* `NeverReopened` rests on `RowsInOrder`: an alert the
desktop has not handled itself and shows as handled is handled in the remote table too,
and in whatever row was read and not written yet. The last part holds because one task
makes polls and full passes one after the other: no row is older than the last one
written.

*Pager.* Any number of pages, events and faults, any length of the history.
`ViewFollowsServer` says that a page which has read its socket empty shows the server's
history on top; this holds only then, so the induction is about what is in the socket.
`SocketInOrder`: these are the latest broadcasts, without a gap, behind at most one
history. If the history is there (`Replay`), it continues the broadcasts downwards, far
enough for all that the server holds, and the page may show anything, because the history
replaces it; if not (`Continued`), it is what the page shows that does. A webhook puts
one broadcast behind all this and one event on top of the history, `onmessage` takes one
away at the front, and a page that reconnects starts again from a history, or shows what
it did if the server holds nothing. The server forgets its history while sockets stay
open, and the page never cuts its list, so nothing is said of what is shown below the
length of the history but that it is older. `NothingShownTwice` follows: what is shown is always
`Descending`.

**`DashboardProofs`.** *Zones.* `Resolved` says that what the tables hold is already
resolved, an alert by the engine and a subscription by the dashboard. The lemmas show
that both resolve every id to the same regions (`SameIds`), though one catalogue writes a
ward of a single region as an alias and the other as a group, for every catalogue that
`CatalogueAssumption` admits.

*Alert queue.* Any number of alerts, any length of a page, with stamps that may be equal.
The table moves while pages are read, so an alert may be raised, handled or patched
between two pages of one fetch, and `ViewInOrder` has to hold of the view on screen and
of the one being fetched:

- `Below`: a page and its cursor lie below the cursors of the pages before it, since the
  query asks for older alerts only. Stamps never change (`Aged`), so pages read at
  different times are disjoint: `PagesAreDisjoint`.
- `Covering`: an alert that was open when the fetch began, and still is, is shown, or was
  taken out by a refused batch, or shares its stamp with the row a cursor was made from,
  or is behind the last cursor. When no cursor is left, this is `NothingElseIsMissed`.
- `Placed` and `CallInOrder`: what a view shows as acknowledged is at least that in the
  table, and what was answered "ok" is done. A patch is made of an answer only, and the
  one answer that stands for a refusal, that of a batch, takes rows out of the view
  instead of marking them: `ViewIsNeverAhead`.
- `Paged`: a cursor is the stamp of an alert with another one behind it. Cursors
  decrease, so this maps the pages of a view one to one into the alerts
  (`PagesAreFew`): a view has at most as many pages as there are alerts, which is what
  bounds the pages a refetch still has to read (part of `QueueTypeOK`).

Only model-checked: `DrainTerminates`, `RequestsAreAnswered`, `EvaluationsEnd`,
`ConnectedDrainTakesPlace`, `RulesArrive`, `AlertsArrive` and `EventsReachViewers`, since
liveness under fairness is out of TLAPS' reach. Every other property of a run that ends
without a counterexample is stated by a theorem. No module with theorems has recursion
over data.

## 7. Findings

1. **One account on both sides ends the replication** (`sync.rs:158`, `sync_stuck`):
   `pull_accounts` changes the id of a local account to the remote one, which the
   session written at signup forbids through its foreign key. The pass ends there, and
   so does every later one, before rules, alerts and analytics. `auth_signup` and the
   default accounts create exactly such accounts. Two more rows fail the same way, outside
   the `ON CONFLICT (email)`: a username that another local account has (`schema.ts:22`),
   and, after the email of a copied account was changed remotely (`users.ts:91-125`), the
   account's own id. `docs/architecture.md:332` says "a
   background sync service replicates data from the remote database". `RulesArrive` and
   `AlertsArrive` state what remains true, with these cases named (`Diverged`).

Divergences from the documentation that the other configurations of section 4 show:

2. **Check-then-update of alerts** (`controller.rs:375`, `alerts_lifecycle_race.cfg`): two
   concurrent requests take an alert from resolved to acknowledged. The documentation
   says "only valid transitions are allowed" (`docs/patterns.md:167`). What stays true
   is proved: nobody else leaves the lifecycle (`OnlyOvertakenLeaveLifecycle`), no row,
   audit entry or blackboard entry is left without its cause, and no alert becomes active
   again.
3. **An edited rule returns from deletion** (`controller.rs:195`, `rules_ghost.cfg`): the
   edit publishes after the deletion did. Until the next restart the rule fires and
   each alert it raises fails on the foreign key, which ends the evaluation of the
   reading and loses the alerts of other rules as well.
4. **An edited inactive rule fires** (`controller.rs:195`, `rules_inactive.cfg`): no race
   is needed; `edit_rule` publishes whatever the status is, against "evaluate a
   reading against all active rules" (`evaluator.rs:14`).
5. **A late request outlives the drain** (`routes.rs:261`, `drain_quiesce.cfg`): the phase
   is read before the request is counted, against "each stage waits for the previous
   subsystem to quiesce before proceeding" (`lib.rs:118`).
6. **A drain that hangs** (`controller.rs:62`, `lib.rs:163`, `171`, `drain_hung.cfg`): the
   two waits for the in-flight count have a "hard timeout: 30 seconds [...] drain timeout
   reached, forcing shutdown" (`lib.rs:187-191`), but what follows has none. A request
   that hangs in `dispatch_alerts` holds the write lock that
   `AlertingManager::shutdown` asks for; `pool.close()` waits for the connections of
   all that hang; and the drain's own statements may hang.
7. **A lost drain** (`distribution.rs:175`, `autodrain_lost.cfg`): the latch is set, the
   handler is dropped at the audit INSERT, and no later handler signals.
8. **The error rate is over all time** (`distribution.rs:135`,
   `autodrain_cumulative.cfg`): a drain is requested long after the failures ended, and
   each restart restores the totals.
9. **Silence while everything fails** (`routes.rs:286`, `autodrain_silent.cfg`): rejected
   readings take no snapshot, so total failure never requests a drain. 7 to 9 are read
   against `docs/patterns.md:261`.

What is plain from the code and needs no run: the drain stage for operator views waits
for the same telemetry count as the stage before it, since no other route is counted
(`docs/patterns.md:219-230` describes three quiescent subsystems); the deduplication of
alerts of `docs/patterns.md:147` does not exist; nothing writes to `sync_queue`, so that
`push_queued` has nothing to push, and the http mode of `sync.rs` asks the engine for a
path it does not serve; a remote rule that is deleted stays on the desktop; a batch the
engine refuses is answered `{resolved: 0}`, and the alert queue then drops its alerts
until it is read again (`hidden` in `AlertConsole`); alerts of one millisecond on the
edge of a page are skipped (`NothingElseIsMissed` names both); a device that is moved to
a zone its id does not stand for has its readings refused until the next boot undoes the
move; a device registered under a ward of a single region keeps the ward's id, while its
readings carry the region it is an alias of (`regions.rs:15-25`), so that they are
always refused; the deletion of an account leaves its acknowledgements and audit rows
without a name (`schema.ts:113`, `132`); the alias of `ward_14` is kept by hand in two
places (`zones.ts:58` and `generate-monitoring-network.ts:478`).

## 8. Abstractions and what is not modelled

- Identifiers, timestamps, messages and contents of rules are reduced to what the
  properties tell apart. Which rules a reading breaks is a free choice in `AlertBoard`
  and `RuleBoard`, and whether it is valid one in `ServerLifecycle`; so the models allow
  every outcome the predicates could give. `ZoneNames` models the zone part of them.
- A statement takes effect at once or not at all; a client that is dropped while its
  statement is on the wire is the same as one dropped just before or just after it. A
  transaction takes effect at its commit.
- `load_rules` silently skips a row it cannot convert; `Restart` loads all rules or
  none, so this case is left out: rows are written only from values that convert. The
  audit rows of rule changes and of `AlertingManager::shutdown` are not kept.
- The deletion of an account is an action where a row, a credential or a column refers to
  it: `AlertBoard`, `OAuth`, `PublicApi`, `DesktopSync` (the remote side; the desktop has
  no command for it). In `RuleBoard` an audit INSERT that names a deleted account is one
  that fails, as it may for any reason. Accounts opened later have ids of their own.
- `ServerLifecycle` has one `Operator` for all handlers of other routes: the waits at the
  end of the drain do not tell them apart.
- The webhook calls of `dispatch_alerts` are spawned and never looked at again; `Pager`
  takes them as events that arrive in some order.
- Two processes on one database are not modelled: blackboard and counters assume one.
- `OAuth`: a client stands for its id, redirect URI, scope and PKCE verifier, since a
  wrong one of these refuses a request in the same place. Expiry is a set, so that any
  two credentials may expire in any order.
- `PublicApi`: the router's count of tokens precedes the engine's and only refuses more;
  it is left out, as are scopes, which restrict what a token may call.
- `DesktopSync`: analytics are copied without a constraint that could fail. Audit rows
  and sessions appear as what refers to an account, and passwords and roles, which have
  no constraint, not at all. In `http` mode nothing arrives, so it is a link that is down.
- `AutoDrain`: `DrainNeedsCriticalSnapshots` counts the critical snapshots of a process;
  that the count starts again after a healthy one is in `JudgeHealthy`, but no property
  would miss it. `ConnectedDrainTakesPlace` excuses a dropped handler, which
  `autodrain_lost.cfg` shows to lose the drain.
- `AlertConsole`: one mutation at a time; sorting and download of what is shown, the
  separate count of alerts and the removal of a view that was long out of sight are left
  out.
- `Pager`: how a row is drawn and where (rows that overlap for a moment) is left out.
- `ZoneNames`: rules of one zone are one rule, as they match alike. Geometry, display
  names and everything else the generator writes are data. The desktop's command
  `subscriptions_update` (`commands/local.rs:320`, `queries/subscriptions.rs:26-52`) saves
  zones as they are given, into the database the desktop uses. It is left out, as no page
  calls it: the button of `packages/desktop/src/pages/subscriptions.tsx` has no handler.
  On a database shared with the dashboard it could save a ward of two regions, which
  `NormalizeZoneIds` never leaves in a subscription; the dashboard would then list the
  alerts that kept the ward's id, and the engine would not notify the subscriber of them.
  Its command for devices saves the
  zone as given too, which only refuses more readings.

Not modelled:

- Floating point: aggregation (two upserts that Postgres serialises by row), the three
  telemetry filters, comparison and severity. TLC and TLAPS have no such numbers, and the
  state the results go to is modelled without them.
- Password hashing, JWT signing, PKCE digests: cryptography.
- Parts without lasting state: API worker, command line client, the MCP endpoint (tools
  that read for a token `ValidateOAuthToken` accepts), the dashboard's read routes,
  `reports.ts` (single statements without a condition between them).
- User interfaces. Most of the TypeScript is presentation: pages, maps, charts, vendored
  parts. The one page with state worth a model is the alert queue. This is why the
  mapped lines are a small part of the TypeScript, while the engine's crates are mapped
  nearly handler by handler.
