----------------------------- MODULE AlertBoard -----------------------------
(***************************************************************************)
(* The alerts half of AlertingManager (crates/scemas-alerting): table      *)
(* `alerts` in Postgres, its in-memory copy Blackboard.active_alerts, the  *)
(* tokio RwLock around the blackboard, and the handlers that use both.     *)
(*                                                                         *)
(* Every .await of a handler is a point where another handler may run, so  *)
(* each handler is cut into one action per statement it awaits:            *)
(*   evaluate_reading   StartEvaluation, PersistAlert*, PostAlerts,        *)
(*                      DispatchAlerts                                     *)
(*   transition_alert   TransitionSelect, TransitionUpdate,                *)
(*                      TransitionPublish, TransitionAudit                 *)
(*   batch_transition   BatchSelect, BatchCommit, BatchPublish             *)
(* A handler ends early when a statement fails (`?`) or when its future is *)
(* dropped at an .await; the process may restart between any two steps.    *)
(* Beside the engine, the dashboard deletes accounts from the same         *)
(* database (users.delete), and the foreign keys that name an account are  *)
(* set to NULL by it: DeleteAccount.                                       *)
(*                                                                         *)
(* Abstractions.  Which rules a reading breaks is left open here: an       *)
(* evaluation raises any set of fresh alerts (RuleBoard models the rules). *)
(* Timestamps are reduced to "is set"; the audit log is a set of entries;  *)
(* the transaction of batch_transition takes effect at its commit, the row *)
(* locks it holds keeping its rows from changing between UPDATE and COMMIT.*)
(* Accounts made later get identifiers of their own: Users are those that  *)
(* exist at the start, and a deleted one never comes back.                 *)
(***************************************************************************)
EXTENDS FiniteSets

CONSTANTS
    Alerts,         \* alert identifiers an evaluation may draw (Uuid::new_v4)
    Users,          \* operators' account identifiers
    Requests,       \* slots for concurrent operator requests
    Ingests,        \* slots for concurrent evaluations of readings
    NoUser,         \* NULL in the columns acknowledged_by and user_id
    Free            \* the write lock has no owner

ASSUME ActorsAssumption ==
    /\ Free \notin Requests \cup Ingests
    /\ Requests \cap Ingests = {}
ASSUME UsersAssumption == NoUser \notin Users

VARIABLES
    status,         \* alerts.status
    acknowledgedBy, \* alerts.acknowledged_by
    acknowledgedAt, \* the alerts whose column acknowledged_at is not NULL
    resolvedAt,     \* the alerts whose column resolved_at is not NULL
    audit,          \* audit_logs rows about alerts
    accounts,       \* the operators that have a row in table accounts
    activeAlerts,   \* Blackboard.active_alerts, "absent" for a missing key
    writer,         \* who holds the blackboard's write lock
    pc, op,         \* an operator request: its next step, its locals
    overtaken,      \* history: the rows another request wrote since it read them
    ipc, raised,    \* an evaluation: its next step, the alerts it created,
    saved           \* and those of them already inserted

rows  == <<status, acknowledgedBy, acknowledgedAt, resolvedAt>>
db    == <<rows, audit, accounts>>
board == <<activeAlerts, writer>>
reqs  == <<pc, op, overtaken>>
evals == <<ipc, raised, saved>>
vars  == <<db, board, reqs, evals>>

Lifecycle == INSTANCE AlertLifecycle

AuditAction(next) ==
    IF next = "resolved" THEN "alert.resolved" ELSE "alert.acknowledged"
AuditEntry ==
    [action : {"alert.resolved", "alert.acknowledged", "alert.dispatched"},
     alert : Alerts, user : Users \cup {NoUser}]

Op == [ids : SUBSET Alerts, hit : SUBSET Alerts,
       next : Lifecycle!Targets, user : Users \cup {NoUser}]
NoOp == [ids |-> {}, hit |-> {}, next |-> "resolved", user |-> NoUser]

InFlight == {"update", "publish", "audit", "batch", "batchPublish"}
Reading  == {"update", "batch"}  \* it has read its rows and not yet written them

TypeOK ==
    /\ status \in [Alerts -> Lifecycle!Status]
    /\ acknowledgedBy \in [Alerts -> Users \cup {NoUser}]
    /\ acknowledgedAt \subseteq Alerts
    /\ resolvedAt \subseteq Alerts
    /\ audit \subseteq AuditEntry
    /\ accounts \subseteq Users
    /\ activeAlerts \in [Alerts -> Lifecycle!Status]
    /\ writer \in Requests \cup Ingests \cup {Free}
    /\ pc \in [Requests -> InFlight \cup {"idle", "ok", "error"}]
    /\ op \in [Requests -> Op]
    /\ overtaken \in [Requests -> SUBSET Alerts]
    /\ ipc \in [Ingests -> {"idle", "persist", "post", "dispatch"}]
    /\ raised \in [Ingests -> SUBSET Alerts]
    /\ saved \in [Ingests -> SUBSET Alerts]

Init ==
    /\ status = [a \in Alerts |-> "absent"]
    /\ acknowledgedBy = [a \in Alerts |-> NoUser]
    /\ acknowledgedAt = {}
    /\ resolvedAt = {}
    /\ audit = {}
    /\ accounts = Users
    /\ activeAlerts = [a \in Alerts |-> "absent"]
    /\ writer = Free
    /\ pc = [r \in Requests |-> "idle"]
    /\ op = [r \in Requests |-> NoOp]
    /\ overtaken = [r \in Requests |-> {}]
    /\ ipc = [i \in Ingests |-> "idle"]
    /\ raised = [i \in Ingests |-> {}]
    /\ saved = [i \in Ingests |-> {}]

-----------------------------------------------------------------------------
(* evaluate_reading *)

FreshAlerts == {a \in Alerts : status[a] = "absent" /\ \A i \in Ingests : a \notin raised[i]}

\* The rules are cloned under the read lock and evaluated.  (A reading that
\* breaks no rule changes nothing and is left out.)
StartEvaluation(i) ==
    /\ ipc[i] = "idle"
    /\ writer = Free
    /\ \E new \in SUBSET FreshAlerts \ {{}} : raised' = [raised EXCEPT ![i] = new]
    /\ ipc' = [ipc EXCEPT ![i] = "persist"]
    /\ UNCHANGED <<saved, db, board, reqs>>

\* persist_alert, one alert at a time.
PersistAlert(i) ==
    /\ ipc[i] = "persist"
    /\ \E a \in raised[i] \ saved[i] :
         /\ status' = [status EXCEPT ![a] = "active"]
         /\ saved' = [saved EXCEPT ![i] = @ \cup {a}]
         /\ ipc' = [ipc EXCEPT ![i] = IF raised[i] \subseteq saved[i] \cup {a}
                                        THEN "post" ELSE "persist"]
    /\ UNCHANGED <<acknowledgedBy, acknowledgedAt, resolvedAt, audit, accounts,
                   raised, board, reqs>>

\* The write lock is taken here and kept until the handler returns.
PostAlerts(i) ==
    /\ ipc[i] = "post"
    /\ writer = Free
    /\ writer' = i
    /\ activeAlerts' = [a \in Alerts |-> IF a \in raised[i] THEN "active" ELSE activeAlerts[a]]
    /\ ipc' = [ipc EXCEPT ![i] = "dispatch"]
    /\ UNCHANGED <<raised, saved, db, reqs>>

EndEvaluation(i) ==
    /\ ipc' = [ipc EXCEPT ![i] = "idle"]
    /\ raised' = [raised EXCEPT ![i] = {}]
    /\ saved' = [saved EXCEPT ![i] = {}]

\* dispatch_alerts: audit rows for the alerts that have subscribers, who are named
\* in the details only.  A failing insert is skipped (.ok()), and so is everything
\* when the subscriptions cannot be read.
DispatchAlerts(i) ==
    /\ ipc[i] = "dispatch"
    /\ \E sent \in SUBSET raised[i] :
         audit' = audit \cup
            {[action |-> "alert.dispatched", alert |-> a, user |-> NoUser] : a \in sent}
    /\ writer' = Free
    /\ EndEvaluation(i)
    /\ UNCHANGED <<rows, accounts, activeAlerts, reqs>>

Release_Leaks(x) == writer' = writer
Release(x) == writer' = IF writer = x THEN Free ELSE writer

\* persist_alert failed, or the ingest handler's future was dropped.
AbortEvaluation(i) ==
    /\ ipc[i] # "idle"
    /\ EndEvaluation(i)
    /\ Release(i)
    /\ UNCHANGED <<activeAlerts, db, reqs>>

-----------------------------------------------------------------------------
(* What the UPDATEs and the audit INSERTs of the two kinds of transition share. *)

\* status and the two times of the rows an UPDATE hits.  A time is never cleared,
\* whichever of the two UPDATEs overwrites it or keeps the first.
SetStatus_ClearsResolution(o) ==
    /\ status' = [a \in Alerts |-> IF a \in o.hit THEN o.next ELSE status[a]]
    /\ acknowledgedAt' = IF o.next = "acknowledged" THEN acknowledgedAt \cup o.hit
                                                    ELSE acknowledgedAt
    /\ resolvedAt' = IF o.next = "resolved" THEN resolvedAt \cup o.hit ELSE resolvedAt \ o.hit
SetStatus(o) ==
    /\ status' = [a \in Alerts |-> IF a \in o.hit THEN o.next ELSE status[a]]
    /\ acknowledgedAt' = IF o.next = "acknowledged" THEN acknowledgedAt \cup o.hit
                                                    ELSE acknowledgedAt
    /\ resolvedAt' = IF o.next = "resolved" THEN resolvedAt \cup o.hit ELSE resolvedAt

AuditRows(next, user, alerts) ==
    {[action |-> AuditAction(next), alert |-> a, user |-> user] : a \in alerts}

\* The foreign keys acknowledged_by and user_id refuse the account o.user: it was
\* deleted after the request named it (nobody checks it before the statement does).
Refused(r) ==
    /\ op[r].user \notin accounts
    /\ \/ pc[r] = "update" /\ op[r].next = "acknowledged"
       \/ pc[r] = "batch" /\ op[r].hit # {}
       \/ pc[r] = "audit"

\* r writes its rows now: the others that read them before are overtaken there.
Overtake(r) ==
    overtaken' = [q \in Requests |->
        IF q = r THEN {}
        ELSE IF pc[q] \in Reading THEN overtaken[q] \cup (op[q].hit \cap op[r].hit)
        ELSE overtaken[q]]

-----------------------------------------------------------------------------
(* transition_alert *)

Accept(r, step, o) ==
    /\ pc[r] = "idle"
    /\ pc' = [pc EXCEPT ![r] = step]
    /\ op' = [op EXCEPT ![r] = o]
    /\ UNCHANGED <<overtaken, db, board, evals>>

\* SELECT status and can_transition; an unknown alert or an invalid transition
\* is answered with an error and changes nothing.
TransitionSelect(r) ==
    \E a \in Alerts, next \in Lifecycle!Targets, u \in Users :
        /\ Lifecycle!CanTransition(status[a], next)
        /\ Accept(r, "update", [ids |-> {a}, hit |-> {a}, next |-> next, user |-> u])

\* The UPDATE names the row by id only: the status it was checked against is
\* not part of the WHERE clause.
TransitionUpdate(r) ==
    /\ pc[r] = "update"
    /\ ~Refused(r)
    /\ LET o == op[r] IN
         /\ SetStatus(o)
         /\ acknowledgedBy' = [a \in Alerts |->
                IF a \in o.hit /\ o.next = "acknowledged" THEN o.user ELSE acknowledgedBy[a]]
    /\ pc' = [pc EXCEPT ![r] = "publish"]
    /\ Overtake(r)
    /\ UNCHANGED <<audit, accounts, op, board, evals>>

\* `if let Some(alert) = blackboard.get_alert(id)`: an alert that is not on the
\* blackboard is not added to it.
Publish_Adds(ids, next) ==
    activeAlerts' = [a \in Alerts |-> IF a \in ids THEN next ELSE activeAlerts[a]]
Publish(ids, next) ==
    activeAlerts' = [a \in Alerts |-> IF a \in ids /\ activeAlerts[a] # "absent"
                                        THEN next ELSE activeAlerts[a]]

TransitionPublish(r) ==
    /\ pc[r] = "publish"
    /\ writer = Free
    /\ writer' = r
    /\ Publish(op[r].ids, op[r].next)
    /\ pc' = [pc EXCEPT ![r] = "audit"]
    /\ UNCHANGED <<op, overtaken, db, evals>>

\* The audit row is written while the write lock is still held.
TransitionAudit(r) ==
    /\ pc[r] = "audit"
    /\ ~Refused(r)
    /\ audit' = audit \cup AuditRows(op[r].next, op[r].user, op[r].ids)
    /\ writer' = Free
    /\ pc' = [pc EXCEPT ![r] = "ok"]
    /\ UNCHANGED <<rows, accounts, activeAlerts, op, overtaken, evals>>

-----------------------------------------------------------------------------
(* batch_transition *)

ValidSources_Reopens(next) ==
    IF next = "resolved" THEN {"active", "acknowledged"} ELSE {"active", "resolved"}
ValidSources(next) ==
    IF next = "resolved" THEN {"active", "acknowledged"} ELSE {"active"}

\* The snapshot on which the CTE `eligible` selects the rows to update.
BatchSelect(r) ==
    \E ids \in SUBSET Alerts \ {{}}, next \in Lifecycle!Targets, u \in Users :
        Accept(r, "batch", [ids |-> ids, next |-> next, user |-> u,
                            hit |-> {a \in ids : status[a] \in ValidSources(next)}])

\* The first acknowledgement wins: COALESCE(acknowledged_by, ...).
BatchAcknowledgedBy_Swapped(o) ==
    [a \in Alerts |->
        IF a \in o.hit /\ o.next = "resolved" /\ acknowledgedBy[a] = NoUser
          THEN o.user ELSE acknowledgedBy[a]]
BatchAcknowledgedBy(o) ==
    [a \in Alerts |->
        IF a \in o.hit /\ o.next = "acknowledged" /\ acknowledgedBy[a] = NoUser
          THEN o.user ELSE acknowledgedBy[a]]

\* The rows the audit INSERT selects, after the UPDATE: every listed alert that
\* now has the target status, whether this request moved it or another did.
BatchAudited_BeforeUpdate(o) == {a \in o.ids : status[a] = o.next}
BatchAudited(o) == {a \in o.ids : status'[a] = o.next}

\* UPDATE ... FROM eligible, the audit INSERT ... SELECT and COMMIT.  A row that
\* changed since the snapshot is updated all the same: under READ COMMITTED only
\* alerts.id = eligible.id is evaluated again on the new version of the row.
BatchCommit(r) ==
    /\ pc[r] = "batch"
    /\ ~Refused(r)
    /\ LET o == op[r] IN
         /\ SetStatus(o)
         /\ acknowledgedBy' = BatchAcknowledgedBy(o)
         /\ audit' = IF o.hit = {} THEN audit
                     ELSE audit \cup AuditRows(o.next, o.user, BatchAudited(o))
    /\ pc' = [pc EXCEPT ![r] = "batchPublish"]
    /\ Overtake(r)
    /\ UNCHANGED <<accounts, op, board, evals>>

\* Every id of the request is published, also those that were not eligible.
BatchPublish(r) ==
    /\ pc[r] = "batchPublish"
    /\ writer = Free
    /\ Publish(op[r].ids, op[r].next)
    /\ pc' = [pc EXCEPT ![r] = "ok"]
    /\ UNCHANGED <<writer, op, overtaken, db, evals>>

-----------------------------------------------------------------------------
\* A statement failed (the transaction, if any, is rolled back), or the request's
\* future was dropped at an .await; a lock guard is dropped with it.
AbortRequest(r) ==
    /\ pc[r] \in InFlight
    /\ pc' = [pc EXCEPT ![r] = "error"]
    /\ op' = [op EXCEPT ![r] = NoOp]
    /\ overtaken' = [overtaken EXCEPT ![r] = {}]
    /\ Release(r)
    /\ UNCHANGED <<activeAlerts, db, evals>>

\* The failure that is certain, a foreign key's.
AbortRefused(r) == Refused(r) /\ AbortRequest(r)

\* The response was sent.
Return(r) ==
    /\ pc[r] \in {"ok", "error"}
    /\ pc' = [pc EXCEPT ![r] = "idle"]
    /\ op' = [op EXCEPT ![r] = NoOp]
    /\ UNCHANGED <<overtaken, db, board, evals>>

\* users.delete of the dashboard: one DELETE, and by `onDelete: 'set null'` the
\* account disappears from the alerts it acknowledged and from its audit rows.
DeleteAccount(u) ==
    /\ u \in accounts
    /\ accounts' = accounts \ {u}
    /\ acknowledgedBy' = [a \in Alerts |->
            IF acknowledgedBy[a] = u THEN NoUser ELSE acknowledgedBy[a]]
    /\ audit' = {[e EXCEPT !.user = IF @ = u THEN NoUser ELSE @] : e \in audit}
    /\ UNCHANGED <<status, acknowledgedAt, resolvedAt, board, reqs, evals>>

\* The process stops and starts again: AlertingManager::new builds an empty
\* blackboard, and load_rules brings back rules only, never alerts.
Restart ==
    /\ activeAlerts' = [a \in Alerts |-> "absent"]
    /\ writer' = Free
    /\ pc' = [r \in Requests |-> "idle"]
    /\ op' = [r \in Requests |-> NoOp]
    /\ overtaken' = [r \in Requests |-> {}]
    /\ ipc' = [i \in Ingests |-> "idle"]
    /\ raised' = [i \in Ingests |-> {}]
    /\ saved' = [i \in Ingests |-> {}]
    /\ UNCHANGED db

Evaluate(i) ==
    \/ StartEvaluation(i) \/ PersistAlert(i) \/ PostAlerts(i) \/ DispatchAlerts(i)
    \/ AbortEvaluation(i)

Operate(r) ==
    \/ TransitionSelect(r) \/ TransitionUpdate(r) \/ TransitionPublish(r) \/ TransitionAudit(r)
    \/ BatchSelect(r) \/ BatchCommit(r) \/ BatchPublish(r)
    \/ AbortRequest(r) \/ Return(r)

Next ==
    \/ \E i \in Ingests : Evaluate(i)
    \/ \E r \in Requests : Operate(r)
    \/ \E u \in Users : DeleteAccount(u)
    \/ Restart

Spec == Init /\ [][Next]_vars

\* A handler that can proceed is polled by the tokio runtime (weak fairness); the
\* RwLock queues its waiters first in, first out, so a handler that waits for it
\* is served although the lock is taken and freed meanwhile (strong fairness).
Fairness ==
    /\ \A i \in Ingests :
         WF_vars(PersistAlert(i)) /\ SF_vars(PostAlerts(i)) /\ WF_vars(DispatchAlerts(i))
    /\ \A r \in Requests :
         /\ WF_vars(TransitionUpdate(r)) /\ SF_vars(TransitionPublish(r))
         /\ WF_vars(TransitionAudit(r))
         /\ WF_vars(BatchCommit(r)) /\ SF_vars(BatchPublish(r))
         /\ WF_vars(AbortRefused(r))

FairSpec == Spec /\ Fairness

-----------------------------------------------------------------------------
(* Properties *)

\* Whatever the interleaving, a row tells how it got its status: an acknowledged
\* alert has its acknowledgement time and a resolved one its resolution time, and
\* whoever acknowledged is named as long as he has an account.  The columns are
\* written by two differently shaped UPDATEs (transition_alert, batch_transition),
\* on rows that may have changed since they were read, and cleared by the
\* deletion of an account.
RowsTellTheirHistory ==
    \A a \in Alerts :
        /\ status[a] = "acknowledged" => a \in acknowledgedAt
        /\ status[a] = "resolved" => a \in resolvedAt
        /\ acknowledgedBy[a] \in accounts \cup {NoUser}
        /\ a \in acknowledgedAt /\ acknowledgedBy[a] = NoUser => accounts # Users

\* No entry of the audit log speaks of something that never happened to the
\* alert: a resolution without resolved_at, an acknowledgement without
\* acknowledged_at, a notification of an alert that is not in the table.  Nor does
\* an operator's action lose its operator but by the deletion of an account.
AuditIsBacked ==
    \A e \in audit :
        /\ e.action = "alert.resolved" => e.alert \in resolvedAt
        /\ e.action = "alert.acknowledged" => e.alert \in acknowledgedAt
        /\ status[e.alert] # "absent"
        /\ e.user \in accounts \cup {NoUser}
        /\ e.action # "alert.dispatched" /\ e.user = NoUser => accounts # Users

\* What user_id holds for an action of u: NULL once the account is deleted.
Named(u) == IF u \in accounts THEN u ELSE NoUser

\* A request is answered with success only when each row it moved is accounted
\* for in the audit log under the operator who asked.
SuccessIsAudited ==
    \A r \in Requests : pc[r] = "ok" =>
        AuditRows(op[r].next, Named(op[r].user), op[r].hit) \subseteq audit

\* The blackboard never holds an alert that Postgres does not: rows are inserted
\* before they are posted, and operators publish only what is already there.
BoardIsPersisted == \A a \in Alerts : activeAlerts[a] # "absent" => status[a] # "absent"

\* The locals of every handler keep meaning what they meant when they were read,
\* across all its .awaits: the alerts an evaluation has inserted are in the table
\* and the others are not, no two evaluations share an alert, the rows a request
\* moves exist, and once it moved them they carry the column it wrote.  (With
\* TypeOK and the four invariants above, this is inductive.)
EvaluationsInStep ==
    /\ \A i \in Ingests :
         /\ saved[i] \subseteq raised[i]
         /\ ipc[i] = "idle" => raised[i] = {}
         /\ ipc[i] \in {"post", "dispatch"} => raised[i] = saved[i]
         /\ \A a \in raised[i] : status[a] = "absent" <=> a \notin saved[i]
         /\ ipc[i] = "dispatch" => writer = i
    /\ \A i, j \in Ingests : i # j => raised[i] \cap raised[j] = {}
RequestsInStep ==
    \A r \in Requests :
        /\ op[r].hit \subseteq op[r].ids
        /\ pc[r] \in InFlight => op[r].user \in Users
        /\ \A a \in op[r].hit : status[a] # "absent"
        /\ pc[r] \in {"update", "publish", "audit"} => op[r].ids = op[r].hit
        /\ pc[r] \in {"publish", "audit"} =>
             \A a \in op[r].hit : IF op[r].next = "resolved" THEN a \in resolvedAt
                                                             ELSE a \in acknowledgedAt
        /\ pc[r] = "batchPublish" =>
             AuditRows(op[r].next, Named(op[r].user), op[r].hit) \subseteq audit
        /\ pc[r] = "audit" => writer = r
HandlersInStep == EvaluationsInStep /\ RequestsInStep

\* What an operator did to an alert cannot be undone by anyone who raced with
\* him, nor by a restart: a handled alert is never active again, neither time of
\* its handling is ever cleared, and the operator who acknowledged it may be
\* replaced by another but disappears only with his account.
HandlingIsPermanent ==
    [][ \A a \in Alerts :
          /\ status[a] \in Lifecycle!Targets => status'[a] \in Lifecycle!Targets
          /\ a \in acknowledgedAt => a \in acknowledgedAt'
          /\ a \in resolvedAt => a \in resolvedAt'
          /\ acknowledgedBy'[a] = NoUser => acknowledgedBy[a] \notin accounts' ]_vars

\* What a step may do to an alert by lifecycle.rs.
LifecycleStep(a) ==
    \/ status'[a] = status[a]
    \/ status[a] = "absent" /\ status'[a] = "active"
    \/ Lifecycle!CanTransition(status[a], status'[a])

\* Any number of operators may act at once, and the check of a request may be
\* stale when it writes: but the only steps that leave the lifecycle are those of
\* a request, to a row that another request wrote since this one read it.  Neither
\* evaluations, nor failures, restarts or account deletions add another way.
OnlyOvertakenLeaveLifecycle ==
    [][ \A a \in Alerts : LifecycleStep(a) \/ \E r \in Requests : a \in overtaken[r] /\ pc'[r] # pc[r]
      ]_vars

\* lifecycle.rs as a whole, with no exception for stale checks: the abstract
\* specification that one operator at a time would implement and two break.
FollowsLifecycle == Lifecycle!Spec

\* Every request is answered and every evaluation ends: nobody waits forever for
\* the write lock, which two of the handlers hold across database calls.
RequestsAreAnswered == \A r \in Requests : (pc[r] \in InFlight) ~> (pc[r] \notin InFlight)
EvaluationsEnd == \A i \in Ingests : (ipc[i] # "idle") ~> (ipc[i] = "idle")

=============================================================================
