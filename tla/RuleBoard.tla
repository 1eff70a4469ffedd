------------------------------ MODULE RuleBoard ------------------------------
(***************************************************************************)
(* The rules half of AlertingManager (crates/scemas-alerting): the table   *)
(* `threshold_rules`, its in-memory copy Blackboard.active_rules, and the  *)
(* column alerts.rule_id that refers to it.                                *)
(*                                                                         *)
(* Every handler writes the table first and the blackboard after, in two   *)
(* separate steps with other handlers between them:                        *)
(*   create_rule, edit_rule, update_rule_status   CreateRule, EditRule,    *)
(*                                  UpdateRuleStatus, then Publish, Audit  *)
(*   delete_rule         BeginDelete, CommitDelete | RollBackDelete, then  *)
(*                                                         Publish, Audit  *)
(*   evaluate_reading    StartEvaluation, PersistAlert*                    *)
(* A handler may end after any step; the process may restart at any time.  *)
(*                                                                         *)
(* Abstractions.  The contents of a rule are a version number.  Which of   *)
(* the rules on the blackboard a reading breaks is left open.  What happens*)
(* to an alert after its INSERT is in AlertBoard, and so is the time an    *)
(* evaluation holds the write lock.  The deletion of an administrator's    *)
(* account makes statements that name it fail, as any other reason may.    *)
(*                                                                         *)
(* Four history variables record how blackboard and table may have come    *)
(* apart (overtaken, missed, outrun, revived): no action depends on them.  *)
(***************************************************************************)
EXTENDS Integers, FiniteSets

CONSTANTS
    Rules,          \* rule identifiers (never reused)
    Alerts,         \* alert identifiers
    Admins,         \* slots for concurrent requests of administrators
    Ingests,        \* slots for concurrent evaluations of readings
    MaxVersion,     \* bound on the versions of a rule
    NoRule,         \* the alert does not exist yet
    Free            \* the write lock has no owner

ASSUME RulesAssumption ==
    /\ NoRule \notin Rules
    /\ Free \notin Admins
    /\ MaxVersion \in Nat \ {0}

VARIABLES
    rule,           \* threshold_rules: status and version
    ruleOf,         \* the rule an alert was raised for
    nulled,         \* the alerts whose column rule_id is NULL
    activeRules,    \* Blackboard.active_rules: the version it holds, 0 for none
    writer,         \* who holds the blackboard's write lock
    pc, op,         \* a request: its next step, its locals
    todo,           \* an evaluation: the broken rules without an alert yet
    overtaken,      \* history: requests whose rule another one wrote before they published
    missed,         \* history: rules whose last writer ended without publishing
    outrun,         \* history: rules that an overtaken request published last
    revived         \* history: rules last published by an edit although inactive

db    == <<rule, ruleOf, nulled>>
board == <<activeRules, writer, missed, outrun, revived>>
reqs  == <<pc, op, overtaken>>
vars  == <<db, board, reqs, todo>>

Versions == 1 .. MaxVersion
Row == [status : {"active", "inactive"}, version : Versions]
       \cup [status : {"unused", "deleted"}, version : {0}]
Unused  == [status |-> "unused", version |-> 0]
Deleted == [status |-> "deleted", version |-> 0]
InTable(r) == rule[r].version > 0

Op == [kind : {"upsert", "status", "delete"}, rule : Rules \cup {NoRule},
       entry : 0 .. MaxVersion, revives : BOOLEAN, alerts : SUBSET Alerts]
NoOp == [kind |-> "upsert", rule |-> NoRule, entry |-> 0, revives |-> FALSE, alerts |-> {}]

TypeOK ==
    /\ rule \in [Rules -> Row]
    /\ ruleOf \in [Alerts -> Rules \cup {NoRule}]
    /\ nulled \subseteq Alerts
    /\ activeRules \in [Rules -> 0 .. MaxVersion]
    /\ writer \in Admins \cup {Free}
    /\ pc \in [Admins -> {"idle", "delete", "publish", "audit"}]
    /\ op \in [Admins -> Op]
    /\ todo \in [Ingests -> SUBSET Rules]
    /\ overtaken \subseteq Admins
    /\ missed \subseteq Rules /\ outrun \subseteq Rules /\ revived \subseteq Rules

Init ==
    /\ rule = [r \in Rules |-> Unused]
    /\ ruleOf = [a \in Alerts |-> NoRule] /\ nulled = {}
    /\ activeRules = [r \in Rules |-> 0]
    /\ writer = Free
    /\ missed = {} /\ outrun = {} /\ revived = {}
    /\ pc = [x \in Admins |-> "idle"] /\ op = [x \in Admins |-> NoOp]
    /\ overtaken = {}
    /\ todo = [i \in Ingests |-> {}]

-----------------------------------------------------------------------------
(* The statements on threshold_rules.  One that fails changes nothing. *)

\* x writes rule r now: the others that wrote it and have not published are
\* overtaken.
Overtake(x, r) ==
    overtaken' = overtaken \cup {y \in Admins \ {x} : pc[y] = "publish" /\ op[y].rule = r}

\* The row as it is now, and what the handler read back (RETURNING) to publish.
\* `status` is set where the handler looks at the status before it publishes.
Write(x, kind, r, row, entry) ==
    /\ pc[x] = "idle"
    /\ rule' = [rule EXCEPT ![r] = row]
    /\ op' = [op EXCEPT ![x] = [kind |-> kind, rule |-> r, entry |-> entry, alerts |-> {},
                                revives |-> kind = "upsert" /\ row.status = "inactive"]]
    /\ pc' = [pc EXCEPT ![x] = "publish"]
    /\ Overtake(x, r)
    /\ UNCHANGED <<ruleOf, nulled, board, todo>>

CreateRule(x) == \E r \in Rules :
    /\ rule[r] = Unused
    /\ Write(x, "upsert", r, [status |-> "active", version |-> 1], 1)

\* Published whatever its status is.
Returned(r) == rule[r].version + 1
EditRule(x) == \E r \in Rules :
    /\ rule[r].version \in 1 .. MaxVersion - 1
    /\ Write(x, "upsert", r, [rule[r] EXCEPT !.version = @ + 1], Returned(r))

StatusEntry_AnyStatus(r, status) == rule[r].version
StatusEntry(r, status) == IF status = "active" THEN rule[r].version ELSE 0
UpdateRuleStatus(x) == \E r \in Rules, status \in {"active", "inactive"} :
    /\ InTable(r)
    /\ Write(x, "status", r, [rule[r] EXCEPT !.status = status], StatusEntry(r, status))

\* The transaction of delete_rule: the references that its UPDATE clears ...
References(r) == {a \in Alerts \ nulled : ruleOf[a] = r}
BeginDelete(x) == \E r \in Rules :
    /\ pc[x] = "idle"
    /\ rule[r] # Unused      \* its identifier cannot be known before
    /\ op' = [op EXCEPT ![x] = [kind |-> "delete", rule |-> r, entry |-> 0, revives |-> FALSE,
                                alerts |-> References(r)]]
    /\ pc' = [pc EXCEPT ![x] = "delete"]
    /\ UNCHANGED <<overtaken, db, board, todo>>

\* ... and the DELETE, which the foreign key refuses if an alert was inserted for
\* the rule in between.
Deletable(o) == InTable(o.rule) /\ References(o.rule) \subseteq o.alerts
CommitDelete(x) ==
    /\ pc[x] = "delete"
    /\ Deletable(op[x])
    /\ nulled' = nulled \cup op[x].alerts
    /\ rule' = [rule EXCEPT ![op[x].rule] = Deleted]
    /\ pc' = [pc EXCEPT ![x] = "publish"]
    /\ Overtake(x, op[x].rule)
    /\ UNCHANGED <<ruleOf, board, op, todo>>

Finish(x) == pc' = [pc EXCEPT ![x] = "idle"] /\ op' = [op EXCEPT ![x] = NoOp]

\* Also when the rule is not found, or a statement fails.
RollBackDelete(x) ==
    /\ pc[x] = "delete"
    /\ Finish(x)
    /\ UNCHANGED <<overtaken, db, board, todo>>

-----------------------------------------------------------------------------
(* The blackboard and the audit log. *)

\* upsert_rule or remove_rule.  Only update_rule_status keeps the write lock
\* while it writes its audit row.
Entry(o) == o.entry
Publish(x) ==
    /\ pc[x] = "publish"
    /\ writer = Free
    /\ activeRules' = [activeRules EXCEPT ![op[x].rule] = Entry(op[x])]
    /\ writer' = IF op[x].kind = "status" THEN x ELSE Free
    /\ pc' = [pc EXCEPT ![x] = "audit"]
    /\ IF x \in overtaken
         THEN outrun' = outrun \cup {op[x].rule} /\ missed' = missed
         ELSE outrun' = outrun \ {op[x].rule} /\ missed' = missed \ {op[x].rule}
    /\ overtaken' = overtaken \ {x}
    /\ revived' = IF op[x].revives THEN revived \cup {op[x].rule} ELSE revived \ {op[x].rule}
    /\ UNCHANGED <<op, db, todo>>

Release(x) == writer' = IF writer = x THEN Free ELSE writer

\* The audit row is written, or fails: the request ends either way.
Audit(x) ==
    /\ pc[x] = "audit"
    /\ Release(x)
    /\ Finish(x)
    /\ UNCHANGED <<activeRules, missed, outrun, revived, overtaken, db, todo>>

\* The row was changed but the request's future was dropped (or the row could
\* not be converted back) before the blackboard was.
Abort(x) ==
    /\ pc[x] = "publish"
    /\ missed' = IF x \in overtaken THEN missed ELSE missed \cup {op[x].rule}
    /\ overtaken' = overtaken \ {x}
    /\ Finish(x)
    /\ UNCHANGED <<activeRules, writer, outrun, revived, db, todo>>

-----------------------------------------------------------------------------
(* evaluate_reading *)

\* The rules are cloned under the read lock; the reading breaks some of them.
StartEvaluation(i) ==
    /\ todo[i] = {}
    /\ writer = Free
    /\ \E broken \in SUBSET {r \in Rules : activeRules[r] > 0} \ {{}} :
         todo' = [todo EXCEPT ![i] = broken]
    /\ UNCHANGED <<db, board, reqs>>

\* The INSERT of an alert fails on the foreign key when its rule is gone.
HasRule_Unchecked(r) == r \in Rules
HasRule(r) == InTable(r)
PersistAlert(i) == \E r \in todo[i], a \in Alerts :
    /\ HasRule(r)
    /\ ruleOf[a] = NoRule
    /\ ruleOf' = [ruleOf EXCEPT ![a] = r]
    /\ todo' = [todo EXCEPT ![i] = @ \ {r}]
    /\ UNCHANGED <<rule, nulled, board, reqs>>

\* An INSERT failed, or the handler was dropped: the other broken rules get no
\* alert either.
AbortEvaluation(i) ==
    /\ todo[i] # {}
    /\ todo' = [todo EXCEPT ![i] = {}]
    /\ UNCHANGED <<db, board, reqs>>

-----------------------------------------------------------------------------
\* AlertingManager::new and load_rules.  If the rules cannot be read, a warning
\* is logged and the process serves without any.
LoadedRules == [r \in Rules |-> IF rule[r].status = "active" THEN rule[r].version ELSE 0]
Restart ==
    /\ \/ activeRules' = LoadedRules /\ missed' = {}
       \/ activeRules' = [r \in Rules |-> 0] /\ missed' = Rules
    /\ outrun' = {} /\ revived' = {}
    /\ writer' = Free
    /\ pc' = [x \in Admins |-> "idle"] /\ op' = [x \in Admins |-> NoOp]
    /\ overtaken' = {}
    /\ todo' = [i \in Ingests |-> {}]
    /\ UNCHANGED db

Administer(x) ==
    \/ CreateRule(x) \/ EditRule(x) \/ UpdateRuleStatus(x)
    \/ BeginDelete(x) \/ CommitDelete(x) \/ RollBackDelete(x)
    \/ Publish(x) \/ Audit(x) \/ Abort(x)

Evaluate(i) == StartEvaluation(i) \/ PersistAlert(i) \/ AbortEvaluation(i)

Next ==
    \/ \E x \in Admins : Administer(x)
    \/ \E i \in Ingests : Evaluate(i)
    \/ Restart

Spec == Init /\ [][Next]_vars

-----------------------------------------------------------------------------
(* Properties *)

\* An alert loses its rule when, and only when, the rule is deleted: no alert
\* refers to a rule that is gone, and no deletion that failed took the rule from
\* an alert, although alerts are inserted while the deletion is under way.
AlertsKeepTheirRule ==
    \A a \in Alerts : ruleOf[a] # NoRule =>
        (a \in nulled <=> rule[ruleOf[a]] = Deleted)

\* The rules whose last writer has published ...
Told == {r \in Rules \ missed :
            \A x \in Admins \ overtaken : pc[x] = "publish" => op[x].rule # r}

\* ... and was not overwritten by an earlier one.
Settled == Told \ outrun

\* Any number of administrators write table and blackboard in two steps each, in
\* whatever order, and may fail between them.  The blackboard is wrong about a
\* rule in three ways only: while its last writer has yet to publish or never
\* will, after an earlier writer published later, and for an inactive rule that
\* an edit put back.  For every other rule it holds the current version of the
\* row if it is active, and nothing if it is not, or is deleted.
BoardTracksRules ==
    \A r \in Settled :
        activeRules[r] = IF rule[r].status = "active" \/ r \in revived
                           THEN rule[r].version ELSE 0

\* blackboard.rs:180-181, "Removing a rule from the blackboard stops the
\* evaluator from firing it": a deleted rule is not on the blackboard once its
\* deletion was published.
DeletedRulesAreGone ==
    \A r \in Told : rule[r] = Deleted => activeRules[r] = 0

\* evaluator.rs:14, "evaluate a reading against all active rules": a rule that is
\* not active is not on the blackboard, although nobody overtook anybody.
OnlyActiveRulesAreEvaluated ==
    \A r \in Settled : rule[r].status = "inactive" => activeRules[r] = 0

=============================================================================
