-------------------------- MODULE AlertBoardProofs --------------------------
(***************************************************************************)
(* Theorems about AlertBoard, for every set of alerts, operators, requests *)
(* and evaluations.                                                        *)
(***************************************************************************)
EXTENDS AlertBoard, TLAPS

\* The audit rows of a request are well-formed entries.
LEMMA AuditRowsType ==
    ASSUME NEW o \in Op, NEW alerts \in SUBSET Alerts
    PROVE  AuditRows(o.next, o.user, alerts) \subseteq AuditEntry
  BY DEF AuditRows, AuditEntry, AuditAction, Op, Lifecycle!Targets

\* A row written for one that exists keeps naming him, or nobody, when an account
\* is deleted; and no other row is added or lost.
LEMMA DeletionKeepsRows ==
    ASSUME TypeOK, NEW u \in Users, DeleteAccount(u)
    PROVE  /\ audit' \subseteq AuditEntry
           /\ \A e \in audit' : \E d \in audit :
                /\ e.action = d.action /\ e.alert = d.alert
                /\ e.user = IF d.user = u THEN NoUser ELSE d.user
           /\ \A next, w, alerts :
                AuditRows(next, Named(w), alerts) \subseteq audit
                  => AuditRows(next, Named(w)', alerts) \subseteq audit'
<1> DEFINE cleared(e) == [e EXCEPT !.user = IF @ = u THEN NoUser ELSE @]
<1>1. audit' = {cleared(e) : e \in audit} /\ audit \subseteq AuditEntry
      /\ accounts' = accounts \ {u} /\ u \in accounts
  BY DEF DeleteAccount, TypeOK
<1>2. \A e \in audit :
        /\ cleared(e) \in AuditEntry
        /\ cleared(e).action = e.action /\ cleared(e).alert = e.alert
        /\ cleared(e).user = IF e.user = u THEN NoUser ELSE e.user
  BY <1>1 DEF AuditEntry
<1>3. ASSUME NEW next, NEW w, NEW alerts,
             AuditRows(next, Named(w), alerts) \subseteq audit,
             NEW a \in alerts
      PROVE  [action |-> AuditAction(next), alert |-> a, user |-> Named(w)'] \in audit'
  <2> DEFINE d == [action |-> AuditAction(next), alert |-> a, user |-> Named(w)]
  <2>1. d \in audit
    BY <1>3 DEF AuditRows
  <2>2. cleared(d) = [action |-> AuditAction(next), alert |-> a,
                      user |-> IF Named(w) = u THEN NoUser ELSE Named(w)]
    OBVIOUS
  <2>3. Named(w)' = IF Named(w) = u THEN NoUser ELSE Named(w)
    BY <1>1, UsersAssumption DEF Named
  <2> QED
    BY <1>1, <2>1, <2>2, <2>3
<1>4. \A next, w, alerts :
        AuditRows(next, Named(w), alerts) \subseteq audit
          => AuditRows(next, Named(w)', alerts) \subseteq audit'
  BY <1>3 DEF AuditRows
<1>5. audit' \subseteq AuditEntry
  BY <1>1, <1>2
<1>6. ASSUME NEW e \in audit'
      PROVE  \E d \in audit :
                /\ e.action = d.action /\ e.alert = d.alert
                /\ e.user = IF d.user = u THEN NoUser ELSE d.user
  <2>1. PICK d \in audit : e = cleared(d)
    BY <1>1
  <2> HIDE DEF cleared
  <2> QED
    BY <1>2, <2>1
<1> QED
  BY <1>4, <1>5, <1>6

\* Every variable keeps its type whatever handler runs next.
LEMMA TypeCorrect == Spec => []TypeOK
<1> USE DEF Lifecycle!Status, Lifecycle!Targets, InFlight, AuditAction
<1>1. Init => TypeOK
  BY DEF Init, TypeOK, Op, NoOp
<1>2. TypeOK /\ [Next]_vars => TypeOK'
  <2> SUFFICES ASSUME TypeOK, [Next]_vars
               PROVE  TypeOK'
    OBVIOUS
  <2> USE DEF TypeOK, rows, db, board, reqs, evals
  <2>1. ASSUME NEW i \in Ingests, StartEvaluation(i)
        PROVE  TypeOK'
    BY <2>1 DEF StartEvaluation, FreshAlerts
  <2>2. ASSUME NEW i \in Ingests, PersistAlert(i)
        PROVE  TypeOK'
    BY <2>2 DEF PersistAlert
  <2>3. ASSUME NEW i \in Ingests, PostAlerts(i)
        PROVE  TypeOK'
    BY <2>3 DEF PostAlerts
  <2>4. ASSUME NEW i \in Ingests, DispatchAlerts(i)
        PROVE  TypeOK'
    <3>1. audit' \subseteq AuditEntry
      BY <2>4 DEF DispatchAlerts, AuditEntry
    <3>2. QED
      BY <2>4, <3>1 DEF DispatchAlerts, EndEvaluation
  <2>5. ASSUME NEW i \in Ingests, AbortEvaluation(i)
        PROVE  TypeOK'
    BY <2>5 DEF AbortEvaluation, EndEvaluation, Release
  <2>6. ASSUME NEW r \in Requests, TransitionSelect(r)
        PROVE  TypeOK'
    BY <2>6 DEF TransitionSelect, Accept, Op
  <2>7. ASSUME NEW r \in Requests, TransitionUpdate(r)
        PROVE  TypeOK'
    <3> op[r] \in Op
      OBVIOUS
    <3> QED
      BY <2>7 DEF TransitionUpdate, SetStatus, Overtake, Op
  <2>8. ASSUME NEW r \in Requests, TransitionPublish(r)
        PROVE  TypeOK'
    <3> op[r] \in Op
      OBVIOUS
    <3> QED
      BY <2>8 DEF TransitionPublish, Publish, Op
  <2>9. ASSUME NEW r \in Requests, TransitionAudit(r)
        PROVE  TypeOK'
    <3>1. op[r] \in Op /\ op[r].ids \in SUBSET Alerts
      BY DEF Op
    <3>2. audit' \subseteq AuditEntry
      BY <2>9, <3>1, AuditRowsType DEF TransitionAudit
    <3> QED
      BY <2>9, <3>2 DEF TransitionAudit
  <2>10. ASSUME NEW r \in Requests, BatchSelect(r)
         PROVE  TypeOK'
    BY <2>10 DEF BatchSelect, Accept, Op
  <2>11. ASSUME NEW r \in Requests, BatchCommit(r)
         PROVE  TypeOK'
    <3>1. op[r] \in Op /\ BatchAudited(op[r]) \in SUBSET Alerts
      BY DEF Op, BatchAudited
    <3>2. audit' \subseteq AuditEntry
      BY <2>11, <3>1, AuditRowsType DEF BatchCommit
    <3>3. status' \in [Alerts -> Lifecycle!Status]
          /\ acknowledgedAt' \subseteq Alerts /\ resolvedAt' \subseteq Alerts
      BY <2>11, <3>1 DEF BatchCommit, SetStatus, Op
    <3>4. acknowledgedBy' \in [Alerts -> Users \cup {NoUser}]
      BY <2>11, <3>1 DEF BatchCommit, BatchAcknowledgedBy, Op
    <3> QED
      BY <2>11, <3>2, <3>3, <3>4 DEF BatchCommit, Overtake, Op
  <2>12. ASSUME NEW r \in Requests, BatchPublish(r)
         PROVE  TypeOK'
    BY <2>12 DEF BatchPublish, Publish, Op
  <2>13. ASSUME NEW r \in Requests, AbortRequest(r)
         PROVE  TypeOK'
    BY <2>13 DEF AbortRequest, Release, Op, NoOp
  <2>14. ASSUME NEW r \in Requests, Return(r)
         PROVE  TypeOK'
    BY <2>14 DEF Return, Op, NoOp
  <2>15. CASE Restart
    BY <2>15 DEF Restart, Op, NoOp
  <2>16. ASSUME NEW u \in Users, DeleteAccount(u)
         PROVE  TypeOK'
    BY <2>16, DeletionKeepsRows DEF DeleteAccount
  <2>17. CASE UNCHANGED vars
    BY <2>17 DEF vars
  <2> QED
    BY <2>1, <2>2, <2>3, <2>4, <2>5, <2>6, <2>7, <2>8, <2>9, <2>10, <2>11, <2>12,
       <2>13, <2>14, <2>15, <2>16, <2>17 DEF Next, Evaluate, Operate
<1>3. QED
  BY <1>1, <1>2, PTL DEF Spec

\* The inductive invariant: what the runs check as invariants, together with
\* what the locals of the handlers that are still running say about the tables.
IInv ==
    /\ TypeOK
    /\ RowsTellTheirHistory
    /\ AuditIsBacked
    /\ SuccessIsAudited
    /\ BoardIsPersisted
    /\ HandlersInStep

\* What no step takes away from an alert.
HandlingKept ==
    \A a \in Alerts :
        /\ status[a] \in Lifecycle!Targets => status'[a] \in Lifecycle!Targets
        /\ a \in acknowledgedAt => a \in acknowledgedAt'
        /\ a \in resolvedAt => a \in resolvedAt'
        /\ acknowledgedBy'[a] = NoUser => acknowledgedBy[a] \notin accounts'
        /\ status[a] # "absent" => status'[a] # "absent"

\* Only three statements of the engine write to the alert table, and beside them
\* the deletion of an account.
LEMMA AlertWriters ==
    ASSUME [Next]_vars
    PROVE  \/ UNCHANGED rows
           \/ \E i \in Ingests : PersistAlert(i)
           \/ \E r \in Requests : TransitionUpdate(r) \/ BatchCommit(r)
           \/ \E u \in Users : DeleteAccount(u)
<1> USE DEF rows, db
<1>1. ASSUME NEW i \in Ingests, Evaluate(i)
      PROVE  PersistAlert(i) \/ UNCHANGED rows
  BY <1>1 DEF Evaluate, StartEvaluation, PostAlerts, DispatchAlerts, AbortEvaluation
<1>2. ASSUME NEW r \in Requests, Operate(r)
      PROVE  TransitionUpdate(r) \/ BatchCommit(r) \/ UNCHANGED rows
  <2>1. CASE TransitionSelect(r)
    BY <2>1 DEF TransitionSelect, Accept
  <2>2. CASE BatchSelect(r)
    BY <2>2 DEF BatchSelect, Accept
  <2>3. CASE TransitionPublish(r) \/ TransitionAudit(r) \/ BatchPublish(r)
    BY <2>3 DEF TransitionPublish, TransitionAudit, BatchPublish
  <2>4. CASE AbortRequest(r) \/ Return(r)
    BY <2>4 DEF AbortRequest, Return
  <2> QED
    BY <1>2, <2>1, <2>2, <2>3, <2>4 DEF Operate
<1>3. CASE Restart
  BY <1>3 DEF Restart
<1>4. CASE UNCHANGED vars
  BY <1>4 DEF vars
<1> QED
  BY <1>1, <1>2, <1>3, <1>4 DEF Next

\* Only the deletion of an account changes table accounts.
LEMMA AccountWriters ==
    ASSUME [Next]_vars
    PROVE  UNCHANGED accounts \/ \E u \in Users : DeleteAccount(u)
<1> USE DEF rows, db
<1>1. ASSUME NEW i \in Ingests, Evaluate(i)
      PROVE  UNCHANGED accounts
  BY <1>1 DEF Evaluate, StartEvaluation, PersistAlert, PostAlerts, DispatchAlerts,
              AbortEvaluation
<1>2. ASSUME NEW r \in Requests, Operate(r)
      PROVE  UNCHANGED accounts
  BY <1>2 DEF Operate, TransitionSelect, BatchSelect, Accept, TransitionUpdate,
       TransitionPublish, TransitionAudit, BatchCommit, BatchPublish, AbortRequest, Return
<1> QED
  BY <1>1, <1>2 DEF Next, Restart, vars

\* No handler undoes what was done to an alert: an evaluation inserts only alerts
\* that were not in the table, and both UPDATEs set what they do not keep.  An
\* operator is removed from an alert with his account only.
LEMMA HandlingIsKept ==
    ASSUME IInv, [Next]_vars
    PROVE  HandlingKept
<1> USE DEF IInv, HandlersInStep, TypeOK, HandlingKept, InFlight, Lifecycle!Targets,
            rows, db, board, reqs, evals
<1>1. ASSUME NEW i \in Ingests, PersistAlert(i)
      PROVE  HandlingKept
  BY <1>1, UsersAssumption DEF PersistAlert, EvaluationsInStep
<1>2. ASSUME NEW r \in Requests, TransitionUpdate(r)
      PROVE  HandlingKept
  <2>1. op[r] \in Op
    OBVIOUS
  <2> QED
    BY <1>2, <2>1, UsersAssumption DEF TransitionUpdate, SetStatus, RequestsInStep, Op
<1>3. ASSUME NEW r \in Requests, BatchCommit(r)
      PROVE  HandlingKept
  BY <1>3, UsersAssumption DEF BatchCommit, SetStatus, BatchAcknowledgedBy, RequestsInStep, Op
<1>4. ASSUME NEW u \in Users, DeleteAccount(u)
      PROVE  HandlingKept
  BY <1>4, UsersAssumption DEF DeleteAccount
<1>5. CASE UNCHANGED rows /\ UNCHANGED accounts
  BY <1>5, UsersAssumption
<1> QED
  BY <1>1, <1>2, <1>3, <1>4, <1>5, AlertWriters, AccountWriters

\* One step of any handler keeps the inductive invariant.
LEMMA StepKeepsIInv ==
    ASSUME IInv, [Next]_vars, TypeOK'
    PROVE  IInv'
<1> USE ActorsAssumption, UsersAssumption
    DEF IInv, HandlersInStep, TypeOK, InFlight, Named, Lifecycle!Targets,
        rows, db, board, reqs, evals
<1>0. HandlingKept
  BY HandlingIsKept DEF IInv
<1>1. ASSUME NEW i \in Ingests, StartEvaluation(i)
      PROVE  IInv'
  <2>1. RowsTellTheirHistory' /\ AuditIsBacked' /\ SuccessIsAudited'
        /\ BoardIsPersisted' /\ RequestsInStep'
    BY <1>1 DEF StartEvaluation, RowsTellTheirHistory, AuditIsBacked, SuccessIsAudited,
         BoardIsPersisted, RequestsInStep
  <2>2. EvaluationsInStep'
    BY <1>1 DEF StartEvaluation, EvaluationsInStep, FreshAlerts
  <2> QED
    BY <2>1, <2>2
<1>2. ASSUME NEW i \in Ingests, PersistAlert(i)
      PROVE  IInv'
  <2>1. SuccessIsAudited'
    BY <1>2 DEF PersistAlert, SuccessIsAudited
  <2>2. RowsTellTheirHistory'
    BY <1>2 DEF PersistAlert, RowsTellTheirHistory
  <2>3. AuditIsBacked'
    BY <1>2 DEF PersistAlert, AuditIsBacked
  <2>4. BoardIsPersisted'
    BY <1>2 DEF PersistAlert, BoardIsPersisted
  <2>5. EvaluationsInStep'
    BY <1>2 DEF PersistAlert, EvaluationsInStep
  <2>6. RequestsInStep'
    BY <1>2 DEF PersistAlert, RequestsInStep
  <2> QED
    BY <2>1, <2>2, <2>3, <2>4, <2>5, <2>6
<1>3. ASSUME NEW i \in Ingests, PostAlerts(i)
      PROVE  IInv'
  <2>1. RowsTellTheirHistory' /\ AuditIsBacked' /\ SuccessIsAudited'
    BY <1>3 DEF PostAlerts, RowsTellTheirHistory, AuditIsBacked, SuccessIsAudited
  <2>2. BoardIsPersisted'
    BY <1>3 DEF PostAlerts, BoardIsPersisted, EvaluationsInStep
  <2>3. EvaluationsInStep'
    BY <1>3 DEF PostAlerts, EvaluationsInStep
  <2>4. RequestsInStep'
    BY <1>3 DEF PostAlerts, RequestsInStep
  <2> QED
    BY <2>1, <2>2, <2>3, <2>4
<1>4. ASSUME NEW i \in Ingests, DispatchAlerts(i)
      PROVE  IInv'
  <2>1. RowsTellTheirHistory' /\ BoardIsPersisted'
    BY <1>4 DEF DispatchAlerts, RowsTellTheirHistory, BoardIsPersisted
  <2>2. AuditIsBacked'
    BY <1>4 DEF DispatchAlerts, AuditIsBacked, EvaluationsInStep, EndEvaluation
  <2>3. SuccessIsAudited'
    BY <1>4 DEF DispatchAlerts, SuccessIsAudited, EndEvaluation
  <2>4. EvaluationsInStep'
    BY <1>4 DEF DispatchAlerts, EvaluationsInStep, EndEvaluation
  <2>5. RequestsInStep'
    BY <1>4 DEF DispatchAlerts, RequestsInStep, EvaluationsInStep, EndEvaluation
  <2> QED
    BY <2>1, <2>2, <2>3, <2>4, <2>5
<1>5. ASSUME NEW i \in Ingests, AbortEvaluation(i)
      PROVE  IInv'
  <2>1. RowsTellTheirHistory' /\ AuditIsBacked' /\ SuccessIsAudited' /\ BoardIsPersisted'
    BY <1>5 DEF AbortEvaluation, RowsTellTheirHistory, AuditIsBacked, SuccessIsAudited,
         BoardIsPersisted
  <2>2. EvaluationsInStep'
    BY <1>5 DEF AbortEvaluation, EvaluationsInStep, EndEvaluation, Release
  <2>3. RequestsInStep'
    BY <1>5 DEF AbortEvaluation, RequestsInStep, EndEvaluation, Release
  <2> QED
    BY <2>1, <2>2, <2>3
<1>6. ASSUME NEW r \in Requests, TransitionSelect(r)
      PROVE  IInv'
  <2>1. RowsTellTheirHistory' /\ AuditIsBacked' /\ BoardIsPersisted' /\ EvaluationsInStep'
    BY <1>6 DEF TransitionSelect, Accept, RowsTellTheirHistory, AuditIsBacked,
         BoardIsPersisted,
                EvaluationsInStep
  <2>2. SuccessIsAudited'
    BY <1>6 DEF TransitionSelect, SuccessIsAudited, Accept, Op, Lifecycle!CanTransition
  <2>3. RequestsInStep'
    BY <1>6 DEF TransitionSelect, RequestsInStep, Accept, Op, Lifecycle!CanTransition
  <2> QED
    BY <2>1, <2>2, <2>3
<1>7. ASSUME NEW r \in Requests, TransitionUpdate(r)
      PROVE  IInv'
  <2>1. SuccessIsAudited'
    BY <1>7 DEF TransitionUpdate, SuccessIsAudited, Named
  <2>2. RowsTellTheirHistory'
    BY <1>7 DEF TransitionUpdate, RowsTellTheirHistory, RequestsInStep, SetStatus, Refused, Op
  <2>3. AuditIsBacked'
    <3>1. op[r] \in Op
      OBVIOUS
    <3>2. HandlingKept
      BY <1>0
    <3>3. audit' = audit /\ accounts' = accounts /\ audit \subseteq AuditEntry
      BY <1>7 DEF TransitionUpdate
    <3> QED
      BY <3>2, <3>3 DEF AuditIsBacked, AuditEntry, HandlingKept
  <2>4. BoardIsPersisted'
    BY <1>7 DEF TransitionUpdate, BoardIsPersisted, SetStatus, Op
  <2>5. EvaluationsInStep'
    BY <1>7 DEF TransitionUpdate, EvaluationsInStep, RequestsInStep, SetStatus, Op
  <2>6. RequestsInStep'
    BY <1>7 DEF TransitionUpdate, RequestsInStep, SetStatus, Op
  <2> QED
    BY <2>1, <2>2, <2>3, <2>4, <2>5, <2>6
<1>8. ASSUME NEW r \in Requests, TransitionPublish(r)
      PROVE  IInv'
  <2>1. RowsTellTheirHistory' /\ AuditIsBacked' /\ SuccessIsAudited'
    BY <1>8 DEF TransitionPublish, RowsTellTheirHistory, AuditIsBacked, SuccessIsAudited
  <2>2. BoardIsPersisted'
    BY <1>8 DEF TransitionPublish, BoardIsPersisted, Publish
  <2>3. EvaluationsInStep'
    BY <1>8 DEF TransitionPublish, EvaluationsInStep, Publish
  <2>4. RequestsInStep'
    BY <1>8 DEF TransitionPublish, RequestsInStep, Publish
  <2> QED
    BY <2>1, <2>2, <2>3, <2>4
<1>9. ASSUME NEW r \in Requests, TransitionAudit(r)
      PROVE  IInv'
  <2>1. RowsTellTheirHistory' /\ BoardIsPersisted'
    BY <1>9 DEF TransitionAudit, RowsTellTheirHistory, BoardIsPersisted
  <2>2. AuditIsBacked'
    BY <1>9 DEF TransitionAudit, AuditIsBacked, RequestsInStep, AuditRows, Op, AuditAction,
         Refused
  <2>3. SuccessIsAudited'
    BY <1>9 DEF TransitionAudit, SuccessIsAudited, RequestsInStep, AuditRows, Op, Named,
         Refused
  <2>4. EvaluationsInStep'
    BY <1>9 DEF TransitionAudit, EvaluationsInStep, RequestsInStep, AuditRows, Op
  <2>5. RequestsInStep'
    BY <1>9 DEF TransitionAudit, RequestsInStep, AuditRows, Op
  <2> QED
    BY <2>1, <2>2, <2>3, <2>4, <2>5
<1>10. ASSUME NEW r \in Requests, BatchSelect(r)
      PROVE  IInv'
  <2>1. RowsTellTheirHistory' /\ AuditIsBacked' /\ BoardIsPersisted' /\ EvaluationsInStep'
    BY <1>10 DEF BatchSelect, Accept, RowsTellTheirHistory, AuditIsBacked, BoardIsPersisted,
                EvaluationsInStep
  <2>2. SuccessIsAudited'
    BY <1>10 DEF BatchSelect, SuccessIsAudited, Accept, ValidSources, Op
  <2>3. RequestsInStep'
    <3>1. PICK ids \in SUBSET Alerts, next \in Lifecycle!Targets, u \in Users :
            Accept(r, "batch", [ids |-> ids, next |-> next, user |-> u,
                                hit |-> {a \in ids : status[a] \in ValidSources(next)}])
      BY <1>10 DEF BatchSelect
    <3>2. \A a \in Alerts : status[a] \in ValidSources(next) => status[a] # "absent"
      BY DEF ValidSources
    <3>3. pc' = [pc EXCEPT ![r] = "batch"] /\ op'[r].user \in Users
          /\ op'[r].hit \subseteq op'[r].ids /\ \A a \in op'[r].hit : status[a] # "absent"
      BY <3>1, <3>2 DEF Accept
    <3>4. \A q \in Requests \ {r} : op'[q] = op[q] /\ pc'[q] = pc[q]
      BY <3>1 DEF Accept
    <3>5. UNCHANGED <<rows, audit, accounts, writer>>
      BY <3>1 DEF Accept
    <3> QED
      BY <3>3, <3>4, <3>5 DEF RequestsInStep
  <2> QED
    BY <2>1, <2>2, <2>3
<1>11. ASSUME NEW r \in Requests, BatchCommit(r)
      PROVE  IInv'
  <2>1. RowsTellTheirHistory'
    BY <1>11 DEF BatchCommit, RowsTellTheirHistory, RequestsInStep, SetStatus,
         BatchAcknowledgedBy, Refused, Op
  <2>2. AuditIsBacked'
    <3>1. op[r] \in Op
      OBVIOUS
    <3>2. HandlingKept
      BY <1>0
    <3>3. audit \subseteq AuditEntry
      OBVIOUS
    <3>4. ASSUME NEW e \in AuditRows(op[r].next, op[r].user, BatchAudited(op[r]))
          PROVE  /\ e.action = "alert.resolved" => e.alert \in resolvedAt'
                 /\ e.action = "alert.acknowledged" => e.alert \in acknowledgedAt'
                 /\ status'[e.alert] # "absent"
                 /\ e.user = op[r].user
      <4>1. /\ e.alert \in Alerts
            /\ e.action = AuditAction(op[r].next)
            /\ status'[e.alert] = op[r].next
            /\ e.user = op[r].user
        BY <3>1 DEF AuditRows, BatchAudited, Op
      <4> QED
        BY <4>1, <2>1, <3>1 DEF RowsTellTheirHistory, AuditAction, Op
    <3>5. \A e \in audit' : e \in audit \/ (op[r].hit # {} /\ e \in AuditRows(op[r].next, op[r].user, BatchAudited(op[r])))
      BY <1>11 DEF BatchCommit
    <3>6. /\ accounts' = accounts
          /\ op[r].hit # {} => op[r].user \in accounts
      BY <1>11 DEF BatchCommit, Refused
    <3> QED
      BY <3>2, <3>3, <3>4, <3>5, <3>6 DEF AuditIsBacked, AuditEntry, HandlingKept
  <2>3. SuccessIsAudited'
    BY <1>11 DEF BatchCommit, SuccessIsAudited, Named
  <2>4. BoardIsPersisted'
    BY <1>11 DEF BatchCommit, BoardIsPersisted, SetStatus, BatchAcknowledgedBy,
         BatchAudited, AuditRows, Op
  <2>5. EvaluationsInStep'
    BY <1>11 DEF BatchCommit, EvaluationsInStep, RequestsInStep, SetStatus,
         BatchAcknowledgedBy, BatchAudited, AuditRows, Op
  <2>6. RequestsInStep'
    <3>1. op[r] \in Op /\ op' = op /\ writer' = writer
      BY <1>11 DEF BatchCommit
    <3>2. HandlingKept
      BY <1>0
    <3>3. op[r].hit \subseteq BatchAudited(op[r])
      BY <1>11, <3>1 DEF BatchCommit, BatchAudited, SetStatus, RequestsInStep, Op
    <3>4. /\ AuditRows(op[r].next, Named(op[r].user), op[r].hit) \subseteq audit'
          /\ audit \subseteq audit' /\ accounts' = accounts
      BY <1>11, <3>3 DEF BatchCommit, AuditRows, Named, Refused
    <3>5. pc'[r] = "batchPublish" /\ \A q \in Requests \ {r} : pc'[q] = pc[q]
      BY <1>11 DEF BatchCommit
    <3>6. \A q \in Requests : op[q].hit \subseteq Alerts
      BY DEF Op
    <3>7. pc[r] = "batch"
      BY <1>11 DEF BatchCommit
    <3> QED
      BY <3>1, <3>2, <3>4, <3>5, <3>6, <3>7 DEF RequestsInStep, HandlingKept, Named
  <2> QED
    BY <2>1, <2>2, <2>3, <2>4, <2>5, <2>6
<1>12. ASSUME NEW r \in Requests, BatchPublish(r)
      PROVE  IInv'
  <2>1. RowsTellTheirHistory' /\ AuditIsBacked' /\ EvaluationsInStep'
    BY <1>12 DEF BatchPublish, RowsTellTheirHistory, AuditIsBacked, EvaluationsInStep
  <2>2. SuccessIsAudited'
    BY <1>12 DEF BatchPublish, SuccessIsAudited, RequestsInStep, Publish
  <2>3. BoardIsPersisted'
    BY <1>12 DEF BatchPublish, BoardIsPersisted, Publish
  <2>4. RequestsInStep'
    BY <1>12 DEF BatchPublish, RequestsInStep, Publish
  <2> QED
    BY <2>1, <2>2, <2>3, <2>4
<1>13. ASSUME NEW r \in Requests, AbortRequest(r)
      PROVE  IInv'
  <2>1. RowsTellTheirHistory' /\ AuditIsBacked' /\ BoardIsPersisted'
    BY <1>13 DEF AbortRequest, RowsTellTheirHistory, AuditIsBacked, BoardIsPersisted
  <2>2. SuccessIsAudited'
    BY <1>13 DEF AbortRequest, SuccessIsAudited, Release, NoOp
  <2>3. EvaluationsInStep'
    BY <1>13 DEF AbortRequest, EvaluationsInStep, Release, NoOp
  <2>4. RequestsInStep'
    BY <1>13 DEF AbortRequest, RequestsInStep, Release, NoOp
  <2> QED
    BY <2>1, <2>2, <2>3, <2>4
<1>14. ASSUME NEW r \in Requests, Return(r)
      PROVE  IInv'
  <2>1. RowsTellTheirHistory' /\ AuditIsBacked' /\ BoardIsPersisted' /\ EvaluationsInStep'
    BY <1>14 DEF Return, RowsTellTheirHistory, AuditIsBacked, BoardIsPersisted,
         EvaluationsInStep
  <2>2. SuccessIsAudited'
    BY <1>14 DEF Return, SuccessIsAudited, NoOp
  <2>3. RequestsInStep'
    BY <1>14 DEF Return, RequestsInStep, NoOp
  <2> QED
    BY <2>1, <2>2, <2>3
<1>15. CASE Restart
  BY <1>15 DEF Restart, NoOp, RowsTellTheirHistory, AuditIsBacked, SuccessIsAudited,
       BoardIsPersisted, EvaluationsInStep, RequestsInStep, AuditRows
<1>16. ASSUME NEW u \in Users, DeleteAccount(u)
       PROVE  IInv'
  <2>1. /\ u \in accounts /\ accounts' = accounts \ {u} /\ accounts' # Users
        /\ UNCHANGED <<status, acknowledgedAt, resolvedAt, board, reqs, evals>>
    BY <1>16 DEF DeleteAccount
  <2>2. RowsTellTheirHistory'
    BY <1>16, <2>1 DEF DeleteAccount, RowsTellTheirHistory
  <2>3. AuditIsBacked'
    BY <1>16, <2>1, DeletionKeepsRows DEF AuditIsBacked
  <2>4. SuccessIsAudited'
    BY <1>16, <2>1, DeletionKeepsRows DEF SuccessIsAudited
  <2>5. BoardIsPersisted' /\ EvaluationsInStep'
    BY <2>1 DEF BoardIsPersisted, EvaluationsInStep
  <2>6. RequestsInStep'
    BY <1>16, <2>1, DeletionKeepsRows DEF RequestsInStep
  <2> QED
    BY <2>2, <2>3, <2>4, <2>5, <2>6
<1>17. CASE UNCHANGED vars
  BY <1>17 DEF vars, RowsTellTheirHistory, AuditIsBacked, SuccessIsAudited, Named,
       BoardIsPersisted, EvaluationsInStep, RequestsInStep
<1> QED
  BY <1>1, <1>2, <1>3, <1>4, <1>5, <1>6, <1>7, <1>8, <1>9, <1>10,
     <1>11, <1>12, <1>13, <1>14, <1>15, <1>16, <1>17 DEF
       Next, Evaluate, Operate

\* Rows tell their history, the audit log is backed and complete, the blackboard
\* holds only persisted alerts: for any number of concurrent handlers, failures
\* and restarts.
THEOREM AlertBoardInvariant == Spec => []IInv
<1>1. Init => IInv
  BY DEF Init, IInv, TypeOK, Op, NoOp, RowsTellTheirHistory, AuditIsBacked, SuccessIsAudited,
         BoardIsPersisted, HandlersInStep, EvaluationsInStep, RequestsInStep, InFlight,
         Lifecycle!Status, Lifecycle!Targets
<1>2. IInv /\ [Next]_vars /\ TypeOK' => IInv'
  BY StepKeepsIInv
<1>3. QED
  BY <1>1, <1>2, TypeCorrect, PTL DEF Spec

\* At each of its steps a handler's locals still mean what they meant when read.
THEOREM HandlersKeepStep == Spec => []HandlersInStep
  BY AlertBoardInvariant, PTL DEF IInv

\* An acknowledged row has its time and a resolved row its own, and whoever
\* acknowledged is named until his account is deleted.
THEOREM RowsHistory == Spec => []RowsTellTheirHistory
  BY AlertBoardInvariant, PTL DEF IInv

\* The audit log says nothing that did not happen to the alert it names, and an
\* operator's entries name him until his account is deleted.
THEOREM AuditBacked == Spec => []AuditIsBacked
  BY AlertBoardInvariant, PTL DEF IInv

\* A request answered with success has audited every row it moved.
THEOREM SuccessAudited == Spec => []SuccessIsAudited
  BY AlertBoardInvariant, PTL DEF IInv

\* Whatever the blackboard holds is in Postgres.
THEOREM BoardPersisted == Spec => []BoardIsPersisted
  BY AlertBoardInvariant, PTL DEF IInv

\* No interleaving and no restart makes a handled alert active again or clears the
\* times of its handling; whoever acknowledged it is cleared with his account only.
THEOREM HandlingPermanent == Spec => HandlingIsPermanent
<1>1. IInv /\ [Next]_vars =>
        [ \A a \in Alerts :
            /\ status[a] \in Lifecycle!Targets => status'[a] \in Lifecycle!Targets
            /\ a \in acknowledgedAt => a \in acknowledgedAt'
            /\ a \in resolvedAt => a \in resolvedAt'
            /\ acknowledgedBy'[a] = NoUser => acknowledgedBy[a] \notin accounts' ]_vars
  BY HandlingIsKept DEF HandlingKept
<1>2. QED
  BY <1>1, AlertBoardInvariant, PTL DEF Spec, HandlingIsPermanent

-----------------------------------------------------------------------------
(* The lifecycle, with any number of operators at once *)

\* What a request read of a row is still true when it writes, unless another
\* request wrote the row meanwhile.
ReadsAreFresh ==
    \A r \in Requests : pc[r] \in Reading =>
        \A a \in op[r].hit : a \in overtaken[r] \/ Lifecycle!CanTransition(status[a], op[r].next)

\* A request that has read its rows keeps or loses its fresh reads exactly as
\* `overtaken` records, whatever the next step of the system is.
LEMMA ReadsStayFresh ==
    ASSUME IInv, ReadsAreFresh, [Next]_vars
    PROVE  ReadsAreFresh'
<1> USE DEF IInv, HandlersInStep, TypeOK, ReadsAreFresh, InFlight, Reading,
            Lifecycle!Targets, rows, db, board, reqs, evals
<1>1. ASSUME NEW i \in Ingests, Evaluate(i)
      PROVE  ReadsAreFresh'
  <2>1. UNCHANGED reqs
    BY <1>1 DEF Evaluate, StartEvaluation, PersistAlert, PostAlerts, DispatchAlerts,
                AbortEvaluation
  <2>2. \A a \in Alerts : status[a] # "absent" => status'[a] = status[a]
    <3>1. CASE PersistAlert(i)
      BY <3>1 DEF PersistAlert, EvaluationsInStep
    <3>2. CASE ~PersistAlert(i)
      BY <1>1, <3>2 DEF Evaluate, StartEvaluation, PostAlerts, DispatchAlerts, AbortEvaluation
    <3> QED
      BY <3>1, <3>2
  <2>3. \A r \in Requests : op[r].hit \subseteq Alerts /\ \A a \in op[r].hit : status[a] # "absent"
    BY DEF RequestsInStep, Op
  <2> QED
    BY <2>1, <2>2, <2>3
<1>2. ASSUME NEW r \in Requests, TransitionUpdate(r) \/ BatchCommit(r)
      PROVE  ReadsAreFresh'
  <2>1. pc'[r] \notin Reading /\ op' = op /\ (\A q \in Requests \ {r} : pc'[q] = pc[q])
        /\ SetStatus(op[r]) /\ Overtake(r)
    BY <1>2 DEF TransitionUpdate, BatchCommit
  <2>2. ASSUME NEW q \in Requests \ {r}, pc[q] \in Reading, NEW a \in op[q].hit,
               a \notin overtaken'[q]
        PROVE  Lifecycle!CanTransition(status'[a], op[q].next)
    <3>1. overtaken'[q] = overtaken[q] \cup (op[q].hit \cap op[r].hit)
      BY <2>1, <2>2 DEF Overtake
    <3>2. a \notin overtaken[q] /\ a \notin op[r].hit /\ a \in Alerts
      BY <2>2, <3>1 DEF Op
    <3>3. status'[a] = status[a]
      BY <2>1, <3>2 DEF SetStatus
    <3> QED
      BY <2>2, <3>2, <3>3
  <2> QED
    BY <2>1, <2>2
<1>3. ASSUME NEW r \in Requests, TransitionSelect(r)
      PROVE  ReadsAreFresh'
  BY <1>3 DEF TransitionSelect, Accept
<1>4. ASSUME NEW r \in Requests, BatchSelect(r)
      PROVE  ReadsAreFresh'
  <2>1. PICK ids \in SUBSET Alerts, next \in Lifecycle!Targets, u \in Users :
          Accept(r, "batch", [ids |-> ids, next |-> next, user |-> u,
                              hit |-> {a \in ids : status[a] \in ValidSources(next)}])
    BY <1>4 DEF BatchSelect
  <2>2. \A a \in op'[r].hit : Lifecycle!CanTransition(status[a], op'[r].next)
    BY <2>1 DEF Accept, ValidSources, Lifecycle!CanTransition
  <2> QED
    BY <2>1, <2>2 DEF Accept
<1>5. ASSUME NEW r \in Requests,
             \/ TransitionPublish(r) \/ TransitionAudit(r) \/ BatchPublish(r)
             \/ AbortRequest(r) \/ Return(r)
      PROVE  ReadsAreFresh'
  <2>1. /\ pc'[r] \notin Reading /\ UNCHANGED status
        /\ \A q \in Requests \ {r} : pc'[q] = pc[q] /\ op'[q] = op[q] /\ overtaken'[q] = overtaken[q]
    BY <1>5 DEF TransitionPublish, TransitionAudit, BatchPublish, AbortRequest, Return
  <2> QED
    BY <2>1
<1>6. CASE \E u \in Users : DeleteAccount(u)
  BY <1>6 DEF DeleteAccount
<1>7. CASE Restart
  BY <1>7 DEF Restart
<1>8. CASE UNCHANGED vars
  BY <1>8 DEF vars
<1> QED
  BY <1>1, <1>2, <1>3, <1>4, <1>5, <1>6, <1>7, <1>8 DEF Next, Operate

\* The check that transition_alert and batch_transition make before they write
\* fails the lifecycle of lifecycle.rs in one way only, for any number of
\* operators, evaluations, failures, restarts and deleted accounts: a step that
\* leaves the lifecycle is a request's, on a row that another one wrote between
\* this one's read and its write.
THEOREM OvertakenAloneLeaveLifecycle == Spec => OnlyOvertakenLeaveLifecycle
<1> USE DEF LifecycleStep
<1>1. Init => ReadsAreFresh
  BY DEF Init, ReadsAreFresh, Reading
<1>2. ASSUME IInv, ReadsAreFresh, [Next]_vars
      PROVE  \A a \in Alerts :
                LifecycleStep(a) \/ \E r \in Requests : a \in overtaken[r] /\ pc'[r] # pc[r]
  <2> USE <1>2 DEF IInv, HandlersInStep, TypeOK, Reading
  <2>1. ASSUME NEW i \in Ingests, PersistAlert(i)
        PROVE  \A a \in Alerts : LifecycleStep(a)
    BY <2>1 DEF PersistAlert, EvaluationsInStep
  <2>2. ASSUME NEW r \in Requests, TransitionUpdate(r) \/ BatchCommit(r), NEW a \in Alerts
        PROVE  LifecycleStep(a) \/ (a \in overtaken[r] /\ pc'[r] # pc[r])
    <3>1. SetStatus(op[r]) /\ pc[r] \in Reading /\ pc'[r] # pc[r]
      BY <2>2 DEF TransitionUpdate, BatchCommit
    <3>2. CASE a \notin op[r].hit
      BY <3>1, <3>2 DEF SetStatus
    <3>3. CASE a \in op[r].hit
      BY <3>1, <3>3 DEF SetStatus, ReadsAreFresh
    <3> QED
      BY <3>2, <3>3
  <2>3. ASSUME UNCHANGED rows \/ \E u \in Users : DeleteAccount(u)
        PROVE  \A a \in Alerts : LifecycleStep(a)
    BY <2>3 DEF rows, DeleteAccount
  <2> QED
    BY <2>1, <2>2, <2>3, AlertWriters
<1>3. QED
  BY <1>1, <1>2, ReadsStayFresh, AlertBoardInvariant, PTL
     DEF Spec, OnlyOvertakenLeaveLifecycle

=============================================================================
