--------------------------- MODULE RuleBoardProofs ---------------------------
(***************************************************************************)
(* Theorems about RuleBoard, for any number of rules, versions, alerts,    *)
(* evaluations and administrators.                                         *)
(***************************************************************************)
EXTENDS RuleBoard, TLAPS

\* What the statement of x wrote, when it is one of the three that publish a row.
Writes(x) == CreateRule(x) \/ EditRule(x) \/ UpdateRuleStatus(x)

\* The entry that the blackboard should hold for a row, one that an edit put back
\* or not.
Right(row, put) == IF row.status = "active" \/ put THEN row.version ELSE 0

\* The three are instances of Write with a well-formed row and entry; the row is
\* in the table afterwards, and the entry is the right one for it.
LEMMA WrittenRow ==
    ASSUME TypeOK, NEW x \in Admins, Writes(x)
    PROVE  \E kind \in {"upsert", "status"}, r \in Rules, row \in Row, entry \in 0 .. MaxVersion :
             /\ Write(x, kind, r, row, entry)
             /\ rule[r] # Deleted /\ row.version > 0
             /\ entry = Right(row, kind = "upsert" /\ row.status = "inactive")
<1>1. ASSUME NEW r \in Rules, InTable(r)
      PROVE  /\ rule[r].version \in Versions
             /\ rule[r].status \in {"active", "inactive"}
             /\ rule[r] \in [status : {"active", "inactive"}, version : Versions]
             /\ rule[r] # Deleted
  BY <1>1 DEF TypeOK, Row, InTable, Deleted
<1>2. CASE CreateRule(x)
  <2>1. PICK r \in Rules : /\ rule[r] = Unused
                           /\ Write(x, "upsert", r, [status |-> "active", version |-> 1], 1)
    BY <1>2 DEF CreateRule
  <2>2. QED
    BY <2>1, RulesAssumption DEF Row, Versions, Unused, Deleted, Right
<1>3. CASE EditRule(x)
  <2>1. PICK r \in Rules : /\ rule[r].version \in 1 .. MaxVersion - 1
                           /\ Write(x, "upsert", r, [rule[r] EXCEPT !.version = @ + 1], Returned(r))
    BY <1>3 DEF EditRule
  <2>2. InTable(r)
    BY <2>1, RulesAssumption DEF InTable
  <2>3. [rule[r] EXCEPT !.version = @ + 1] \in Row
    BY <1>1, <2>1, <2>2, RulesAssumption DEF Row, Versions
  <2>4. QED
    BY <1>1, <2>1, <2>2, <2>3, RulesAssumption DEF Returned, Versions, Right
<1>4. CASE UpdateRuleStatus(x)
  <2>1. PICK r \in Rules, status \in {"active", "inactive"} :
               /\ InTable(r)
               /\ Write(x, "status", r, [rule[r] EXCEPT !.status = status], StatusEntry(r, status))
    BY <1>4 DEF UpdateRuleStatus
  <2>2. [rule[r] EXCEPT !.status = status] \in Row
    BY <1>1, <2>1 DEF Row
  <2>3. StatusEntry(r, status) \in 0 .. MaxVersion
    BY <1>1, <2>1, RulesAssumption DEF StatusEntry, Versions
  <2>4. QED
    BY <1>1, <2>1, <2>2, <2>3, RulesAssumption DEF StatusEntry, Versions, Right
<1>5. QED
  BY <1>2, <1>3, <1>4 DEF Writes

\* A request that has begun names a rule.
RequestsNameRules ==
    \A x \in Admins : pc[x] \in {"delete", "publish"} => op[x].rule \in Rules

LEMMA NamesAreKept ==
    ASSUME TypeOK, RequestsNameRules, [Next]_vars
    PROVE  RequestsNameRules'
<1> USE DEF TypeOK, RequestsNameRules, db, board, reqs
<1>1. ASSUME NEW x \in Admins, Writes(x)
      PROVE  RequestsNameRules'
  BY <1>1, WrittenRow DEF Write
<1>2. ASSUME NEW x \in Admins, BeginDelete(x)
      PROVE  RequestsNameRules'
  BY <1>2 DEF BeginDelete
<1>3. ASSUME NEW x \in Admins,
             CommitDelete(x) \/ RollBackDelete(x) \/ Publish(x) \/ Audit(x) \/ Abort(x)
      PROVE  RequestsNameRules'
  BY <1>3 DEF CommitDelete, RollBackDelete, Publish, Audit, Abort, Finish
<1>4. ASSUME NEW i \in Ingests, Evaluate(i)
      PROVE  RequestsNameRules'
  BY <1>4 DEF Evaluate, StartEvaluation, PersistAlert, AbortEvaluation
<1>5. CASE Restart \/ UNCHANGED vars
  BY <1>5 DEF Restart, vars
<1>6. QED
  BY <1>1, <1>2, <1>3, <1>4, <1>5 DEF Next, Administer, Writes

\* Every variable keeps its type.
THEOREM TypeCorrect == Spec => []TypeOK
<1>1. Init => TypeOK
  <2> SUFFICES ASSUME Init
               PROVE  TypeOK
    OBVIOUS
  <2>1. Unused \in Row /\ NoOp \in Op /\ 0 \in 0 .. MaxVersion
    BY RulesAssumption DEF Unused, Row, NoOp, Op
  <2>2. QED
    BY <2>1 DEF Init, TypeOK
<1>2. Init => RequestsNameRules
  BY DEF Init, RequestsNameRules
<1>3. TypeOK /\ RequestsNameRules /\ [Next]_vars => TypeOK'
  <2> SUFFICES ASSUME TypeOK, RequestsNameRules, [Next]_vars
               PROVE  TypeOK'
    OBVIOUS
  <2> USE DEF TypeOK, db, board, reqs
  <2>1. NoOp \in Op /\ Deleted \in Row
    BY RulesAssumption DEF NoOp, Op, Deleted, Row
  <2>2. ASSUME NEW x \in Admins, Writes(x)
        PROVE  TypeOK'
    <3>1. PICK kind \in {"upsert", "status"}, r \in Rules, row \in Row, entry \in 0 .. MaxVersion :
            Write(x, kind, r, row, entry)
      BY <2>2, WrittenRow
    <3>2. [kind |-> kind, rule |-> r, entry |-> entry, alerts |-> {},
           revives |-> kind = "upsert" /\ row.status = "inactive"] \in Op
      BY DEF Op
    <3>3. QED
      BY <3>1, <3>2 DEF Write, Overtake
  <2>3. ASSUME NEW x \in Admins, BeginDelete(x)
        PROVE  TypeOK'
    <3>1. PICK r \in Rules :
            /\ op' = [op EXCEPT ![x] = [kind |-> "delete", rule |-> r, entry |-> 0,
                                        revives |-> FALSE, alerts |-> References(r)]]
            /\ pc' = [pc EXCEPT ![x] = "delete"]
            /\ UNCHANGED <<overtaken, db, board, todo>>
      BY <2>3 DEF BeginDelete
    <3>2. [kind |-> "delete", rule |-> r, entry |-> 0, revives |-> FALSE,
           alerts |-> References(r)] \in Op
      BY RulesAssumption DEF Op, References
    <3>3. QED
      BY <3>1, <3>2
  <2>4. ASSUME NEW x \in Admins, CommitDelete(x)
        PROVE  TypeOK'
    <3>1. op[x].alerts \in SUBSET Alerts
      BY DEF Op
    <3>2. QED
      BY <2>1, <2>4, <3>1 DEF CommitDelete, Overtake
  <2>5. ASSUME NEW x \in Admins, RollBackDelete(x) \/ Audit(x)
        PROVE  TypeOK'
    BY <2>1, <2>5 DEF RollBackDelete, Audit, Finish, Release
  <2>6. ASSUME NEW x \in Admins, Publish(x)
        PROVE  TypeOK'
    <3>1. Entry(op[x]) \in 0 .. MaxVersion
      BY DEF Op, Entry
    <3>2. op[x].rule \in Rules
      BY <2>6 DEF Publish, RequestsNameRules
    <3>3. missed' \subseteq Rules /\ outrun' \subseteq Rules /\ revived' \subseteq Rules
      BY <2>6, <3>2 DEF Publish
    <3>4. activeRules' \in [Rules -> 0 .. MaxVersion] /\ overtaken' \subseteq Admins
          /\ writer' \in Admins \cup {Free}
          /\ pc' \in [Admins -> {"idle", "delete", "publish", "audit"}]
      BY <2>6, <3>1 DEF Publish
    <3>5. QED
      BY <2>6, <3>3, <3>4 DEF Publish
  <2>7. ASSUME NEW x \in Admins, Abort(x)
        PROVE  TypeOK'
    BY <2>1, <2>7 DEF Abort, Finish, RequestsNameRules
  <2>8. ASSUME NEW i \in Ingests, Evaluate(i)
        PROVE  TypeOK'
    BY <2>8 DEF Evaluate, StartEvaluation, PersistAlert, AbortEvaluation
  <2>9. CASE Restart
    BY <2>1, <2>9, RulesAssumption DEF Restart, LoadedRules, Row, Versions
  <2>10. CASE UNCHANGED vars
    BY <2>10 DEF vars
  <2>11. QED
    BY <2>2, <2>3, <2>4, <2>5, <2>6, <2>7, <2>8, <2>9, <2>10 DEF Next, Administer, Writes
<1>4. QED
  BY <1>1, <1>2, <1>3, NamesAreKept, PTL DEF Spec

LEMMA NamesHold == Spec => []RequestsNameRules
<1>1. Init => RequestsNameRules
  BY DEF Init, RequestsNameRules
<1>2. QED
  BY <1>1, NamesAreKept, TypeCorrect, PTL DEF Spec

-----------------------------------------------------------------------------
(* Alerts and their rules, with any number of administrators. *)

\* A deletion has collected alerts of its own rule only, and only alerts that
\* exist lose their rule.
DeletionsCollectTheirOwn ==
    /\ \A x \in Admins : pc[x] = "delete" => \A a \in op[x].alerts : ruleOf[a] = op[x].rule
    /\ \A a \in nulled : ruleOf[a] # NoRule

LinkInv == DeletionsCollectTheirOwn /\ AlertsKeepTheirRule

LEMMA LinksAreKept ==
    ASSUME TypeOK, RequestsNameRules, LinkInv, [Next]_vars
    PROVE  LinkInv'
<1> USE DEF TypeOK, LinkInv, DeletionsCollectTheirOwn, AlertsKeepTheirRule, db, board, reqs
<1>1. ASSUME NEW x \in Admins, Writes(x)
      PROVE  LinkInv'
  <2>1. PICK kind \in {"upsert", "status"}, r \in Rules, row \in Row, entry \in 0 .. MaxVersion :
          Write(x, kind, r, row, entry) /\ rule[r] # Deleted /\ row.version > 0
    BY <1>1, WrittenRow
  <2>2. row # Deleted
    BY <2>1 DEF Deleted
  <2>3. DeletionsCollectTheirOwn'
    BY <2>1 DEF Write
  <2>4. AlertsKeepTheirRule'
    BY <2>1, <2>2 DEF Write
  <2>5. QED
    BY <2>3, <2>4
<1>2. ASSUME NEW x \in Admins, BeginDelete(x)
      PROVE  LinkInv'
  <2>1. PICK r \in Rules :
          /\ op' = [op EXCEPT ![x] = [kind |-> "delete", rule |-> r, entry |-> 0,
                                      revives |-> FALSE, alerts |-> References(r)]]
          /\ pc' = [pc EXCEPT ![x] = "delete"]
          /\ UNCHANGED <<overtaken, db, board, todo>>
    BY <1>2 DEF BeginDelete
  <2>2. op'[x].alerts = References(r) /\ op'[x].rule = r
    BY <2>1
  <2>3. QED
    BY <2>1, <2>2 DEF References
<1>3. ASSUME NEW x \in Admins, CommitDelete(x)
      PROVE  LinkInv'
  <2>1. /\ op[x].rule \in Rules /\ rule[op[x].rule] # Deleted
        /\ \A a \in op[x].alerts : ruleOf[a] = op[x].rule
        /\ \A a \in Alerts \ nulled : ruleOf[a] = op[x].rule => a \in op[x].alerts
    BY <1>3 DEF CommitDelete, Deletable, InTable, References, RequestsNameRules, Deleted
  <2>2. /\ nulled' = nulled \cup op[x].alerts
        /\ rule' = [rule EXCEPT ![op[x].rule] = Deleted]
        /\ ruleOf' = ruleOf /\ op' = op /\ pc' = [pc EXCEPT ![x] = "publish"]
    BY <1>3 DEF CommitDelete
  <2>3. DeletionsCollectTheirOwn'
    BY <2>1, <2>2, RulesAssumption
  <2>4. AlertsKeepTheirRule'
    BY <2>1, <2>2
  <2>5. QED
    BY <2>3, <2>4
<1>4. ASSUME NEW x \in Admins, RollBackDelete(x) \/ Publish(x) \/ Audit(x) \/ Abort(x)
      PROVE  LinkInv'
  BY <1>4 DEF RollBackDelete, Publish, Audit, Abort, Finish
<1>5. ASSUME NEW i \in Ingests, PersistAlert(i)
      PROVE  LinkInv'
  <2>1. PICK r \in todo[i], a \in Alerts :
               /\ HasRule(r)
               /\ ruleOf[a] = NoRule
               /\ ruleOf' = [ruleOf EXCEPT ![a] = r]
               /\ UNCHANGED <<rule, nulled, board, reqs>>
    BY <1>5 DEF PersistAlert
  <2>2. r \in Rules /\ r # NoRule /\ rule[r] # Deleted /\ a \notin nulled
    BY <2>1, RulesAssumption DEF HasRule, InTable, Deleted
  <2>3. \A x \in Admins : pc[x] = "delete" => a \notin op[x].alerts
    BY <2>1, RulesAssumption DEF RequestsNameRules
  <2>4. DeletionsCollectTheirOwn'
    <3>1. \A b \in Alerts : b # a => ruleOf'[b] = ruleOf[b]
      BY <2>1
    <3>2. \A x \in Admins : op[x].alerts \subseteq Alerts
      BY DEF Op
    <3>3. QED
      BY <2>1, <2>2, <2>3, <3>1, <3>2
  <2>5. AlertsKeepTheirRule'
    BY <2>1, <2>2
  <2>6. QED
    BY <2>4, <2>5
<1>6. ASSUME NEW i \in Ingests, StartEvaluation(i) \/ AbortEvaluation(i)
      PROVE  LinkInv'
  BY <1>6 DEF StartEvaluation, AbortEvaluation
<1>7. CASE Restart \/ UNCHANGED vars
  BY <1>7 DEF Restart, vars
<1>8. QED
  BY <1>1, <1>2, <1>3, <1>4, <1>5, <1>6, <1>7 DEF Next, Administer, Evaluate, Writes

\* An alert loses its rule exactly when the rule is deleted, whoever deletes and
\* inserts meanwhile (delete_rule, persist_alert, the foreign key alerts.rule_id).
THEOREM AlertsKeepRules == Spec => []AlertsKeepTheirRule
<1>1. Init => LinkInv
  BY DEF Init, LinkInv, DeletionsCollectTheirOwn, AlertsKeepTheirRule
<1>2. QED
  BY <1>1, LinksAreKept, TypeCorrect, NamesHold, PTL DEF Spec, LinkInv

-----------------------------------------------------------------------------
(* The blackboard and the table, with any number of administrators. *)

\* What a request publishes is right unless another has overtaken it, and at most
\* one request that was not overtaken is about to publish a rule.
PublishersInStep ==
    /\ \A x \in overtaken : pc[x] = "publish"
    /\ \A x \in Admins : pc[x] = "delete" => op[x].entry = 0 /\ ~op[x].revives
    /\ \A x \in Admins \ overtaken :
         pc[x] = "publish" => op[x].entry = Right(rule[op[x].rule], op[x].revives)
    /\ \A x, y \in Admins \ overtaken :
         pc[x] = "publish" /\ pc[y] = "publish" /\ op[x].rule = op[y].rule => x = y

BoardInv == PublishersInStep /\ BoardTracksRules

\* A statement that writes rule r overtakes its other publishers and is then the
\* only one that may publish it: r is not settled, and no other rule becomes so.
LEMMA WriterOvertakes ==
    ASSUME TypeOK, PublishersInStep, NEW x \in Admins, NEW r \in Rules,
           pc[x] # "publish", Overtake(x, r),
           pc' = [pc EXCEPT ![x] = "publish"], op'[x].rule = r,
           \A y \in Admins \ {x} : op'[y] = op[y],
           UNCHANGED <<missed, outrun>>
    PROVE  /\ x \notin overtaken' /\ r \notin Settled' /\ Settled' \subseteq Settled
           /\ \A y \in overtaken' : pc'[y] = "publish"
           /\ \A y \in Admins \ overtaken' :
                y # x => y \notin overtaken /\ (pc'[y] = "publish" => op[y].rule # r)
<1> USE DEF TypeOK, PublishersInStep, Overtake, Settled, Told
<1>1. x \notin overtaken'
  OBVIOUS
<1>2. pc'[x] = "publish" /\ \A y \in Admins \ {x} : pc'[y] = pc[y] /\ op'[y] = op[y]
  OBVIOUS
<1>3. r \notin Settled'
  BY <1>1, <1>2
<1>4. \A q \in Settled' : q \in Settled
  <2> SUFFICES ASSUME NEW q \in Settled', NEW y \in Admins \ overtaken, pc[y] = "publish",
                      op[y].rule = q
               PROVE  FALSE
    OBVIOUS
  <2>1. q # r /\ y # x
    BY <1>3
  <2>2. y \notin overtaken'
    BY <2>1
  <2> QED
    BY <1>2, <2>1, <2>2
<1>5. /\ \A y \in overtaken' : pc'[y] = "publish"
      /\ \A y \in Admins \ overtaken' :
           y # x => y \notin overtaken /\ (pc'[y] = "publish" => op[y].rule # r)
  BY <1>2
<1> HIDE DEF TypeOK, PublishersInStep, Overtake, Settled, Told
<1> QED
  BY <1>1, <1>3, <1>4, <1>5

\* Whatever administrators, evaluations, failures and restarts do in whatever
\* order, the blackboard is right about every rule whose last writer published
\* last (create_rule, edit_rule, update_rule_status, delete_rule, load_rules).
THEOREM BoardIsTracked == Spec => []BoardTracksRules
<1> USE DEF TypeOK, BoardInv, db, board, reqs
<1>1. Init => BoardInv
  BY DEF Init, BoardTracksRules, PublishersInStep, Settled, Told, Unused
<1>2. ASSUME TypeOK, RequestsNameRules, BoardInv, [Next]_vars
      PROVE  BoardInv'
  <2> USE <1>2
  <2>1. ASSUME NEW x \in Admins, Writes(x)
        PROVE  BoardInv'
    <3>1. PICK kind \in {"upsert", "status"}, r \in Rules, row \in Row, entry \in 0 .. MaxVersion :
            /\ Write(x, kind, r, row, entry)
            /\ entry = Right(row, kind = "upsert" /\ row.status = "inactive")
      BY <2>1, WrittenRow
    <3>2. /\ pc[x] = "idle" /\ pc' = [pc EXCEPT ![x] = "publish"]
          /\ op'[x].rule = r /\ op'[x].entry = Right(row, op'[x].revives)
          /\ \A y \in Admins \ {x} : op'[y] = op[y] /\ pc'[y] = pc[y]
          /\ rule' = [rule EXCEPT ![r] = row] /\ Overtake(x, r)
          /\ UNCHANGED <<activeRules, missed, outrun, revived>>
      BY <3>1 DEF Write
    <3>3. /\ x \notin overtaken' /\ r \notin Settled' /\ Settled' \subseteq Settled
          /\ \A y \in overtaken' : pc'[y] = "publish"
          /\ \A y \in Admins \ overtaken' :
               y # x => y \notin overtaken /\ (pc'[y] = "publish" => op[y].rule # r)
      BY <3>2, WriterOvertakes
    <3>4. rule'[r] = row /\ \A q \in Rules : q # r => rule'[q] = rule[q]
      BY <3>2
    <3>5. PublishersInStep'
      BY <3>2, <3>3, <3>4 DEF PublishersInStep, RequestsNameRules
    <3>6. BoardTracksRules'
      BY <3>2, <3>3, <3>4 DEF BoardTracksRules, Settled, Told
    <3>7. QED
      BY <3>5, <3>6
  <2>2. ASSUME NEW x \in Admins, BeginDelete(x)
        PROVE  BoardInv'
    <3>1. /\ pc[x] = "idle" /\ pc' = [pc EXCEPT ![x] = "delete"]
          /\ op'[x].entry = 0 /\ ~op'[x].revives
          /\ \A y \in Admins \ {x} : op'[y] = op[y] /\ pc'[y] = pc[y]
          /\ UNCHANGED <<rule, activeRules, missed, outrun, revived, overtaken>>
      BY <2>2 DEF BeginDelete
    <3>2. Settled' = Settled
      BY <3>1 DEF Settled, Told
    <3>3. QED
      BY <3>1, <3>2 DEF PublishersInStep, BoardTracksRules
  <2>3. ASSUME NEW x \in Admins, CommitDelete(x)
        PROVE  BoardInv'
    <3>1. /\ pc[x] = "delete" /\ pc' = [pc EXCEPT ![x] = "publish"]
          /\ op[x].rule \in Rules /\ op' = op /\ op[x].entry = 0 /\ ~op[x].revives
          /\ rule' = [rule EXCEPT ![op[x].rule] = Deleted] /\ Overtake(x, op[x].rule)
          /\ UNCHANGED <<activeRules, missed, outrun, revived>>
      BY <2>3 DEF CommitDelete, RequestsNameRules, PublishersInStep
    <3>2. \A y \in Admins \ {x} : op'[y] = op[y] /\ pc'[y] = pc[y]
      BY <3>1
    <3>3. /\ x \notin overtaken' /\ op[x].rule \notin Settled' /\ Settled' \subseteq Settled
          /\ \A y \in overtaken' : pc'[y] = "publish"
          /\ \A y \in Admins \ overtaken' :
               y # x => y \notin overtaken /\ (pc'[y] = "publish" => op[y].rule # op[x].rule)
      BY <3>1, <3>2, WriterOvertakes
    <3>4. /\ Right(rule'[op[x].rule], op[x].revives) = 0
          /\ Right(rule'[op[x].rule], FALSE) = 0
          /\ \A q \in Rules : q # op[x].rule => rule'[q] = rule[q]
      BY <3>1 DEF Right, Deleted
    <3>5. PublishersInStep'
      BY <3>1, <3>2, <3>3, <3>4 DEF PublishersInStep, RequestsNameRules
    <3>6. \A q \in Settled' : q \in Settled /\ q # op[x].rule
      BY <3>3
    <3>7. Settled \subseteq Rules
      BY DEF Settled, Told
    <3>8. BoardTracksRules'
      BY <3>1, <3>4, <3>6, <3>7 DEF BoardTracksRules
    <3>9. QED
      BY <3>5, <3>8
  <2>4. ASSUME NEW x \in Admins, RollBackDelete(x) \/ Audit(x)
        PROVE  BoardInv'
    <3>1. /\ pc[x] # "publish" /\ pc' = [pc EXCEPT ![x] = "idle"]
          /\ \A y \in Admins \ {x} : op'[y] = op[y] /\ pc'[y] = pc[y]
          /\ UNCHANGED <<rule, activeRules, missed, outrun, revived, overtaken>>
      BY <2>4 DEF RollBackDelete, Audit, Finish
    <3>2. Settled' = Settled
      BY <3>1 DEF Settled, Told
    <3>3. QED
      BY <3>1, <3>2 DEF PublishersInStep, BoardTracksRules
  <2>5. ASSUME NEW x \in Admins, Publish(x)
        PROVE  BoardInv'
    <3>1. /\ pc[x] = "publish" /\ pc' = [pc EXCEPT ![x] = "audit"]
          /\ op[x].rule \in Rules /\ op' = op /\ rule' = rule
          /\ overtaken' = overtaken \ {x}
          /\ activeRules' = [activeRules EXCEPT ![op[x].rule] = op[x].entry]
          /\ revived' = IF op[x].revives THEN revived \cup {op[x].rule}
                                         ELSE revived \ {op[x].rule}
      BY <2>5 DEF Publish, Entry, RequestsNameRules
    <3>2. PublishersInStep'
      BY <3>1 DEF PublishersInStep
    <3>3. CASE x \in overtaken
      <4>1. outrun' = outrun \cup {op[x].rule} /\ missed' = missed
        BY <2>5, <3>3 DEF Publish
      <4>2. Settled' \subseteq Settled \ {op[x].rule}
        BY <3>1, <3>3, <4>1 DEF Settled, Told
      <4>3. BoardTracksRules'
        BY <3>1, <4>2 DEF BoardTracksRules, Settled, Told
      <4> QED
        BY <3>2, <4>3
    <3>4. CASE x \notin overtaken
      <4>1. outrun' = outrun \ {op[x].rule} /\ missed' = missed \ {op[x].rule}
        BY <2>5, <3>4 DEF Publish
      <4>2. Settled' \subseteq Settled \cup {op[x].rule}
        BY <3>1, <4>1 DEF Settled, Told
      <4>3. op[x].entry = Right(rule[op[x].rule], op[x].revives)
        BY <3>1, <3>4 DEF PublishersInStep
      <4>4. BoardTracksRules'
        BY <3>1, <4>2, <4>3 DEF BoardTracksRules, Settled, Told, Right
      <4> QED
        BY <3>2, <4>4
    <3> QED
      BY <3>3, <3>4
  <2>6. ASSUME NEW x \in Admins, Abort(x)
        PROVE  BoardInv'
    <3>1. /\ pc[x] = "publish" /\ pc' = [pc EXCEPT ![x] = "idle"]
          /\ \A y \in Admins \ {x} : op'[y] = op[y] /\ pc'[y] = pc[y]
          /\ overtaken' = overtaken \ {x}
          /\ missed' = IF x \in overtaken THEN missed ELSE missed \cup {op[x].rule}
          /\ UNCHANGED <<rule, activeRules, outrun, revived>>
      BY <2>6 DEF Abort, Finish
    <3>2. PublishersInStep'
      BY <3>1 DEF PublishersInStep
    <3>3. Settled' \subseteq Settled
      BY <3>1 DEF Settled, Told
    <3>4. BoardTracksRules'
      BY <3>1, <3>3 DEF BoardTracksRules
    <3>5. QED
      BY <3>2, <3>4
  <2>7. ASSUME NEW i \in Ingests, Evaluate(i)
        PROVE  BoardInv'
    <3>1. UNCHANGED <<rule, board, reqs>>
      BY <2>7 DEF Evaluate, StartEvaluation, PersistAlert, AbortEvaluation
    <3>2. QED
      BY <3>1 DEF PublishersInStep, BoardTracksRules, Settled, Told
  <2>8. CASE Restart
    <3>1. PublishersInStep'
      BY <2>8 DEF Restart, PublishersInStep
    <3>2. Settled' \subseteq Rules \ missed'
      BY DEF Settled, Told
    <3>3. BoardTracksRules'
      BY <2>8, <3>2 DEF Restart, LoadedRules, BoardTracksRules
    <3>4. QED
      BY <3>1, <3>3
  <2>9. CASE UNCHANGED vars
    BY <2>9 DEF vars, PublishersInStep, BoardTracksRules, Settled, Told
  <2>10. QED
    BY <2>1, <2>2, <2>3, <2>4, <2>5, <2>6, <2>7, <2>8, <2>9 DEF Next, Administer, Writes
<1>3. QED
  BY <1>1, <1>2, TypeCorrect, NamesHold, PTL DEF Spec

=============================================================================
