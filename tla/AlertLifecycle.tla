--------------------------- MODULE AlertLifecycle ---------------------------
(***************************************************************************)
(* What the alert state machine promises of the rows of table `alerts`:    *)
(* a row appears as "active" and from then on moves only along the pairs   *)
(* that lifecycle.rs admits.  This is the abstract specification that the  *)
(* interleaved handlers of AlertBoard are compared with.                   *)
(***************************************************************************)

CONSTANT Alerts          \* alert identifiers (UUIDs), each used at most once

VARIABLE status          \* [Alerts -> Status]: the status column, "absent" before the row exists

Status == {"absent", "triggered", "active", "acknowledged", "resolved"}

\* The statuses an operator can ask for.
Targets == {"acknowledged", "resolved"}

\* can_transition
CanTransition(from, to) ==
    <<from, to>> \in { <<"triggered", "active">>,
                       <<"active", "acknowledged">>,
                       <<"acknowledged", "resolved">>,
                       <<"active", "resolved">> }

Init == status = [a \in Alerts |-> "absent"]

\* One reading broke a rule: the evaluator creates the alert as Active.
Raise(a) ==
    /\ status[a] = "absent"
    /\ status' = [status EXCEPT ![a] = "active"]

\* An operator moves a set of alerts, a batch or a single one, to `next`.
Transition(moved, next) ==
    /\ \A a \in moved : CanTransition(status[a], next)
    /\ status' = [a \in Alerts |-> IF a \in moved THEN next ELSE status[a]]

Next ==
    \/ \E a \in Alerts : Raise(a)
    \/ \E moved \in SUBSET Alerts, next \in Targets : Transition(moved, next)

Spec == Init /\ [][Next]_status

=============================================================================
