-------------------------- MODULE AutoDrainHistory --------------------------
(* AutoDrain with a record of when readings were rejected and accepted, which *)
(* the code does not keep and its documentation speaks of.                    *)
EXTENDS AutoDrain

VARIABLES rejectedAt, acceptedAt    \* when readings were rejected and accepted
history == <<rejectedAt, acceptedAt>>

HInit == Init /\ rejectedAt = {} /\ acceptedAt = {}
HNext ==
    /\ Next
    /\ rejectedAt' = IF total'.rejected > total.rejected THEN rejectedAt \cup {now} ELSE rejectedAt
    /\ acceptedAt' = IF total'.received > total.received /\ total'.rejected = total.rejected
                       THEN acceptedAt \cup {now} ELSE acceptedAt
HSpec == HInit /\ [][HNext]_<<vars, history>>

\* docs/patterns.md:261, a drain is for an error rate that "exceeds 20% for 3
\* consecutive snapshots (roughly 3 minutes of sustained failure)": when one is
\* requested, some reading failed in the last three intervals.
DrainMeansFailures ==
    [][ ~requested /\ requested' =>
          \E t \in rejectedAt : now - t <= Critical * Interval ]_<<vars, history>>

\* The same sentence read the other way: readings failed in every second of more
\* than four intervals, none was accepted, and so a drain is requested.
FailuresMeanDrain ==
    LET window == now - (Critical + 1) * Interval .. now - 1 IN
    window \subseteq rejectedAt /\ window \cap acceptedAt = {} => requested \/ draining

=============================================================================
