------------------------------ MODULE AutoDrain ------------------------------
(***************************************************************************)
(* record_ingestion_health of DataDistributionManager (crates/scemas-      *)
(* server, distribution.rs): the health snapshot that handlers of accepted *)
(* readings take at most once per interval, and the drain it requests when *)
(* the error rate stays critical.  Every handler runs it on its own; they  *)
(* share the gate (last_health_snapshot_at, taken by compare_exchange),    *)
(* the count of critical snapshots, the latch drain_requested and the      *)
(* Notify that main.rs waits on.                                           *)
(*                                                                         *)
(* One action per statement and per atomic that others can race with:      *)
(*   AcceptReading, ReadGate, TakeGate, InsertStatus, FlushCounters,       *)
(*   Judge, Signal                                                         *)
(* A handler may be dropped at each of its statements if its client        *)
(* disconnects.                                                            *)
(*                                                                         *)
(* Abstractions.  Only handlers of accepted readings are followed; the     *)
(* rest of the ingestion is in ServerLifecycle.  A snapshot of the counters*)
(* is taken at once.  Time is a bounded count of seconds.                  *)
(***************************************************************************)
EXTENDS Integers, FiniteSets

CONSTANTS
    Handlers,               \* slots for concurrent handlers of accepted readings
    Interval,               \* HEALTH_SNAPSHOT_INTERVAL_SECONDS (60)
    Critical,               \* CRITICAL_SNAPSHOTS_BEFORE_DRAIN (3)
    MaxTime, MaxReadings, MaxRestarts   \* bounds on the clock, readings, restarts

ASSUME AutoDrainAssumption ==
    /\ Interval \in Nat \ {0} /\ Critical \in Nat \ {0}
    /\ MaxTime \in Nat /\ MaxReadings \in Nat /\ MaxRestarts \in Nat

VARIABLES
    now,            \* Utc::now().timestamp()
    last,           \* last_health_snapshot_at, 0 if none
    consecutive,    \* consecutive_critical_snapshots
    requested,      \* drain_requested
    permit,         \* drain_signal holds the permit of notify_one
    draining,       \* the phase is not Distributing any more
    total,          \* IngestionHealth: readings received and rejected
    persisted,      \* the same in ingestion_counters
    pc, at, prev,   \* a handler: its next step, its `now` and `previous`
    snap,           \* the counters it was called with
    rows,           \* platform_status rows of this process: when, critical or not
    dropped,        \* a handler of this process was dropped, see Drop
    restarts

gate   == <<last, consecutive, requested, permit>>
locals == <<at, prev, snap>>
life   == <<dropped, restarts>>
vars   == <<now, gate, draining, total, persisted, pc, locals, rows, life>>

Totals == [received : 0 .. MaxReadings, rejected : 0 .. MaxReadings]
Zero == [received |-> 0, rejected |-> 0]
Times == 0 .. Interval + MaxTime

\* error_rate > CRITICAL_ERROR_RATE (0.20), over all readings ever received.
IsCritical(t) == 5 * t.rejected > t.received

TypeOK ==
    /\ now \in Times /\ last \in Times
    /\ consecutive \in 0 .. Cardinality(rows)
    /\ requested \in BOOLEAN /\ permit \in BOOLEAN /\ draining \in BOOLEAN
    /\ total \in Totals /\ persisted \in Totals
    /\ pc \in [Handlers -> {"idle", "gate", "take", "insert", "flush", "judge", "signal"}]
    /\ at \in [Handlers -> Times] /\ prev \in [Handlers -> Times]
    /\ snap \in [Handlers -> Totals]
    /\ rows \subseteq [at : Times, critical : BOOLEAN]
    /\ dropped \in BOOLEAN /\ restarts \in 0 .. MaxRestarts

\* The clock is far beyond 0 when the process starts: its first snapshot is due.
Init ==
    /\ now = Interval /\ last = 0 /\ consecutive = 0
    /\ requested = FALSE /\ permit = FALSE /\ draining = FALSE
    /\ total = Zero /\ persisted = Zero
    /\ pc = [h \in Handlers |-> "idle"]
    /\ at = [h \in Handlers |-> 0] /\ prev = [h \in Handlers |-> 0]
    /\ snap = [h \in Handlers |-> Zero]
    /\ rows = {} /\ dropped = FALSE /\ restarts = 0

-----------------------------------------------------------------------------
Tick ==
    /\ now < Interval + MaxTime
    /\ now' = now + 1
    /\ UNCHANGED <<gate, draining, total, persisted, pc, locals, rows, life>>

Forget(h) ==
    /\ at' = [at EXCEPT ![h] = 0]
    /\ prev' = [prev EXCEPT ![h] = 0]
    /\ snap' = [snap EXCEPT ![h] = Zero]
Finish(h) == pc' = [pc EXCEPT ![h] = "idle"] /\ Forget(h)

\* A rejected reading returns before the health is recorded.
RejectReading ==
    /\ ~draining /\ total.received < MaxReadings
    /\ total' = [received |-> total.received + 1, rejected |-> total.rejected + 1]
    /\ UNCHANGED <<now, gate, draining, persisted, pc, locals, rows, life>>

AcceptReading(h) ==
    /\ pc[h] = "idle"
    /\ ~draining /\ total.received < MaxReadings
    /\ total' = [total EXCEPT !.received = @ + 1]
    /\ snap' = [snap EXCEPT ![h] = total']
    /\ pc' = [pc EXCEPT ![h] = "gate"]
    /\ UNCHANGED <<now, gate, draining, persisted, at, prev, rows, life>>

\* Reads the clock and the gate; it ends here when no snapshot is due.
ReadGate(h) ==
    /\ pc[h] = "gate"
    /\ IF now - last < Interval THEN Finish(h)
       ELSE /\ at' = [at EXCEPT ![h] = now]
            /\ prev' = [prev EXCEPT ![h] = last]
            /\ pc' = [pc EXCEPT ![h] = "take"]
            /\ UNCHANGED snap
    /\ UNCHANGED <<now, gate, draining, total, persisted, rows, life>>

CompareExchange(current, new) == last' = IF last = current THEN new ELSE last

TookGate_Always(h) == TRUE
TookGate(h) == last = prev[h]
TakeGate(h) ==
    /\ pc[h] = "take"
    /\ CompareExchange(prev[h], at[h])
    /\ IF TookGate(h)
         THEN pc' = [pc EXCEPT ![h] = "insert"] /\ UNCHANGED locals
         ELSE Finish(h)
    /\ UNCHANGED <<now, consecutive, requested, permit, draining, total, persisted, rows, life>>

InsertStatus(h) ==
    /\ pc[h] = "insert"
    /\ rows' = rows \cup {[at |-> at[h], critical |-> IsCritical(snap[h])]}
    /\ pc' = [pc EXCEPT ![h] = "flush"]
    /\ UNCHANGED <<now, gate, draining, total, persisted, locals, life>>

\* A failing INSERT gives the gate back, if it is still this handler's.
GiveGateBack_Never(h) == last' = last
GiveGateBack(h) == CompareExchange(at[h], prev[h])
FailStatus(h) ==
    /\ pc[h] = "insert"
    /\ GiveGateBack(h)
    /\ Finish(h)
    /\ UNCHANGED <<now, consecutive, requested, permit, draining, total, persisted, rows, life>>

\* A failure to flush is logged and ignored.
FlushCounters(h) ==
    /\ pc[h] = "flush"
    /\ persisted' \in {persisted, snap[h]}
    /\ pc' = [pc EXCEPT ![h] = "judge"]
    /\ UNCHANGED <<now, gate, draining, total, locals, rows, life>>

\* fetch_add or store(0), then `count >= 3 && !swap(true) && !is_draining()`.
\* The audit row and the signal follow only if all three hold.
Counted == consecutive + 1
Enough_OffByOne(count) == count + 1 >= Critical
Enough(count) == count >= Critical
JudgeCritical(h) ==
    /\ consecutive' = Counted
    /\ requested' = (requested \/ Enough(consecutive'))
    /\ IF Enough(consecutive') /\ ~requested /\ ~draining
         THEN pc' = [pc EXCEPT ![h] = "signal"] /\ UNCHANGED locals
         ELSE Finish(h)
JudgeHealthy(h) ==
    /\ consecutive' = 0
    /\ Finish(h)
    /\ UNCHANGED requested
Judge(h) ==
    /\ pc[h] = "judge"
    /\ IF IsCritical(snap[h]) THEN JudgeCritical(h) ELSE JudgeHealthy(h)
    /\ UNCHANGED <<now, last, permit, draining, total, persisted, rows, life>>

\* The audit row is written (a failure is ignored) and the drain notified.
Notified_Lost == FALSE
Notified == TRUE
Signal(h) ==
    /\ pc[h] = "signal"
    /\ permit' = Notified
    /\ Finish(h)
    /\ UNCHANGED <<now, last, consecutive, requested, draining, total, persisted, rows, life>>

\* The client is gone and the handler's future is dropped at its statement.
Drop(h) ==
    /\ pc[h] \in {"insert", "flush", "signal"}
    /\ Finish(h)
    /\ dropped' = TRUE
    /\ UNCHANGED <<now, gate, draining, total, persisted, rows, restarts>>

-----------------------------------------------------------------------------
\* with_graceful_shutdown: a termination signal, or the drain was notified.
Terminate ==
    /\ ~draining
    /\ draining' = TRUE
    /\ UNCHANGED <<now, gate, total, persisted, pc, locals, rows, life>>
AutoDrain ==
    /\ permit /\ ~draining
    /\ draining' = TRUE
    /\ permit' = FALSE
    /\ UNCHANGED <<now, last, consecutive, requested, total, persisted, pc, locals, rows, life>>

\* The process ends, drained or not, and a new one restores the counters.
Restart ==
    /\ restarts < MaxRestarts
    /\ restarts' = restarts + 1
    /\ last' = 0 /\ consecutive' = 0
    /\ requested' = FALSE /\ permit' = FALSE /\ draining' = FALSE
    /\ total' = persisted
    /\ pc' = [h \in Handlers |-> "idle"]
    /\ at' = [h \in Handlers |-> 0] /\ prev' = [h \in Handlers |-> 0]
    /\ snap' = [h \in Handlers |-> Zero]
    /\ rows' = {} /\ dropped' = FALSE
    /\ UNCHANGED <<now, persisted>>

Step(h) ==
    \/ ReadGate(h) \/ TakeGate(h) \/ InsertStatus(h) \/ FailStatus(h)
    \/ FlushCounters(h) \/ Judge(h) \/ Signal(h)

Next ==
    \/ Tick \/ RejectReading \/ Terminate \/ AutoDrain \/ Restart
    \/ \E h \in Handlers : AcceptReading(h) \/ Step(h) \/ Drop(h)

Spec == Init /\ [][Next]_vars

\* tokio polls a handler that can proceed, and the task that waits for the drain.
FairSpec == Spec /\ WF_vars(AutoDrain) /\ \A h \in Handlers : WF_vars(Step(h))

-----------------------------------------------------------------------------
(* Properties *)

Pending == {h \in Handlers : pc[h] = "insert"}

\* However the handlers race for the gate, and whoever gives it back after a
\* failure, no two snapshots of one process are less than an interval apart.
SnapshotsAreSpaced ==
    /\ \A r, s \in rows : r = s \/ r.at - s.at >= Interval \/ s.at - r.at >= Interval
    /\ \A r \in rows, h \in Pending : at[h] - r.at >= Interval \/ r.at - at[h] >= Interval

\* A drain is requested only after three critical snapshots by this process; by
\* SnapshotsAreSpaced these took at least two intervals.
DrainNeedsCriticalSnapshots ==
    requested => Cardinality({r \in rows : r.critical}) >= Critical

\* While clients stay connected, the gate is closed only by a snapshot that was
\* written or is being written: a failure never costs an interval.
GateIsClosedBySnapshots ==
    now - last < Interval => \/ \E r \in rows : r.at = last
                             \/ \E h \in Pending : at[h] = last
                             \/ dropped

\* docs/patterns.md:261, "it sends a drain signal": a drain that was requested
\* takes place.
RequestedDrainTakesPlace == requested ~> (draining \/ ~requested)

\* It does if clients stay connected, whoever else judges or fails meanwhile.
ConnectedDrainTakesPlace == requested ~> (draining \/ ~requested \/ dropped)

=============================================================================
