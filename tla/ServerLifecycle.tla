--------------------------- MODULE ServerLifecycle ---------------------------
(***************************************************************************)
(* The life of one server process (crates/scemas-server, LifecycleState of *)
(* crates/scemas-core): boot, steady state, the drain cascade and the      *)
(* restart, against telemetry requests on other threads.  Shared are three *)
(* atomics (phase, drain stage, in-flight count), the three ingestion      *)
(* counters and their row in Postgres, the connection pool, and the lock   *)
(* of the alerting blackboard.  The handlers of the other routes, Operator,*)
(* are not counted, but the end of the drain waits for that lock and for   *)
(* their connections.                                                      *)
(*                                                                         *)
(* A telemetry request is cut at every atomic and every statement that the *)
(* drain can observe or race with:                                         *)
(*   Admit | Refuse, Track, Receive, Persist | Reject, Accept,             *)
(*   StartEvaluation, PostAlerts, EndEvaluation,                           *)
(*   Snapshot (three loads), Flush | SkipFlush, Release                    *)
(* and Release, the Drop of its RequestGuard, may come at every .await.    *)
(* No statement has a timeout: a request may stay for good where it is.    *)
(*                                                                         *)
(* Abstractions.  Whether a reading is authorised and valid, and whether   *)
(* the health snapshot is due, are left open (AutoDrain models the latter);*)
(* of evaluation and aggregation only lock and connections are here.  A    *)
(* statement takes effect at once or, in a crash, not at all; dropping a   *)
(* future gives its connection back.                                       *)
(***************************************************************************)
EXTENDS Integers, FiniteSets

CONSTANTS
    Ingests,        \* telemetry requests, each sent once
    PollLimit,      \* polls before the hard timeout of wait_for_inflight (600)
    MaxRestarts     \* bound on crashes and restarts

\* The drain takes its snapshot like a request does.
Drain == "drain"
\* A handler of any other route.
Operator == "operator"
\* Nobody has the write lock.
Free == "free"

ASSUME LifecycleAssumption ==
    /\ IsFiniteSet(Ingests) /\ Ingests \cap {Drain, Operator, Free} = {}
    /\ PollLimit \in Nat
    /\ MaxRestarts \in Nat

VARIABLES
    phase, stage, inflight, \* LifecycleState
    polls,          \* local of wait_for_inflight
    counters,       \* IngestionHealth
    snap,           \* a HealthSnapshot being taken, per request and for the drain
    loaded,         \* how many of its three counters have been read
    pc,             \* the next step of a telemetry request
    writer,         \* who holds the write lock of AlertingManager.blackboard
    poolOpen,       \* the connection pool accepts statements
    busy,           \* who has a connection that the closing pool waits for
    audited,        \* the drain has read the blackboard and inserts its audit row
    stored,         \* sensor_readings: the telemetry requests with a row
    persisted,      \* ingestion_counters
    restarts,       \* restarts so far
    timedOut, flushed, late \* what happened to this drain, see below

lifecycle == <<phase, stage, inflight>>
drain     == <<polls, audited, timedOut, flushed, late>>
health    == <<counters, snap, loaded>>
db        == <<poolOpen, stored, persisted>>
vars == <<lifecycle, drain, health, db, pc, writer, busy, restarts>>

\* Who takes snapshots.
Snappers == Ingests \cup {Drain}

Phases == {"Initializing", "Authenticating", "Distributing", "Draining", "ShuttingDown", "Stopped"}
Stages == {"NotDraining", "StopIngestion", "DrainAPIRequests", "DrainOperatorViews",
           "StopMonitoring", "Complete"}

Counters == [received : Nat, accepted : Nat, rejected : Nat]
Zero == [received |-> 0, accepted |-> 0, rejected |-> 0]

\* A request between track_request and release_request; one that may be dropped
\* (it is at an .await, or returning); one past the check of the phase.
Suspended == {"received", "stored", "accepted", "evaluating", "dispatching", "evaluated",
              "flush", "leave"}
Tracked == Suspended \cup {"tracked"}
Running == Tracked \cup {"admitted"}
In(states) == {r \in Ingests : pc[r] \in states}

TypeOK ==
    /\ phase \in Phases /\ stage \in Stages /\ inflight \in Nat
    /\ polls \in 0 .. PollLimit + 1
    /\ counters \in Counters /\ persisted \in Counters
    /\ snap \in [Snappers -> Counters]
    /\ loaded \in [Snappers -> 0 .. 3]
    /\ pc \in [Ingests -> Running \cup {"new", "done"}]
    /\ poolOpen \in BOOLEAN
    /\ stored \subseteq Ingests
    /\ restarts \in 0 .. MaxRestarts
    /\ writer \in Ingests \cup {Operator, Free}
    /\ busy \subseteq Ingests \cup {Operator}
    /\ audited \in BOOLEAN
    /\ timedOut \in BOOLEAN /\ flushed \in {"no", "ok", "failed"} /\ late \subseteq Ingests

\* What a new process starts from, whatever the last one left behind.
Boot ==
    /\ phase' = "Initializing" /\ stage' = "NotDraining" /\ inflight' = 0
    /\ polls' = 0 /\ audited' = FALSE /\ timedOut' = FALSE /\ flushed' = "no" /\ late' = {}
    /\ counters' = Zero
    /\ snap' = [x \in Snappers |-> Zero] /\ loaded' = [x \in Snappers |-> 0]
    /\ writer' = Free /\ busy' = {} /\ poolOpen' = FALSE

Init ==
    /\ phase = "Initializing" /\ stage = "NotDraining" /\ inflight = 0
    /\ polls = 0 /\ audited = FALSE /\ timedOut = FALSE /\ flushed = "no" /\ late = {}
    /\ counters = Zero /\ persisted = Zero
    /\ snap = [x \in Snappers |-> Zero] /\ loaded = [x \in Snappers |-> 0]
    /\ pc = [r \in Ingests |-> "new"]
    /\ writer = Free /\ busy = {} /\ poolOpen = FALSE
    /\ stored = {} /\ restarts = 0

-----------------------------------------------------------------------------
(* from_config: a failing step ends the process, which is a Crash. *)

Connect ==
    /\ phase = "Initializing"
    /\ phase' = "Authenticating"
    /\ poolOpen' = TRUE
    /\ UNCHANGED <<stage, inflight, drain, health, stored, persisted, pc, writer, busy,
                   restarts>>

LoadIngestionCounters ==
    /\ phase = "Authenticating"
    /\ counters' = persisted
    /\ phase' = "Distributing"
    /\ UNCHANGED <<stage, inflight, drain, snap, loaded, db, pc, writer, busy, restarts>>

\* A request the process was serving is gone with it.
Crash ==
    /\ restarts < MaxRestarts
    /\ restarts' = restarts + 1
    /\ Boot
    /\ pc' = [r \in Ingests |-> IF pc[r] \in Running THEN "done" ELSE pc[r]]
    /\ UNCHANGED <<stored, persisted>>

-----------------------------------------------------------------------------
(* ingest_telemetry *)

\* The statement that r was waiting for is answered.
Answered(r) == busy' = busy \ {r}
HasConnection(r) == poolOpen \/ r \in busy
Unlock(r) == writer' = IF writer = r THEN Free ELSE writer

Step(r, from, to) ==
    /\ pc[r] = from
    /\ pc' = [pc EXCEPT ![r] = to]
    /\ Answered(r)
Count(field) == counters' = [counters EXCEPT ![field] = @ + 1]

IsAcceptingIngestion_AnyPhase == phase \in Phases \ {"Initializing", "Authenticating", "Stopped"}
IsAcceptingIngestion == phase = "Distributing"

\* The phase is read here and the request counted only in Track.
Admit(r) ==
    /\ IsAcceptingIngestion
    /\ Step(r, "new", "admitted")
    /\ UNCHANGED <<lifecycle, drain, health, db, writer, restarts>>

\* 503 while the process listens but does not distribute.
Refuse(r) ==
    /\ phase \in {"Draining", "ShuttingDown"}
    /\ Step(r, "new", "done")
    /\ UNCHANGED <<lifecycle, drain, health, db, writer, restarts>>

Track(r) ==
    /\ Step(r, "admitted", "tracked")
    /\ inflight' = inflight + 1
    /\ UNCHANGED <<phase, stage, drain, health, db, writer, restarts>>

Receive(r) ==
    /\ Step(r, "tracked", "received")
    /\ Count("received")
    /\ UNCHANGED <<lifecycle, drain, snap, loaded, db, writer, restarts>>

\* The device id does not match, the device is not authorised, the reading is
\* not valid, or one of the statements failed.
Reject(r) ==
    /\ Step(r, "received", "leave")
    /\ Count("rejected")
    /\ UNCHANGED <<lifecycle, drain, snap, loaded, db, writer, restarts>>

Persist(r) ==
    /\ HasConnection(r)
    /\ Step(r, "received", "stored")
    /\ stored' = stored \cup {r}
    /\ UNCHANGED <<lifecycle, drain, health, poolOpen, persisted, writer, restarts>>

Accept(r) ==
    /\ Step(r, "stored", "accepted")
    /\ Count("accepted")
    /\ UNCHANGED <<lifecycle, drain, snap, loaded, db, writer, restarts>>

\* evaluate_reading takes the read lock for its rules, ...
StartEvaluation(r) ==
    /\ writer = Free
    /\ Step(r, "accepted", "evaluating")
    /\ UNCHANGED <<lifecycle, drain, health, db, writer, restarts>>

\* ... and when its alerts are inserted the write lock, which it keeps during the
\* statements of dispatch_alerts.
PostAlerts(r) ==
    /\ writer = Free
    /\ Step(r, "evaluating", "dispatching")
    /\ writer' = r
    /\ UNCHANGED <<lifecycle, drain, health, db, restarts>>

\* It returns and drops the lock, or the INSERT of an alert has failed.
EndEvaluation(r) ==
    /\ Step(r, "evaluating", "evaluated") \/ Step(r, "dispatching", "evaluated")
    /\ Unlock(r)
    /\ UNCHANGED <<lifecycle, drain, health, db, restarts>>

\* IngestionHealth::snapshot: three loads, and any other thread between two.
Load_WrongCounter(x, n, field) ==
    /\ loaded[x] = n
    /\ snap' = [snap EXCEPT ![x][field] = counters["received"]]
    /\ loaded' = [loaded EXCEPT ![x] = n + 1]
Load(x, n, field) ==
    /\ loaded[x] = n
    /\ snap' = [snap EXCEPT ![x][field] = counters[field]]
    /\ loaded' = [loaded EXCEPT ![x] = n + 1]
LoadCounter(x) ==
    Load(x, 0, "received") \/ Load(x, 1, "accepted") \/ Load(x, 2, "rejected")

Snapshot(r) ==
    /\ LoadCounter(r)
    /\ Step(r, "evaluated", IF loaded[r] = 2 THEN "flush" ELSE "evaluated")
    /\ UNCHANGED <<lifecycle, drain, counters, db, writer, restarts>>

\* The snapshot is a local that is gone once it was used or its handler dropped.
Forget(r) == snap' = [snap EXCEPT ![r] = Zero] /\ loaded' = [loaded EXCEPT ![r] = 0]

\* record_ingestion_health, when a snapshot is due.
Flush(r) ==
    /\ HasConnection(r)
    /\ Step(r, "flush", "leave")
    /\ persisted' = snap[r]
    /\ Forget(r)
    /\ UNCHANGED <<lifecycle, drain, counters, poolOpen, stored, writer, restarts>>

\* It is not due, or one of its statements failed.
SkipFlush(r) ==
    /\ Step(r, "flush", "leave")
    /\ Forget(r)
    /\ UNCHANGED <<lifecycle, drain, counters, db, writer, restarts>>

\* RequestGuard::drop: the handler returned, or its future was dropped.  From
\* "received" this is also the return for a missing header, which is not counted
\* as a rejection.
Dropped_NotCounted == inflight
Dropped == inflight - 1
Release(r) ==
    /\ pc[r] \in Suspended
    /\ pc' = [pc EXCEPT ![r] = "done"]
    /\ inflight' = Dropped
    /\ Forget(r) /\ Unlock(r) /\ Answered(r)
    /\ UNCHANGED <<phase, stage, drain, counters, db, restarts>>

-----------------------------------------------------------------------------
(* The handlers of the other routes: all that the end of the drain can see. *)

\* transition_alert and update_rule_status keep the write lock while they insert
\* their audit row.  (Before the drain needs the lock they could only delay
\* telemetry requests, which may take as long without.)
OperatorLocks ==
    /\ stage = "StopMonitoring" /\ writer = Free
    /\ writer' = Operator
    /\ UNCHANGED <<lifecycle, drain, health, db, pc, busy, restarts>>
OperatorUnlocks ==
    /\ writer = Operator
    /\ Unlock(Operator) /\ Answered(Operator)
    /\ UNCHANGED <<lifecycle, drain, health, db, pc, restarts>>
OperatorEnds ==
    /\ Operator \in busy /\ writer # Operator
    /\ Answered(Operator)
    /\ UNCHANGED <<lifecycle, drain, health, db, pc, writer, restarts>>


-----------------------------------------------------------------------------
(* drain *)

others == <<health, db, pc, writer, busy, restarts>>

\* A signal arrived, or the auto-drain was notified.
StartDrain ==
    /\ phase = "Distributing"
    /\ phase' = "Draining"
    /\ UNCHANGED <<stage, inflight, drain, others>>

AdvanceDrain(from, to) == phase = "Draining" /\ stage = from /\ stage' = to

StopIngestion ==
    /\ AdvanceDrain("NotDraining", "StopIngestion")
    /\ UNCHANGED <<phase, inflight, drain, others>>
DrainAPIRequests ==
    /\ AdvanceDrain("StopIngestion", "DrainAPIRequests")
    /\ UNCHANGED <<phase, inflight, drain, others>>

\* wait_for_inflight: one turn of its loop, and its two ends.
Poll ==
    /\ phase = "Draining" /\ stage \in {"DrainAPIRequests", "DrainOperatorViews"}
    /\ inflight > 0 /\ polls <= PollLimit
    /\ polls' = polls + 1
    /\ UNCHANGED <<lifecycle, audited, timedOut, flushed, late, others>>

Quiet_Unchecked == polls <= PollLimit
Quiet == inflight = 0 /\ polls <= PollLimit
TimedOut == polls > PollLimit
Over_NoTimeout == inflight = 0
Over == Quiet \/ TimedOut

\* `timedOut` keeps that a wait ended by its timeout and, if none did, `late` the
\* requests that had passed the check of the phase but were not yet counted.
WaitEnds(from, to) ==
    /\ AdvanceDrain(from, to)
    /\ Over
    /\ polls' = 0
    /\ timedOut' = (timedOut \/ TimedOut)
    /\ late' = IF timedOut' THEN {} ELSE In({"admitted"})
    /\ UNCHANGED <<phase, inflight, audited, flushed, others>>
DrainOperatorViews == WaitEnds("DrainAPIRequests", "DrainOperatorViews")
StopMonitoring == WaitEnds("DrainOperatorViews", "StopMonitoring")

FinalSnapshot ==
    /\ phase = "Draining" /\ stage = "StopMonitoring"
    /\ LoadCounter(Drain)
    /\ UNCHANGED <<lifecycle, drain, counters, db, pc, writer, busy, restarts>>

\* flush_final; its failure is logged and ignored.
FlushFinal ==
    /\ phase = "Draining" /\ stage = "StopMonitoring"
    /\ loaded[Drain] = 3 /\ flushed = "no"
    /\ flushed' \in {"ok", "failed"}
    /\ persisted' = IF flushed' = "ok" THEN snap[Drain] ELSE persisted
    /\ snap' = [snap EXCEPT ![Drain] = Zero]
    /\ UNCHANGED <<lifecycle, polls, audited, timedOut, late, counters, loaded, poolOpen,
                   stored, pc, writer, busy, restarts>>

\* AlertingManager::shutdown takes the read lock and gives it back, ...
ReadBlackboard ==
    /\ phase = "Draining" /\ stage = "StopMonitoring"
    /\ flushed # "no" /\ ~audited
    /\ writer = Free
    /\ audited' = TRUE
    /\ UNCHANGED <<lifecycle, polls, timedOut, flushed, late, others>>

\* ... and inserts an audit row, whose failure is logged and ignored.
AuditShutdown ==
    /\ audited
    /\ AdvanceDrain("StopMonitoring", "Complete")
    /\ UNCHANGED <<phase, inflight, drain, others>>

SetShuttingDown ==
    /\ phase = "Draining" /\ stage = "Complete"
    /\ phase' = "ShuttingDown"
    /\ UNCHANGED <<stage, inflight, drain, others>>

\* pool.close(): no statement begins from now on, and who waits for a connection
\* gets an error; any of the suspended handlers may have one.
MayHaveConnection == {r \in In(Suspended \ {"accepted", "leave"}) : loaded[r] = 0 \/ pc[r] = "flush"}
ClosePool ==
    /\ phase = "ShuttingDown" /\ poolOpen
    /\ poolOpen' = FALSE
    /\ busy' \in SUBSET (MayHaveConnection \cup {Operator})
    /\ UNCHANGED <<lifecycle, drain, health, stored, persisted, pc, writer, restarts>>

\* It returns when all connections have been given back.
PoolClosed ==
    /\ phase = "ShuttingDown" /\ ~poolOpen
    /\ busy = {}
    /\ phase' = "Stopped"
    /\ UNCHANGED <<stage, inflight, drain, others>>

-----------------------------------------------------------------------------
Ingest(r) ==
    \/ Admit(r) \/ Refuse(r) \/ Track(r) \/ Receive(r) \/ Persist(r) \/ Reject(r)
    \/ Accept(r) \/ StartEvaluation(r) \/ PostAlerts(r) \/ EndEvaluation(r)
    \/ Snapshot(r) \/ Flush(r) \/ SkipFlush(r) \/ Release(r)

Operate == OperatorLocks \/ OperatorUnlocks \/ OperatorEnds

DrainStep ==
    \/ StopIngestion \/ DrainAPIRequests \/ Poll \/ DrainOperatorViews \/ StopMonitoring
    \/ FinalSnapshot \/ ReadBlackboard \/ SetShuttingDown \/ ClosePool \/ PoolClosed
DrainStatement == FlushFinal \/ AuditShutdown

\* The process has exited and nobody restarts it.
Exited == phase = "Stopped" /\ UNCHANGED vars

Next ==
    \/ Connect \/ LoadIngestionCounters \/ Crash
    \/ \E r \in Ingests : Ingest(r)
    \/ Operate
    \/ StartDrain \/ DrainStep \/ DrainStatement
    \/ Exited

Spec == Init /\ [][Next]_vars

\* Only the drain's own task is assumed to run: any statement, the drain's two
\* included, may hang for good.  The lock is handed out in the order in which it
\* was asked for, so the drain gets it if it keeps becoming free.
FairSpec == Spec /\ WF_vars(DrainStep) /\ SF_vars(ReadBlackboard)

-----------------------------------------------------------------------------
(* Properties *)

\* The in-flight count the drain waits on is exact whatever is dropped where: it
\* never underflows (it is an AtomicU32) and it reaches zero when, and only when,
\* no counted request is left.
InflightIsExact == inflight = Cardinality(In(Tracked))

\* total_accepted never claims a reading that is not in sensor_readings, across
\* drains, crashes, restarts and counters flushed from outdated snapshots.
AcceptedIsStored ==
    /\ counters.accepted <= Cardinality(stored)
    /\ persisted.accepted <= Cardinality(stored)

PastTheWaits == stage \in {"StopMonitoring", "Complete"}

\* If no wait timed out, the only requests that are still running after the
\* waits are those that raced with the start of the drain.
OnlyLateRequestsOutliveTheDrain ==
    PastTheWaits /\ ~timedOut => In(Running) \subseteq late

\* If moreover no request raced, and the final flush succeeded, the row in
\* ingestion_counters is what the next process has to start from: nothing that
\* was counted is lost, and no older snapshot was written over it.
CleanDrainKeepsCounters ==
    stage = "Complete" /\ flushed = "ok" /\ ~timedOut /\ late = {} => persisted = counters

Ended == phase \in {"Stopped", "Initializing"}

\* What the drain waits for without a timeout: an answer to its own statements, the
\* blackboard's lock, and the connections of others.
OwnStatement == stage = "StopMonitoring" /\ loaded[Drain] = 3 /\ (flushed = "no" \/ audited)
LockedOut == stage = "StopMonitoring" /\ ~audited /\ writer # Free
PoolInUse == phase = "ShuttingDown" /\ ~poolOpen /\ busy # {}
Blocked == OwnStatement \/ LockedOut \/ PoolInUse

\* A drain ends (or the process crashes), whatever telemetry requests do and
\* although they may hang, unless one of these three waits never ends.
DrainTerminates == <>[]Blocked \/ ((phase = "Draining") ~> Ended)

\* lib.rs:187-191, "hard timeout: 30 seconds ... drain timeout reached, forcing
\* shutdown": a drain ends whatever hangs.
DrainIsForced == (phase = "Draining") ~> Ended

\* lib.rs:118-119, "each stage waits for the previous subsystem to quiesce before
\* proceeding": past the waits no telemetry request is in flight, unless one of
\* them timed out.
EachStageQuiesces == PastTheWaits /\ ~timedOut => inflight = 0

=============================================================================
