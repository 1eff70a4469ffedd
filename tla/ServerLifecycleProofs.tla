------------------------ MODULE ServerLifecycleProofs ------------------------
(***************************************************************************)
(* Theorems about ServerLifecycle, for any number of telemetry requests,   *)
(* any hard timeout and any number of crashes.                             *)
(***************************************************************************)
EXTENDS ServerLifecycle, FiniteSetTheorems, TLAPS

-----------------------------------------------------------------------------
(* The type invariant.  That the in-flight count is a natural number after a *)
(* request is released needs that it is exact, so both are proved together.  *)

TypedAndExact == TypeOK /\ InflightIsExact

\* Sets of requests have a size, and it changes with their elements.
LEMMA RequestSetsAreFinite ==
    ASSUME NEW S \in SUBSET Ingests
    PROVE  /\ IsFiniteSet(S) /\ Cardinality(S) \in Nat
           /\ \A r : Cardinality(S \cup {r}) =
                       IF r \in S THEN Cardinality(S) ELSE Cardinality(S) + 1
           /\ \A r : Cardinality(S \ {r}) =
                       IF r \in S THEN Cardinality(S) - 1 ELSE Cardinality(S)
<1>1. IsFiniteSet(S)
  BY LifecycleAssumption, FS_Subset
<1>2. QED
  BY <1>1, FS_CardinalityType, FS_AddElement, FS_RemoveElement

\* Only Track, Release and Crash change the set of the counted requests.
LEMMA ExactnessIsKept ==
    ASSUME TypeOK, InflightIsExact, [Next]_vars
    PROVE  InflightIsExact'
<1> USE DEF InflightIsExact, In, Tracked, Suspended
<1>1. ASSUME In(Tracked)' = In(Tracked), inflight' = inflight
      PROVE  InflightIsExact'
  BY <1>1
<1>2. ASSUME NEW r \in Ingests, Track(r)
      PROVE  InflightIsExact'
  <2>1. In(Tracked)' = In(Tracked) \cup {r}
    BY <1>2 DEF Track, Step, TypeOK
  <2>2. r \notin In(Tracked) /\ In(Tracked) \in SUBSET Ingests
    BY <1>2 DEF Track, Step
  <2>3. QED
    BY <1>2, <2>1, <2>2, RequestSetsAreFinite DEF Track
<1>3. ASSUME NEW r \in Ingests, Release(r)
      PROVE  InflightIsExact'
  <2>1. In(Tracked)' = In(Tracked) \ {r}
    BY <1>3 DEF Release, TypeOK
  <2>2. r \in In(Tracked) /\ In(Tracked) \in SUBSET Ingests
    BY <1>3 DEF Release
  <2>3. QED
    BY <1>3, <2>1, <2>2, RequestSetsAreFinite DEF Release, Dropped
<1>4. CASE Crash
  <2>1. In(Tracked)' = {}
    BY <1>4 DEF Crash, TypeOK, Running
  <2>2. QED
    BY <1>4, <2>1, FS_EmptySet DEF Crash, Boot
<1>5. ASSUME NEW r \in Ingests,
             \/ Admit(r) \/ Refuse(r) \/ Receive(r) \/ Persist(r) \/ Reject(r) \/ Accept(r)
             \/ StartEvaluation(r) \/ PostAlerts(r) \/ EndEvaluation(r) \/ Snapshot(r)
             \/ Flush(r) \/ SkipFlush(r)
      PROVE  InflightIsExact'
  BY <1>1, <1>5 DEF TypeOK, Admit, Refuse, Receive, Persist, Reject, Accept, StartEvaluation,
                    PostAlerts, EndEvaluation, Snapshot, Flush, SkipFlush, Step, lifecycle
<1>6. CASE Operate \/ DrainStep \/ DrainStatement \/ StartDrain \/ Connect \/ LoadIngestionCounters
  BY <1>1, <1>6 DEF Operate, OperatorLocks, OperatorUnlocks, OperatorEnds, DrainStep,
     DrainStatement, StartDrain, Connect, LoadIngestionCounters, StopIngestion,
     DrainAPIRequests, Poll, DrainOperatorViews, StopMonitoring, WaitEnds, FinalSnapshot,
     FlushFinal, ReadBlackboard, AuditShutdown, SetShuttingDown, ClosePool, PoolClosed,
     others, lifecycle
<1>7. CASE UNCHANGED vars
  BY <1>1, <1>7 DEF vars, lifecycle
<1>8. QED
  BY <1>2, <1>3, <1>4, <1>5, <1>6, <1>7 DEF Next, Ingest, Exited

\* Every variable keeps its type, the in-flight count among them.
LEMMA TypesAreKept ==
    ASSUME TypeOK, InflightIsExact, [Next]_vars
    PROVE  TypeOK'
<1> USE DEF TypeOK, Phases, Stages, Snappers, Counters, Running, Tracked, Suspended
<1> USE DEF lifecycle, drain, health, db, others, Answered, Unlock
<1>0. Zero \in Counters
  BY DEF Zero
<1>1. ASSUME NEW r \in Ingests,
             \/ Admit(r) \/ Refuse(r) \/ Track(r) \/ Persist(r)
             \/ StartEvaluation(r) \/ PostAlerts(r) \/ EndEvaluation(r)
      PROVE  TypeOK'
  BY <1>1 DEF Admit, Refuse, Track, Persist, StartEvaluation, PostAlerts, EndEvaluation, Step
<1>2. ASSUME NEW r \in Ingests, Receive(r) \/ Reject(r) \/ Accept(r)
      PROVE  TypeOK'
  BY <1>2 DEF Receive, Reject, Accept, Step, Count
<1>3. ASSUME NEW x \in Snappers, LoadCounter(x)
      PROVE  snap' \in [Snappers -> Counters] /\ loaded' \in [Snappers -> 0 .. 3]
  BY <1>3 DEF LoadCounter, Load
<1>4. ASSUME NEW r \in Ingests, Snapshot(r)
      PROVE  TypeOK'
  BY <1>3, <1>4 DEF Snapshot, Step
<1>5. ASSUME NEW r \in Ingests, Flush(r) \/ SkipFlush(r)
      PROVE  TypeOK'
  <2>1. /\ r \in Snappers /\ snap' = [snap EXCEPT ![r] = Zero]
        /\ loaded' = [loaded EXCEPT ![r] = 0] /\ pc' = [pc EXCEPT ![r] = "leave"]
        /\ persisted' \in {persisted, snap[r]} /\ busy' = busy \ {r}
        /\ UNCHANGED <<lifecycle, drain, counters, poolOpen, stored, writer, restarts>>
    BY <1>5 DEF Flush, SkipFlush, Forget, Step
  <2>2. /\ snap' \in [Snappers -> Counters] /\ loaded' \in [Snappers -> 0 .. 3]
        /\ persisted' \in Counters /\ busy' \subseteq Ingests \cup {Operator}
    BY <1>0, <2>1
  <2>3. QED
    BY <2>1, <2>2
<1>6. ASSUME NEW r \in Ingests, Release(r)
      PROVE  TypeOK'
  <2>1. r \in In(Tracked) /\ In(Tracked) \in SUBSET Ingests
    BY <1>6 DEF Release, In
  <2>2. Cardinality(In(Tracked)) \in Nat /\ Cardinality(In(Tracked) \ {r}) \in Nat
    BY <2>1, RequestSetsAreFinite
  <2>3. inflight' \in Nat
    BY <1>6, <2>1, <2>2, RequestSetsAreFinite DEF Release, Dropped, InflightIsExact
  <2>4. QED
    BY <1>0, <1>6, <2>3 DEF Release, Forget
<1>7. CASE Crash
  <2>1. Zero \in Counters /\ 0 \in 0 .. PollLimit + 1 /\ 0 \in 0 .. 3
    BY LifecycleAssumption DEF Zero
  <2>2. restarts' \in 0 .. MaxRestarts
    BY <1>7, LifecycleAssumption DEF Crash
  <2>3. pc' \in [Ingests -> Running \cup {"new", "done"}]
    BY <1>7 DEF Crash
  <2>4. snap' \in [Snappers -> Counters] /\ loaded' \in [Snappers -> 0 .. 3]
    BY <1>7, <2>1 DEF Crash, Boot
  <2>5. QED
    BY <1>7, <2>1, <2>2, <2>3, <2>4 DEF Crash, Boot
<1>8. CASE Connect \/ LoadIngestionCounters \/ StartDrain
  BY <1>8 DEF Connect, LoadIngestionCounters, StartDrain
<1>9. CASE \/ StopIngestion \/ DrainAPIRequests \/ ReadBlackboard \/ AuditShutdown
           \/ SetShuttingDown \/ ClosePool \/ PoolClosed \/ Operate
  <2>1. CASE ClosePool
    <3>1. MayHaveConnection \subseteq Ingests
      BY DEF MayHaveConnection, In
    <3>2. QED
      BY <2>1, <3>1 DEF ClosePool
  <2>2. CASE StopIngestion \/ DrainAPIRequests \/ ReadBlackboard \/ AuditShutdown
    BY <2>2 DEF StopIngestion, DrainAPIRequests, ReadBlackboard, AuditShutdown, AdvanceDrain
  <2>3. CASE SetShuttingDown \/ PoolClosed \/ Operate
    BY <2>3 DEF SetShuttingDown, PoolClosed, Operate, OperatorLocks, OperatorUnlocks,
                OperatorEnds
  <2>4. QED
    BY <1>9, <2>1, <2>2, <2>3
<1>10. CASE Poll
  BY <1>10, LifecycleAssumption DEF Poll
<1>11. CASE DrainOperatorViews \/ StopMonitoring
  <2>1. In({"admitted"}) \subseteq Ingests /\ TimedOut \in BOOLEAN
    BY DEF In, TimedOut
  <2>2. QED
    BY <1>11, <2>1, LifecycleAssumption
       DEF DrainOperatorViews, StopMonitoring, WaitEnds, AdvanceDrain
<1>12. CASE FinalSnapshot
  BY <1>3, <1>12 DEF FinalSnapshot
<1>13. CASE FlushFinal
  BY <1>0, <1>13 DEF FlushFinal
<1>14. CASE UNCHANGED vars
  BY <1>14 DEF vars
<1>15. QED
  BY <1>1, <1>2, <1>4, <1>5, <1>6, <1>7, <1>8, <1>9, <1>10, <1>11, <1>12, <1>13, <1>14
     DEF Next, Ingest, DrainStep, DrainStatement, Exited

LEMMA TypedAndExactHolds == Spec => []TypedAndExact
<1>1. Init => TypedAndExact
  <2>1. Init => TypeOK
    <3> SUFFICES ASSUME Init PROVE TypeOK
      OBVIOUS
    <3> USE DEF Init
    <3>1. Zero \in Counters
      BY DEF Zero, Counters
    <3>2. snap \in [Snappers -> Counters] /\ counters \in Counters /\ persisted \in Counters
      BY <3>1
    <3>3. polls \in 0 .. PollLimit + 1 /\ restarts \in 0 .. MaxRestarts /\ inflight \in Nat
      BY LifecycleAssumption
    <3>4. loaded \in [Snappers -> 0 .. 3] /\ pc \in [Ingests -> Running \cup {"new", "done"}]
      OBVIOUS
    <3>5. phase \in Phases /\ stage \in Stages
      BY DEF Phases, Stages
    <3>6. poolOpen \in BOOLEAN /\ stored \subseteq Ingests /\ timedOut \in BOOLEAN
            /\ flushed \in {"no", "ok", "failed"} /\ late \subseteq Ingests
            /\ writer \in Ingests \cup {Operator, Free} /\ busy \subseteq Ingests \cup {Operator}
            /\ audited \in BOOLEAN
      OBVIOUS
    <3>7. QED
      BY <3>2, <3>3, <3>4, <3>5, <3>6 DEF TypeOK
  <2>2. Init => In(Tracked) = {}
    BY DEF Init, In, Tracked, Suspended
  <2>3. QED
    BY <2>1, <2>2, FS_EmptySet DEF TypedAndExact, InflightIsExact, Init
<1>2. TypedAndExact /\ [Next]_vars => TypedAndExact'
  BY ExactnessIsKept, TypesAreKept DEF TypedAndExact
<1>3. QED
  BY <1>1, <1>2, PTL DEF Spec

\* The type invariant, for any number of requests.
THEOREM TypeCorrect == Spec => []TypeOK
  BY TypedAndExactHolds, PTL DEF TypedAndExact

\* The count the drain waits on is the number of counted requests, whatever is
\* dropped where (RequestGuard, track_request).
THEOREM InflightExact == Spec => []InflightIsExact
  BY TypedAndExactHolds, PTL DEF TypedAndExact

-----------------------------------------------------------------------------
(* Accepted readings are stored.  The counters are compared with the rows of  *)
(* requests that are past their INSERT's increment or were dropped before it: *)
(* a request between the two may still count.                                 *)

Counted == {r \in stored : pc[r] # "stored"}

AcceptedInv ==
    /\ \A r \in Ingests : pc[r] \in {"new", "admitted", "tracked", "received"} => r \notin stored
    /\ \A r \in Ingests : pc[r] = "stored" => r \in stored
    /\ counters.accepted <= Cardinality(Counted)
    /\ persisted.accepted <= Cardinality(Counted)
    /\ \A x \in Snappers : snap[x].accepted <= Cardinality(Counted)

\* The size of Counted when it stays, grows, or gains a request.
LEMMA CountedGrows ==
    ASSUME TypeOK, TypeOK', Counted \subseteq Counted'
    PROVE  /\ Cardinality(Counted) \in Nat /\ Cardinality(Counted') \in Nat
           /\ Cardinality(Counted) <= Cardinality(Counted')
           /\ \A r \in Counted' \ Counted : Cardinality(Counted) + 1 <= Cardinality(Counted')
<1>1. Counted \in SUBSET Ingests /\ Counted' \in SUBSET Ingests
  BY DEF TypeOK, Counted
<1>2. IsFiniteSet(Counted')
  BY <1>1, RequestSetsAreFinite
<1>3. ASSUME NEW r \in Counted' \ Counted
      PROVE  Cardinality(Counted) + 1 <= Cardinality(Counted')
  <2>1. Counted \cup {r} \in SUBSET Counted'
    BY <1>3
  <2>2. Cardinality(Counted \cup {r}) = Cardinality(Counted) + 1
    BY <1>1, <1>3, RequestSetsAreFinite
  <2>3. QED
    BY <1>2, <2>1, <2>2, FS_Subset
<1>4. QED
  BY <1>1, <1>2, <1>3, RequestSetsAreFinite, FS_Subset

\* A step that leaves the counters, the snapshots and the row in Postgres alone
\* keeps the bounds when no counted row is lost.
LEMMA BoundsAreKept ==
    ASSUME TypeOK, TypeOK', AcceptedInv, Counted \subseteq Counted',
           counters' \in {counters, persisted, Zero} \/ counters'.accepted = counters.accepted,
           persisted' = persisted \/ \E x \in Snappers : persisted' = snap[x],
           \A x \in Snappers : \/ snap'[x].accepted = snap[x].accepted
                               \/ snap'[x].accepted = counters.accepted
                               \/ snap'[x].accepted = 0
    PROVE  /\ counters'.accepted <= Cardinality(Counted')
           /\ persisted'.accepted <= Cardinality(Counted')
           /\ \A x \in Snappers : snap'[x].accepted <= Cardinality(Counted')
<1>1. /\ Cardinality(Counted) \in Nat /\ Cardinality(Counted') \in Nat
      /\ Cardinality(Counted) <= Cardinality(Counted')
  BY CountedGrows
<1>2. /\ counters.accepted \in Nat /\ counters'.accepted \in Nat
      /\ persisted.accepted \in Nat /\ persisted'.accepted \in Nat
      /\ \A x \in Snappers : snap[x].accepted \in Nat /\ snap'[x].accepted \in Nat
  BY DEF TypeOK, Counters
<1>3. counters'.accepted <= Cardinality(Counted)
  BY <1>1, <1>2 DEF AcceptedInv, Zero
<1>4. persisted'.accepted <= Cardinality(Counted)
  BY <1>1, <1>2 DEF AcceptedInv
<1>5. \A x \in Snappers : snap'[x].accepted <= Cardinality(Counted)
  BY <1>1, <1>2 DEF AcceptedInv
<1>6. QED
  BY <1>1, <1>2, <1>3, <1>4, <1>5

LEMMA AcceptedIsKept ==
    ASSUME TypeOK, TypeOK', AcceptedInv, [Next]_vars
    PROVE  AcceptedInv'
<1> DEFINE Unstored == \A r \in Ingests :
                          pc[r] \in {"new", "admitted", "tracked", "received"} => r \notin stored
           Stored == \A r \in Ingests : pc[r] = "stored" => r \in stored
<1> USE DEF lifecycle, drain, health, db, others
<1>1. Unstored /\ Stored
  BY DEF AcceptedInv
<1>2. ASSUME Unstored', Stored', Counted \subseteq Counted',
             counters' \in {counters, persisted, Zero} \/ counters'.accepted = counters.accepted,
             persisted' = persisted \/ \E x \in Snappers : persisted' = snap[x],
             \A x \in Snappers : \/ snap'[x].accepted = snap[x].accepted
                                 \/ snap'[x].accepted = counters.accepted
                                 \/ snap'[x].accepted = 0
      PROVE  AcceptedInv'
  BY <1>2, BoundsAreKept DEF AcceptedInv
<1>3. ASSUME NEW r \in Ingests, Accept(r)
      PROVE  AcceptedInv'
  <2>1. Unstored' /\ Stored' /\ Counted \subseteq Counted' /\ r \in Counted' \ Counted
    BY <1>1, <1>3 DEF Accept, Step, Counted, TypeOK
  <2>2. /\ Cardinality(Counted) \in Nat /\ Cardinality(Counted') \in Nat
        /\ Cardinality(Counted) + 1 <= Cardinality(Counted')
    BY <2>1, CountedGrows
  <2>3. counters'.accepted = counters.accepted + 1 /\ counters.accepted \in Nat
    BY <1>3 DEF Accept, Count, TypeOK, Counters
  <2>4. persisted.accepted \in Nat /\ \A x \in Snappers : snap[x].accepted \in Nat
    BY DEF TypeOK, Counters
  <2>5. counters'.accepted <= Cardinality(Counted')
    BY <2>2, <2>3 DEF AcceptedInv
  <2>6. persisted' = persisted /\ snap' = snap
    BY <1>3 DEF Accept
  <2>7. QED
    BY <2>1, <2>2, <2>4, <2>5, <2>6 DEF AcceptedInv
<1>4. ASSUME NEW r \in Ingests,
             \/ Admit(r) \/ Refuse(r) \/ Track(r) \/ Persist(r) \/ Flush(r) \/ SkipFlush(r)
             \/ Release(r) \/ StartEvaluation(r) \/ PostAlerts(r) \/ EndEvaluation(r)
      PROVE  AcceptedInv'
  <2>1. Unstored' /\ Stored' /\ Counted \subseteq Counted'
    BY <1>1, <1>4 DEF Admit, Refuse, Track, Persist, Flush, SkipFlush, Release,
                      StartEvaluation, PostAlerts, EndEvaluation, Step, Suspended, Counted, TypeOK
  <2>2. /\ counters' = counters
        /\ \A x \in Snappers : snap'[x].accepted = snap[x].accepted \/ snap'[x].accepted = 0
    BY <1>4 DEF Admit, Refuse, Track, Persist, Flush, SkipFlush, Release, StartEvaluation,
                PostAlerts, EndEvaluation, Forget, Zero, TypeOK
  <2>3. persisted' = persisted \/ \E x \in Snappers : persisted' = snap[x]
    BY <1>4 DEF Admit, Refuse, Track, Persist, Flush, SkipFlush, Release, StartEvaluation,
                PostAlerts, EndEvaluation, Snappers
  <2>4. QED
    BY <1>2, <2>1, <2>2, <2>3
<1>5. ASSUME NEW r \in Ingests, Receive(r) \/ Reject(r)
      PROVE  AcceptedInv'
  <2>1. Unstored' /\ Stored' /\ Counted \subseteq Counted'
    BY <1>1, <1>5 DEF Receive, Reject, Step, Counted, TypeOK
  <2>2. persisted' = persisted /\ snap' = snap
    BY <1>5 DEF Receive, Reject
  <2>3. counters'.accepted = counters.accepted
    BY <1>5 DEF Receive, Reject, Count, TypeOK, Counters
  <2>4. QED
    BY <1>2, <2>1, <2>2, <2>3
<1>6. ASSUME NEW y \in Snappers, LoadCounter(y), NEW x \in Snappers
      PROVE  \/ snap'[x].accepted = snap[x].accepted
             \/ snap'[x].accepted = counters.accepted
  BY <1>6 DEF LoadCounter, Load, TypeOK, Counters
<1>7. ASSUME NEW r \in Ingests, Snapshot(r)
      PROVE  AcceptedInv'
  <2>1. Unstored' /\ Stored' /\ Counted \subseteq Counted'
    BY <1>1, <1>7 DEF Snapshot, Step, Counted, TypeOK
  <2>2. counters' = counters /\ persisted' = persisted
    BY <1>7 DEF Snapshot
  <2>3. QED
    BY <1>2, <1>6, <1>7, <2>1, <2>2 DEF Snapshot, Snappers
<1>8. CASE FinalSnapshot
  <2>1. Unstored' /\ Stored' /\ Counted \subseteq Counted'
    BY <1>1, <1>8 DEF FinalSnapshot, Counted
  <2>2. counters' = counters /\ persisted' = persisted
    BY <1>8 DEF FinalSnapshot
  <2>3. QED
    BY <1>2, <1>6, <1>8, <2>1, <2>2 DEF FinalSnapshot, Snappers
<1>9. CASE Crash
  <2>1. Unstored' /\ Stored' /\ Counted \subseteq Counted'
    BY <1>1, <1>9 DEF Crash, Running, Tracked, Suspended, Counted, TypeOK
  <2>2. counters' = Zero /\ persisted' = persisted
        /\ \A x \in Snappers : snap'[x].accepted = 0
    BY <1>9 DEF Crash, Boot, Zero
  <2>3. QED
    BY <1>2, <2>1, <2>2
<1>10. CASE \/ LoadIngestionCounters \/ Connect \/ StartDrain \/ StopIngestion
            \/ DrainAPIRequests \/ Poll \/ DrainOperatorViews \/ StopMonitoring
            \/ ReadBlackboard \/ AuditShutdown \/ SetShuttingDown \/ ClosePool \/ PoolClosed
            \/ Operate \/ UNCHANGED vars
  <2> USE DEF LoadIngestionCounters, Connect, StartDrain, StopIngestion,
        DrainAPIRequests, Poll, DrainOperatorViews, StopMonitoring, WaitEnds, ReadBlackboard,
        AuditShutdown, SetShuttingDown, ClosePool, PoolClosed, Operate, OperatorLocks,
        OperatorUnlocks, OperatorEnds, vars
  <2>1. Unstored' /\ Stored' /\ Counted' = Counted
    BY <1>1, <1>10 DEF Counted
  <2>2. snap' = snap /\ counters' \in {counters, persisted} /\ persisted' = persisted
    BY <1>10
  <2>3. QED
    BY <1>2, <2>1, <2>2
<1>11. CASE FlushFinal
  <2>1. Unstored' /\ Stored' /\ Counted' = Counted
    BY <1>1, <1>11 DEF FlushFinal, Counted
  <2>2. /\ counters' = counters /\ (persisted' = persisted \/ persisted' = snap[Drain])
        /\ \A x \in Snappers : snap'[x].accepted = snap[x].accepted \/ snap'[x].accepted = 0
    BY <1>11 DEF FlushFinal, Zero, TypeOK
  <2>3. QED
    BY <1>2, <2>1, <2>2 DEF Snappers
<1>12. QED
  BY <1>3, <1>4, <1>5, <1>7, <1>8, <1>9, <1>10, <1>11
     DEF Next, Ingest, DrainStep, DrainStatement, Exited

\* total_accepted never claims a reading that is not in sensor_readings, in this
\* process or the next (health.rs, flush_ingestion_counters).
THEOREM AcceptedStored == Spec => []AcceptedIsStored
<1>1. Init /\ TypeOK => AcceptedInv
  <2> SUFFICES ASSUME Init, TypeOK
               PROVE  AcceptedInv
    OBVIOUS
  <2>1. Cardinality(Counted) \in Nat
    BY RequestSetsAreFinite DEF Counted, TypeOK
  <2>2. counters.accepted = 0 /\ persisted.accepted = 0 /\ \A x \in Snappers : snap[x].accepted = 0
    BY DEF Init, Zero
  <2>3. \A r \in Ingests : r \notin stored /\ pc[r] = "new"
    BY DEF Init
  <2>4. QED
    BY <2>1, <2>2, <2>3 DEF AcceptedInv
<1>2. TypeOK /\ TypeOK' /\ AcceptedInv /\ [Next]_vars => AcceptedInv'
  BY AcceptedIsKept
<1>3. TypeOK /\ AcceptedInv => AcceptedIsStored
  <2> SUFFICES ASSUME TypeOK, AcceptedInv
               PROVE  AcceptedIsStored
    OBVIOUS
  <2>1. Counted \in SUBSET stored /\ stored \in SUBSET Ingests
    BY DEF Counted, TypeOK
  <2>2. Cardinality(Counted) <= Cardinality(stored)
    BY <2>1, RequestSetsAreFinite, FS_Subset
  <2>3. Cardinality(Counted) \in Nat /\ Cardinality(stored) \in Nat
    BY <2>1, RequestSetsAreFinite
  <2>4. counters.accepted \in Nat /\ persisted.accepted \in Nat
    BY DEF TypeOK, Counters
  <2>5. QED
    BY <2>2, <2>3, <2>4 DEF AcceptedInv, AcceptedIsStored
<1>4. QED
  BY <1>1, <1>2, <1>3, TypeCorrect, PTL DEF Spec

-----------------------------------------------------------------------------
(* The drain.  Past its waits no request is admitted any more, and if none    *)
(* was left then, nobody but the drain itself touches the counters.           *)

CleanDrain == PastTheWaits /\ ~timedOut /\ late = {}

DrainInv ==
    /\ stage # "NotDraining" => phase \in {"Draining", "ShuttingDown", "Stopped"}
    /\ OnlyLateRequestsOutliveTheDrain
    /\ ~PastTheWaits => loaded[Drain] = 0 /\ flushed = "no"
    /\ CleanDrain /\ flushed = "no" =>
         /\ loaded[Drain] >= 1 => snap[Drain].received = counters.received
         /\ loaded[Drain] >= 2 => snap[Drain].accepted = counters.accepted
         /\ loaded[Drain] >= 3 => snap[Drain].rejected = counters.rejected
    /\ CleanDrain /\ flushed = "ok" => persisted = counters
    /\ loaded[Drain] < 3 => flushed = "no"

\* A request that is neither new nor answered keeps a drain from being clean.
LEMMA NobodyRunsInACleanDrain ==
    ASSUME TypeOK, DrainInv, CleanDrain, NEW r \in Ingests
    PROVE  pc[r] \in {"new", "done"}
  BY DEF TypeOK, DrainInv, CleanDrain, OnlyLateRequestsOutliveTheDrain, In

\* What a step of a request may do to the drain's invariant: nothing, unless it
\* runs in a clean drain or is admitted while one has begun.
LEMMA RequestsKeepDrainInv ==
    ASSUME TypeOK, TypeOK', DrainInv, NEW r \in Ingests, Ingest(r)
    PROVE  DrainInv'
<1> USE DEF lifecycle, drain, health, db, others
<1>1. phase' = phase /\ stage' = stage /\ timedOut' = timedOut /\ late' = late /\ flushed' = flushed
  BY DEF Ingest, Admit, Refuse, Track, Receive, Persist, Reject, Accept, StartEvaluation,
         PostAlerts, EndEvaluation, Snapshot, Flush, SkipFlush, Release
<1>2. loaded'[Drain] = loaded[Drain] /\ snap'[Drain] = snap[Drain]
  <2>0. Drain \in Snappers /\ r # Drain
    BY LifecycleAssumption DEF Snappers
  <2>1. CASE Snapshot(r)
    BY <2>0, <2>1 DEF Snapshot, LoadCounter, Load, TypeOK
  <2>2. CASE Flush(r) \/ SkipFlush(r) \/ Release(r)
    BY <2>0, <2>2 DEF Flush, SkipFlush, Release, Forget, TypeOK
  <2>3. CASE ~(Snapshot(r) \/ Flush(r) \/ SkipFlush(r) \/ Release(r))
    BY <2>3 DEF Ingest, Admit, Refuse, Track, Receive, Persist, Reject, Accept,
                StartEvaluation, PostAlerts, EndEvaluation
  <2>4. QED
    BY <2>1, <2>2, <2>3
<1>3. In(Running)' \subseteq In(Running) \/ phase = "Distributing"
  <2>1. CASE Admit(r)
    BY <2>1 DEF Admit, IsAcceptingIngestion
  <2>2. CASE ~Admit(r)
    BY <2>2 DEF Ingest, Refuse, Track, Receive, Persist, Reject, Accept, StartEvaluation,
                PostAlerts, EndEvaluation, Snapshot, Flush, SkipFlush, Release, Step, In,
                Running, Tracked, Suspended, TypeOK
  <2>3. QED
    BY <2>1, <2>2
<1>4. OnlyLateRequestsOutliveTheDrain'
  BY <1>1, <1>3 DEF DrainInv, OnlyLateRequestsOutliveTheDrain, PastTheWaits
<1>5. CASE CleanDrain
  <2>1. pc[r] \in {"new", "done"} /\ phase # "Distributing"
    BY <1>5, NobodyRunsInACleanDrain DEF DrainInv, CleanDrain, PastTheWaits
  <2>2. counters' = counters /\ persisted' = persisted
    BY <2>1 DEF Ingest, Admit, Refuse, Track, Receive, Persist, Reject, Accept,
                StartEvaluation, PostAlerts, EndEvaluation, Snapshot, Flush, SkipFlush,
                Release, Step, Suspended
  <2>3. QED
    BY <1>1, <1>2, <1>4, <1>5, <2>2 DEF DrainInv, CleanDrain, PastTheWaits
<1>6. CASE ~CleanDrain
  BY <1>1, <1>2, <1>4, <1>6 DEF DrainInv, CleanDrain, PastTheWaits
<1>7. QED
  BY <1>5, <1>6

\* The drain, the other handlers and the rest of the process.
LEMMA ProcessKeepsDrainInv ==
    ASSUME TypeOK, TypeOK', InflightIsExact, DrainInv,
           \/ DrainStep \/ DrainStatement \/ Operate \/ StartDrain
           \/ Connect \/ LoadIngestionCounters \/ Crash \/ UNCHANGED vars
    PROVE  DrainInv'
<1> USE DEF lifecycle, drain, health, db, others, PastTheWaits
<1>1. CASE Crash
  BY <1>1 DEF Crash, Boot, Snappers, DrainInv, CleanDrain, OnlyLateRequestsOutliveTheDrain
<1>2. CASE Connect \/ LoadIngestionCounters \/ StartDrain
  BY <1>2 DEF Connect, LoadIngestionCounters, StartDrain, DrainInv, CleanDrain,
              OnlyLateRequestsOutliveTheDrain
<1>3. CASE StopIngestion \/ DrainAPIRequests \/ Poll \/ DrainOperatorViews
  BY <1>3 DEF StopIngestion, DrainAPIRequests, Poll, DrainOperatorViews, WaitEnds,
              AdvanceDrain, DrainInv, CleanDrain, OnlyLateRequestsOutliveTheDrain
<1>4. CASE StopMonitoring
  <2>1. ~timedOut' => inflight = 0
    BY <1>4 DEF StopMonitoring, WaitEnds, Over, Quiet
  <2>2. inflight = 0 => In(Tracked) = {}
    <3>1. In(Tracked) \in SUBSET Ingests
      BY DEF In
    <3>2. QED
      BY <3>1, RequestSetsAreFinite, FS_EmptySet DEF InflightIsExact
  <2>3. ~timedOut' => In(Running)' \subseteq late'
    BY <1>4, <2>1, <2>2 DEF StopMonitoring, WaitEnds, In, Running
  <2>4. stage = "DrainOperatorViews" /\ stage' = "StopMonitoring" /\ phase' = "Draining"
    BY <1>4 DEF StopMonitoring, WaitEnds, AdvanceDrain
  <2>5. loaded[Drain] = 0 /\ flushed = "no" /\ loaded' = loaded /\ flushed' = flushed
    BY <1>4, <2>4 DEF StopMonitoring, WaitEnds, DrainInv
  <2>6. QED
    BY <2>3, <2>4, <2>5 DEF DrainInv, CleanDrain, OnlyLateRequestsOutliveTheDrain
<1>5. CASE FinalSnapshot
  <2>1. /\ stage = "StopMonitoring" /\ phase = "Draining"
        /\ UNCHANGED <<phase, stage, timedOut, late, flushed, counters, persisted, pc>>
    BY <1>5 DEF FinalSnapshot
  <2>2. loaded[Drain] < 3 /\ loaded[Drain] \in 0 .. 3
    BY <1>5 DEF FinalSnapshot, LoadCounter, Load, TypeOK, Snappers
  <2>3. flushed = "no"
    BY <2>2 DEF DrainInv
  <2>4. CleanDrain =>
         /\ loaded'[Drain] >= 1 => snap'[Drain].received = counters.received
         /\ loaded'[Drain] >= 2 => snap'[Drain].accepted = counters.accepted
         /\ loaded'[Drain] >= 3 => snap'[Drain].rejected = counters.rejected
    BY <1>5, <2>3 DEF FinalSnapshot, LoadCounter, Load, DrainInv, TypeOK, Snappers, Counters
  <2>5. OnlyLateRequestsOutliveTheDrain'
    BY <2>1 DEF DrainInv, OnlyLateRequestsOutliveTheDrain, In
  <2>6. QED
    BY <2>1, <2>3, <2>4, <2>5 DEF DrainInv, CleanDrain
<1>6. CASE FlushFinal
  <2>1. /\ loaded[Drain] = 3 /\ flushed = "no"
        /\ stage = "StopMonitoring" /\ phase = "Draining"
        /\ flushed' # "no" /\ (flushed' = "ok" => persisted' = snap[Drain])
        /\ UNCHANGED <<phase, stage, timedOut, late, counters, loaded, pc>>
    BY <1>6 DEF FlushFinal
  <2>2. CleanDrain => snap[Drain] = counters
    <3>1. snap[Drain] \in Counters /\ counters \in Counters
      BY DEF TypeOK, Snappers
    <3>2. CleanDrain => /\ snap[Drain].received = counters.received
                        /\ snap[Drain].accepted = counters.accepted
                        /\ snap[Drain].rejected = counters.rejected
      BY <2>1 DEF DrainInv
    <3>3. QED
      BY <3>1, <3>2 DEF Counters
  <2>3. CleanDrain' <=> CleanDrain
    BY <2>1 DEF CleanDrain
  <2>4. OnlyLateRequestsOutliveTheDrain'
    BY <2>1 DEF DrainInv, OnlyLateRequestsOutliveTheDrain, In
  <2>5. QED
    BY <2>1, <2>2, <2>3, <2>4 DEF DrainInv
<1>7. CASE ReadBlackboard \/ AuditShutdown
  <2>1. /\ phase = "Draining" /\ stage = "StopMonitoring" /\ PastTheWaits' /\ phase' = phase
        /\ UNCHANGED <<timedOut, late, flushed, counters, persisted, snap, loaded, pc>>
    BY <1>7 DEF ReadBlackboard, AuditShutdown, AdvanceDrain
  <2>2. (CleanDrain' <=> CleanDrain) /\ OnlyLateRequestsOutliveTheDrain'
    BY <2>1 DEF CleanDrain, DrainInv, OnlyLateRequestsOutliveTheDrain, In
  <2>3. QED
    BY <2>1, <2>2 DEF DrainInv
<1>8. CASE SetShuttingDown \/ ClosePool \/ PoolClosed \/ Operate \/ UNCHANGED vars
  <2>1. /\ UNCHANGED <<stage, timedOut, late, flushed, counters, persisted, snap, loaded, pc>>
        /\ phase' = phase \/ phase' \in {"ShuttingDown", "Stopped"}
    BY <1>8 DEF SetShuttingDown, ClosePool, PoolClosed, Operate, OperatorLocks,
                OperatorUnlocks, OperatorEnds, vars
  <2>2. QED
    BY <2>1 DEF DrainInv, CleanDrain, OnlyLateRequestsOutliveTheDrain, In
<1>9. QED
  BY <1>1, <1>2, <1>3, <1>4, <1>5, <1>6, <1>7, <1>8 DEF DrainStep, DrainStatement

LEMMA DrainInvHolds == Spec => []DrainInv
<1>1. Init => DrainInv
  BY DEF Init, DrainInv, CleanDrain, PastTheWaits, OnlyLateRequestsOutliveTheDrain, Snappers
<1>2. TypeOK /\ TypeOK' /\ InflightIsExact /\ DrainInv /\ [Next]_vars => DrainInv'
  BY RequestsKeepDrainInv, ProcessKeepsDrainInv DEF Next, Exited
<1>3. QED
  BY <1>1, <1>2, TypeCorrect, InflightExact, PTL DEF Spec

\* If no wait timed out, only the requests that raced with the start of the drain
\* outlive it (drain, wait_for_inflight in lib.rs).
THEOREM OnlyLateRequests == Spec => []OnlyLateRequestsOutliveTheDrain
  BY DrainInvHolds, PTL DEF DrainInv

\* A clean drain whose final flush succeeds leaves exactly what was counted for
\* the next process (flush_final, restore_counters).
THEOREM CountersSurviveCleanDrain == Spec => []CleanDrainKeepsCounters
<1>1. DrainInv => CleanDrainKeepsCounters
  BY DEF DrainInv, CleanDrain, PastTheWaits, CleanDrainKeepsCounters
<1>2. QED
  BY <1>1, DrainInvHolds, PTL

=============================================================================
