--------------------------- MODULE AutoDrainProofs ---------------------------
(***************************************************************************)
(* Theorems about AutoDrain, for any number of handlers, any interval and  *)
(* any number of critical snapshots before a drain.                        *)
(***************************************************************************)
EXTENDS AutoDrain, FiniteSetTheorems, TLAPS

Handling == {"idle", "gate", "take", "insert", "flush", "judge", "signal"}

\* TypeOK without its bound on the count of critical snapshots, which takes the
\* whole argument below; and no more readings are rejected than received.
Consistent(t) == t \in Totals /\ t.rejected <= t.received
Typed ==
    /\ now \in Times /\ last \in Times /\ consecutive \in Nat
    /\ requested \in BOOLEAN /\ permit \in BOOLEAN /\ draining \in BOOLEAN
    /\ Consistent(total) /\ Consistent(persisted)
    /\ pc \in [Handlers -> Handling]
    /\ at \in [Handlers -> Times] /\ prev \in [Handlers -> Times]
    /\ snap \in [Handlers -> Totals] /\ \A h \in Handlers : Consistent(snap[h])
    /\ rows \subseteq [at : Times, critical : BOOLEAN] /\ IsFiniteSet(rows)
    /\ dropped \in BOOLEAN /\ restarts \in 0 .. MaxRestarts

LEMMA Numbers ==
    /\ 0 \in Times /\ Interval \in Times /\ Times \subseteq Nat
    /\ Interval \in Nat /\ Interval > 0 /\ Critical \in Nat /\ Critical > 0
    /\ Consistent(Zero)
  BY AutoDrainAssumption DEF Times, Consistent, Zero, Totals

\* A handler that finishes forgets its locals.
LEMMA FinishIsTyped ==
    ASSUME Typed, NEW h \in Handlers, Finish(h)
    PROVE  /\ pc' \in [Handlers -> Handling]
           /\ at' \in [Handlers -> Times] /\ prev' \in [Handlers -> Times]
           /\ snap' \in [Handlers -> Totals] /\ \A g \in Handlers : Consistent(snap'[g])
<1>1. Zero \in Totals /\ Consistent(Zero) /\ 0 \in Times
  BY Numbers DEF Consistent
<1>2. QED
  BY <1>1 DEF Typed, Finish, Forget, Handling

LEMMA TypesAreKept ==
    ASSUME Typed, [Next]_vars
    PROVE  Typed'
<1> USE DEF gate, locals, life
<1>1. CASE Tick
  BY <1>1, AutoDrainAssumption DEF Tick, Typed, Times, Consistent
<1>2. CASE RejectReading
  <2>1. Consistent(total')
    BY <1>2, AutoDrainAssumption DEF RejectReading, Typed, Consistent, Totals
  <2>2. QED
    BY <1>2, <2>1 DEF RejectReading, Typed, Consistent
<1>3. CASE Terminate \/ AutoDrain
  BY <1>3 DEF Terminate, AutoDrain, Typed, Consistent
<1>4. CASE Restart
  <2>1. restarts' \in 0 .. MaxRestarts
    BY <1>4, AutoDrainAssumption DEF Restart, Typed
  <2>2. IsFiniteSet({})
    BY FS_EmptySet
  <2>3. Zero \in Totals
    BY Numbers DEF Consistent
  <2>4. /\ pc' \in [Handlers -> Handling]
        /\ at' \in [Handlers -> Times] /\ prev' \in [Handlers -> Times]
        /\ snap' \in [Handlers -> Totals] /\ \A h \in Handlers : Consistent(snap'[h])
    BY <1>4, <2>3, Numbers DEF Restart, Handling
  <2>5. QED
    BY <1>4, <2>1, <2>2, <2>4, Numbers DEF Restart, Typed, Consistent
<1>5. ASSUME NEW h \in Handlers, AcceptReading(h)
      PROVE  Typed'
  <2>1. Consistent(total') /\ total' \in Totals
    BY <1>5, AutoDrainAssumption DEF AcceptReading, Typed, Consistent, Totals
  <2>2. QED
    BY <1>5, <2>1 DEF AcceptReading, Typed, Handling, Consistent
<1>6. ASSUME NEW h \in Handlers, ReadGate(h) \/ TakeGate(h) \/ FailStatus(h) \/ Drop(h)
      PROVE  Typed'
  <2>1. last' \in Times
    BY <1>6 DEF ReadGate, TakeGate, FailStatus, Drop, CompareExchange, GiveGateBack, Typed
  <2>2. /\ pc' \in [Handlers -> Handling]
        /\ at' \in [Handlers -> Times] /\ prev' \in [Handlers -> Times]
        /\ snap' \in [Handlers -> Totals] /\ \A g \in Handlers : Consistent(snap'[g])
    <3>1. CASE Finish(h)
      BY <3>1, FinishIsTyped
    <3>2. CASE ~Finish(h)
      BY <1>6, <3>2 DEF ReadGate, TakeGate, FailStatus, Drop, Typed, Handling
    <3>3. QED
      BY <3>1, <3>2
  <2>3. QED
    BY <1>6, <2>1, <2>2 DEF ReadGate, TakeGate, FailStatus, Drop, Typed, Consistent
<1>7. ASSUME NEW h \in Handlers, InsertStatus(h)
      PROVE  Typed'
  <2>1. [at |-> at[h], critical |-> IsCritical(snap[h])] \in [at : Times, critical : BOOLEAN]
    <3>1. IsCritical(snap[h]) \in BOOLEAN
      BY DEF IsCritical
    <3>2. QED
      BY <3>1 DEF Typed
  <2>2. IsFiniteSet(rows')
    BY <1>7, FS_AddElement DEF InsertStatus, Typed
  <2>3. QED
    BY <1>7, <2>1, <2>2 DEF InsertStatus, Typed, Handling, Consistent
<1>8. ASSUME NEW h \in Handlers, FlushCounters(h)
      PROVE  Typed'
  BY <1>8 DEF FlushCounters, Typed, Handling, Consistent
<1>9. ASSUME NEW h \in Handlers, Judge(h) \/ Signal(h)
      PROVE  Typed'
  <2>1. /\ pc' \in [Handlers -> Handling]
        /\ at' \in [Handlers -> Times] /\ prev' \in [Handlers -> Times]
        /\ snap' \in [Handlers -> Totals] /\ \A g \in Handlers : Consistent(snap'[g])
    <3>1. CASE Finish(h)
      BY <3>1, FinishIsTyped
    <3>2. CASE ~Finish(h)
      BY <1>9, <3>2 DEF Judge, JudgeCritical, JudgeHealthy, Signal, Typed, Handling
    <3>3. QED
      BY <3>1, <3>2
  <2>2. consecutive' \in Nat
    BY <1>9 DEF Judge, JudgeCritical, JudgeHealthy, Signal, Counted, Typed
  <2>3. requested' \in BOOLEAN /\ permit' \in BOOLEAN
    BY <1>9 DEF Judge, JudgeCritical, JudgeHealthy, Signal, Enough, Notified, Typed
  <2>4. QED
    BY <1>9, <2>1, <2>2, <2>3 DEF Judge, Signal, Typed, Consistent
<1>10. CASE UNCHANGED vars
  BY <1>10 DEF vars, Typed, Consistent
<1>11. QED
  BY <1>1, <1>2, <1>3, <1>4, <1>5, <1>6, <1>7, <1>8, <1>9, <1>10 DEF Next, Step

LEMMA TypedHolds == Spec => []Typed
<1>1. Init => Typed
  <2> SUFFICES ASSUME Init
               PROVE  Typed
    OBVIOUS
  <2>1. Zero \in Totals
    BY Numbers DEF Consistent
  <2>2. /\ pc \in [Handlers -> Handling]
        /\ at \in [Handlers -> Times] /\ prev \in [Handlers -> Times]
        /\ snap \in [Handlers -> Totals] /\ \A h \in Handlers : Consistent(snap[h])
    BY <2>1, Numbers DEF Init, Handling
  <2>3. IsFiniteSet({}) /\ 0 \in 0 .. MaxRestarts
    BY FS_EmptySet, AutoDrainAssumption
  <2>4. QED
    BY <2>2, <2>3, Numbers DEF Init, Typed
<1>2. QED
  BY <1>1, TypesAreKept, PTL DEF Spec

-----------------------------------------------------------------------------
(* The gate. *)

\* Handler h took or may take the gate from prev[h]: a snapshot at time t is
\* either before that or at least an interval after its own.
Apart(t, h) == t <= prev[h] \/ t >= at[h] + Interval

GateInv ==
    /\ now >= Interval
    /\ \A h \in Handlers : pc[h] \in {"take", "insert"} =>
         at[h] >= prev[h] + Interval /\ now >= at[h]
    /\ \A r \in rows : r.at <= last
    /\ \A h \in Pending :
         /\ at[h] <= last
         /\ \A r \in rows : Apart(r.at, h)
         /\ \A g \in Pending : g = h \/ Apart(at[g], h)
    /\ \A r, s \in rows : r = s \/ r.at - s.at >= Interval \/ s.at - r.at >= Interval
    /\ GateIsClosedBySnapshots

\* A step that only lets handlers go, or leaves the gate alone, keeps all this.
LEMMA QuietStepsKeepGate ==
    ASSUME Typed, Typed', GateInv, last' = last, rows' = rows, now' >= now,
           \A h \in Handlers : pc'[h] \in {"take", "insert"} =>
              pc'[h] = pc[h] /\ at'[h] = at[h] /\ prev'[h] = prev[h],
           dropped' \/ (dropped' = dropped /\ Pending' = Pending)
    PROVE  GateInv'
<1>1. /\ now \in Nat /\ now' \in Nat /\ last \in Nat /\ Interval \in Nat
      /\ at \in [Handlers -> Nat] /\ prev \in [Handlers -> Nat]
      /\ \A r \in rows : r.at \in Nat
  BY Numbers DEF Typed
<1>2. Pending' \subseteq Pending /\ \A h \in Pending' : at'[h] = at[h] /\ prev'[h] = prev[h]
  BY DEF Pending
<1>3. GateIsClosedBySnapshots'
  <2>1. CASE dropped'
    BY <2>1 DEF GateIsClosedBySnapshots
  <2>2. CASE dropped' = dropped /\ Pending' = Pending
    <3>1. now' - last' < Interval => now - last < Interval
      BY <1>1
    <3>2. QED
      BY <1>2, <2>2, <3>1 DEF GateInv, GateIsClosedBySnapshots
  <2>3. QED
    BY <2>1, <2>2
<1>4. \A h \in Handlers : pc'[h] \in {"take", "insert"} =>
        at'[h] >= prev'[h] + Interval /\ now' >= at'[h]
  BY <1>1 DEF GateInv
<1>5. \A h \in Pending' :
         /\ at'[h] <= last'
         /\ \A r \in rows' : Apart(r.at, h)'
         /\ \A g \in Pending' : g = h \/ Apart(at[g], h)'
  BY <1>2 DEF GateInv, Apart
<1>6. now' >= Interval
  BY <1>1 DEF GateInv
<1>7. QED
  BY <1>2, <1>3, <1>4, <1>5, <1>6 DEF GateInv

LEMMA TakeGateKeepsGate ==
    ASSUME Typed, Typed', GateInv, NEW h \in Handlers, TakeGate(h)
    PROVE  GateInv'
<1>1. /\ now \in Nat /\ last \in Nat /\ Interval \in Nat /\ Interval > 0
      /\ at \in [Handlers -> Nat] /\ prev \in [Handlers -> Nat]
      /\ \A r \in rows : r.at \in Nat
  BY Numbers DEF Typed
<1>2. pc[h] = "take" /\ now' = now /\ rows' = rows /\ dropped' = dropped
  BY DEF TakeGate, life
<1>3. CASE last = prev[h]
  <2>1. /\ last' = at[h] /\ at' = at /\ prev' = prev
        /\ pc' = [pc EXCEPT ![h] = "insert"]
    BY <1>3 DEF TakeGate, TookGate, CompareExchange, locals
  <2>2. Pending' = Pending \cup {h} /\ h \notin Pending
    BY <1>2, <2>1 DEF Pending, Typed
  <2>3. at[h] >= last + Interval /\ now >= at[h]
    BY <1>2, <1>3 DEF GateInv
  <2>4. \A r \in rows : r.at <= last' /\ Apart(r.at, h)
    BY <1>1, <1>3, <2>1, <2>3 DEF GateInv, Apart
  <2>5. \A g \in Pending : at[g] <= last' /\ Apart(at[g], h) /\ Apart(at[h], g)
    BY <1>1, <1>3, <2>1, <2>3 DEF GateInv, Apart, Pending
  <2>6. GateIsClosedBySnapshots'
    BY <2>1, <2>2 DEF GateIsClosedBySnapshots
  <2>7. \A g \in Pending' :
         /\ at'[g] <= last'
         /\ \A r \in rows' : Apart(r.at, g)'
         /\ \A f \in Pending' : f = g \/ Apart(at[f], g)'
    BY <1>1, <1>2, <2>1, <2>2, <2>4, <2>5 DEF GateInv, Apart
  <2>8. \A g \in Handlers : pc'[g] \in {"take", "insert"} =>
          at'[g] >= prev'[g] + Interval /\ now' >= at'[g]
    BY <1>1, <1>2, <1>3, <2>1, <2>3 DEF GateInv, Typed
  <2>9. QED
    BY <1>2, <2>4, <2>6, <2>7, <2>8 DEF GateInv
<1>4. CASE last # prev[h]
  <2>1. last' = last /\ Finish(h)
    BY <1>4 DEF TakeGate, TookGate, CompareExchange
  <2>2. \A g \in Handlers : pc'[g] \in {"take", "insert"} =>
          pc'[g] = pc[g] /\ at'[g] = at[g] /\ prev'[g] = prev[g]
    BY <2>1 DEF Finish, Forget, Typed
  <2>3. Pending' = Pending
    BY <1>2, <2>1 DEF Finish, Pending, Typed
  <2>4. QED
    BY <1>1, <1>2, <2>1, <2>2, <2>3, QuietStepsKeepGate
<1>5. QED
  BY <1>3, <1>4

LEMMA InsertStatusKeepsGate ==
    ASSUME Typed, Typed', GateInv, NEW h \in Handlers, InsertStatus(h)
    PROVE  GateInv'
<1> DEFINE new == [at |-> at[h], critical |-> IsCritical(snap[h])]
<1>1. /\ now \in Nat /\ last \in Nat /\ Interval \in Nat /\ Interval > 0
      /\ at \in [Handlers -> Nat] /\ prev \in [Handlers -> Nat]
      /\ \A r \in rows : r.at \in Nat
  BY Numbers DEF Typed
<1>2. /\ rows' = rows \cup {new} /\ new.at = at[h] /\ h \in Pending
      /\ now' = now /\ last' = last /\ at' = at /\ prev' = prev /\ dropped' = dropped
      /\ pc' = [pc EXCEPT ![h] = "flush"]
  BY DEF InsertStatus, gate, locals, life, Pending
<1>3. Pending' = Pending \ {h}
  BY <1>2 DEF Pending, Typed
<1>4. \A r \in rows' : r.at <= last'
  BY <1>2 DEF GateInv
<1>5. \A g \in Pending' :
         /\ at'[g] <= last'
         /\ \A r \in rows' : Apart(r.at, g)'
         /\ \A f \in Pending' : f = g \/ Apart(at[f], g)'
  BY <1>2, <1>3 DEF GateInv, Apart
<1>6. \A r \in rows : new.at - r.at >= Interval \/ r.at - new.at >= Interval
  <2> SUFFICES ASSUME NEW r \in rows
               PROVE  new.at - r.at >= Interval \/ r.at - new.at >= Interval
    OBVIOUS
  <2>1. Apart(r.at, h) /\ at[h] >= prev[h] + Interval
    BY <1>2 DEF GateInv, Pending
  <2>2. QED
    BY <1>1, <1>2, <2>1 DEF Apart
<1>7. \A r, s \in rows' : r = s \/ r.at - s.at >= Interval \/ s.at - r.at >= Interval
  BY <1>2, <1>6 DEF GateInv
<1>8. GateIsClosedBySnapshots'
  BY <1>2, <1>3 DEF GateInv, GateIsClosedBySnapshots
<1>9. \A g \in Handlers : pc'[g] \in {"take", "insert"} =>
        at'[g] >= prev'[g] + Interval /\ now' >= at'[g]
  BY <1>2 DEF GateInv, Typed
<1>10. QED
  BY <1>2, <1>4, <1>5, <1>7, <1>8, <1>9 DEF GateInv

LEMMA FailStatusKeepsGate ==
    ASSUME Typed, Typed', GateInv, NEW h \in Handlers, FailStatus(h)
    PROVE  GateInv'
<1>1. /\ now \in Nat /\ last \in Nat /\ Interval \in Nat /\ Interval > 0
      /\ at \in [Handlers -> Nat] /\ prev \in [Handlers -> Nat]
      /\ \A r \in rows : r.at \in Nat
  BY Numbers DEF Typed
<1>2. /\ h \in Pending /\ now' = now /\ rows' = rows /\ dropped' = dropped
      /\ last' = (IF last = at[h] THEN prev[h] ELSE last) /\ Finish(h)
  BY DEF FailStatus, GiveGateBack, CompareExchange, life, Pending
<1>3. /\ Pending' = Pending \ {h}
      /\ \A g \in Handlers \ {h} : at'[g] = at[g] /\ prev'[g] = prev[g] /\ pc'[g] = pc[g]
      /\ pc'[h] = "idle"
  BY <1>2 DEF Finish, Forget, Pending, Typed
<1>4. at[h] >= prev[h] + Interval /\ now >= at[h]
  BY <1>2 DEF GateInv, Pending
<1>5. \A r \in rows : r.at <= last'
  BY <1>1, <1>2, <1>4 DEF GateInv, Apart
<1>6. \A g \in Pending' : at'[g] <= last'
  <2> SUFFICES ASSUME NEW g \in Pending'
               PROVE  at'[g] <= last'
    OBVIOUS
  <2>1. g \in Pending /\ g # h /\ at'[g] = at[g] /\ g \in Handlers
    BY <1>3 DEF Pending
  <2>2. at[g] <= last /\ Apart(at[g], h)
    BY <1>2, <2>1 DEF GateInv
  <2>3. QED
    BY <1>1, <1>2, <1>4, <2>1, <2>2 DEF Apart
<1>7. \A g \in Pending' :
         /\ \A r \in rows' : Apart(r.at, g)'
         /\ \A f \in Pending' : f = g \/ Apart(at[f], g)'
  BY <1>2, <1>3 DEF GateInv, Apart, Pending
<1>8. GateIsClosedBySnapshots'
  BY <1>1, <1>2, <1>3, <1>4 DEF GateInv, GateIsClosedBySnapshots, Pending
<1>9. \A g \in Handlers : pc'[g] \in {"take", "insert"} =>
        at'[g] >= prev'[g] + Interval /\ now' >= at'[g]
  BY <1>2, <1>3 DEF GateInv
<1>10. QED
  BY <1>2, <1>5, <1>6, <1>7, <1>8, <1>9 DEF GateInv

LEMMA GateIsKept ==
    ASSUME Typed, Typed', GateInv, [Next]_vars
    PROVE  GateInv'
<1> USE DEF gate, locals, life
<1>1. now \in Nat
  BY Numbers DEF Typed
<1>2. ASSUME NEW h \in Handlers,
             AcceptReading(h) \/ ReadGate(h) \/ FlushCounters(h) \/ Judge(h) \/ Signal(h)
      PROVE  GateInv'
  <2>1. last' = last /\ rows' = rows /\ now' = now /\ dropped' = dropped
    BY <1>2 DEF AcceptReading, ReadGate, FlushCounters, Judge, Signal, JudgeCritical, JudgeHealthy
  <2>2. pc[h] \notin {"take", "insert"} /\ \A g \in Handlers \ {h} : pc'[g] = pc[g] /\ at'[g] = at[g] /\ prev'[g] = prev[g]
    BY <1>2 DEF AcceptReading, ReadGate, FlushCounters, Judge, Signal, JudgeCritical,
                JudgeHealthy, Finish, Forget, Typed
  <2>3. pc'[h] # "insert"
    BY <1>2 DEF AcceptReading, ReadGate, FlushCounters, Judge, Signal, JudgeCritical,
                JudgeHealthy, Finish, Forget, Typed
  <2>4. Pending' = Pending
    BY <2>2, <2>3 DEF Pending
  <2>5. CASE pc'[h] # "take"
    BY <1>1, <2>1, <2>2, <2>3, <2>4, <2>5, QuietStepsKeepGate
  <2>6. CASE pc'[h] = "take"
    <3>1. /\ now - last >= Interval /\ at' = [at EXCEPT ![h] = now]
          /\ prev' = [prev EXCEPT ![h] = last]
      <4>1. ReadGate(h)
        BY <1>2, <2>6 DEF AcceptReading, FlushCounters, Judge, Signal, JudgeCritical,
                          JudgeHealthy, Finish, Typed
      <4>2. ~Finish(h)
        BY <2>6 DEF Finish, Typed
      <4>3. now \in Nat /\ last \in Nat /\ Interval \in Nat
        BY Numbers DEF Typed
      <4>4. QED
        BY <4>1, <4>2, <4>3 DEF ReadGate
    <3>2. at'[h] >= prev'[h] + Interval /\ now' >= at'[h]
      BY <2>1, <3>1, Numbers DEF Typed
    <3>3. \A g \in Pending : g # h /\ at'[g] = at[g] /\ prev'[g] = prev[g]
      BY <2>2 DEF Pending
    <3>4. GateIsClosedBySnapshots'
      BY <2>1, <2>4, <3>3 DEF GateInv, GateIsClosedBySnapshots
    <3>5. \A g \in Handlers : pc'[g] \in {"take", "insert"} =>
            at'[g] >= prev'[g] + Interval /\ now' >= at'[g]
      BY <2>1, <2>2, <3>2 DEF GateInv
    <3>6. QED
      BY <2>1, <2>4, <3>3, <3>4, <3>5 DEF GateInv, Apart
  <2>7. QED
    BY <2>5, <2>6
<1>3. ASSUME NEW h \in Handlers, Drop(h)
      PROVE  GateInv'
  <2>1. last' = last /\ rows' = rows /\ now' = now /\ dropped' = TRUE /\ Finish(h)
    BY <1>3 DEF Drop
  <2>2. \A g \in Handlers : pc'[g] \in {"take", "insert"} =>
          pc'[g] = pc[g] /\ at'[g] = at[g] /\ prev'[g] = prev[g]
    BY <2>1 DEF Finish, Forget, Typed
  <2>3. QED
    BY <1>1, <2>1, <2>2, QuietStepsKeepGate
<1>4. CASE Tick \/ RejectReading \/ Terminate \/ AutoDrain \/ UNCHANGED vars
  <2>1. last' = last /\ rows' = rows /\ now' >= now /\ dropped' = dropped
        /\ pc' = pc /\ at' = at /\ prev' = prev
    BY <1>1, <1>4 DEF Tick, RejectReading, Terminate, AutoDrain, vars
  <2>2. Pending' = Pending
    BY <2>1 DEF Pending
  <2>3. QED
    BY <2>1, <2>2, QuietStepsKeepGate
<1>5. CASE Restart
  <2>1. rows' = {} /\ last' = 0 /\ now' = now /\ \A h \in Handlers : pc'[h] = "idle"
    BY <1>5 DEF Restart
  <2>2. Pending' = {}
    BY <2>1 DEF Pending
  <2>3. GateIsClosedBySnapshots'
    BY <1>1, <2>1, Numbers DEF GateInv, GateIsClosedBySnapshots
  <2>4. QED
    BY <2>1, <2>2, <2>3 DEF GateInv
<1>6. QED
  BY <1>2, <1>3, <1>4, <1>5, TakeGateKeepsGate, InsertStatusKeepsGate, FailStatusKeepsGate
     DEF Next, Step

LEMMA GateInvHolds == Spec => []GateInv
<1>1. Init => GateInv
  <2> SUFFICES ASSUME Init
               PROVE  GateInv
    OBVIOUS
  <2>1. now = Interval /\ last = 0 /\ rows = {} /\ \A h \in Handlers : pc[h] = "idle"
    BY DEF Init
  <2>2. Pending = {}
    BY <2>1 DEF Pending
  <2>3. QED
    BY <2>1, <2>2, Numbers DEF GateInv, GateIsClosedBySnapshots
<1>2. QED
  BY <1>1, GateIsKept, TypedHolds, PTL DEF Spec

\* No two snapshots of a process are less than an interval apart, whoever races
\* for the gate or gives it back (last_health_snapshot_at).
THEOREM SnapshotsSpaced == Spec => []SnapshotsAreSpaced
<1>1. Typed /\ GateInv => SnapshotsAreSpaced
  <2> SUFFICES ASSUME Typed, GateInv, NEW r \in rows, NEW h \in Pending
               PROVE  at[h] - r.at >= Interval \/ r.at - at[h] >= Interval
    BY DEF GateInv, SnapshotsAreSpaced
  <2>1. Apart(r.at, h) /\ at[h] >= prev[h] + Interval
    BY DEF GateInv, Pending
  <2>2. r.at \in Nat /\ at[h] \in Nat /\ prev[h] \in Nat /\ Interval \in Nat
    BY Numbers DEF Typed, Pending
  <2>3. QED
    BY <2>1, <2>2 DEF Apart
<1>2. QED
  BY <1>1, GateInvHolds, TypedHolds, PTL

\* While clients stay connected, the gate is closed only by a snapshot that is
\* there or on its way: a failing INSERT gives the gate back.
THEOREM GateClosedBySnapshots == Spec => []GateIsClosedBySnapshots
  BY GateInvHolds, PTL DEF GateInv

-----------------------------------------------------------------------------
(* The count of critical snapshots.  A row is judged once, after it was       *)
(* written, by the handler that wrote it.                                     *)

Judging == {h \in Handlers : pc[h] \in {"flush", "judge"}}
RowOf(h) == [at |-> at[h], critical |-> IsCritical(snap[h])]
CriticalRows == {r \in rows : r.critical}
Judged == {r \in CriticalRows : \A h \in Judging : at[h] # r.at}

JudgeInv ==
    /\ \A h \in Judging : RowOf(h) \in rows
    /\ \A g, h \in Judging : g = h \/ at[g] # at[h]
    /\ consecutive <= Cardinality(Judged)
    /\ DrainNeedsCriticalSnapshots

LEMMA RowSetsGrow ==
    ASSUME Typed, Typed', rows \subseteq rows', NEW S \in SUBSET rows, NEW T \in SUBSET rows',
           S \subseteq T
    PROVE  /\ IsFiniteSet(T) /\ Cardinality(S) \in Nat /\ Cardinality(T) \in Nat
           /\ Cardinality(S) <= Cardinality(T)
           /\ \A r \in T \ S : Cardinality(S) + 1 <= Cardinality(T)
<1>1. IsFiniteSet(T) /\ IsFiniteSet(S)
  BY FS_Subset DEF Typed
<1>2. ASSUME NEW r \in T \ S
      PROVE  Cardinality(S) + 1 <= Cardinality(T)
  <2>1. Cardinality(S \cup {r}) = Cardinality(S) + 1
    BY <1>1, <1>2, FS_AddElement
  <2>2. S \cup {r} \in SUBSET T
    BY <1>2
  <2>3. QED
    BY <1>1, <2>1, <2>2, FS_Subset
<1>3. QED
  BY <1>1, <1>2, FS_CardinalityType, FS_Subset

\* A step that writes and judges no row, but may let handlers go.
LEMMA QuietStepsKeepJudge ==
    ASSUME Typed, Typed', JudgeInv, rows' = rows, consecutive' = consecutive,
           requested' = requested,
           \A h \in Judging' : h \in Judging /\ at'[h] = at[h] /\ snap'[h] = snap[h]
    PROVE  JudgeInv'
<1>1. Judged \subseteq Judged' /\ Judged \in SUBSET rows /\ Judged' \in SUBSET rows'
  BY DEF Judged, CriticalRows
<1>2. /\ Cardinality(Judged) \in Nat /\ Cardinality(Judged') \in Nat
      /\ Cardinality(Judged) <= Cardinality(Judged')
  BY <1>1, RowSetsGrow
<1>3. consecutive' <= Cardinality(Judged')
  BY <1>2 DEF JudgeInv, Typed
<1>4. \A h \in Judging' : RowOf(h)' \in rows'
  BY DEF JudgeInv, RowOf, IsCritical
<1>5. \A g, h \in Judging' : g = h \/ at'[g] # at'[h]
  BY DEF JudgeInv
<1>6. DrainNeedsCriticalSnapshots'
  BY DEF JudgeInv, DrainNeedsCriticalSnapshots
<1>7. QED
  BY <1>3, <1>4, <1>5, <1>6 DEF JudgeInv

LEMMA InsertStatusKeepsJudge ==
    ASSUME Typed, Typed', GateInv, JudgeInv, NEW h \in Handlers, InsertStatus(h)
    PROVE  JudgeInv'
<1>1. /\ rows' = rows \cup {RowOf(h)} /\ h \in Pending
      /\ UNCHANGED <<at, snap, consecutive, requested>>
      /\ pc' = [pc EXCEPT ![h] = "flush"]
  BY DEF InsertStatus, RowOf, gate, locals, Pending
<1>2. Judging' = Judging \cup {h} /\ h \notin Judging
  BY <1>1 DEF Judging, Pending, Typed
<1>3. \A r \in rows : r.at # at[h]
  <2> SUFFICES ASSUME NEW r \in rows
               PROVE  r.at # at[h]
    OBVIOUS
  <2>1. Apart(r.at, h) /\ at[h] >= prev[h] + Interval
    BY <1>1 DEF GateInv, Pending
  <2>2. /\ r.at \in Nat /\ at[h] \in Nat /\ prev[h] \in Nat /\ Interval \in Nat /\ Interval > 0
    BY Numbers DEF Typed
  <2>3. QED
    BY <2>1, <2>2 DEF Apart
<1>4. \A g \in Judging : at[g] # at[h]
  BY <1>3 DEF JudgeInv, RowOf
<1>5. \A g \in Judging' : RowOf(g)' \in rows'
  BY <1>1, <1>2 DEF JudgeInv, RowOf, IsCritical
<1>6. \A f, g \in Judging' : f = g \/ at'[f] # at'[g]
  BY <1>1, <1>2, <1>4 DEF JudgeInv
<1>7. Judged \subseteq Judged' /\ Judged \in SUBSET rows /\ Judged' \in SUBSET rows'
  BY <1>1, <1>2, <1>3 DEF Judged, CriticalRows
<1>8. consecutive' <= Cardinality(Judged')
  BY <1>1, <1>7, RowSetsGrow DEF JudgeInv, Typed
<1>9. DrainNeedsCriticalSnapshots'
  <2>1. CriticalRows \subseteq CriticalRows' /\ CriticalRows \in SUBSET rows
        /\ CriticalRows' \in SUBSET rows'
    BY <1>1 DEF CriticalRows
  <2>2. /\ Cardinality(CriticalRows) \in Nat /\ Cardinality(CriticalRows') \in Nat
        /\ Cardinality(CriticalRows) <= Cardinality(CriticalRows')
    BY <1>1, <2>1, RowSetsGrow
  <2>3. QED
    BY <1>1, <2>2, Numbers DEF JudgeInv, DrainNeedsCriticalSnapshots, CriticalRows
<1>10. QED
  BY <1>5, <1>6, <1>8, <1>9 DEF JudgeInv

LEMMA JudgeKeepsJudge ==
    ASSUME Typed, Typed', GateInv, JudgeInv, NEW h \in Handlers, Judge(h)
    PROVE  JudgeInv'
<1>1. rows' = rows /\ h \in Judging
  BY DEF Judge, Judging
<1>2. \A g \in Handlers \ {h} : pc'[g] = pc[g] /\ at'[g] = at[g] /\ snap'[g] = snap[g]
  BY DEF Judge, JudgeCritical, JudgeHealthy, Finish, Forget, Typed, locals
<1>3. pc'[h] \in {"idle", "signal"}
  BY DEF Judge, JudgeCritical, JudgeHealthy, Finish, Typed
<1>4. Judging' = Judging \ {h}
  BY <1>2, <1>3 DEF Judging
<1>5. \A g \in Judging' : RowOf(g)' \in rows'
  <2> SUFFICES ASSUME NEW g \in Judging'
               PROVE  RowOf(g)' \in rows'
    OBVIOUS
  <2>1. g \in Judging /\ at'[g] = at[g] /\ snap'[g] = snap[g]
    BY <1>2, <1>4 DEF Judging
  <2>2. RowOf(g)' = RowOf(g)
    BY <2>1 DEF RowOf, IsCritical
  <2>3. QED
    BY <1>1, <2>1, <2>2 DEF JudgeInv
<1>6. \A f, g \in Judging' : f = g \/ at'[f] # at'[g]
  BY <1>2, <1>4 DEF JudgeInv, Judging
<1>7. Judged \subseteq Judged' /\ Judged \in SUBSET rows /\ Judged' \in SUBSET rows'
  BY <1>1, <1>2, <1>4 DEF Judged, CriticalRows, Judging
<1>8. CASE IsCritical(snap[h])
  <2>1. /\ consecutive' = consecutive + 1
        /\ requested' = (requested \/ consecutive' >= Critical)
    BY <1>8 DEF Judge, JudgeCritical, Counted, Enough
  <2>2. RowOf(h) \in CriticalRows /\ RowOf(h).at = at[h]
    BY <1>1, <1>8 DEF JudgeInv, RowOf, CriticalRows
  <2>3. RowOf(h) \in Judged' \ Judged
    BY <1>1, <1>2, <1>4, <2>2 DEF JudgeInv, Judged, CriticalRows, Judging
  <2>4. /\ Cardinality(Judged) \in Nat /\ Cardinality(Judged') \in Nat
        /\ Cardinality(Judged) + 1 <= Cardinality(Judged')
    BY <1>1, <1>7, <2>3, RowSetsGrow
  <2>5. consecutive' <= Cardinality(Judged')
    BY <2>1, <2>4 DEF JudgeInv, Typed
  <2>6. DrainNeedsCriticalSnapshots'
    <3>1. Judged' \subseteq CriticalRows' /\ CriticalRows' \in SUBSET rows'
      BY DEF Judged, CriticalRows
    <3>2. /\ Cardinality(CriticalRows') \in Nat
          /\ Cardinality(Judged') <= Cardinality(CriticalRows')
      <4>1. IsFiniteSet(rows')
        BY DEF Typed
      <4>2. IsFiniteSet(CriticalRows')
        BY <3>1, <4>1, FS_Subset
      <4>3. QED
        BY <3>1, <4>2, FS_Subset, FS_CardinalityType
    <3>3. CASE requested
      BY <1>1, <3>3 DEF JudgeInv, DrainNeedsCriticalSnapshots
    <3>4. CASE consecutive' >= Critical
      BY <2>4, <2>5, <3>2, <3>4, Numbers DEF DrainNeedsCriticalSnapshots, CriticalRows, Typed
    <3>5. CASE ~requested /\ ~(consecutive' >= Critical)
      BY <2>1, <3>5 DEF DrainNeedsCriticalSnapshots
    <3>6. QED
      BY <3>3, <3>4, <3>5
  <2>7. QED
    BY <1>5, <1>6, <2>5, <2>6 DEF JudgeInv
<1>9. CASE ~IsCritical(snap[h])
  <2>1. consecutive' = 0 /\ requested' = requested
    BY <1>9 DEF Judge, JudgeHealthy
  <2>2. Cardinality(Judged') \in Nat
    BY <1>1, <1>7, RowSetsGrow
  <2>3. DrainNeedsCriticalSnapshots'
    BY <1>1, <2>1 DEF JudgeInv, DrainNeedsCriticalSnapshots
  <2>4. QED
    BY <1>5, <1>6, <2>1, <2>2, <2>3 DEF JudgeInv
<1>10. QED
  BY <1>8, <1>9

LEMMA JudgeIsKept ==
    ASSUME Typed, Typed', GateInv, JudgeInv, [Next]_vars
    PROVE  JudgeInv'
<1> USE DEF gate, locals, life
<1>1. ASSUME NEW h \in Handlers,
             \/ AcceptReading(h) \/ ReadGate(h) \/ TakeGate(h) \/ FailStatus(h)
             \/ FlushCounters(h) \/ Signal(h) \/ Drop(h)
      PROVE  JudgeInv'
  <2>1. rows' = rows /\ consecutive' = consecutive /\ requested' = requested
    BY <1>1 DEF AcceptReading, ReadGate, TakeGate, FailStatus, FlushCounters, Signal, Drop
  <2>2. \A g \in Handlers \ {h} : pc'[g] = pc[g] /\ at'[g] = at[g] /\ snap'[g] = snap[g]
    BY <1>1 DEF AcceptReading, ReadGate, TakeGate, FailStatus, FlushCounters, Signal, Drop,
                Finish, Forget, Typed
  <2>3. pc'[h] \in {"flush", "judge"} => /\ pc[h] = "flush" /\ at' = at /\ snap' = snap
    BY <1>1 DEF AcceptReading, ReadGate, TakeGate, FailStatus, FlushCounters, Signal, Drop,
                Finish, Typed
  <2>4. \A g \in Judging' : g \in Judging /\ at'[g] = at[g] /\ snap'[g] = snap[g]
    BY <2>2, <2>3 DEF Judging
  <2>5. QED
    BY <2>1, <2>4, QuietStepsKeepJudge
<1>2. CASE Tick \/ RejectReading \/ Terminate \/ AutoDrain \/ UNCHANGED vars
  <2>1. UNCHANGED <<rows, consecutive, requested, pc, at, snap>>
    BY <1>2 DEF Tick, RejectReading, Terminate, AutoDrain, vars
  <2>2. \A g \in Judging' : g \in Judging /\ at'[g] = at[g] /\ snap'[g] = snap[g]
    BY <2>1 DEF Judging
  <2>3. QED
    BY <2>1, <2>2, QuietStepsKeepJudge
<1>3. CASE Restart
  <2>1. Judging' = {} /\ rows' = {} /\ consecutive' = 0 /\ requested' = FALSE
    BY <1>3 DEF Restart, Judging
  <2>2. Judged' = {}
    BY <2>1 DEF Judged, CriticalRows
  <2>3. QED
    BY <2>1, <2>2, FS_EmptySet DEF JudgeInv, DrainNeedsCriticalSnapshots
<1>4. QED
  BY <1>1, <1>2, <1>3, InsertStatusKeepsJudge, JudgeKeepsJudge DEF Next, Step

LEMMA JudgeInvHolds == Spec => []JudgeInv
<1>1. Init => JudgeInv
  <2> SUFFICES ASSUME Init
               PROVE  JudgeInv
    OBVIOUS
  <2>1. Judging = {} /\ Judged = {} /\ consecutive = 0 /\ requested = FALSE
    BY DEF Init, Judging, Judged, CriticalRows
  <2>2. QED
    BY <2>1, FS_EmptySet DEF JudgeInv, DrainNeedsCriticalSnapshots
<1>2. QED
  BY <1>1, JudgeIsKept, TypedHolds, GateInvHolds, PTL DEF Spec

\* A drain is requested only after as many critical snapshots as it takes
\* (consecutive_critical_snapshots, drain_requested): none is counted twice,
\* although handlers judge their snapshots late and out of order.
THEOREM DrainNeedsSnapshots == Spec => []DrainNeedsCriticalSnapshots
  BY JudgeInvHolds, PTL DEF JudgeInv

\* Every variable keeps its type, and the count of critical snapshots is at most
\* the number of snapshots.
THEOREM TypeCorrect == Spec => []TypeOK
<1>1. Typed /\ JudgeInv => TypeOK
  <2> SUFFICES ASSUME Typed, JudgeInv
               PROVE  TypeOK
    OBVIOUS
  <2>1. Judged \in SUBSET rows /\ IsFiniteSet(rows)
    BY DEF Judged, CriticalRows, Typed
  <2>2. /\ Cardinality(Judged) \in Nat /\ Cardinality(rows) \in Nat
        /\ Cardinality(Judged) <= Cardinality(rows)
    BY <2>1, FS_Subset, FS_CardinalityType
  <2>3. consecutive \in 0 .. Cardinality(rows)
    BY <2>2 DEF JudgeInv, Typed
  <2>4. QED
    BY <2>3 DEF Typed, TypeOK, Consistent, Handling
<1>2. QED
  BY <1>1, TypedHolds, JudgeInvHolds, PTL

=============================================================================
