SPECIFICATION FairSpec
CONSTANTS
    Handlers = {h1, h2}
    Interval = 2
    Critical = 2
    MaxTime = 4
    MaxReadings = 3
    MaxRestarts = 1
INVARIANTS SnapshotsAreSpaced DrainNeedsCriticalSnapshots GateIsClosedBySnapshots
PROPERTY ConnectedDrainTakesPlace
CHECK_DEADLOCK FALSE
