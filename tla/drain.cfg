SPECIFICATION FairSpec
CONSTANTS
    Ingests = {r1, r2}
    PollLimit = 1
    MaxRestarts = 1
INVARIANTS InflightIsExact AcceptedIsStored OnlyLateRequestsOutliveTheDrain CleanDrainKeepsCounters
PROPERTY DrainTerminates
