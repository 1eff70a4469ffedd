SPECIFICATION PagerFairSpec
CONSTANTS
    Viewers = {v1, v2}
    MAX_EVENTS = 2
    MaxPosted = 4
    MaxOutages = 3
INVARIANTS PagerTypeOK ViewFollowsServer NothingShownTwice
PROPERTY EventsReachViewers
CHECK_DEADLOCK FALSE
