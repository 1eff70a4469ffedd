SPECIFICATION QueueSpec
CONSTANTS
    Alerts = {a1, a2}
    PAGE = 1
    BATCH = 1
    MaxStamp = 2
    MaxClicks = 2
SYMMETRY Symmetry
INVARIANTS QueueTypeOK PagesAreDisjoint  ViewIsNeverAhead
CHECK_DEADLOCK FALSE
