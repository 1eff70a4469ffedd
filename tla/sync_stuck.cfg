SPECIFICATION FairSpec
CONSTANTS
    Profiles <- MCProfiles
    RemoteIds = {p1}
    LocalIds = {l1}
    Rules = {r1}
    Alerts = {a1}
    None = None
    Gone = Gone
    MaxVersion = 2
    MaxLocal = 1

PROPERTY RulesAreReplicated
