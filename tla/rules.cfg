SPECIFICATION Spec
CONSTANTS
    Rules = {rule1, rule2}
    Alerts = {a1}
    Admins = {x1, x2}
    Ingests = {i1}
    MaxVersion = 2
    NoRule = NoRule
    Free = Free
SYMMETRY Symmetry
INVARIANTS BoardTracksRules AlertsKeepTheirRule
