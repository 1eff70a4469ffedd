SPECIFICATION FairSpec
CONSTANTS
    Alerts = {a1}
    Users = {u1}
    Requests = {r1, r2}
    Ingests = {i1}
    NoUser = NoUser
    Free = Free
PROPERTIES RequestsAreAnswered EvaluationsEnd
