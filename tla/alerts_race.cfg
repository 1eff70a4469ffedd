SPECIFICATION Spec
CONSTANTS
    Alerts = {a1}
    Users = {u1, u2}
    Requests = {r1, r2}
    Ingests = {i1}
    NoUser = NoUser
    Free = Free
SYMMETRY Symmetry
INVARIANTS RowsTellTheirHistory AuditIsBacked SuccessIsAudited BoardIsPersisted
PROPERTIES HandlingIsPermanent OnlyOvertakenLeaveLifecycle
