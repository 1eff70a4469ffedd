SPECIFICATION Spec
CONSTANTS
    Clients = {c1, c2}
    Accounts = {u1}
    Codes = {k1}
    Pairs = {p1, p2, p3}
    Slots = {s1, s2}
    None = None
SYMMETRY Symmetry
INVARIANTS ChainKeepsItsGrant DeletedAccountHoldsNothing ReuseIsBounded
PROPERTY ImplementsGrant
