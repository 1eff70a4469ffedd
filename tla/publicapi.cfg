SPECIFICATION Spec
CONSTANTS
    Accounts = {u1}
    Tokens = {t1, t2}
    Addresses = {ip1}
    Calls = {c1, c2}
    Creators = {r1, r2}
    Columns = {zones, webhook}
    None = None
    MAX_ACTIVE_TOKENS_PER_USER = 1
    DEFAULT_TOKEN_LIMIT = 1
    DEFAULT_IP_LIMIT = 1
    WINDOW = 0
    RETENTION = 0
    MaxTime = 1
    MaxHits = 2
SYMMETRY Symmetry
INVARIANTS RateIsBounded TokensAreBounded AnsweredPutIsStored
