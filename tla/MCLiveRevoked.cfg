SPECIFICATION Spec
CONSTANTS
    user = user
    Users = {user}
    Conns = {c1}
    Tabs = {t1}
    Reqs = {r1}
    UserOf <- MCUserOf
    MaxEvents = 2
    None = None
INVARIANTS
    RevokedHaveNoTab
CHECK_DEADLOCK FALSE
