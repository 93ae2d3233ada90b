SPECIFICATION FairSpec
CONSTANTS
    user = user
    Users = {user}
    Conns = {c1}
    Tabs = {t1}
    Reqs = {r1}
    UserOf <- MCUserOf
    MaxEvents = 2
    None = None
INVARIANTS
    TypeOK
    AdminStateNeedsRole
PROPERTIES
    ChangesReachClients
    ChangesReachTabs
CHECK_DEADLOCK FALSE
