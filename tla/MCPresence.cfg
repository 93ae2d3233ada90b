SPECIFICATION FairSpec
CONSTANTS
    u1 = u1
    u2 = u2
    c1 = c1
    Users = {u1, u2}
    Accounts = {1, 2}
    Conns = {c1, c2}
    UserOf <- MCUserOf
    TTL = 1
    NoUser = NoUser
    NoAccount = NoAccount
INVARIANTS
    TypeOK
    OneBoxPerSoloUser
PROPERTIES
    BoardSpec
    AllBusyIsJust
    WithdrawnGoesOffline
