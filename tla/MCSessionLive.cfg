SPECIFICATION FairSpec
CONSTANTS
    Users = {u1, u2}
    AdminUsers = {u1}
    Tokens = {t1, t2}
    Readable = {t1, t2}
    Issuers = {i1, i2}
    Conns = {c1}
    WebReqs = {w1}
    DBFails = TRUE
    NoUser = NoUser
    NoToken = NoToken
INVARIANTS
    RevokedSessionsAreMissed
PROPERTIES
    VaultSpec
    RevokedSessionEnds
