SPECIFICATION Spec
CONSTANTS
    Users = {u1, u2}
    AdminUsers = {u1, u2}
    Tokens = {t1, t2}
    Readable = {}
    Issuers = {i1}
    Conns = {c1, c2}
    WebReqs = {w1}
    DBFails = FALSE
    NoUser = NoUser
    NoToken = NoToken
SYMMETRY Symmetry
INVARIANTS
    TypeOK
    RevokedSessionsAreMissed
    ClientsAreServed
CHECK_DEADLOCK TRUE
