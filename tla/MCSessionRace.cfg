SPECIFICATION ServeSpec
CONSTANTS
    Users = {u1, u2}
    AdminUsers = {u1, u2}
    Tokens = {t1, t2}
    Readable = {t1, t2}
    Issuers = {i1}
    Conns = {c1}
    WebReqs = {w1}
    DBFails = FALSE
    NoUser = NoUser
    NoToken = NoToken
INVARIANTS
    RevokedSessionsClosed
