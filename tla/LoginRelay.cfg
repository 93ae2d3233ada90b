SPECIFICATION FairSpec
CONSTANTS
    Relays = {r1, r2}
    MaxLogins = 3
    NoRelay = NoRelay
INVARIANTS
    TypeOK
    OrphansAreLate
    RetryIsSingleShot
PROPERTIES
    RelayLoopEnds
CHECK_DEADLOCK FALSE
