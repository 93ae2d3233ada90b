SPECIFICATION FairSpec
CONSTANTS
    Members = {1, 2}
    Roles = {r}
    PageSize = 1
    MaxChanges = 2
    MaxFaults = 1
    MaxPending = 1
INVARIANTS
    TypeOK
    SteadyMembersAreCovered
    QuietPassIsExact
PROPERTIES
    RolesConverge
