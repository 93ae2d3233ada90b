SPECIFICATION Spec
CONSTANTS
    u1 = u1
    r1 = r1
    Users = {u1}
    Roles = {r1}
    Commands = {"sso"}
    Bootstrap = {boss}
    AdminRole = AdminRole
    AccessRole = r1
    Reqs = {q1, q2}
    Patches <- MCPatches
    MaxGroups = 2
SYMMETRY Symmetry
VIEW View
INVARIANTS
    TypeOK
    DefaultIsLocked
    AssignedMayRunCommands
    PatchIsExact
PROPERTIES
    LoginsGrantNoWebAccess
