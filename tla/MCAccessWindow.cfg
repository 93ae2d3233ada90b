SPECIFICATION Spec
CONSTANTS
    u1 = u1
    u2 = u2
    r1 = r1
    g1 = g1
    Users = {u1, u2}
    Roles = {r1}
    Groups = {g1}
    RolesOf <- MCRolesOf
    GroupUsers <- MCGroupUsers
    GroupRoles <- MCGroupRoles
    Execs = {e1}
    Requests <- MCRequests
    Patches <- MCPatches
    MaxRows = 2
    RequireACL = TRUE
    ReadsFail = FALSE
    NoUser = NoUser
INVARIANTS
    GrantedIsNeverWider
