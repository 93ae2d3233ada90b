SPECIFICATION Spec
CONSTANTS
    x = x
    y = y
    z = z
    Names = {x, y, z}
    Rows <- MCRows
    Edits <- MCEdits
    Reqs = {q1, q2}
    MaxIds = 2
    MaxFaults = 1
    NoName = NoName
SYMMETRY Symmetry
INVARIANTS
    TypeOK
    OneAccountPerName
    NamesHaveAccounts
    SilentImportIsComplete
    BackupRowIsExact
