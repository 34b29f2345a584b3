SPECIFICATION Spec
CONSTANTS
    Runs = {r1, r2}
    Server = {s1, s2}
    NoServer = NoServer
    MaxLogins = 2
    Workloads <- MCWorkloads
SYMMETRY Symmetry
INVARIANTS
    TokenIsOfItsServer
    FilesAreLastSaved
    DeletedIsGone
PROPERTIES
    ForceAloneReplaces
    LogoutKeepsServer
\* Every command fails once the session file is no JSON (two runs saved at
\* once): the user has to remove it by hand.
CHECK_DEADLOCK FALSE
