SPECIFICATION Spec
CONSTANTS
    NoDacl = NoDacl
    Unreadable = Unreadable
    Path = {p}
    Inode = {i1, i2, i3}
    Content = {c1, c2}
    Id = {q1}
    NoFile = NoFile
    User = "user"
    FileOwner = "user"
    DirAccess <- MCDirAccess
    RootAccess <- MCRootAccess
    MAX_ALLOW_ENTRIES = 1
    Word = 65536
    MaxLines = 2
    MaxFaults = 1
    MaxCrashes = 1
    MaxEnv = 1
SYMMETRY Symmetry
INVARIANTS
    AlterationIsReported
    NothingLost
PROPERTY
    ImplementsCustody
CHECK_DEADLOCK FALSE
