SPECIFICATION Spec
CONSTANTS
    Dirs = {a, b}
    Away = away
    Names = {x}
    Inodes = {1, 2}
    LocTagDirs = {a}
    FileLo = 1
    MaxId = 3
    MaxVer = 2
    Commands = {"tag", "untag"}
    MaxCrashes = 0
    HardLinks = TRUE
    FsDuringIndex = FALSE
    EarlyReuse = FALSE
INVARIANTS
    TypeOK
    IdentityExact
    LocationsReferToEntities
    TablesKeyed
    AttachedOrParked
CHECK_DEADLOCK FALSE
