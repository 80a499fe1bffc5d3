SPECIFICATION Spec
CONSTANTS
    Dirs = {a, b}
    Away = away
    Names = {x}
    Inodes = {1, 2}
    LocTagDirs = {}
    FileLo = 1
    MaxId = 2
    MaxVer = 2
    Commands = {"clear"}
    MaxCrashes = 1
    HardLinks = FALSE
    FsDuringIndex = TRUE
    EarlyReuse = TRUE
SYMMETRY DirSymmetry
INVARIANTS
    IndexExact
CHECK_DEADLOCK FALSE
