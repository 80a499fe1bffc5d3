SPECIFICATION Spec
CONSTANTS
    Dirs = {a}
    Away = away
    Names = {x, y}
    Inodes = {1}
    LocTagDirs = {}
    FileLo = 1
    MaxId = 2
    MaxVer = 1
    Commands = {"tag"}
    MaxCrashes = 0
    HardLinks = FALSE
    FsDuringIndex = FALSE
    EarlyReuse = FALSE
SYMMETRY NameSymmetry
INVARIANT
    TaggedKept
CHECK_DEADLOCK FALSE
