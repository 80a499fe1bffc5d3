SPECIFICATION Spec
CONSTANTS
    Dirs = {a}
    Away = away
    Names = {x, y}
    Inodes = {1, 2}
    LocTagDirs = {}
    FileLo = 1
    MaxId = 2
    MaxVer = 3
    Commands = {"rank","tag"}
    MaxCrashes = 0
    HardLinks = FALSE
    FsDuringIndex = FALSE
    EarlyReuse = FALSE
SYMMETRY NameSymmetry
INVARIANTS
    NoTagLeak
    TagsNotOrphaned
    BaseTagsExact
PROPERTIES
    RankNeverLost
CHECK_DEADLOCK FALSE
