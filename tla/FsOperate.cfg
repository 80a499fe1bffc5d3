SPECIFICATION Spec
CONSTANTS
    Items = {1, 2, 3, 4}
    Tree <- SmallTree
    FirstIno = 6
    Mounts = {"m"}
    SerialNames <- Suffixed
    Requests <- SomeRequests
    Nested = FALSE
    DirCopies = FALSE
    MaxTyped = 2
    AlienPaths <- Aliens
    MaxAliens = 2
    MaxFaults = 1
    MaxCrashes = 1
    MaxCommands = 1
INVARIANTS
    FilesKept
    IndexFollowsFiles
    IdentityKept
    NoPartialFailure
PROPERTIES
    TagsFollowFiles
CHECK_DEADLOCK FALSE
