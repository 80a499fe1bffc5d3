SPECIFICATION Spec
CONSTANTS
    Clients = {c1}
    UserIds = {0, 1}
    FileIds = {8}
    BuiltinIds = {}
    BuiltinName <- NoBuiltinNames
    UserTypes = {"score", "state"}
    ReplaceTypes = {"state"}
    Notes = {"memo"}
    Texts = {"5", "x"}
    Numerals = {"5"}
    MixedColumns = TRUE
    MaxSelected = 2
    TagQueries <- SomeTagQueries
    UntagQueries <- SomeUntagQueries
    MaxCommands = 3
    MaxCrashes = 1
PROPERTY
    UntagExact
CHECK_DEADLOCK FALSE
