SPECIFICATION Spec
CONSTANTS
    Clients = {c1}
    UserIds = {0, 1}
    FileIds = {8}
    BuiltinIds = {}
    BuiltinName <- NoBuiltinNames
    UserTypes = {"score", "state"}
    ReplaceTypes = {"state"}
    Notes = {"memo"}
    Texts = {"5", "x"}
    Numerals = {"5"}
    MixedColumns = FALSE
    MaxSelected = 2
    TagQueries <- SomeTagQueries
    UntagQueries <- SomeUntagQueries
    MaxCommands = 3
    MaxCrashes = 1
INVARIANTS
    IdsUnique
    OneDefinition
    TagsHaveItem
    ConfigMatchesRows
PROPERTIES
    TagStoreSpec
CHECK_DEADLOCK FALSE
