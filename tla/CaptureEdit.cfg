SPECIFICATION Spec
CONSTANTS
    MonthDays <- ShortMonths
    DayHours = 4
    Base = 1
    Spring = 7
    Fall = 14
    K = 4
    Items <- SomeItems
    Queries <- SomeQueries
    Edits <- SomeEdits
    Nows = {8, 40}
INVARIANTS
    CapturesFit
    CapturedIsPicked
    ComparisonsPartition
    OneMeaning
    DatesAreLocal
PROPERTIES
    EditsByNode
CHECK_DEADLOCK FALSE
