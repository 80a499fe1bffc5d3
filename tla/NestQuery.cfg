SPECIFICATION Spec
CONSTANTS
    Items = {1, 2, 3}
    Views <- SomeViews
    Queries <- SomeQueries
    Numeric = {"pts"}
INVARIANTS
    AnswerIsMeaning
    ConjunctionExchangeable
    ExpandStable
CHECK_DEADLOCK FALSE
