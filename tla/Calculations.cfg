SPECIFICATION Spec
CONSTANTS
    Items = {1, 2}
    Views <- SomeViews
    Queries <- SomeQueries
    Null = Null
INVARIANTS
    SwapKeepsAnswer
    CountsWhatItFinds
    AnswerIsMeaning
CHECK_DEADLOCK FALSE
