SPECIFICATION Spec
CONSTANTS
    Tables <- MCTables
    Searches <- MCSearches
    Registry <- MCRegistry
    OriginOf <- MCOriginOf
    Alphabet <- MCAlphabet
INVARIANTS
    ViewResolved
    AnswerIsMeaning
    CountIsLength
    PagesShareOut
CHECK_DEADLOCK FALSE
