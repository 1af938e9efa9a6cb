SPECIFICATION FairSpec
CONSTANTS
    Threads = {"t1", "t2"}
    Words = {"return", "re turn", "pickup"}
    NormalForm <- Forms
    Dictionaries <- TwoStates
    Questions <- AnyQuestion
    RefreshEnabled = TRUE
    MaxTerms = 1
    MaxEdits = 1
INVARIANTS
    TypeOK
    AlwaysKnownTerms
    WholeWhenAlone
    AnswersWereTrue
PROPERTIES
    EventuallyFresh
