SPECIFICATION FairSpec
CONSTANTS
    K1 = K1
    K2 = K2
    K0 = K0
    Ali = Ali
    Ece = Ece
    NoOne = NoOne
    Unparsable = Unparsable
    Turns <- MCTurns
    Unknown = K0
    DisplayNames = {Ali, Ece}
    Settings <- MCSettings
    ModelNames <- MCModelNames
    MaxRetries = 2
    Answers <- MCAnswers
INVARIANTS
    CallDiscipline
    NoModelTwice
    FailsWhenExhausted
    CompletedIsGrounded
    RepairsReported
    ProseNamesSpeakers
PROPERTIES
    ImplementsOutcome
    Finishes
CHECK_DEADLOCK FALSE
