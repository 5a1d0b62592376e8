SPECIFICATION Spec

CONSTANTS
    None = None
    Clients = {c1}
    ReadTimeout = 2
    WriteTimeout = 2
    Grace = 4
    MaxTries = 2

INVARIANT TypeOK
INVARIANT GraceCoversAnswers
INVARIANT AnswersHold
INVARIANT OnlyInsertsDouble
PROPERTY ShutdownEnds
