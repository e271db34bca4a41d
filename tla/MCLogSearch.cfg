CONSTANTS
    MaxLogs = 4
    MaxTime = 2
    MaxQueries = 2
    BulkSize = 3
    MAX_NUM_RESULT = 2
    Lower <- MCLower
    Contents <- MCContents
    AskedKeys <- MCAskedKeys
    AskedWords <- MCAskedWords
SPECIFICATION Spec
INVARIANTS
    TypeOK
    AnswersExact
    TimeAnswers
    FoundRight
CHECK_DEADLOCK FALSE
