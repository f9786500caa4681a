SPECIFICATION Spec
CONSTANTS
    Window = 3
    CallMax = 1
    Gap = 1
    JoinMax = 1
INVARIANTS
    TypeOK
    AnswerIsRecent
PROPERTIES
    ProbesArePaced
    TruthIsLearned
