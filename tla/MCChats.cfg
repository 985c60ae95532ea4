SPECIFICATION Spec
CONSTANTS
    MaxChats = 2
    MaxGens = 2
    Keys = {k1}
    None = None
    Greetings = 2
    MaxPending = 1
    MaxMessages = 4
    MaxTexts = 5
    MaxBranches = 2
    Slow = {1}
    Budgets <- MCBudgets
INVARIANTS
    ChatRowsSound
    EditsSafe
    AuditTruthful
PROPERTIES
    GenerationEnds
CHECK_DEADLOCK FALSE
