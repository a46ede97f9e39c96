CONSTANTS
    a1 = a1
    a2 = a2
    d1 = d1
    d2 = d2
    Agents = {a1, a2}
    Channels = {c}
    Direct <- MCDirect
    None = None
    Watchable = {a1, c}
    Coordinators = {a1}
    MaxWakes = 1
    Checks = 2
    MaxMessages = 2
    MaxPolicies = 1
    MaxInputs = 1
SPECIFICATION FairKeepAwakeSpec
INVARIANTS BudgetHolds QuietOnceStopped
CHECK_DEADLOCK FALSE
PROPERTIES AnswerResumes NobodyIsNeglected
