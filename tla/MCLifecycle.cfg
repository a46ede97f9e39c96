CONSTANTS
    root = root
    t1 = t1
    t2 = t2
    t3 = t3
    Participants = {a, b}
    Agents = {a, b}
    Terminals = {root, t1, t2}
    Kinds = {claude}
    None = None
    Keys = {k, l}
    Leads = {k, l}
    Requests = {p, q}
    Stops = {x}
    Resumes = {y}
    Harness = claude
    Layout <- MCLayout
    MaxActive = 2
    MaxCommands = 3
    MaxInputs = 1
    MaxRestarts = 1
SPECIFICATION FairLifecycleSpec
INVARIANTS LifecycleTypeOK OneAgentPerKey NobodyIsOrphaned ClosedLeavesNothing
PROPERTIES RequestsAreAnswered
CHECK_DEADLOCK FALSE
