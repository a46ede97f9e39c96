CONSTANTS
    a = a
    b = b
    t = t
    u = u
    v = v
    s1 = s1
    s2 = s2
    s3 = s3
    Participants = {a, b}
    Agents = {a, b}
    Terminals = {t, u, v}
    Kinds = {claude, codex}
    claude = claude
    codex = codex
    None = None
    Sessions = {s1, s2, s3}
    HarnessOf <- MCHarness
    Names <- MCNames
    Since <- MCSince
    MaxPerPass = 1
    Occupants <- MCOccupants
    Layout <- MCLayout
    MaxInputs = 2
SPECIFICATION FairSessionsSpec
INVARIANTS SessionsTypeOK ResumePointsAreVouched
PROPERTIES AgentsAreRecorded
CHECK_DEADLOCK FALSE
