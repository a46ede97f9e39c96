CONSTANTS
    a = a
    b = b
    t = t
    u = u
    Participants = {a, b, ann}
    Agents = {a, b}
    Chat = {c1, c2}
    Direct = {}
    Workspace = {}
    Names = {"backend"}
    NameOf <- MCNameOf
    Between <- MCBetween
    MaxRows = 2
    MaxMessages = 1
    Terminals = {t, u}
    Kinds = {claude}
    None = None
    Layout <- MCLayout
    Home <- MCHome
    MaxInputs = 2
    MaxRestarts = 0
SPECIFICATION NotifierSpec
INVARIANTS NotifierTypeOK NothingForgotten
PROPERTIES PingsAreNews
CHECK_DEADLOCK FALSE
