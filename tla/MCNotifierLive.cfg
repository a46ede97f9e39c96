CONSTANTS
    a = a
    b = b
    t = t
    u = u
    Participants = {a, ann}
    Agents = {a}
    Chat = {c}
    Direct = {}
    Workspace = {}
    Names = {"backend"}
    NameOf <- MCNameOf
    Between <- MCBetween
    MaxRows = 1
    MaxMessages = 2
    Terminals = {t, u}
    Kinds = {claude}
    None = None
    Layout <- MCLayout
    Home <- MCHome
    MaxInputs = 1
    MaxRestarts = 1
SPECIFICATION NotifierSpec
PROPERTIES SilentAgentIsPinged StaleAgentIsTold
CHECK_DEADLOCK FALSE
