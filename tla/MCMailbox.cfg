CONSTANTS
    Participants = {a, b}
    Agents = {a, b}
    Chat = {c1, c2}
    Direct = {d}
    Workspace = {w}
    Names = {"backend", "dm", "ws"}
    NameOf <- MCNameOf
    Between <- MCBetween
    MaxRows = 2
    MaxMessages = 2
SPECIFICATION MailboxSpec
INVARIANTS RowsAgree
PROPERTIES KeepsPromise ReadsNeverRewind
SYMMETRY Interchangeable
CHECK_DEADLOCK FALSE
