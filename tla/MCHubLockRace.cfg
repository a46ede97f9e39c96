CONSTANTS
    Hubs = {h1, h2}
    NoPid = NoPid
    Overlap = TRUE
SPECIFICATION HubLockSpec
INVARIANTS OneHub
CHECK_DEADLOCK FALSE
