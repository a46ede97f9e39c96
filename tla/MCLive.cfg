CONSTANTS
    x = x
    y = y
    Tabs = {x, y}
    Nobody = Nobody
    MaxReplay = 1
    MaxMessages = 2
    MaxTransit = 1
    MaxTurns = 3
SPECIFICATION FairLiveSpec
INVARIANTS LiveTypeOK RecoveryHeals
PROPERTIES ReplayCoversDisconnection StreamComesBack
CHECK_DEADLOCK FALSE
