CONSTANTS
    Lines <- MCLines
    Styles = {"file"}
    Window = 3
    MaxWindow = 5
    MaxRead = 4
    Limit = 2
    MaxShown = 4
    MaxLines = 4
SPECIFICATION PagingSpec
INVARIANTS NothingOutOfReach
CHECK_DEADLOCK FALSE
