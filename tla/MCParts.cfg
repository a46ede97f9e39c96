CONSTANTS
    Hubs = {h1, h2, h3, h4}
    NoPid = NoPid
    Overlap = FALSE
    MaxChanges = 2
    MaxOutages = 1
    Lines <- MCLines
    Styles = {"file", "chunks", "store"}
    Window = 3
    MaxWindow = 5
    MaxRead = 4
    Limit = 2
    MaxShown = 4
    MaxLines = 4
    Setups = {a, b}
    Offers = {m, n}
    Nothing = Nothing
    Ttl = 2
    Requests = {r1, r2}
    MaxEdits = 2
    Targets = {w, u, p}
    Agents = {w, u}
    Terminals = {p}
    Texts = {x}
    Blank = Blank
    None = None
    DraftLimit = 2
    Sends = {s1, s2}
SPECIFICATION PartsSpec
INVARIANTS PartsTypeOK OneHub RunningHubIsNamed WatchedSocketIsOurs PagesTile
    CurrentModelsAreOffered LockedWhileSent NoBlindRepeat
PROPERTIES RefusedForTheLiving StopEndsWatching ViewCatchesUp
CHECK_DEADLOCK FALSE
