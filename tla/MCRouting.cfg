CONSTANTS
    a = a
    b = b
    t = t
    u = u
    Participants = {a, b}
    Agents = {a, b}
    Registered = {a}
    Terminals = {t, u}
    Kinds = {claude}
    None = None
    Layout <- MCLayout
    MaxInputs = 4
SPECIFICATION RoutingSpec
INVARIANTS OneActivePerTerminal
PROPERTIES ConnectDisplacesNobody CreatedIsBoundOrRetired DeadRouteEnds StaleRouteReturns
CHECK_DEADLOCK FALSE
