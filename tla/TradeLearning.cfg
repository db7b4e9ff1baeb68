\* Trades close while the layer runs; it fails once and the bot writes once.
SPECIFICATION Spec
CONSTANTS
    f1 = f1  f2 = f2  f3 = f3  f4 = f4  f5 = f5  f6 = f6  f7 = f7  s1 = s1
    History <- Trades
    Started = 6
    Window = 6
    ListLimit = 7
    Signals = {s1}
    Actions = {"SELL", "WATCH"}
    Watch = "WATCH"
    Rules = {"stop-1r"}
    GatewayFills = {g1}
    g1 = g1
    OrderOf <- Orders
    NoR = NoR
    NoFill = NoFill
    NoSignal = NoSignal
    NoRow = NoRow
    MaxWrites = 1
    MaxFaults = 1
INVARIANTS
    TypeOK
    OneDecisionPerFill
    OneEpisodePerDecision
    DraftsAreEarned
PROPERTIES
    TradesAreLearned
