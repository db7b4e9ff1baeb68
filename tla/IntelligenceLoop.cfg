\* Two sources, three documents on two events of which a cycle follows up one, time for a
\* check that is made late, and a fault.  The event of the two reprints has weight.
SPECIFICATION Spec
CONSTANTS
    d1 = d1  d2 = d2  d3 = d3  s1 = s1  s2 = s2  c1 = c1  c2 = c2
    Docs = {d1, d2, d3}
    Source <- SourceOf
    Cluster <- ClusterOf
    Weighty = {d1, d2}
    Mute = {}
    ByEventId <- Ranked
    ExportLimit = 1
    ItemLimit = 1
    Checkpoints = {1}
    PriceAt <- PricePath
    NoPrice = NoPrice
    NoItem = NoItem
    MaxClock = 2
    MaxFaults = 1
INVARIANTS
    TypeOK
    LostByFaultsOnly
    LedgerIsBacked
PROPERTIES
    ObservationsStay
    FollowUpsFinish
