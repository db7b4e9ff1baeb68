\* Four events of two kinds, of which the chief sees the newest three; two posts fail.
SPECIFICATION Spec
CONSTANTS
    k1 = k1  k2 = k2
    NumEvents = 4
    Kinds = {k1, k2}
    KindOf <- KindOfEvent
    Window = 3
    MaxFailures = 2
    MaxDirect = 1
INVARIANTS
    TypeOK
    CountsAreExact
PROPERTIES
    ReopenedByNewsOnly
    EventsArrive
