\* Leases are respected and operators wait: crashes, failures, dead letters and their resolution.
SPECIFICATION Spec
CONSTANTS
    Publishers = {p, q}
    Aggregates = {task, incidents}
    Incidents = incidents
    MaxSeq = 3
    MAX_ATTEMPTS = 2
    MaxFaults = 3
    PromptPublishers = TRUE
    Operators = TRUE
    CarefulOperators = TRUE
    NoEvent = NoEvent
SYMMETRY PublisherSymmetry
CHECK_DEADLOCK FALSE
INVARIANTS
    TypeOK
    PublishedIsDelivered
PROPERTIES
    NoOvertaking
    ImplementsOrderedDelivery
