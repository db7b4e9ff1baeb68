\* Publishers outlive their leases; nobody resolves by hand; what they
\* do late neither breaks the order nor keeps an event from settling.
SPECIFICATION FairSpec
CONSTANTS
    Publishers = {p, q}
    Aggregates = {task, incidents}
    Incidents = incidents
    MaxSeq = 3
    MAX_ATTEMPTS = 2
    MaxFaults = 2
    PromptPublishers = FALSE
    Operators = FALSE
    CarefulOperators = FALSE
    NoEvent = NoEvent
CHECK_DEADLOCK FALSE
INVARIANT DeliveredInOrder
PROPERTY EventsSettle
