\* Two handlers, one of which may die, race over a candidate from DRAFT to CANARY.
SPECIFICATION Spec
CONSTANTS
    b1 = b1  b2 = b2  s1 = s1  a1 = a1  a2 = a2
    h1 = h1  h2 = h2
    Handlers = {h1, h2}
    Refs = {b1, b2, s1}
    Source <- Origin
    Approvals = {a1, a2}
    Bound = {a1}
    NoApproval = NoApproval
    Menu <- Requests
    NoRequest = NoRequest
    MaxLost = 1
SYMMETRY Ids
INVARIANTS
    TypeOK
    GatedStagesEarned
    TrailIsExact
PROPERTIES
    FailClosed
    ImplementsLadder
