\* Any number of concurrent requests per key, in two processes; the venue is only EVENTUAL.
SPECIFICATION Spec
CONSTANTS
    w1 = w1  w2 = w2  p1 = p1  p2 = p2  a1 = a1  a2 = a2
    k1 = k1  k2 = k2  d1 = d1  o1 = o1  o2 = o2
    Workers = {w1, w2}
    Procs = {p1, p2}
    ProcOf <- TwoProcesses
    Approvals = {a1, a2}
    Keys = {k1, k2}
    Digests = {d1}
    Binding <- BindAll
    Intents <- ThreeIntents
    Perishable = {}
    OrderIds = {o1, o2}
    StrongLookup = FALSE
    SerialKeys = FALSE
    PromptVenue = FALSE
    MaxFaults = 1
    NoIntent = NoIntent  NoOrder = NoOrder  NoKey = NoKey
    NoApproval = NoApproval  NoDigest = NoDigest
SYMMETRY Ids
INVARIANT OneOrderPerApproval
