\* Two retries of one key overlap while it is recovered; no handler stalls.
SPECIFICATION Spec
CONSTANTS
    w1 = w1  w2 = w2  p1 = p1  p2 = p2  a1 = a1  a2 = a2
    k1 = k1  k2 = k2  d1 = d1  o1 = o1  o2 = o2
    Workers = {w1, w2}
    Procs = {p1}
    ProcOf <- OneProcess
    Approvals = {a1}
    Keys = {k1}
    Digests = {d1}
    Binding <- BindAll
    Intents <- OneIntent
    Perishable = {}
    OrderIds = {o1, o2}
    StrongLookup = TRUE
    SerialKeys = FALSE
    PromptVenue = TRUE
    MaxFaults = 1
    NoIntent = NoIntent  NoOrder = NoOrder  NoKey = NoKey
    NoApproval = NoApproval  NoDigest = NoDigest
INVARIANT OneOrderPerApproval
