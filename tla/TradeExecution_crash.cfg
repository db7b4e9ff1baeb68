\* One signal; two restarts in either mode at any point.
SPECIFICATION FairSpec
CONSTANTS
    Signals = {1}
    Order <- MCOrder
    Modes = {"paper", "shadow"}
    Perishable = {}
    Purges = TRUE
    MaxRestarts = 2
INVARIANTS
    TypeOK
    OneApprovalPerSignal
    OrdersAreTracked
    SubmittedHasOrder
PROPERTY TasksSettle
