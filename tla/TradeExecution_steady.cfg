\* A purchase and a sale in two symbols of one account, and no restart; the intent
\* of one of them may lapse.
SPECIFICATION Spec
CONSTANTS
    Signals = {1, 2}
    Order <- MCOrder
    Modes = {"paper"}
    Perishable = {1}
    Purges = FALSE
    MaxRestarts = 0
INVARIANT MatchedInTurn
PROPERTY MismatchMeansInterference
