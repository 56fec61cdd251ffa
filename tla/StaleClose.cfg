SPECIFICATION Spec
CONSTANTS
    Handles = {h1, h2}
    Configs <- AllConfigs
    MaxEpoch = 4
    MaxConnections = 0
    InsertMayFail = FALSE
    RemembersEarlyClose = TRUE
CHECK_DEADLOCK FALSE
SYMMETRY HandleSymmetry
INVARIANT ReactionNeverBlamesUser
