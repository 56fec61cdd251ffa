SPECIFICATION Spec
CONSTANTS
    Handles = {h1, h2, h3}
    Configs <- AllConfigs
    MaxEpoch = 4
    MaxConnections = 1
    InsertMayFail = FALSE
    RemembersEarlyClose = TRUE
CHECK_DEADLOCK FALSE
SYMMETRY HandleSymmetry
INVARIANTS NoHandleLeaks OneLink RowsStayInSession
PROPERTIES ReconnectNeverGivesUp RefinesCaptureLog
