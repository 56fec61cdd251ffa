SPECIFICATION Spec
CONSTANTS
    Handles = {h1}
    Configs <- LinkConfigs
    MaxEpoch = 2
    MaxConnections = 0
    InsertMayFail = FALSE
    RemembersEarlyClose = TRUE
CHECK_DEADLOCK FALSE
PROPERTY LocalDisconnectIsStored
