SPECIFICATION FairSpec
CONSTANTS
    Handles = {h1, h2}
    Configs <- LinkConfigs
    MaxEpoch = 4
    MaxConnections = 0
    InsertMayFail = TRUE
    RemembersEarlyClose = TRUE
CHECK_DEADLOCK FALSE
PROPERTIES OldSessionsDrain ReconnectEnds WindowFollowsEngine
