SPECIFICATION FairSpec
CONSTANTS
    Conns = {c1, c2, c3}
    NoConn = nil
    MaxChunks = 4
INVARIANTS NoConnectionLeaks SentIsRecorded EachLossIsReported
PROPERTIES RemovedComesToRest LostLinkIsReplaced
CHECK_DEADLOCK FALSE
