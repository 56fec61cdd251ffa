SPECIFICATION Spec
CONSTANTS
    Threads = {t1, t2}
    Conns = {c1, c2}
    Peers = {p1}
    NoConn = NoConn
    NoPeer = NoPeer
    Configs <- AllConfigs
    MaxSession = 2
SYMMETRY Symmetry
INVARIANTS RecordsStayInTheirSession EveryTransferIsRecordedOnce BridgingStaysInSession RepliesReachRequesters
CHECK_DEADLOCK FALSE
