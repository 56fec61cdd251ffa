SPECIFICATION Spec
CONSTANTS
    Kinds = {"usb", "spp", "ble", "udp", "tcp", "tcpReconnect", "tcpServer"}
    Senders = {s1}
    MaxGeneration = 2
INVARIANTS QuietStateIsTrue PacketsBelongToTheSessionShown NoHandleLeaks OneLink
PROPERTY CallsReturn
CHECK_DEADLOCK FALSE
