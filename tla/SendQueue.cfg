SPECIFICATION SendSpec
CONSTANTS
    Packet = {"created", "republished", "keepalive", "confirm"}
    Rebroadcasts <- MCRebroadcasts
    NoPacket = "none"
INVARIANTS
    SendTypeOK
    OneSender
    CallbackLast
PROPERTY EverythingSent
CHECK_DEADLOCK FALSE
