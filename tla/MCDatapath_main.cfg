CONSTANTS
    Conn = {1, 2, 3}
    NWorker = 2
    NSlot = 1
    Hash <- MCHash
    Ways = 1
    FbWays = 1
    TableSize = 1
    Probe = 1
    Frame = {f1, f2, f3}
    NPort = 2
    PortOf <- MCPortOf
    PeerWorker <- MCPeerWorker
    Bypass = {3}
    Sizes <- MCSizes
    PeerSizes <- MCPeerSizes
    MidCap = 1
    TxCap = 2
    Margin = 0
    Refill = 2
    LanArps = {"stray"}
    WanArps = {"flood"}
    MaxLan = 2
    MaxWan = 2
    MaxAll = 3
    MaxFault = 1
SYMMETRY Symm
SPECIFICATION Spec
CHECK_DEADLOCK FALSE
INVARIANTS FrameOwnedOnce OneWorker NumberedInOrder JoinedWhole
