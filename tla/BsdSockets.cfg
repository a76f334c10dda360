SPECIFICATION Spec
CONSTANTS
    EphemeralBase = 3
    EphemeralEnd = 4
    PortModulus = 5
    Sockets = {1, 2, 3}
    ExplicitPorts = {4}
    PacketProtocols = {"tcp", "udp"}
    Sizes = {2}
    MaxQueue = 1
    Fds = {1, 2}
    MaxSockets = 3
    Threads = {t1, t2}
    MaxCalls = 5
INVARIANTS
    TypeOK
    RoutedSocketsAreOpen
    PortListsSorted
    
    WaiterKeepsSocket
    NoLostRequest
CHECK_DEADLOCK FALSE
SYMMETRY ThreadSymmetry
