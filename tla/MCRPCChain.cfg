SPECIFICATION Spec
CONSTANTS
    T1 = T1
    T2 = T2
    Threads = {T1, T2}
    None = None
    Networks <- MCNetworks
    RPCPort <- MCRPCPort
    Args <- MCArgs
    Contents = {"result", "junk"}
    MaxCalls = 4
    MaxSockets = 2
    CloseInFlight = FALSE
INVARIANT AllOfNamedNetwork
CHECK_DEADLOCK FALSE
