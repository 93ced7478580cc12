CONSTANTS
    a1 = a1
    a2 = a2
    s1 = s1
    s2 = s2
    Agents = {a1, a2}
    Switches = {s1}
    Networks = {"::internet", "vnet.internal"}
    CDT = CDT
    None = None
    MaxConn = 5
    MaxToken = 3
    SockBuf = 1
    Reconnecting = {}
    Retrying = {a1, a2}
    MaxFaults = 1
SPECIFICATION Spec
SYMMETRY Symmetry
INVARIANTS
    AuthenticIdentity
    OneTimeToken
    IInv
CHECK_DEADLOCK FALSE
