CONSTANTS
    a1 = a1
    a2 = a2
    s1 = s1
    s2 = s2
    Agents = {a1}
    Switches = {s1}
    Networks = {"::internet", "vnet.internal"}
    CDT = CDT
    None = None
    MaxConn = 3
    MaxToken = 1
    SockBuf = 1
    Reconnecting = {}
    Retrying = {}
    MaxFaults = 0
SPECIFICATION Spec
INVARIANT TokenFirst
CHECK_DEADLOCK FALSE
