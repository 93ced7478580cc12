CONSTANTS
    a1 = a1
    s1 = s1
    Agents = {a1}
    Switches = {s1}
    Networks = {"::internet", "vnet.internal"}
    CDT = CDT
    None = None
    MaxConn = 2
    MaxToken = 1
    SockBuf = 6
SPECIFICATION AssignSpec
INVARIANT AssignsReachable
CHECK_DEADLOCK FALSE
