CONSTANTS
    a1 = a1
    s1 = s1
    Agents = {a1}
    Switches = {s1}
    Networks = {"::internet", "vnet.internal"}
    CDT = CDT
    None = None
    MaxConn = 6
    MaxToken = 4
    SockBuf = 6
SPECIFICATION AssignSpec
INVARIANT RoundRobin
PROPERTY ReachableFirst
CHECK_DEADLOCK FALSE
