CONSTANTS
    a1 = a1
    a2 = a2
    s1 = s1
    s2 = s2
    Agents = {a1}
    Switches = {s1}
    Networks = {"::internet", "vnet.internal"}
    CDT = CDT
    None = None
    MaxConn = 4
    MaxToken = 3
    SockBuf = 1
    Reconnecting = {}
    Retrying = {a1}
    MaxFaults = 2
SPECIFICATION FairSpec
PROPERTIES
    HandshakeEnds
    AssignmentEnds
    DeadSwitchLeaves
    DeadAgentLeaves
CHECK_DEADLOCK FALSE
