CONSTANTS
    a1 = a1
    a2 = a2
    s1 = s1
    s2 = s2
    Agents = {a1}
    Switches = {s1}
    Networks = {"::internet", "vnet.internal"}
    CDT = CDT
    None = None
    MaxConn = 5
    MaxToken = 3
    SockBuf = 1
    Reconnecting = {a1}
    Retrying = {a1}
    MaxFaults = 2
SPECIFICATION Spec
INVARIANTS
    TypeOK
    RosterValid
    SwitchRosterExact
    AgentView
    PendingHasSwitch
PROPERTY AdmissionSpec
CHECK_DEADLOCK FALSE
