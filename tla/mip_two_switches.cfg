CONSTANTS
    a1 = a1
    s1 = s1
    s2 = s2
    Agents = {a1}
    Switches = {s1, s2}
    Networks = {"::internet", "vnet.internal"}
    CDT = CDT
    None = None
    Torn = Torn
    MaxDumps = 1
    Spoiled = Spoiled
    MaxConn = 4
    MaxToken = 1
    SockBuf = 1
    Reconnecting = {}
    Retrying = {}
    MaxFaults = 1
SPECIFICATION DumpSpec
SYMMETRY Symmetry
INVARIANTS
    RosterValid
    PendingHasSwitch
    DumpWhole
    RequestKept
CHECK_DEADLOCK FALSE
