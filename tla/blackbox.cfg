CONSTANTS
    a = a
    b = b
    s1 = s1
    s2 = s2
    f1 = f1
    f2 = f2
    Agents = {a, b}
    Ips = {1, 2, 9}
    Fds = {f1, f2}
    None = None
    Switches = {s1, s2}
    TunSwitches = {s1}
    Files <- MCFiles
    Raw <- MCRaw
    Arriving <- MCArriving
SPECIFICATION Spec
SYMMETRY Symmetry
INVARIANTS
    TypeOK
    LoadExact
    MapsAgree
    RegistryExact
    RoutesLive
    DeliveryAllowed
    AnswersReturn
    ParsesInside
PROPERTY
    PresenceSpec
CHECK_DEADLOCK FALSE
