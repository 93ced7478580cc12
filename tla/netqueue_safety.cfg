CONSTANTS
    f1 = f1
    f2 = f2
    Fds = {f1}
    Tuns = {}
    None = None
    PACKET_HEADER_SIZE = 2
    WRITE_BUFFER_MAX = 3
    EPOLL_MAX_EVENTS = 1
    SndBuf = 2
    Payloads = {0, 1, 4}
    MaxIn = 2
    MaxOut = 3
    Abrupt = {f1}
    Closers = {f1}
    Direct = {f1}
    Failing = {f1}
SPECIFICATION Spec
INVARIANTS
    TypeOK
    InputFraming
    OutputFraming
CHECK_DEADLOCK FALSE
