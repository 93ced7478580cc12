CONSTANTS
    f1 = f1
    f2 = f2
    Fds = {f1}
    Tuns = {}
    None = None
    PACKET_HEADER_SIZE = 1
    WRITE_BUFFER_MAX = 2
    EPOLL_MAX_EVENTS = 2
    SndBuf = 1
    Payloads = {1}
    MaxIn = 1
    MaxOut = 3
    Abrupt = {}
    Closers = {}
    Direct = {}
    Failing = {}
SPECIFICATION FairSpec
PROPERTIES
    OverflowCloses
CHECK_DEADLOCK FALSE
