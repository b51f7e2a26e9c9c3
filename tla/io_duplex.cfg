CONSTANTS
    Threads = {t1, t2}
    w1 = w1
    w2 = w2
    w3 = w3
    f1 = f1
    f2 = f2
    Waiters = {w1, w2}
    Fds = {f1, f2}
    WFd <- WFdShared
    WDir <- WDirApart
    WithTimeout = {}
    Closable = {}
    Supply = 1
    Kind <- KindAllRead
    ListenFd = nofd
    FlagFds = {}
    IoctlArgs = {}
    NoWaiter = NoWaiter
SPECIFICATION SpecPeer
INVARIANT AddEventOK
CHECK_DEADLOCK FALSE
