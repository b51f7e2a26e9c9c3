CONSTANTS
    Threads = {t1, t2}
    w1 = w1
    w2 = w2
    w3 = w3
    f1 = f1
    f2 = f2
    Waiters = {w1, w2}
    Fds = {f1, f2}
    WFd <- WFdApart
    WDir <- WDirApart
    WithTimeout = {w1, w2}
    Closable = {}
    Supply = 0
    Kind <- KindMixed
    ListenFd = nofd
    FlagFds = {}
    IoctlArgs = {}
    NoWaiter = NoWaiter
SPECIFICATION SpecSilent
PROPERTY TimedWaitReturns
CHECK_DEADLOCK FALSE
