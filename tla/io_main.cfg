CONSTANTS
    Threads = {t1, t2}
    w1 = w1
    w2 = w2
    w3 = w3
    f1 = f1
    f2 = f2
    Waiters = {w1, w2, w3}
    Fds = {f1, f2}
    WFd <- WFdApart
    WDir <- WDirApart
    WithTimeout = {w2}
    Closable = {}
    Supply = 1
    Kind <- KindMixed
    ListenFd = nofd
    FlagFds = {f2}
    IoctlArgs = {TRUE, FALSE}
    NoWaiter = NoWaiter
SPECIFICATION SpecPeer
INVARIANT TypeOK
INVARIANT CountMatches
INVARIANT FiberAccounted
PROPERTY AllReturn
PROPERTY Termination
CHECK_DEADLOCK FALSE
