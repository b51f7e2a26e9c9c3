\* A TcpServer accept loop on f1 until the server is stopped, and a connect
\* with a timeout on f2 while another fiber closes f2.
CONSTANTS
    Threads = {t1, t2}
    w1 = w1
    w2 = w2
    w3 = w3
    f1 = f1
    f2 = f2
    Waiters = {w1, w2}
    Fds = {f1, f2}
    WFd <- WFdApart
    WDir <- WDirApart
    WithTimeout = {w2}
    Closable = {f2}
    Supply = 1
    Kind <- KindServer
    ListenFd = f1
    FlagFds = {}
    IoctlArgs = {}
    NoWaiter = NoWaiter
SPECIFICATION SpecPeer
INVARIANT CountMatches
INVARIANT FiberAccounted
CHECK_DEADLOCK FALSE
