\* TcpServer::stop on an IOManager with two workers: its callback closes the
\* listening socket while the accept loop's fiber, woken by cancelAll, runs
\* on the other worker.
CONSTANTS
    Threads = {t1, t2}
    w1 = w1
    w2 = w2
    w3 = w3
    f1 = f1
    f2 = f2
    Waiters = {w1}
    Fds = {f1}
    WFd <- WFdApart
    WDir <- WDirApart
    WithTimeout = {}
    Closable = {}
    Supply = 1
    Kind <- KindServer
    ListenFd = f1
    FlagFds = {}
    IoctlArgs = {}
    NoWaiter = NoWaiter
SPECIFICATION SpecPeer
INVARIANT NoDanglingWaiter
CHECK_DEADLOCK FALSE
