\* use_caller: t1 is the caller thread, which joins in inside stop(); t2 is
\* spawned by start().  Bodies move themselves to the other thread or yield
\* to READY.
CONSTANTS
    Threads = {t1, t2}
    Fibers = {f1, f2, f3, f4}
    Work = {w1, w2}
    Affinities = {AnyThread, t1}
    Ops = {"switch", "ready"}
    MaxYields = 1
    AnyThread = AnyThread
    Root = t1
    NoFiber = NoFiber
    NoWork = NoWork
SPECIFICATION Spec
PROPERTY AllRun
PROPERTY Termination
CHECK_DEADLOCK FALSE
