\* Two workers; units pinned to a worker yield to READY once.
CONSTANTS
    Threads = {t1, t2}
    Fibers = {f1, f2, f3, f4}
    Work = {w1, w2}
    Affinities = {t1, t2}
    Ops = {"ready"}
    MaxYields = 1
    AnyThread = AnyThread
    Root = AnyThread
    NoFiber = NoFiber
    NoWork = NoWork
SPECIFICATION Spec
INVARIANT AffinityRespected
CHECK_DEADLOCK FALSE
