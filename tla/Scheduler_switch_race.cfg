\* Two workers; a body moves itself to the other worker with switchTo.
CONSTANTS
    Threads = {t1, t2}
    Fibers = {f1, f2, f3, f4}
    Work = {w1, w2}
    Affinities = {AnyThread}
    Ops = {"switch"}
    MaxYields = 1
    AnyThread = AnyThread
    Root = AnyThread
    NoFiber = NoFiber
    NoWork = NoWork
SPECIFICATION Spec
INVARIANT StackExclusive
CHECK_DEADLOCK FALSE
