\* Two workers, two units on any thread or pinned to t1 (pinning to t2 is the
\* same case with the threads renamed), bodies that yield to READY or throw.
CONSTANTS
    Threads = {t1, t2}
    Fibers = {f1, f2, f3, f4}
    Work = {w1, w2}
    Affinities = {AnyThread, t1}
    Ops = {"ready", "throw"}
    MaxYields = 1
    AnyThread = AnyThread
    Root = AnyThread
    NoFiber = NoFiber
    NoWork = NoWork
SPECIFICATION Spec
INVARIANT TypeOK
PROPERTY PoolRefined
INVARIANT StackExclusive
INVARIANT ExactlyOnce
INVARIANT DrainedAtJoin
PROPERTY AllRun
PROPERTY Termination
CHECK_DEADLOCK FALSE
