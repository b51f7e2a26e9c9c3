CONSTANTS
    TimerIds = {1, 2}
    Scanners = {s1, s2}
    Periods = {0, 2}
    Recurring = {TRUE}
    MaxTime = 2
    Jumps = {1, 2}
    MaxJumps = 1
    Rollover = 1
    MaxPending = 1
    NoSnap = NoSnap
SPECIFICATION Spec
INVARIANT NoFireAfterCancel
CHECK_DEADLOCK FALSE
