CONSTANTS
    TimerIds = {1}
    Scanners = {s1, s2}
    Periods = {0, 2}
    Recurring = {TRUE, FALSE}
    MaxTime = 3
    Jumps = {1, 2}
    MaxJumps = 2
    Rollover = 1
    MaxPending = 1
    NoSnap = NoSnap
SPECIFICATION FairSpec
INVARIANT TypeOK
INVARIANT ArmedIffQueued
INVARIANT NoOneShotFireAfterCancel
PROPERTY TimerEventuallyFires
PROPERTY TimerRefined
CHECK_DEADLOCK FALSE
