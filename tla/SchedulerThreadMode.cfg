SPECIFICATION Spec
CONSTANTS
    t1 = t1
    t2 = t2
    t3 = t3
    Thread = {t1, t2, t3}
    NoThread = NoThread
    MaxPriority = 5
    DefaultSlice = 2
    SleepArg = {1, 2}
    MaxCalls = 1
    Programs <- ThreadModePrograms
INVARIANT
    SleepsTheCaller
CHECK_DEADLOCK FALSE
