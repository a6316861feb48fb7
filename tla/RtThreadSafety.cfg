SPECIFICATION Spec
CONSTANTS
    main = main
    a = a
    b = b
    idle = idle
    Thread = {main, a, b, idle}
    Obj = {}
    MaxPrio = 3
    Slice <- Slices
    TickMod = 8
    Idle = idle
    Main = main
    InitPrio <- Prios
    Programs <- SafetyPrograms
    SleepArg = {0, 2}
    NewPrio = {0, 1}
    MaxLock = 2
INVARIANTS
    TypeOK
    QueuesMatchStat
    GroupExact
    SwitchRecord
    HighestRuns
    TimersSound
    SleeperHasTimer
PROPERTY
    ClosedStaysClosed
