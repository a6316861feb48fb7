SPECIFICATION FairSpec
CONSTANTS
    main = main
    a = a
    b = b
    idle = idle
    Thread = {main, a, b, idle}
    Obj = {}
    MaxPrio = 3
    Slice <- Slices
    TickMod = 8
    Idle = idle
    Main = main
    InitPrio <- PairPrios
    Programs <- LivePrograms
    SleepArg = {0, 2}
    NewPrio = {0}
    MaxLock = 2
PROPERTIES
    SleepEnds
    PeersShare
