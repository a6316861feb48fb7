SPECIFICATION ObjectsSpec
CONSTANTS
    main = main
    a = a
    b = b
    idle = idle
    mutex = mutex
    event = event
    mqueue = mqueue
    mqSenders = mqSenders
    pool = pool
    mail1 = mail1
    mail2 = mail2
    f1 = f1
    f2 = f2
    Nobody = Nobody
    Thread = {main, a, b, idle}
    Obj = {mutex, event, mqueue, mqSenders, pool}
    MaxPrio = 3
    Slice <- Slices
    TickMod = 7
    Idle = idle
    Main = main
    InitPrio <- Prios
    Programs <- TwoPrograms
    SleepArg = {1}
    NewPrio = {}
    MaxLock = 0
    Flag <- Flags
    WaitArg <- Waits
    Msg = {mail1, mail2}
    Apps <- ObjectApps
    Mutex = {mutex}
    HoldMax = 2
    Event = {event}
    Bit = {f1, f2}
    Sent <- EventSets
    Wants <- EventWants
    Mq = {mqueue}
    MqSenders <- SenderLists
    MaxMsgs = 2
    Pool = {pool}
    Total = 2
INVARIANTS
    MutexExclusive
    PriorityInherited
    NobodyForgotten
    BuffersConserved
PROPERTY
    FlagsGoToOne
    MqIsQueue
