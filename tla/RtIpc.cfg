SPECIFICATION IpcSpec
CONSTANTS
    main = main
    a = a
    b = b
    idle = idle
    sem = sem
    box = box
    boxSenders = boxSenders
    mail1 = mail1
    mail2 = mail2
    Thread = {main, a, b, idle}
    Obj = {sem, box, boxSenders}
    MaxPrio = 3
    Slice <- Slices
    TickMod = 7
    Idle = idle
    Main = main
    InitPrio <- Prios
    Programs <- StartPrograms
    SleepArg = {}
    NewPrio = {}
    MaxLock = 0
    Flag <- Flags
    WaitArg <- Waits
    Msg = {mail1, mail2}
    Apps <- IpcApps
    Sem = {sem}
    SemMax = 2
    SemInit = {1}
    Box = {box}
    Senders <- SenderLists
    BoxSize = 2
INVARIANTS
    WaitersSound
    UnitsConserved
    NoneWaitsInVain
PROPERTY
    MailboxIsQueue
