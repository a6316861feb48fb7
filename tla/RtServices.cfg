SPECIFICATION ServiceSpec
CONSTANTS
    Heads = {h1, h2}
    Node = {n1, n2, n3, n4}
    Timer = {t1, t2}
    NoTimer = NoTimer
    Periods <- MCPeriods
    TickMod = 7
    MaxLate = 1
    Thread = {p, q}
    Object = {o1, o2, o3}
    Name = {a, b}
    Dynamic = {o2}
    IrqObject = {o3}
    NoThread = NoThread
    NoObject = NoObject
    Standalone = {o2}
    Spoilt = {}
    User = {u, v}
    Bare = {o1}
SYMMETRY Symmetry
INVARIANTS
    WellLinked
    TimersListed
    ServiceWakesInTime
    SearchesSound
    DevicesSound
PROPERTIES
    ImplementsLists
    TimersKeepPromises
