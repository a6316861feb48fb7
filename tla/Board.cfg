SPECIFICATION Spec
CONSTANTS
    Byte = {a, b}
    Nul = Nul
    Size = 4
    Room = 4
    Frame = 2
    Gap = 1
    UsartTickMod = 4
    NumMotors = 2
    Setting = {1, 2}
    EncodeMax = 8
    Reach = 9
    NumTasks = 3
    Period <- MCPeriod
    TickMod = 10
INVARIANTS
    EchoExact
    MotorsFollow
    EncoderTracks
PROPERTY
    TasksOnTime
