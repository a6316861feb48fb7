---------------------------- MODULE BoardMotors ----------------------------
(***************************************************************************)
(* app_zdt_motor.c and can_SendCmd of component_zdt_EmmV5.c: the settings   *)
(* of the motors, which anybody may change at any time, are sent when they  *)
(* differ from the ones sent before, as position commands in several frames *)
(* each, and a broadcast starts all motors together.  The motors are        *)
(* external: they put the frames of a command together again and keep the   *)
(* command until the broadcast.  The bus delivers in order.                 *)
(***************************************************************************)
EXTENDS Integers, Sequences

CONSTANTS NumMotors,     \* zdt_motor_num
          Setting        \* what vel_set and clk_set are set to, as one value

MotorsAssumption == /\ NumMotors \in Nat \ {0}
                    /\ Setting # {} /\ Setting \subseteq Nat \ {0}

Motor == 1..NumMotors
Broadcast == 0

(* The bytes behind address and function code, ending in the check byte. *)
PosControl == 253
Synchronous == 255
CheckByte == 107
PosData(s) == <<0, s, s, 0, s, s, s, s, 0, 1, CheckByte>>
SyncData == <<102, CheckByte>>

VARIABLES
    setting,      \* zdt_motors[i].vel_set and clk_set
    sent,         \* vals[i] and poses[i]
    task,         \* zdt_motor_task: [at, i]
    frames,       \* the frames of the command being sent that are not out yet
    gathered,     \* external: motor -> [code, data] of the frames so far
    pending,      \* external: motor -> the command waiting for the broadcast
    running,      \* external: motor -> the setting it runs
    missed        \* history: motors whose setting changed after it was sent
                  \* and before it was noted as sent

board == <<setting, sent, task, frames>>
motors == <<gathered, pending, running>>
vars == <<board, motors, missed>>

NoCommand == [code |-> 0, data |-> <<>>]

(* The motors have the same velocity to begin with. *)
Init == /\ setting = [m \in Motor |-> CHOOSE s \in Setting : TRUE]
        /\ sent = [m \in Motor |-> 0]
        /\ task = [at |-> "idle", i |-> 1]
        /\ frames = <<>>
        /\ gathered = [m \in Motor |-> NoCommand]
        /\ pending = [m \in Motor |-> 0]
        /\ running = [m \in Motor |-> 0]
        /\ missed = {}

(* Motor m's setting has gone out in this round and is not noted as sent.   *)
IsOut(m) == \/ task.at \in {"settings", "command"} /\ m < task.i
            \/ task.at = "command" /\ m = task.i
            \/ task.at = "sync"
            \/ task.at = "note" /\ m >= task.i

Change(m) == /\ \E s \in Setting \ {setting[m]} : setting' = [setting EXCEPT ![m] = s]
             /\ missed' = IF IsOut(m) THEN missed \cup {m} ELSE missed
             /\ UNCHANGED <<sent, task, frames, motors>>

(* The bytes that go into the next frame: all if they are fewer than eight,  *)
(* otherwise seven.                                                          *)
FrameSize(left) == IF left < 8 THEN left ELSE 7

(* The turns of the loop: turn p starts behind seven bytes for each before. *)
Pieces(data) ==
    [p \in 1..((Len(data) + 6) \div 7) |->
        LET i == 7 * (p - 1)
        IN  SubSeq(data, i + 1, i + FrameSize(Len(data) - i))]

(* Variant: all frames carry the packet number 0. *)
UnnumberedFrames(addr, code, data) ==
    [p \in DOMAIN Pieces(data) |->
        [addr |-> addr, pack |-> 0, code |-> code, data |-> Pieces(data)[p]]]

(* can_SendCmd: the frames are numbered and each repeats the function code. *)
Frames(addr, code, data) ==
    [p \in DOMAIN Pieces(data) |->
        [addr |-> addr, pack |-> p - 1, code |-> code, data |-> Pieces(data)[p]]]

Start == /\ task.at = "idle"
         /\ \E m \in Motor : sent[m] # setting[m]
         /\ task' = [at |-> "settings", i |-> 1]
         /\ UNCHANGED <<setting, sent, frames, motors, missed>>

(* Emm_V5_Pos_Control reads the settings and begins to send the command,    *)
(* after the last motor Emm_V5_Synchronous_motion does.                     *)
Command ==
    /\ task.at = "settings"
    /\ IF task.i <= NumMotors
       THEN /\ frames' = Frames(task.i, PosControl, PosData(setting[task.i]))
            /\ task' = [task EXCEPT !.at = "command"]
            /\ missed' = missed \ {task.i}
       ELSE /\ frames' = Frames(Broadcast, Synchronous, SyncData)
            /\ task' = [task EXCEPT !.at = "sync"]
            /\ UNCHANGED missed
    /\ UNCHANGED <<setting, sent, motors>>

(* A motor receives frame f: a first frame begins a command and a further   *)
(* one continues it.  It acts on a command it knows, complete with all its  *)
(* bytes.                                                                   *)
Gather(m, f) == IF f.pack = 0 THEN [code |-> f.code, data |-> f.data]
                ELSE [code |-> f.code, data |-> gathered[m].data \o f.data]
Accepts(m, f) == f.addr \in {m, Broadcast}
IsPosition(g) == \E s \in Setting : g = [code |-> PosControl, data |-> PosData(s)]
IsStart(g) == g = [code |-> Synchronous, data |-> SyncData]

Deliver(f) ==
    /\ gathered' = [m \in Motor |->
          IF ~Accepts(m, f) THEN gathered[m]
          ELSE IF IsPosition(Gather(m, f)) \/ IsStart(Gather(m, f)) THEN NoCommand
          ELSE Gather(m, f)]
    /\ pending' = [m \in Motor |->
          IF Accepts(m, f) /\ IsPosition(Gather(m, f)) THEN Gather(m, f).data[2] ELSE pending[m]]
    /\ running' = [m \in Motor |->
          IF Accepts(m, f) /\ IsStart(Gather(m, f)) THEN pending[m] ELSE running[m]]

(* One turn of the loop of can_SendCmd. *)
Transmit == /\ frames # <<>>
            /\ Deliver(frames[1])
            /\ frames' = Tail(frames)
            /\ UNCHANGED <<setting, sent, task, missed>>

(* The command is out, and the delay behind it over. *)
Sent == /\ task.at \in {"command", "sync"} /\ frames = <<>>
        /\ task' = IF task.at = "command"
                   THEN [at |-> "settings", i |-> task.i + 1]
                   ELSE [at |-> "note", i |-> 1]
        /\ UNCHANGED <<setting, sent, frames, motors, missed>>

(* The settings are copied as they are now. *)
Note == /\ task.at = "note"
        /\ sent' = [sent EXCEPT ![task.i] = setting[task.i]]
        /\ task' = IF task.i = NumMotors THEN [at |-> "idle", i |-> 1]
                   ELSE [task EXCEPT !.i = @ + 1]
        /\ UNCHANGED <<setting, frames, motors, missed>>

Next == \/ \E m \in Motor : Change(m)
        \/ Start \/ Command \/ Transmit \/ Sent \/ Note

-----------------------------------------------------------------------------
(* When there is nothing to send every motor runs what it is set to, with   *)
(* all motors started together, but for those whose setting changed during  *)
(* the transmission: the change is noted as sent (app_zdt_motor.c:111-112)  *)
(* and stays unsent until another one.                                      *)
MotorsFollow ==
    task.at = "idle" /\ sent = setting =>
        \A m \in Motor \ missed : running[m] = setting[m]
=============================================================================
