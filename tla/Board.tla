------------------------------- MODULE Board -------------------------------
(***************************************************************************)
(* The application code under src/Src but its second scheduler: the USART   *)
(* receiver, the motor commands on the CAN bus, the encoder and the table   *)
(* of periodic tasks.  They do not share state; each behaviour runs one of  *)
(* them, from the initial states of all.                                    *)
(***************************************************************************)
EXTENDS Integers

CONSTANTS Byte, Nul, Size, Room, Frame, Gap, UsartTickMod,
          NumMotors, Setting, EncodeMax, Reach, NumTasks, Period, TickMod

VARIABLES part,
    buffer, rxindex, rxtick, pointer, usartTick, usartTask, text, message, disturbed,
    setting, sent, motorTask, frames, gathered, pending, running, missed,
    counter, total, perPeriod, reading, moved, position, lost,
    tick, lastRun, loop, since

U == INSTANCE BoardUsart WITH tick <- usartTick, task <- usartTask, TickMod <- UsartTickMod
M == INSTANCE BoardMotors WITH task <- motorTask
E == INSTANCE BoardEncoder
T == INSTANCE BoardTasks

ASSUME BoardConfigured == /\ U!UsartAssumption /\ M!MotorsAssumption
                          /\ E!EncoderAssumption /\ T!TasksAssumption

usart == <<buffer, rxindex, rxtick, pointer, usartTick, usartTask, text, message,
           disturbed>>
motors == <<setting, sent, motorTask, frames, gathered, pending, running, missed>>
encoder == <<counter, total, perPeriod, reading, moved, position, lost>>
tasks == <<tick, lastRun, loop, since>>
vars == <<part, usart, motors, encoder, tasks>>

Init == /\ part \in {"usart", "motors", "encoder", "tasks"}
        /\ U!Init /\ M!Init /\ E!Init /\ T!Init

Usart == U!Next /\ part = "usart" /\ UNCHANGED <<part, motors, encoder, tasks>>
Motors == M!Next /\ part = "motors" /\ UNCHANGED <<part, usart, encoder, tasks>>
Encoder == E!Next /\ part = "encoder" /\ UNCHANGED <<part, usart, motors, tasks>>
Tasks == T!Next /\ part = "tasks" /\ UNCHANGED <<part, usart, motors, encoder>>

Next == Usart \/ Motors \/ Encoder \/ Tasks

Spec == Init /\ [][Next]_vars

EchoExact == U!EchoExact
MotorsFollow == M!MotorsFollow
EncoderTracks == E!EncoderTracks
TasksOnTime == T!TasksOnTime
=============================================================================
