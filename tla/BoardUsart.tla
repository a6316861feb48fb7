----------------------------- MODULE BoardUsart -----------------------------
(***************************************************************************)
(* app_usart.c: bytes arrive by interrupt, one at a time, at the address    *)
(* that the HAL holds in pRxBuffPtr; usart_task echoes them as one message  *)
(* after a silence.  Nothing keeps the interrupt out of usart_task, so each *)
(* access of usart_task to the shared variables is a step.                  *)
(***************************************************************************)
EXTENDS Integers, Sequences

CONSTANTS Byte, Nul,   \* the bytes sent to the board; '\0' is not among them
          Size,        \* sizeof(rxbuffer), 128
          Room,        \* sizeof(string) in usart_printf, 128
          Frame,       \* what "recive : %s\n" adds, with its '\0': 11
          Gap,         \* the silence that ends a message, 100 ticks
          TickMod      \* uwTick is unsigned, 32 bits

UsartAssumption == /\ Nul \notin Byte /\ Size \in Nat \ {0} /\ Gap < TickMod
                   /\ Room \in Nat /\ Frame \in Nat

VARIABLES buffer, rxindex, rxtick,   \* the fields of usarts[0]
          pointer,                   \* huart1.pRxBuffPtr, as an index
          tick,                      \* uwTick
          task,      \* usart_task: [at, now, hit], now: its first read of uwTick,
                     \* hit: history, a byte came since
          text,      \* what it has printed
          message,   \* history: the bytes since the end of the last message,
                     \* at most Size of them
          disturbed  \* history: a byte came while usart_task ended a message, and
                     \* its effect is not over

vars == <<buffer, rxindex, rxtick, pointer, tick, task, text, message, disturbed>>

Empty == [i \in 0..(Size - 1) |-> Nul]

(* usart_it_init has asked for the first byte. *)
Init == /\ buffer = Empty /\ rxindex = 0 /\ rxtick = 0 /\ pointer = 0
        /\ tick = 0
        /\ task = [at |-> "idle", now |-> 0, hit |-> FALSE]
        /\ text = <<>> /\ message = <<>> /\ disturbed = FALSE

(* The HAL stores the byte, then UART_RxCpltCallback. *)
Receive(b) ==
    /\ buffer' = [buffer EXCEPT ![pointer] = b]
    /\ rxtick' = tick
    /\ rxindex' = IF rxindex + 1 >= Size THEN 0 ELSE rxindex + 1
    /\ pointer' = rxindex'
    /\ message' = IF Len(message) < Size THEN Append(message, b) ELSE message
    /\ task' = [task EXCEPT !.hit = task.at = "compare"]
    /\ disturbed' = (disturbed \/ task.at \notin {"idle", "compare"})
    /\ UNCHANGED <<tick, text>>

Tick == /\ tick' = (tick + 1) % TickMod
        /\ UNCHANGED <<buffer, rxindex, rxtick, pointer, task, text, message, disturbed>>

Goto(at) == task' = [task EXCEPT !.at = at]

(* The early return on an empty buffer, and the read of uwTick. *)
Look == /\ task.at = "idle" /\ rxindex # 0
        /\ task' = [at |-> "compare", now |-> tick, hit |-> FALSE]
        /\ UNCHANGED <<buffer, rxindex, rxtick, pointer, tick, text, message, disturbed>>

Compare == /\ task.at = "compare"
           /\ IF (task.now - rxtick) % TickMod > Gap
              THEN /\ task' = [at |-> "terminate", now |-> 0, hit |-> FALSE]
                   /\ disturbed' = (disturbed \/ task.hit)
              ELSE /\ task' = [at |-> "idle", now |-> 0, hit |-> FALSE]
                   /\ UNCHANGED disturbed
           /\ UNCHANGED <<buffer, rxindex, rxtick, pointer, tick, text, message>>

Terminate == /\ task.at = "terminate"
             /\ buffer' = [buffer EXCEPT ![rxindex] = Nul]
             /\ Goto("print")
             /\ UNCHANGED <<rxindex, rxtick, pointer, tick, text, message, disturbed>>

(* The string in the buffer. *)
String == LET end == CHOOSE i \in 0..Size :
                        /\ i = Size \/ buffer[i] = Nul
                        /\ \A j \in 0..(i - 1) : buffer[j] # Nul
          IN  [i \in 1..end |-> buffer[i - 1]]

(* vsprintf has no limit: what it writes past string is the frame of        *)
(* usart_printf and of its caller.                                          *)
FitsString(s) == Len(s) + Frame <= Room

(* usart_printf.  Its behaviour after an overflow is undefined: it goes on  *)
(* as if nothing were, or never comes back.                                 *)
Echo == /\ task.at = "print"
        /\ \/ text' = String /\ Goto("clear")
           \/ ~FitsString(String) /\ Goto("lost") /\ UNCHANGED text
        /\ UNCHANGED <<buffer, rxindex, rxtick, pointer, tick, message, disturbed>>

Clear == /\ task.at = "clear"
         /\ buffer' = Empty
         /\ Goto("index")
         /\ text' = <<>>
         /\ UNCHANGED <<rxindex, rxtick, pointer, tick, message, disturbed>>

ResetIndex == /\ task.at = "index"
              /\ rxindex' = 0
              /\ Goto("pointer")
              /\ UNCHANGED <<buffer, rxtick, pointer, tick, text, message, disturbed>>

(* Variant: the next byte goes where the last message ended. *)
PointerStays == /\ task.at = "pointer"
                /\ Goto("idle")
                /\ message' = <<>> /\ disturbed' = (rxindex # 0)
                /\ UNCHANGED <<buffer, rxindex, rxtick, pointer, tick, text>>

(* A byte that came since ResetIndex is counted at 0 and expected at 1.     *)
ResetPointer == /\ task.at = "pointer"
                /\ pointer' = 0
                /\ Goto("idle")
                /\ message' = <<>> /\ disturbed' = (rxindex # 0)
                /\ UNCHANGED <<buffer, rxindex, rxtick, tick, text>>

Next == \/ \E b \in Byte : Receive(b)
        \/ Tick \/ Look \/ Compare \/ Terminate \/ Echo
        \/ Clear \/ ResetIndex \/ ResetPointer

-----------------------------------------------------------------------------
(* A message that fits both the receive buffer and the string it is         *)
(* formatted in (app_usart.c:49) is echoed as it was sent, whatever came    *)
(* before it, unless a byte comes while usart_task deals with it (between   *)
(* uwTick and rxtick, app_usart.c:74, it even cuts the message); no other   *)
(* message makes usart_printf write past its string; and every byte is      *)
(* stored inside the buffer.                                                *)
Whole == ~disturbed /\ Len(message) < Size /\ FitsString(message)

EchoExact ==
    /\ pointer \in 0..(Size - 1) /\ rxindex \in 0..(Size - 1)
    /\ Whole => (task.at = "clear" => text = message) /\ task.at # "lost"
=============================================================================
