---------------------------- MODULE BoardProofs ----------------------------
(***************************************************************************)
(* What the encoder, the periodic tasks, the USART receiver and the motor  *)
(* commands promise, for every length of the counter, width of uwTick,     *)
(* table of tasks, size of the buffer and number of motors.                *)
(***************************************************************************)
EXTENDS Board, SequenceTheorems, TLAPS

-----------------------------------------------------------------------------
(* The encoder.  The counter shows the pulses since its last reset, taken   *)
(* around its end.                                                          *)
Shows == counter = IF moved >= 0 THEN moved ELSE moved + EncodeMax

EncoderInv ==
    /\ total \in Int /\ moved \in Int /\ position \in Int /\ lost \in Int
    /\ reading \in BOOLEAN
    /\ moved \in (1 - E!Half)..(E!Half - 1)
    /\ Shows
    /\ total = IF reading THEN lost - position ELSE lost + moved - position

LEMMA EncodeMaxEven ==
    EncodeMax \in Nat \ {0} /\ E!Half \in Nat /\ EncodeMax = 2 * E!Half /\ E!Half > 0
<1>1. EncodeMax \in Nat \ {0} /\ EncodeMax % 2 = 0
  BY BoardConfigured DEF E!EncoderAssumption
<1> QED BY <1>1, SMT DEF E!Half

(* One pulse forward or backward around the end of the counter. *)
LEMMA Around ==
    ASSUME NEW n \in Nat \ {0}, NEW c \in (-1)..n
    PROVE  c % n = IF c = -1 THEN n - 1 ELSE IF c = n THEN 0 ELSE c
BY SMT

LEMMA EncoderInit ==
    ASSUME E!Init
    PROVE  EncoderInv
<1>1. reading \in BOOLEAN /\ ~reading
  BY DEF E!Init
<1>2. total = 0 /\ moved = 0 /\ position = 0 /\ lost = 0 /\ counter = 0
  BY DEF E!Init
<1> QED BY EncodeMaxEven, <1>1, <1>2, SMT DEF EncoderInv, Shows

LEMMA PulseKeeps ==
    ASSUME EncoderInv, NEW d \in {-1, 1}, E!Pulse(d)
    PROVE  EncoderInv'
<1>1. counter + d \in (-1)..EncodeMax
  BY EncodeMaxEven, SMT DEF EncoderInv, Shows
<1>2. counter' = IF counter + d = -1 THEN EncodeMax - 1
                 ELSE IF counter + d = EncodeMax THEN 0 ELSE counter + d
  BY EncodeMaxEven, <1>1, Around DEF E!Pulse
<1>3. moved' = moved + d /\ moved' \in (1 - E!Half)..(E!Half - 1) /\ Shows'
  BY EncodeMaxEven, <1>2, SMT DEF EncoderInv, Shows, E!Pulse
<1>4. /\ position' = position + d /\ total' = total /\ reading' = reading
      /\ lost' = IF reading THEN lost + d ELSE lost
  BY DEF E!Pulse
<1> QED BY EncodeMaxEven, <1>3, <1>4, SMT DEF EncoderInv

LEMMA ReadKeeps ==
    ASSUME EncoderInv, E!Read
    PROVE  EncoderInv'
<1>1. E!Corrected(-counter) = -moved
  BY EncodeMaxEven, SMT DEF EncoderInv, Shows, E!Corrected
<1> QED BY EncodeMaxEven, <1>1, SMT DEF EncoderInv, Shows, E!Read

LEMMA ResetKeeps ==
    ASSUME EncoderInv, E!Reset
    PROVE  EncoderInv'
<1>1. reading /\ ~reading' /\ reading' \in BOOLEAN
  BY DEF E!Reset
<1>2. counter' = 0 /\ moved' = 0 /\ UNCHANGED <<total, position, lost>>
  BY DEF E!Reset
<1> QED BY EncodeMaxEven, <1>1, <1>2, SMT DEF EncoderInv, Shows

(* Each step of the board is a step of the encoder or leaves it alone. *)
LEMMA EncoderSteps ==
    ASSUME [Next]_vars
    PROVE  E!Next \/ UNCHANGED encoder
BY DEF Next, vars, Usart, Motors, Encoder, Tasks

(* Whatever the order of pulses and updates, encode_total is the way        *)
(* travelled, less only the pulses between the two accesses of              *)
(* encode_update to the counter (component_tim_encode.c).                   *)
THEOREM EncoderExact == Spec => []EncoderTracks
<1>1. Init => EncoderInv
  BY EncoderInit DEF Init
<1>2. EncoderInv /\ [Next]_vars => EncoderInv'
  <2> SUFFICES ASSUME EncoderInv, [Next]_vars PROVE EncoderInv'
    OBVIOUS
  <2>1. CASE \E d \in {-1, 1} : E!Pulse(d)
    BY <2>1, PulseKeeps
  <2>2. CASE E!Read
    BY <2>2, ReadKeeps
  <2>3. CASE E!Reset
    BY <2>3, ResetKeeps
  <2>4. CASE UNCHANGED encoder
    BY <2>4 DEF encoder, EncoderInv, Shows
  <2> QED BY <2>1, <2>2, <2>3, <2>4, EncoderSteps DEF E!Next
<1>3. EncoderInv => EncoderTracks
  BY SMT DEF EncoderInv, EncoderTracks, E!EncoderTracks
<1> QED BY <1>1, <1>2, <1>3, PTL DEF Spec

-----------------------------------------------------------------------------
(* The periodic tasks.  Gone(now, then, n): n ticks, fewer than uwTick has   *)
(* values, have passed from one value of uwTick to another.                 *)
Gone(now, then, n) ==
    /\ now \in 0..(TickMod - 1) /\ then \in 0..(TickMod - 1) /\ n \in 0..(TickMod - 1)
    /\ now = then + n \/ now = then + n - TickMod

LoopType == loop \in [at : {"read", "compare", "task"}, i : T!Task, now : Int, fresh : Int]

TasksInv ==
    /\ LoopType
    /\ lastRun \in [T!Task -> Int] /\ since \in [T!Task -> Int]
    /\ \A i \in T!Task : Gone(tick, lastRun[i], since[i])
    /\ loop.at = "compare" =>
          /\ Gone(loop.now, lastRun[loop.i], loop.fresh)
          /\ loop.fresh <= since[loop.i]

LEMMA TableConfigured ==
    /\ NumTasks \in Nat \ {0} /\ TickMod \in Nat \ {0}
    /\ \A i \in T!Task : Period[i] \in Nat /\ Period[i] < TickMod
    /\ T!Task = 0..(NumTasks - 1)
<1>1. /\ NumTasks \in Nat \ {0} /\ TickMod \in Nat
      /\ \A i \in 0..(NumTasks - 1) : Period[i] \in 1..(TickMod - 2)
  BY BoardConfigured DEF T!TasksAssumption
<1>2. 0 \in 0..(NumTasks - 1)
  BY <1>1, SMT
<1>3. TickMod > 2
  BY <1>1, <1>2, SMT
<1> QED BY <1>1, <1>3, SMT DEF T!Task

(* The unsigned difference of two values of uwTick is the time between them. *)
LEMMA Difference ==
    ASSUME TickMod \in Nat \ {0}, NEW now, NEW then, NEW n, Gone(now, then, n)
    PROVE  (now - then) % TickMod = n
BY SMT DEF Gone

(* One more tick. *)
LEMMA OneMore ==
    ASSUME TickMod \in Nat \ {0}, NEW now, NEW then, NEW n, Gone(now, then, n),
           n < TickMod - 1
    PROVE  Gone((now + 1) % TickMod, then, n + 1)
<1>1. now + 1 \in (-1)..TickMod
  BY SMT DEF Gone
<1>2. (now + 1) % TickMod = IF now + 1 = TickMod THEN 0 ELSE now + 1
  <2>1. now + 1 # -1
    BY SMT DEF Gone
  <2> QED BY <1>1, <2>1, Around
<1> QED BY <1>2, SMT DEF Gone

(* Time that is counted from a value read in between. *)
LEMMA CountedFrom ==
    ASSUME TickMod \in Nat \ {0}, NEW now, NEW read, NEW then, NEW n, NEW m,
           Gone(now, then, n), Gone(read, then, m), m <= n
    PROVE  Gone(now, read, n - m)
BY SMT DEF Gone

LEMMA FollowingType ==
    ASSUME LoopType
    PROVE  /\ T!Following \in [at : {"read", "compare", "task"}, i : T!Task, now : Int, fresh : Int]
           /\ T!Following.at = "read"
<1>1. (loop.i + 1) % NumTasks \in T!Task
  BY TableConfigured, SMT DEF LoopType
<1> QED BY <1>1 DEF LoopType, T!Following

LEMMA TasksInit ==
    ASSUME T!Init
    PROVE  TasksInv
<1>1. 0 \in T!Task /\ 0 \in 0..(TickMod - 1)
  BY TableConfigured, SMT
<1> QED BY <1>1, SMT DEF T!Init, TasksInv, LoopType, Gone

LEMMA TickKeeps ==
    ASSUME TasksInv, T!Tick
    PROVE  TasksInv'
<1>1. \A i \in T!Task : Gone(tick', lastRun[i], since[i] + 1)
  <2> TAKE i \in T!Task
  <2>1. since[i] < TickMod - 1 /\ Gone(tick, lastRun[i], since[i])
    BY DEF T!Tick, TasksInv
  <2>2. tick' = (tick + 1) % TickMod
    BY DEF T!Tick
  <2> QED BY <2>1, <2>2, OneMore, TableConfigured
<1>2. since' = [i \in T!Task |-> since[i] + 1] /\ UNCHANGED <<lastRun, loop>>
  BY DEF T!Tick
<1>3. loop.i \in T!Task /\ \A i \in T!Task : since'[i] = since[i] + 1 /\ since[i] \in Int
  BY <1>2 DEF TasksInv, LoopType
<1>4. since' \in [T!Task -> Int]
  BY <1>2, <1>3, SMT
<1>5. loop.at = "compare" => loop.fresh <= since'[loop.i]
  BY <1>3, SMT DEF TasksInv, LoopType
<1> QED BY <1>1, <1>2, <1>3, <1>4, <1>5 DEF TasksInv, LoopType

LEMMA TableReadKeeps ==
    ASSUME TasksInv, T!Read
    PROVE  TasksInv'
<1>1. loop' = [loop EXCEPT !.at = "compare", !.now = tick, !.fresh = since[loop.i]]
  BY DEF T!Read
<1>2. loop.i \in T!Task /\ Gone(tick, lastRun[loop.i], since[loop.i])
  BY DEF TasksInv, LoopType
<1>3. tick \in Int /\ since[loop.i] \in Int
  BY <1>2, TableConfigured, SMT DEF Gone
<1>4. /\ loop'.i = loop.i /\ loop'.now = tick /\ loop'.fresh = since[loop.i]
      /\ LoopType'
  BY <1>1, <1>2, <1>3 DEF TasksInv, LoopType
<1>5. UNCHANGED <<tick, lastRun, since>>
  BY DEF T!Read
<1> QED BY <1>2, <1>3, <1>4, <1>5, SMT DEF TasksInv

LEMMA RunKeeps ==
    ASSUME TasksInv, T!Run
    PROVE  TasksInv'
<1> DEFINE i == loop.i
<1>1. /\ lastRun' = [lastRun EXCEPT ![i] = loop.now]
      /\ since' = [since EXCEPT ![i] = since[i] - loop.fresh]
      /\ loop' = [loop EXCEPT !.at = "task"] /\ tick' = tick
      /\ loop.at = "compare"
  BY DEF T!Run
<1>2. i \in T!Task /\ Gone(tick, lastRun[i], since[i])
      /\ Gone(loop.now, lastRun[i], loop.fresh) /\ loop.fresh <= since[i]
  BY <1>1 DEF TasksInv, LoopType
<1>3. Gone(tick, loop.now, since[i] - loop.fresh)
  BY <1>2, TableConfigured, CountedFrom
<1>4. /\ lastRun' \in [T!Task -> Int] /\ since' \in [T!Task -> Int]
      /\ lastRun'[i] = loop.now /\ since'[i] = since[i] - loop.fresh
      /\ \A j \in T!Task \ {i} : lastRun'[j] = lastRun[j] /\ since'[j] = since[j]
  BY <1>1, <1>2, SMT DEF TasksInv, LoopType
<1>5. LoopType' /\ loop'.at = "task"
  BY <1>1 DEF TasksInv, LoopType
<1>6. \A j \in T!Task : Gone(tick', lastRun'[j], since'[j])
  BY <1>1, <1>3, <1>4 DEF TasksInv
<1> QED BY <1>4, <1>5, <1>6 DEF TasksInv

LEMMA OnwardKeeps ==
    ASSUME TasksInv, T!Skip \/ T!Return
    PROVE  TasksInv'
<1>1. loop' = T!Following /\ UNCHANGED <<tick, lastRun, since>>
  BY DEF T!Skip, T!Return
<1> QED BY <1>1, FollowingType DEF TasksInv, LoopType

LEMMA TasksSteps ==
    ASSUME [Next]_vars
    PROVE  T!Next \/ UNCHANGED tasks
BY DEF Next, vars, Usart, Motors, Encoder, Tasks

LEMMA TasksKeep ==
    ASSUME TasksInv, [Next]_vars
    PROVE  TasksInv'
<1>1. CASE T!Tick
  BY <1>1, TickKeeps
<1>2. CASE T!Read
  BY <1>2, TableReadKeeps
<1>3. CASE T!Run
  BY <1>3, RunKeeps
<1>4. CASE T!Skip \/ T!Return
  BY <1>4, OnwardKeeps
<1>5. CASE UNCHANGED tasks
  BY <1>5 DEF tasks, TasksInv, LoopType
<1> QED BY <1>1, <1>2, <1>3, <1>4, <1>5, TasksSteps DEF T!Next

OnTime ==
    loop.at = "compare" /\ loop' # loop =>
        (loop'.at = "task") = (loop.fresh >= Period[loop.i])

(* The comparison of scheduler.c:40 starts a task if and only if its period *)
(* has passed, whatever uwTick was, and uwTick is counted from its read.    *)
LEMMA Decides ==
    ASSUME TasksInv, [Next]_vars
    PROVE  [OnTime]_(T!vars)
<1>1. CASE T!Run
  <2>1. loop.at = "compare" /\ T!IsDue(loop.i, loop.now)
    BY <1>1 DEF T!Run
  <2>2. loop.fresh >= Period[loop.i]
    BY <2>1, Difference, TableConfigured DEF TasksInv, T!IsDue
  <2>3. loop'.at = "task"
    BY <1>1 DEF T!Run, TasksInv, LoopType
  <2> QED BY <2>2, <2>3 DEF OnTime
<1>2. CASE T!Skip
  <2>1. loop.at = "compare" /\ ~T!IsDue(loop.i, loop.now)
    BY <1>2 DEF T!Skip
  <2>2. ~(loop.fresh >= Period[loop.i])
    BY <2>1, Difference, TableConfigured DEF TasksInv, T!IsDue
  <2>3. loop'.at = "read"
    BY <1>2, FollowingType DEF T!Skip, TasksInv
  <2> QED BY <2>2, <2>3 DEF OnTime
<1>3. CASE T!Tick \/ T!Read \/ T!Return
  BY <1>3 DEF T!Tick, T!Read, T!Return, OnTime
<1>4. CASE UNCHANGED tasks
  BY <1>4 DEF tasks, T!vars
<1> QED BY <1>1, <1>2, <1>3, <1>4, TasksSteps DEF T!Next

(* Every task is started exactly when its period has passed. *)
THEOREM TasksStart == Spec => TasksOnTime
<1>1. Init => TasksInv
  BY TasksInit DEF Init
<1>2. TasksInv /\ [Next]_vars => TasksInv'
  BY TasksKeep
<1>3. TasksInv /\ [Next]_vars => [OnTime]_(T!vars)
  BY Decides
<1>4. Spec => [][OnTime]_(T!vars)
  BY <1>1, <1>2, <1>3, PTL DEF Spec
<1> QED BY <1>4 DEF TasksOnTime, T!TasksOnTime, OnTime

-----------------------------------------------------------------------------
(* The USART.  The bytes of a message that fits lie in the buffer from its  *)
(* beginning, and the next one goes behind them.                            *)
Places == 0..(Size - 1)
Stages == {"idle", "compare", "terminate", "print", "clear", "index", "pointer", "lost"}

Fits ==
    /\ rxindex = Len(message) /\ pointer = rxindex
    /\ \A j \in 1..Len(message) : buffer[j - 1] = message[j]

TaskRecord ==
    usartTask = [at |-> usartTask.at, now |-> usartTask.now, hit |-> usartTask.hit]

UsartInv ==
    /\ buffer \in [Places -> Byte \cup {Nul}]
    /\ rxindex \in Places /\ pointer \in Places
    /\ TaskRecord /\ usartTask.at \in Stages
    /\ message \in Seq(Byte) /\ Len(message) <= Size
    /\ disturbed \in BOOLEAN
    /\ ~disturbed /\ Len(message) < Size =>
          /\ usartTask.at \in {"idle", "compare", "terminate", "print"} => Fits
          /\ usartTask.at = "print" => buffer[rxindex] = Nul
          /\ usartTask.at = "clear" => text = message
          /\ U!FitsString(message) => usartTask.at # "lost"

LEMMA BufferConfigured == Size \in Nat /\ Size > 0 /\ Nul \notin Byte
BY BoardConfigured, SMT DEF U!UsartAssumption

(* The string in the buffer is the message once it is terminated. *)
LEMMA StringIsMessage ==
    ASSUME UsartInv, Fits, buffer[rxindex] = Nul
    PROVE  U!String = message
<1> DEFINE End(i) == /\ i = Size \/ buffer[i] = Nul
                     /\ \A j \in 0..(i - 1) : buffer[j] # Nul
           end == CHOOSE i \in 0..Size : End(i)
<1>1. \A j \in 0..(rxindex - 1) : buffer[j] \in Byte
  <2> TAKE j \in 0..(rxindex - 1)
  <2>1. j + 1 \in 1..Len(message) /\ (j + 1) - 1 = j
    BY BufferConfigured, SMT DEF Fits, UsartInv, Places
  <2>2. buffer[j] = message[j + 1]
    BY <2>1 DEF Fits
  <2> QED BY <2>1, <2>2, SMT DEF UsartInv
<1>2. rxindex \in 0..Size /\ End(rxindex)
  BY <1>1, BufferConfigured, SMT DEF UsartInv, Places
<1>3. ASSUME NEW i \in 0..Size, End(i) PROVE i = rxindex
  <2>1. ~(i < rxindex)
    <3> SUFFICES ASSUME i < rxindex PROVE FALSE
      OBVIOUS
    <3>1. i \in 0..(rxindex - 1) /\ i # Size
      BY BufferConfigured, SMT DEF UsartInv, Places
    <3> QED BY <1>1, <1>3, <3>1, BufferConfigured
  <2>2. ~(rxindex < i)
    <3> SUFFICES ASSUME rxindex < i PROVE FALSE
      OBVIOUS
    <3>1. rxindex \in 0..(i - 1)
      BY BufferConfigured, SMT DEF UsartInv, Places
    <3> QED BY <1>3, <3>1
  <2> QED BY <2>1, <2>2, BufferConfigured, SMT DEF UsartInv, Places
<1>4. end = rxindex
  <2>1. end \in 0..Size /\ End(end)
    BY <1>2
  <2> QED BY <2>1, <1>3
<1>5. U!String = [i \in 1..end |-> buffer[i - 1]]
  BY DEF U!String
<1>6. U!String = [i \in 1..Len(message) |-> message[i]]
  BY <1>4, <1>5 DEF Fits
<1> QED BY <1>6, SMT DEF UsartInv

LEMMA UsartInit ==
    ASSUME U!Init
    PROVE  UsartInv
<1>1. 0 \in Places
  BY BufferConfigured, SMT DEF Places
<1>2. buffer \in [Places -> Byte \cup {Nul}]
  BY DEF U!Init, U!Empty, Places
<1>3. TaskRecord /\ usartTask.at \in Stages /\ usartTask.at = "idle"
  BY SMT DEF U!Init, Stages, TaskRecord
<1>4. message = <<>> /\ disturbed = FALSE /\ rxindex = 0 /\ pointer = 0
  BY DEF U!Init
<1>5. message \in Seq(Byte) /\ Len(message) = 0
  <2>1. message = <<>>
    BY <1>4
  <2> QED BY <2>1, SMT
<1>8. disturbed \in BOOLEAN
  BY <1>4, Zenon
<1>6. Fits
  BY <1>4, <1>5, SMT DEF Fits
<1>7. Len(message) <= Size
  BY <1>5, BufferConfigured, SMT
<1> QED BY <1>1, <1>2, <1>3, <1>4, <1>5, <1>6, <1>7, <1>8 DEF UsartInv

(* The interrupt. *)
LEMMA ReceiveKeeps ==
    ASSUME UsartInv, NEW b \in Byte, U!Receive(b)
    PROVE  UsartInv'
<1>1. /\ buffer' = [buffer EXCEPT ![pointer] = b]
      /\ rxindex' = (IF rxindex + 1 >= Size THEN 0 ELSE rxindex + 1)
      /\ pointer' = rxindex'
      /\ message' = (IF Len(message) < Size THEN Append(message, b) ELSE message)
      /\ usartTask' = [usartTask EXCEPT !.hit = usartTask.at = "compare"]
      /\ disturbed' = (disturbed \/ usartTask.at \notin {"idle", "compare"})
      /\ usartTick' = usartTick /\ text' = text
  BY DEF U!Receive
<1>2. buffer' \in [Places -> Byte \cup {Nul}] /\ buffer'[pointer] = b
      /\ \A j \in Places : j # pointer => buffer'[j] = buffer[j]
  BY <1>1 DEF UsartInv
<1>3. rxindex' \in Places /\ pointer' \in Places
  BY <1>1, BufferConfigured, SMT DEF UsartInv, Places
<1>4. message' \in Seq(Byte) /\ Len(message') <= Size /\ Len(message) \in Nat
  BY <1>1, BufferConfigured, SMT DEF UsartInv
<1>5. /\ TaskRecord' /\ usartTask'.at \in Stages
      /\ usartTask'.at = usartTask.at /\ disturbed' \in BOOLEAN
  BY <1>1 DEF UsartInv, TaskRecord
<1>6. ASSUME ~disturbed', Len(message') < Size
      PROVE  usartTask.at \in {"idle", "compare"} /\ Fits'
  <2>1. ~disturbed /\ usartTask.at \in {"idle", "compare"}
    BY <1>1, <1>6
  <2>2. Len(message) < Size
    BY <1>1, <1>4, <1>6, BufferConfigured, SMT
  <2>3. Fits
    BY <2>1, <2>2 DEF UsartInv
  <2>4. message' = Append(message, b) /\ Len(message') = Len(message) + 1
    BY <1>1, <2>2, SMT DEF UsartInv
  <2>5. rxindex' = Len(message') /\ pointer' = rxindex'
    BY <1>1, <1>4, <1>6, <2>3, <2>4, BufferConfigured, SMT DEF Fits
  <2>6. ASSUME NEW j \in 1..Len(message') PROVE buffer'[j - 1] = message'[j]
    <3>1. CASE j = Len(message) + 1
      <4>1. j - 1 = pointer
        BY <3>1, <2>3, <1>4, SMT DEF Fits
      <4>2. message'[j] = b
        BY <3>1, <2>4, SMT DEF UsartInv
      <4> QED BY <4>1, <4>2, <1>2
    <3>2. CASE j \in 1..Len(message)
      <4>1. j - 1 # pointer /\ j - 1 \in Places
        BY <3>2, <2>3, <2>2, <1>4, BufferConfigured, SMT DEF Fits, Places
      <4>2. message'[j] = message[j]
        BY <3>2, <2>4, SMT DEF UsartInv
      <4>3. buffer[j - 1] = message[j]
        BY <3>2, <2>3 DEF Fits
      <4> QED BY <4>1, <4>2, <4>3, <1>2
    <3> QED BY <3>1, <3>2, <2>4, <1>4, SMT
  <2> QED BY <2>1, <2>5, <2>6 DEF Fits
<1> QED BY <1>1, <1>2, <1>3, <1>4, <1>5, <1>6 DEF UsartInv

(* The steps of usart_task before it prints. *)
LEMMA WaitKeeps ==
    ASSUME UsartInv, U!Tick \/ U!Look \/ U!Compare
    PROVE  UsartInv'
<1>1. UNCHANGED <<buffer, rxindex, pointer, text, message>>
  BY DEF U!Tick, U!Look, U!Compare
<1>2. TaskRecord' /\ usartTask'.at \in Stages
  BY DEF U!Tick, U!Look, U!Compare, UsartInv, Stages, TaskRecord
<1>5. disturbed' \in BOOLEAN
  BY Zenon DEF U!Tick, U!Look, U!Compare, UsartInv
<1>3. /\ usartTask'.at # usartTask.at =>
           /\ usartTask.at \in {"idle", "compare"}
           /\ usartTask'.at \in {"idle", "compare", "terminate"}
      /\ ~disturbed' => ~disturbed
  BY SMT DEF U!Tick, U!Look, U!Compare, UsartInv
<1>4. Fits => Fits'
  BY <1>1 DEF Fits
<1> QED BY <1>1, <1>2, <1>3, <1>4, <1>5 DEF UsartInv

LEMMA TerminateKeeps ==
    ASSUME UsartInv, U!Terminate
    PROVE  UsartInv'
<1>1. /\ buffer' = [buffer EXCEPT ![rxindex] = Nul] /\ usartTask.at = "terminate"
      /\ usartTask' = [usartTask EXCEPT !.at = "print"]
      /\ UNCHANGED <<rxindex, pointer, usartTick, text, message, disturbed>>
  BY DEF U!Terminate, U!Goto
<1>2. /\ buffer' \in [Places -> Byte \cup {Nul}] /\ buffer'[rxindex] = Nul
      /\ \A j \in Places : j # rxindex => buffer'[j] = buffer[j]
  BY <1>1 DEF UsartInv
<1>3. TaskRecord' /\ usartTask'.at \in Stages /\ usartTask'.at = "print"
  BY <1>1 DEF UsartInv, Stages, TaskRecord
<1>4. ASSUME Fits PROVE Fits'
  <2>1. ASSUME NEW j \in 1..Len(message) PROVE j - 1 \in Places /\ j - 1 # rxindex
    BY <1>4, BufferConfigured, SMT DEF Fits, UsartInv, Places
  <2> QED BY <1>1, <1>2, <1>4, <2>1 DEF Fits
<1> QED BY <1>1, <1>2, <1>3, <1>4 DEF UsartInv

LEMMA EchoKeeps ==
    ASSUME UsartInv, U!Echo
    PROVE  UsartInv'
<1>1. usartTask.at = "print" /\ UNCHANGED <<buffer, rxindex, pointer, usartTick, message, disturbed>>
  BY DEF U!Echo
<1>2. ~disturbed /\ Len(message) < Size => U!String = message
  BY <1>1, StringIsMessage DEF UsartInv
<1>3. CASE text' = U!String /\ U!Goto("clear")
  <2>1. TaskRecord' /\ usartTask'.at \in Stages /\ usartTask'.at = "clear"
    BY <1>3 DEF UsartInv, Stages, TaskRecord, U!Goto
  <2> QED BY <1>1, <1>2, <1>3, <2>1 DEF UsartInv
<1>4. CASE ~U!FitsString(U!String) /\ U!Goto("lost")
  <2>1. TaskRecord' /\ usartTask'.at \in Stages /\ usartTask'.at = "lost"
    BY <1>4 DEF UsartInv, Stages, TaskRecord, U!Goto
  <2>2. ~disturbed /\ Len(message) < Size => ~U!FitsString(message)
    BY <1>2, <1>4
  <2> QED BY <1>1, <2>1, <2>2 DEF UsartInv, U!FitsString
<1> QED BY <1>3, <1>4 DEF U!Echo

(* The steps of usart_task behind the echo. *)
LEMMA ClearKeeps ==
    ASSUME UsartInv, U!Clear \/ U!ResetIndex \/ U!ResetPointer
    PROVE  UsartInv'
<1>1. 0 \in Places
  BY BufferConfigured, SMT DEF Places
<1>2. CASE U!Clear
  <2>1. /\ buffer' = [i \in Places |-> Nul]
        /\ usartTask' = [usartTask EXCEPT !.at = "index"]
        /\ UNCHANGED <<rxindex, pointer, usartTick, message, disturbed>>
    BY <1>2 DEF U!Clear, U!Goto, U!Empty, Places
  <2>2. TaskRecord' /\ usartTask'.at \in Stages /\ usartTask'.at = "index"
    BY <2>1 DEF UsartInv, Stages, TaskRecord
  <2> QED BY <2>1, <2>2 DEF UsartInv
<1>3. CASE U!ResetIndex
  <2>1. /\ rxindex' = 0 /\ usartTask' = [usartTask EXCEPT !.at = "pointer"]
        /\ UNCHANGED <<buffer, pointer, usartTick, message, disturbed>>
    BY <1>3 DEF U!ResetIndex, U!Goto
  <2>2. TaskRecord' /\ usartTask'.at \in Stages /\ usartTask'.at = "pointer"
    BY <2>1 DEF UsartInv, Stages, TaskRecord
  <2> QED BY <1>1, <2>1, <2>2 DEF UsartInv
<1>4. CASE U!ResetPointer
  <2>1. /\ pointer' = 0 /\ message' = <<>> /\ disturbed' = (rxindex # 0)
        /\ usartTask' = [usartTask EXCEPT !.at = "idle"]
        /\ UNCHANGED <<buffer, rxindex, usartTick>>
    BY <1>4 DEF U!ResetPointer, U!Goto
  <2>2. TaskRecord' /\ usartTask'.at \in Stages /\ usartTask'.at = "idle"
    BY <2>1 DEF UsartInv, Stages, TaskRecord
  <2>3. message' \in Seq(Byte) /\ Len(message') = 0 /\ disturbed' \in BOOLEAN
    BY <2>1, SMT
  <2>4. ASSUME ~disturbed' PROVE Fits'
    <3>1. rxindex' = 0 /\ pointer' = 0
      BY <2>1, <2>4
    <3> QED BY <2>3, <3>1, SMT DEF Fits
  <2> QED BY <1>1, <2>1, <2>2, <2>3, <2>4, BufferConfigured DEF UsartInv
<1> QED BY <1>2, <1>3, <1>4

LEMMA UsartSteps ==
    ASSUME [Next]_vars
    PROVE  U!Next \/ UNCHANGED usart
BY DEF Next, vars, Usart, Motors, Encoder, Tasks

(* usart_task echoes a message that fits the receive buffer and the string   *)
(* of usart_printf as it came unless a byte comes meanwhile, no such message *)
(* is written past that string, and every byte is stored inside the buffer.  *)
THEOREM EchoIsExact == Spec => []EchoExact
<1>1. Init => UsartInv
  BY UsartInit DEF Init
<1>2. UsartInv /\ [Next]_vars => UsartInv'
  <2> SUFFICES ASSUME UsartInv, [Next]_vars PROVE UsartInv'
    OBVIOUS
  <2>1. CASE \E b \in Byte : U!Receive(b)
    BY <2>1, ReceiveKeeps
  <2>2. CASE U!Tick \/ U!Look \/ U!Compare
    BY <2>2, WaitKeeps
  <2>3. CASE U!Terminate
    BY <2>3, TerminateKeeps
  <2>4. CASE U!Echo
    BY <2>4, EchoKeeps
  <2>5. CASE U!Clear \/ U!ResetIndex \/ U!ResetPointer
    BY <2>5, ClearKeeps
  <2>6. CASE UNCHANGED usart
    BY <2>6, Zenon DEF usart, UsartInv, Fits, TaskRecord
  <2> QED BY <2>1, <2>2, <2>3, <2>4, <2>5, <2>6, UsartSteps DEF U!Next
<1>3. UsartInv => EchoExact
  BY DEF UsartInv, Places, EchoExact, U!EchoExact, U!Whole
<1> QED BY <1>1, <1>2, <1>3, PTL DEF Spec

-----------------------------------------------------------------------------
(* The motors.  A position command goes out in two frames, the              *)
(* synchronisation in one.                                                  *)
FirstHalf(s) == <<0, s, s, 0, s, s, s>>
SecondHalf(s) == <<s, 0, 1, M!CheckByte>>
FirstFrame(m, s) == [addr |-> m, pack |-> 0, code |-> M!PosControl, data |-> FirstHalf(s)]
SecondFrame(m, s) == [addr |-> m, pack |-> 1, code |-> M!PosControl, data |-> SecondHalf(s)]
StartFrame == [addr |-> M!Broadcast, pack |-> 0, code |-> M!Synchronous, data |-> M!SyncData]
Begun(s) == [code |-> M!PosControl, data |-> FirstHalf(s)]

(* How far command s for motor m has come. *)
Underway(m, s) ==
    \/ frames = <<FirstFrame(m, s), SecondFrame(m, s)>>
    \/ frames = <<SecondFrame(m, s)>> /\ gathered[m] = Begun(s)
    \/ frames = <<>> /\ pending[m] = s

(* The motors below i hold the command that will make them run as set. *)
Hold(i) == \A m \in M!Motor \ missed : m < i => pending[m] = setting[m]

MotorsType ==
    /\ setting \in [M!Motor -> Setting]
    /\ sent \in [M!Motor -> Setting \cup {0}]
    /\ motorTask \in [at : {"idle", "settings", "command", "sync", "note"},
                      i : 1..(NumMotors + 1)]
    /\ motorTask.at \in {"command", "note"} => motorTask.i \in M!Motor

IdleInv ==
    motorTask.at = "idle" =>
        frames = <<>> /\ \A m \in M!Motor \ missed : running[m] = sent[m]
SettingsInv == motorTask.at = "settings" => frames = <<>> /\ Hold(motorTask.i)
CommandInv ==
    motorTask.at = "command" =>
        /\ Hold(motorTask.i)
        /\ \E s \in Setting : /\ motorTask.i \notin missed => setting[motorTask.i] = s
                              /\ Underway(motorTask.i, s)
SyncInv ==
    motorTask.at = "sync" =>
        \/ frames = <<StartFrame>> /\ Hold(NumMotors + 1)
        \/ frames = <<>> /\ \A m \in M!Motor \ missed : running[m] = setting[m]
NoteInv ==
    motorTask.at = "note" =>
        /\ frames = <<>>
        /\ \A m \in M!Motor \ missed :
              running[m] = IF m < motorTask.i THEN sent[m] ELSE setting[m]

MotorsInv ==
    MotorsType /\ IdleInv /\ SettingsInv /\ CommandInv /\ SyncInv /\ NoteInv

LEMMA MotorsConfigured ==
    /\ NumMotors \in Nat \ {0} /\ M!Motor = 1..NumMotors
    /\ Setting # {} /\ Setting \subseteq Nat \ {0}
BY BoardConfigured DEF M!MotorsAssumption, M!Motor

(* What can_SendCmd makes of the two commands. *)
LEMMA HalvesOfPosition ==
    ASSUME NEW s \in Nat
    PROVE  /\ SubSeq(M!PosData(s), 1, 7) = FirstHalf(s)
           /\ SubSeq(M!PosData(s), 8, 11) = SecondHalf(s)
           /\ FirstHalf(s) \o SecondHalf(s) = M!PosData(s)
<1> PICK d, f, g : d = M!PosData(s) /\ f = FirstHalf(s) /\ g = SecondHalf(s)
  OBVIOUS
<1>1. /\ d \in Seq(Nat) /\ Len(d) = 11
      /\ d[1] = 0 /\ d[2] = s /\ d[3] = s /\ d[4] = 0 /\ d[5] = s /\ d[6] = s /\ d[7] = s
      /\ d[8] = s /\ d[9] = 0 /\ d[10] = 1 /\ d[11] = 107
  BY DEF M!PosData, M!CheckByte
<1>2. /\ f \in Seq(Nat) /\ Len(f) = 7
      /\ f[1] = 0 /\ f[2] = s /\ f[3] = s /\ f[4] = 0 /\ f[5] = s /\ f[6] = s /\ f[7] = s
  BY DEF FirstHalf
<1>3. /\ g \in Seq(Nat) /\ Len(g) = 4
      /\ g[1] = s /\ g[2] = 0 /\ g[3] = 1 /\ g[4] = 107
  BY DEF SecondHalf, M!CheckByte
<1>4. SubSeq(d, 1, 7) = f
  <2>1. \A i \in 1..7 : d[i] \in Nat
    BY <1>1
  <2> PICK x : x = SubSeq(d, 1, 7)
    OBVIOUS
  <2>2. x \in Seq(Nat) /\ Len(x) = 7 /\ \A i \in 1..7 : x[i] = d[i]
    BY <2>1, SubSeqProperties
  <2>3. \A i \in 1..7 : x[i] = f[i]
    BY <1>1, <1>2, <2>2
  <2> QED BY <1>2, <2>2, <2>3, SeqEqual
<1>5. SubSeq(d, 8, 11) = g
  <2>1. \A i \in 8..11 : d[i] \in Nat
    BY <1>1
  <2> PICK x : x = SubSeq(d, 8, 11)
    OBVIOUS
  <2>2. x \in Seq(Nat) /\ Len(x) = 4 /\ \A i \in 1..4 : x[i] = d[8 + i - 1]
    BY <2>1, SubSeqProperties
  <2>3. x[1] = d[8] /\ x[2] = d[9] /\ x[3] = d[10] /\ x[4] = d[11]
    BY ONLY <2>2
  <2>4. x[1] = g[1] /\ x[2] = g[2] /\ x[3] = g[3] /\ x[4] = g[4]
    BY ONLY <1>1, <1>3, <2>3
  <2>5. \A i \in 1..4 : x[i] = g[i]
    BY ONLY <2>4
  <2> QED BY <1>3, <2>2, <2>5, SeqEqual
<1>6. f \o g = d
  <2>1. /\ f \o g \in Seq(Nat) /\ Len(f \o g) = Len(f) + Len(g)
        /\ \A i \in 1..(Len(f) + Len(g)) :
              (f \o g)[i] = IF i <= Len(f) THEN f[i] ELSE g[i - Len(f)]
    BY ONLY <1>2, <1>3, ConcatProperties
  <2> PICK x : x = f \o g
    OBVIOUS
  <2>2. /\ x \in Seq(Nat) /\ Len(x) = Len(f) + Len(g)
        /\ \A i \in 1..(Len(f) + Len(g)) : x[i] = IF i <= Len(f) THEN f[i] ELSE g[i - Len(f)]
    BY <2>1
  <2>3. Len(x) = 11 /\ \A i \in 1..11 : x[i] = IF i <= 7 THEN f[i] ELSE g[i - 7]
    BY ONLY <2>2, <1>2, <1>3
  <2>4. /\ x[1] = f[1] /\ x[2] = f[2] /\ x[3] = f[3] /\ x[4] = f[4] /\ x[5] = f[5]
        /\ x[6] = f[6] /\ x[7] = f[7]
    BY ONLY <2>3
  <2>5. x[8] = g[1] /\ x[9] = g[2] /\ x[10] = g[3] /\ x[11] = g[4]
    BY ONLY <2>3
  <2>6. /\ x[1] = d[1] /\ x[2] = d[2] /\ x[3] = d[3] /\ x[4] = d[4] /\ x[5] = d[5]
        /\ x[6] = d[6] /\ x[7] = d[7] /\ x[8] = d[8] /\ x[9] = d[9] /\ x[10] = d[10]
        /\ x[11] = d[11]
    BY ONLY <1>1, <1>2, <1>3, <2>4, <2>5
  <2>7. \A i \in 1..11 : x[i] = d[i]
    BY ONLY <2>6
  <2>8. /\ x \in Seq(Nat) /\ d \in Seq(Nat) /\ Len(x) = Len(d)
        /\ \A i \in 1..Len(x) : x[i] = d[i]
    BY ONLY <1>1, <2>2, <2>3, <2>7
  <2>9. x = d
    BY ONLY <2>8, SeqEqual
  <2> QED BY <2>9
<1> QED BY <1>4, <1>5, <1>6

LEMMA PositionFrames ==
    ASSUME NEW m \in M!Motor, NEW s \in Setting
    PROVE  M!Frames(m, M!PosControl, M!PosData(s)) = <<FirstFrame(m, s), SecondFrame(m, s)>>
<1> DEFINE d == M!PosData(s)
<1>1. s \in Nat
  BY MotorsConfigured
<1>2. d \in Seq(Nat) /\ Len(d) = 11
  BY <1>1 DEF M!PosData, M!CheckByte
<1>3. SubSeq(d, 1, 7) = FirstHalf(s)
  BY <1>1, HalvesOfPosition
<1>4. SubSeq(d, 8, 11) = SecondHalf(s)
  BY <1>1, HalvesOfPosition
<1> HIDE DEF d
<1>5. (Len(d) + 6) \div 7 = 2
  BY <1>2
<1>6. M!Pieces(d) = [p \in 1..2 |-> SubSeq(d, 7 * (p - 1) + 1, 7 * (p - 1) + M!FrameSize(11 - 7 * (p - 1)))]
  BY <1>2, <1>5 DEF M!Pieces
<1>7. DOMAIN M!Pieces(d) = 1..2 /\ M!Pieces(d)[1] = FirstHalf(s) /\ M!Pieces(d)[2] = SecondHalf(s)
  BY <1>3, <1>4, <1>6 DEF M!FrameSize
<1>8. M!Frames(m, M!PosControl, d) = <<FirstFrame(m, s), SecondFrame(m, s)>>
  BY <1>7 DEF M!Frames, FirstFrame, SecondFrame
<1> QED BY <1>8 DEF d

LEMMA StartFrames ==
    M!Frames(M!Broadcast, M!Synchronous, M!SyncData) = <<StartFrame>>
<1> PICK d : d = M!SyncData
  OBVIOUS
<1>0. d \in Seq(Nat) /\ Len(d) = 2
  BY DEF M!SyncData, M!CheckByte
<1>1. d \in Seq(Nat) /\ Len(d) = 2 /\ SubSeq(d, 1, 2) = d
  <2>0. \A i \in 1..2 : d[i] \in Nat
    <3>1. \A i \in 1..Len(d) : d[i] \in Nat
      BY <1>0, ElementOfSeq
    <3> QED BY <1>0, <3>1
  <2> PICK x : x = SubSeq(d, 1, 2)
    OBVIOUS
  <2>1. x \in Seq(Nat) /\ Len(x) = 2 /\ \A i \in 1..2 : x[i] = d[i]
    BY <2>0, SubSeqProperties
  <2> QED BY <1>0, <2>1, SeqEqual
<1>2. (Len(d) + 6) \div 7 = 1
  BY <1>1
<1>3. M!Pieces(d) = [p \in 1..1 |-> SubSeq(d, 7 * (p - 1) + 1, 7 * (p - 1) + M!FrameSize(2 - 7 * (p - 1)))]
  BY <1>1, <1>2 DEF M!Pieces
<1>4. DOMAIN M!Pieces(d) = 1..1 /\ M!Pieces(d)[1] = d
  BY <1>1, <1>3 DEF M!FrameSize
<1>5. M!Frames(M!Broadcast, M!Synchronous, d) =
          <<[addr |-> M!Broadcast, pack |-> 0, code |-> M!Synchronous, data |-> d]>>
  BY <1>4 DEF M!Frames
<1> QED BY <1>5 DEF StartFrame

(* What the motors make of the frames. *)
LEMMA FirstDelivered ==
    ASSUME NEW m \in M!Motor, NEW s \in Setting, M!Deliver(FirstFrame(m, s))
    PROVE  gathered'[m] = Begun(s) /\ \A n \in M!Motor : pending'[n] = pending[n]
<1>1. \A n \in M!Motor : M!Gather(n, FirstFrame(m, s)) = Begun(s)
  BY DEF M!Gather, FirstFrame, Begun
<1>2. ~M!IsPosition(Begun(s))
  BY MotorsConfigured DEF M!IsPosition, Begun, FirstHalf, M!PosData
<1>3. ~M!IsStart(Begun(s))
  BY DEF M!IsStart, Begun, M!PosControl, M!Synchronous
<1>4. M!Accepts(m, FirstFrame(m, s))
  BY DEF M!Accepts, FirstFrame
<1> QED BY <1>1, <1>2, <1>3, <1>4 DEF M!Deliver

LEMMA SecondDelivered ==
    ASSUME NEW m \in M!Motor, NEW s \in Setting, gathered[m] = Begun(s),
           M!Deliver(SecondFrame(m, s))
    PROVE  pending'[m] = s /\ \A n \in M!Motor \ {m} : pending'[n] = pending[n]
<1>1. s \in Nat
  BY MotorsConfigured
<1>2. FirstHalf(s) \o SecondHalf(s) = M!PosData(s)
  BY <1>1, HalvesOfPosition
<1>3. M!Gather(m, SecondFrame(m, s)) = [code |-> M!PosControl, data |-> M!PosData(s)]
  BY <1>2 DEF M!Gather, SecondFrame, Begun
<1>4. M!IsPosition(M!Gather(m, SecondFrame(m, s)))
  BY <1>3 DEF M!IsPosition
<1>5. M!Gather(m, SecondFrame(m, s)).data[2] = s
  BY <1>3 DEF M!PosData
<1>6. M!Accepts(m, SecondFrame(m, s))
  BY DEF M!Accepts, SecondFrame
<1>7. \A n \in M!Motor \ {m} : ~M!Accepts(n, SecondFrame(m, s))
  BY MotorsConfigured DEF M!Accepts, SecondFrame, M!Broadcast
<1> QED BY <1>4, <1>5, <1>6, <1>7 DEF M!Deliver

LEMMA StartDelivered ==
    ASSUME M!Deliver(StartFrame)
    PROVE  \A n \in M!Motor : running'[n] = pending[n]
<1>1. \A n \in M!Motor : M!Accepts(n, StartFrame)
  BY DEF M!Accepts, StartFrame
<1>2. \A n \in M!Motor : M!IsStart(M!Gather(n, StartFrame))
  BY DEF M!IsStart, M!Gather, StartFrame
<1> QED BY <1>1, <1>2 DEF M!Deliver

LEMMA MotorsInit ==
    ASSUME M!Init
    PROVE  MotorsInv
<1>1. MotorsType
  BY MotorsConfigured DEF M!Init, MotorsType
<1> QED BY <1>1 DEF M!Init, MotorsInv, IdleInv, SettingsInv, CommandInv, SyncInv, NoteInv

(* A setting changes. *)
LEMMA ChangeKeeps ==
    ASSUME MotorsInv, NEW m \in M!Motor, M!Change(m)
    PROVE  MotorsInv'
<1>1. PICK s \in Setting : setting' = [setting EXCEPT ![m] = s]
  BY DEF M!Change
<1>2. UNCHANGED <<sent, motorTask, frames, gathered, pending, running>>
  BY DEF M!Change, M!motors
<1>3. missed' = IF M!IsOut(m) THEN missed \cup {m} ELSE missed
  BY DEF M!Change
<1>4. \A n \in M!Motor : n # m => setting'[n] = setting[n]
  BY <1>1 DEF MotorsInv, MotorsType
<1>5. MotorsType'
  BY <1>1, <1>2 DEF MotorsInv, MotorsType
<1>6. IdleInv'
  BY <1>2, <1>3 DEF MotorsInv, IdleInv
<1>7. SettingsInv'
  BY <1>2, <1>3, <1>4 DEF MotorsInv, SettingsInv, Hold, M!IsOut
<1>8. CommandInv'
  <2> SUFFICES ASSUME motorTask.at = "command"
               PROVE  CommandInv'
    BY <1>2 DEF CommandInv
  <2>1. PICK r \in Setting : /\ motorTask.i \notin missed => setting[motorTask.i] = r
                             /\ Underway(motorTask.i, r)
    BY DEF MotorsInv, CommandInv
  <2>2. Underway(motorTask.i, r)'
    BY <1>2, <2>1 DEF Underway
  <2>3. motorTask.i \notin missed' => setting'[motorTask.i] = r
    BY <1>3, <1>4, <2>1 DEF M!IsOut, MotorsInv, MotorsType
  <2>4. Hold(motorTask.i)'
    BY <1>2, <1>3, <1>4 DEF MotorsInv, CommandInv, Hold, M!IsOut
  <2> QED BY <1>2, <2>2, <2>3, <2>4 DEF CommandInv
<1>9. SyncInv'
  BY <1>2, <1>3, <1>4 DEF MotorsInv, SyncInv, Hold, M!IsOut
<1>10. NoteInv'
  <2> SUFFICES ASSUME motorTask.at = "note", NEW n \in M!Motor, n \notin missed'
               PROVE  running[n] = IF n < motorTask.i THEN sent[n] ELSE setting'[n]
    BY <1>2 DEF NoteInv, MotorsInv
  <2> PICK i \in M!Motor : i = motorTask.i
    BY DEF MotorsInv, MotorsType
  <2>1. n \notin missed /\ (n < i \/ n # m)
    BY <1>3, MotorsConfigured DEF M!IsOut
  <2>2. running[n] = IF n < i THEN sent[n] ELSE setting[n]
    BY <2>1 DEF MotorsInv, NoteInv
  <2> QED BY <1>4, <2>1, <2>2
<1> QED BY <1>5, <1>6, <1>7, <1>8, <1>9, <1>10 DEF MotorsInv

LEMMA StartKeeps ==
    ASSUME MotorsInv, M!Start
    PROVE  MotorsInv'
<1>1. motorTask.at = "idle" /\ motorTask' = [at |-> "settings", i |-> 1]
  BY DEF M!Start
<1>2. UNCHANGED <<setting, sent, frames, gathered, pending, running, missed>>
  BY DEF M!Start, M!motors
<1>3. MotorsType'
  BY <1>1, <1>2, MotorsConfigured DEF MotorsInv, MotorsType
<1>4. SettingsInv'
  BY <1>1, <1>2, MotorsConfigured DEF MotorsInv, IdleInv, SettingsInv, Hold
<1> QED BY <1>1, <1>3, <1>4 DEF MotorsInv, IdleInv, CommandInv, SyncInv, NoteInv

LEMMA CommandKeeps ==
    ASSUME MotorsInv, M!Command
    PROVE  MotorsInv'
<1>1. motorTask.at = "settings" /\ motorTask.i \in 1..(NumMotors + 1)
  BY DEF M!Command, MotorsInv, MotorsType
<1>2. UNCHANGED <<setting, sent, gathered, pending, running>>
  BY DEF M!Command, M!motors
<1>3. CASE motorTask.i <= NumMotors
  <2> PICK i : i = motorTask.i
    OBVIOUS
  <2>1. i \in M!Motor
    BY <1>1, <1>3, MotorsConfigured
  <2>2. /\ frames' = M!Frames(i, M!PosControl, M!PosData(setting[i]))
        /\ motorTask' = [motorTask EXCEPT !.at = "command"]
        /\ missed' = missed \ {i}
    BY <1>3 DEF M!Command
  <2>3. motorTask'.at = "command" /\ motorTask'.i = i
    BY <2>2 DEF MotorsInv, MotorsType
  <2>4. MotorsType'
    BY <1>2, <2>1, <2>2 DEF MotorsInv, MotorsType
  <2>5. PICK s \in Setting : s = setting[i]
    BY <2>1 DEF MotorsInv, MotorsType
  <2>6. frames' = <<FirstFrame(i, s), SecondFrame(i, s)>>
    BY <2>1, <2>2, <2>5, PositionFrames
  <2>7. Underway(i, s)'
    BY <2>6 DEF Underway
  <2>8. Hold(i)'
    BY <1>1, <1>2, <2>1, <2>2, MotorsConfigured DEF MotorsInv, SettingsInv, Hold
  <2>9. CommandInv'
    BY <1>2, <2>3, <2>5, <2>7, <2>8 DEF CommandInv
  <2> QED BY <2>3, <2>4, <2>9 DEF MotorsInv, IdleInv, SettingsInv, SyncInv, NoteInv
<1>4. CASE ~(motorTask.i <= NumMotors)
  <2>1. motorTask.i = NumMotors + 1
    BY <1>1, <1>4, MotorsConfigured
  <2>2. /\ frames' = <<StartFrame>>
        /\ motorTask' = [motorTask EXCEPT !.at = "sync"]
        /\ missed' = missed
    BY <1>4, StartFrames DEF M!Command
  <2>3. motorTask'.at = "sync"
    BY <2>2 DEF MotorsInv, MotorsType
  <2>4. MotorsType'
    BY <1>2, <2>2 DEF MotorsInv, MotorsType
  <2>5. Hold(NumMotors + 1)'
    BY <1>1, <1>2, <2>1, <2>2 DEF MotorsInv, SettingsInv, Hold
  <2>6. SyncInv'
    BY <2>2, <2>5 DEF SyncInv
  <2> QED BY <2>3, <2>4, <2>6 DEF MotorsInv, IdleInv, SettingsInv, CommandInv, NoteInv
<1> QED BY <1>3, <1>4

LEMMA TransmitKeeps ==
    ASSUME MotorsInv, M!Transmit
    PROVE  MotorsInv'
<1>1. UNCHANGED <<setting, sent, motorTask, missed>>
  BY DEF M!Transmit
<1>2. frames # <<>> /\ M!Deliver(frames[1]) /\ frames' = Tail(frames)
  BY DEF M!Transmit
<1>3. MotorsType'
  BY <1>1 DEF MotorsInv, MotorsType
<1>4. CASE motorTask.at = "command"
  <2> PICK i \in M!Motor : i = motorTask.i
    BY <1>4 DEF MotorsInv, MotorsType
  <2>1. PICK s \in Setting : (i \notin missed => setting[i] = s) /\ Underway(i, s)
    BY <1>4 DEF MotorsInv, CommandInv
  <2>2. Hold(i)
    BY <1>4 DEF MotorsInv, CommandInv
  <2>3. ASSUME frames = <<FirstFrame(i, s), SecondFrame(i, s)>>
        PROVE  CommandInv'
    <3>1. M!Deliver(FirstFrame(i, s)) /\ frames' = <<SecondFrame(i, s)>>
      BY <1>2, <2>3
    <3>2. gathered'[i] = Begun(s) /\ \A n \in M!Motor : pending'[n] = pending[n]
      BY <3>1, FirstDelivered
    <3>3. Underway(i, s)'
      BY <3>1, <3>2 DEF Underway
    <3>4. Hold(i)'
      BY <1>1, <2>2, <3>2 DEF Hold
    <3> QED BY <1>1, <2>1, <3>3, <3>4 DEF CommandInv
  <2>4. ASSUME frames = <<SecondFrame(i, s)>>, gathered[i] = Begun(s)
        PROVE  CommandInv'
    <3>1. M!Deliver(SecondFrame(i, s)) /\ frames' = <<>>
      BY <1>2, <2>4
    <3>2. pending'[i] = s /\ \A n \in M!Motor \ {i} : pending'[n] = pending[n]
      BY <2>4, <3>1, SecondDelivered
    <3>3. Underway(i, s)'
      BY <3>1, <3>2 DEF Underway
    <3>4. Hold(i)'
      BY <1>1, <2>2, <3>2, MotorsConfigured DEF Hold
    <3> QED BY <1>1, <2>1, <3>3, <3>4 DEF CommandInv
  <2>5. CommandInv'
    BY <1>2, <2>1, <2>3, <2>4 DEF Underway
  <2> QED BY <1>1, <1>3, <1>4, <2>5 DEF MotorsInv, IdleInv, SettingsInv, SyncInv, NoteInv
<1>5. CASE motorTask.at = "sync"
  <2>1. frames = <<StartFrame>> /\ Hold(NumMotors + 1)
    BY <1>2, <1>5 DEF MotorsInv, SyncInv
  <2>2. M!Deliver(StartFrame) /\ frames' = <<>>
    BY <1>2, <2>1
  <2>3. \A m \in M!Motor \ missed : running'[m] = setting[m]
    BY <2>1, <2>2, StartDelivered, MotorsConfigured DEF Hold
  <2>4. SyncInv'
    BY <1>1, <2>2, <2>3 DEF SyncInv
  <2> QED BY <1>1, <1>3, <1>5, <2>4 DEF MotorsInv, IdleInv, SettingsInv, CommandInv, NoteInv
<1>6. motorTask.at \in {"command", "sync"}
  BY <1>2 DEF MotorsInv, MotorsType, IdleInv, SettingsInv, NoteInv
<1> QED BY <1>4, <1>5, <1>6

LEMMA SentKeeps ==
    ASSUME MotorsInv, M!Sent
    PROVE  MotorsInv'
<1>1. UNCHANGED <<setting, sent, frames, gathered, pending, running, missed>>
  BY DEF M!Sent, M!motors
<1>2. frames = <<>>
  BY DEF M!Sent
<1>3. CASE motorTask.at = "command"
  <2> PICK i \in M!Motor : i = motorTask.i
    BY <1>3 DEF MotorsInv, MotorsType
  <2>1. motorTask' = [at |-> "settings", i |-> i + 1]
    BY <1>3 DEF M!Sent
  <2>2. PICK s \in Setting : (i \notin missed => setting[i] = s) /\ Underway(i, s)
    BY <1>3 DEF MotorsInv, CommandInv
  <2>3. pending[i] = s
    BY <1>2, <2>2 DEF Underway
  <2>4. Hold(i)
    BY <1>3 DEF MotorsInv, CommandInv
  <2>5. Hold(i + 1)'
    BY <1>1, <2>2, <2>3, <2>4, MotorsConfigured DEF Hold
  <2>6. SettingsInv'
    BY <1>1, <1>2, <2>1, <2>5 DEF SettingsInv
  <2>7. MotorsType'
    BY <1>1, <2>1, MotorsConfigured DEF MotorsInv, MotorsType
  <2> QED BY <2>1, <2>6, <2>7 DEF MotorsInv, IdleInv, CommandInv, SyncInv, NoteInv
<1>4. CASE motorTask.at = "sync"
  <2>1. motorTask' = [at |-> "note", i |-> 1]
    BY <1>4 DEF M!Sent
  <2>2. \A m \in M!Motor \ missed : running[m] = setting[m]
    BY <1>2, <1>4 DEF MotorsInv, SyncInv
  <2>3. NoteInv'
    BY <1>1, <1>2, <2>1, <2>2, MotorsConfigured DEF NoteInv
  <2>4. MotorsType'
    BY <1>1, <2>1, MotorsConfigured DEF MotorsInv, MotorsType
  <2> QED BY <2>1, <2>3, <2>4 DEF MotorsInv, IdleInv, SettingsInv, CommandInv, SyncInv
<1> QED BY <1>3, <1>4 DEF M!Sent

LEMMA NoteKeeps ==
    ASSUME MotorsInv, M!Note
    PROVE  MotorsInv'
<1>1. UNCHANGED <<setting, frames, gathered, pending, running, missed>>
  BY DEF M!Note, M!motors
<1> PICK i \in M!Motor : i = motorTask.i
  BY DEF M!Note, MotorsInv, MotorsType
<1>2. /\ motorTask.at = "note" /\ sent' = [sent EXCEPT ![i] = setting[i]]
      /\ motorTask' = IF i = NumMotors THEN [at |-> "idle", i |-> 1]
                      ELSE [motorTask EXCEPT !.i = i + 1]
  BY DEF M!Note
<1>3. sent' \in [M!Motor -> Setting \cup {0}]
  BY <1>2 DEF MotorsInv, MotorsType
<1>4. sent'[i] = setting[i] /\ \A m \in M!Motor : m # i => sent'[m] = sent[m]
  BY <1>2 DEF MotorsInv, MotorsType
<1>5. /\ frames = <<>>
      /\ \A m \in M!Motor \ missed :
            running[m] = IF m < i THEN sent[m] ELSE setting[m]
  BY <1>2 DEF MotorsInv, NoteInv
<1>6. CASE i = NumMotors
  <2>1. motorTask' = [at |-> "idle", i |-> 1]
    BY <1>2, <1>6
  <2>2. MotorsType'
    BY <1>1, <1>3, <2>1, MotorsConfigured DEF MotorsInv, MotorsType
  <2>3. IdleInv'
    BY <1>1, <1>4, <1>5, <1>6, MotorsConfigured DEF IdleInv
  <2> QED BY <2>1, <2>2, <2>3 DEF MotorsInv, SettingsInv, CommandInv, SyncInv, NoteInv
<1>7. CASE i # NumMotors
  <2>1. motorTask' = [at |-> "note", i |-> i + 1]
    BY <1>2, <1>7 DEF MotorsInv, MotorsType
  <2>2. MotorsType'
    BY <1>1, <1>3, <1>7, <2>1, MotorsConfigured DEF MotorsInv, MotorsType
  <2>3. NoteInv'
    BY <1>1, <1>4, <1>5, <2>1, MotorsConfigured DEF NoteInv
  <2> QED BY <2>1, <2>2, <2>3 DEF MotorsInv, IdleInv, SettingsInv, CommandInv, SyncInv
<1> QED BY <1>6, <1>7

LEMMA MotorsSteps ==
    ASSUME [Next]_vars
    PROVE  M!Next \/ UNCHANGED motors
BY DEF Next, vars, Usart, Motors, Encoder, Tasks

LEMMA MotorsKeep ==
    ASSUME MotorsInv, [Next]_vars
    PROVE  MotorsInv'
<1>1. CASE \E m \in M!Motor : M!Change(m)
  BY <1>1, ChangeKeeps
<1>2. CASE M!Start
  BY <1>2, StartKeeps
<1>3. CASE M!Command
  BY <1>3, CommandKeeps
<1>4. CASE M!Transmit
  BY <1>4, TransmitKeeps
<1>5. CASE M!Sent
  BY <1>5, SentKeeps
<1>6. CASE M!Note
  BY <1>6, NoteKeeps
<1>7. CASE UNCHANGED motors
  BY <1>7 DEF motors, MotorsInv, MotorsType, IdleInv, SettingsInv, CommandInv, SyncInv,
              NoteInv, Hold, Underway
<1> QED BY <1>1, <1>2, <1>3, <1>4, <1>5, <1>6, <1>7, MotorsSteps DEF M!Next

(* When nothing is left to send, every motor runs what it is set to, but for *)
(* those whose setting changed while it was being sent (zdt_motor_task),     *)
(* whatever the number of motors and whenever settings change.               *)
THEOREM MotorsRun == Spec => []MotorsFollow
<1>1. Init => MotorsInv
  BY MotorsInit DEF Init
<1>2. MotorsInv /\ [Next]_vars => MotorsInv'
  BY MotorsKeep
<1>3. MotorsInv => MotorsFollow
  BY DEF MotorsInv, IdleInv, MotorsFollow, M!MotorsFollow
<1> QED BY <1>1, <1>2, <1>3, PTL DEF Spec
=============================================================================
