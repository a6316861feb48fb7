----------------------------- MODULE BoardTasks -----------------------------
(***************************************************************************)
(* scheduler.c: the table of periodic tasks, and task_run, called for ever  *)
(* by the main loop.  uwTick advances at any time and wraps around.         *)
(***************************************************************************)
EXTENDS Integers

CONSTANTS NumTasks, Period,   \* task_num, task -> task_period
          TickMod             \* uwTick has 32 bits

TasksAssumption == /\ NumTasks \in Nat \ {0} /\ TickMod \in Nat
                   /\ \A i \in 0..(NumTasks - 1) : Period[i] \in 1..(TickMod - 2)

Task == 0..(NumTasks - 1)

VARIABLES tick,      \* uwTick
          lastRun,   \* task -> task_last_runtime
          loop,      \* task_run: [at, i, now, fresh]; fresh: history, the true
                     \* time since task i was last started when now was read
          since      \* history: task -> ticks since it was last started

vars == <<tick, lastRun, loop, since>>

Init == /\ tick = 0
        /\ lastRun = [i \in Task |-> 0]
        /\ loop = [at |-> "read", i |-> 0, now |-> 0, fresh |-> 0]
        /\ since = [i \in Task |-> 0]

(* Bound: no task waits for a whole turn of uwTick, which takes 49 days. *)
Tick == /\ \A i \in Task : since[i] < TickMod - 1
        /\ tick' = (tick + 1) % TickMod
        /\ since' = [i \in Task |-> since[i] + 1]
        /\ UNCHANGED <<lastRun, loop>>

Read == /\ loop.at = "read"
        /\ loop' = [loop EXCEPT !.at = "compare", !.now = tick, !.fresh = since[loop.i]]
        /\ UNCHANGED <<tick, lastRun, since>>

(* Variant: the comparison without the subtraction. *)
IsDueBySum(i, now) == now >= lastRun[i] + Period[i]

IsDue(i, now) == (now - lastRun[i]) % TickMod >= Period[i]

(* The next time round the loop; after the last task task_run returns and   *)
(* is called again.                                                         *)
Following == [loop EXCEPT !.at = "read", !.i = (loop.i + 1) % NumTasks]

(* The task starts; its time counts from the read of uwTick. *)
Run == /\ loop.at = "compare" /\ IsDue(loop.i, loop.now)
       /\ lastRun' = [lastRun EXCEPT ![loop.i] = loop.now]
       /\ since' = [since EXCEPT ![loop.i] = since[loop.i] - loop.fresh]
       /\ loop' = [loop EXCEPT !.at = "task"]
       /\ UNCHANGED tick

Skip == /\ loop.at = "compare" /\ ~IsDue(loop.i, loop.now)
        /\ loop' = Following
        /\ UNCHANGED <<tick, lastRun, since>>

Return == /\ loop.at = "task"
          /\ loop' = Following
          /\ UNCHANGED <<tick, lastRun, since>>

Next == Tick \/ Read \/ Run \/ Skip \/ Return

-----------------------------------------------------------------------------
(* Whenever the loop comes to a task it starts it if and only if its period *)
(* has passed, also when uwTick has wrapped around since; the time that the *)
(* other tasks take is not lost, and it is never started twice in a period. *)
TasksOnTime ==
    [][loop.at = "compare" /\ loop' # loop =>
          (loop'.at = "task") = (loop.fresh >= Period[loop.i])]_vars
=============================================================================
