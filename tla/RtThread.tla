------------------------------ MODULE RtThread ------------------------------
(***************************************************************************)
(* Threads of the RT-Thread kernel on one Cortex-M core (thread.c,          *)
(* scheduler.c, idle.c, clock.c, timer.c): the running thread executes      *)
(* kernel calls; SysTick, a device interrupt and PendSV come between any    *)
(* two steps where the code has interrupts enabled.                         *)
(*                                                                         *)
(* One step is a stretch of code with interrupts disabled, with the enabled *)
(* code around it that touches only the thread's own variables.  SysTick    *)
(* and PendSV have the lowest interrupt priority and PendSV wins when both  *)
(* are pending, so neither runs inside the other and SysTick never starts   *)
(* while a switch is pending; a device interrupt may come in the middle of  *)
(* SysTick, and runs to its end because nothing has a higher priority.      *)
(***************************************************************************)
EXTENDS RtKernel

CONSTANTS
    Idle,       \* the idle thread
    Main,       \* the thread that runs when the scheduler starts
    InitPrio,   \* [Thread -> Prio]
    SleepArg,   \* arguments of rt_thread_sleep, in ticks
    NewPrio,    \* priorities RT_THREAD_CTRL_CHANGE_PRIORITY may set
    MaxLock,    \* bound: nesting of rt_enter_critical
    Programs    \* the applications considered

(* An application: the kernel calls each thread makes, the threads calls of  *)
(* rt_thread_resume, rt_thread_delete (or _detach) and CHANGE_PRIORITY act   *)
(* upon, and the threads the device interrupt resumes.                       *)
Call == {"startup", "yield", "sleep", "lock", "suspend", "resume", "exit", "delete", "prio"}
Program == [ calls : [Thread -> SUBSET Call], resumed : SUBSET (Thread \ {Idle}),
             deleted : SUBSET (Thread \ {Idle}), prio : SUBSET (Thread \ {Idle}),
             device : SUBSET (Thread \ {Idle}) ]

ASSUME ThreadAssumption ==
    /\ Idle \in Thread /\ Main \in Thread /\ Idle # Main
    /\ InitPrio \in [Thread -> Prio]
    /\ \A t \in Thread \ {Idle} : InitPrio[t] < InitPrio[Idle]
    /\ SleepArg \subseteq 0..(Half - 1)
    /\ NewPrio \subseteq 0..(InitPrio[Idle] - 1)
    /\ MaxLock \in Nat
    /\ Programs \subseteq {p \in Program : p.calls[Idle] = {}}

(* The last five are places in ipc.c and mempool.c, reached in the modules   *)
(* on the objects defined there.                                             *)
Pc == {"user", "sched", "sleep_sched", "sleep_ret", "exit_sched", "dead",
       "resume", "delete_remove", "delete_close", "idle_take",
       "wait_sched", "woken", "wake_test", "wake_take", "between"}

VARIABLES
    k,      \* the kernel's data
    cpu,    \* the thread whose context is in the registers
    pc,     \* [Thread -> Pc]: where each thread is, "user" outside kernel calls
    arg,    \* [Thread -> Thread]: the thread its call is about
    prog,   \* the application, chosen once
    isr     \* SysTick_Handler: "off", "sched", "timer" or, interrupts off, "loop"

vars == <<k, cpu, pc, arg, prog, isr>>

(* rt_system_scheduler_start has switched to Main; the idle thread is ready, *)
(* the others are initialised and not yet started.                           *)
Init ==
    /\ k = [rq   |-> [p \in Prio |-> IF p = InitPrio[Idle] THEN <<Idle>> ELSE <<>>],
            grp  |-> {InitPrio[Idle]},
            wait |-> [o \in Obj |-> <<>>],
            dead |-> <<>>,
            stat |-> [t \in Thread |-> IF t = Main THEN "running"
                                       ELSE IF t = Idle THEN "ready" ELSE "init"],
            yld  |-> [t \in Thread |-> FALSE],
            prio |-> InitPrio,
            rem  |-> Slice,
            err  |-> [t \in Thread |-> "ok"],
            cur  |-> Main, lock |-> 0,
            flag |-> FALSE, from |-> Main, to |-> Main,
            tick |-> 0, tmr |-> <<>>,
            act  |-> [t \in Thread |-> FALSE],
            tout |-> [t \in Thread |-> 0],
            bad  |-> FALSE]
    /\ cpu = Main
    /\ pc = [t \in Thread |-> "user"]
    /\ arg = [t \in Thread |-> t]
    /\ prog \in Programs
    /\ isr = "off"

-----------------------------------------------------------------------------
(* Steps of the running thread. *)

Runs(t) == cpu = t /\ ~k.flag /\ isr = "off" /\ ~k.bad
At(t, p) == Runs(t) /\ pc[t] = p
Does(t, call) == At(t, "user") /\ call \in prog.calls[t]
Goto(t, p) == pc' = [pc EXCEPT ![t] = p]
Done(t) == arg' = [arg EXCEPT ![t] = t]   \* the call's argument is dead

(* rt_thread_yield. *)
Yield(t) ==
    /\ Does(t, "yield")
    /\ \E y \in {[k EXCEPT !.rem[t] = Slice[t], !.yld[t] = TRUE]} : k' = Schedule(y)
    /\ UNCHANGED <<cpu, pc, arg, isr, prog>>

(* Variant: the timer is started before the thread is suspended. *)
SleepTimerFirst(t, n) ==
    /\ Does(t, "sleep")
    /\ \E s \in {TimerStart([k EXCEPT !.err[t] = "ok"], t, n)} : k' = Suspend(s, t)
    /\ Goto(t, "sleep_sched")
    /\ UNCHANGED <<cpu, arg, isr, prog>>

(* rt_thread_sleep, up to the call of rt_schedule. *)
Sleep(t, n) ==
    /\ Does(t, "sleep")
    /\ \E s \in {Suspend([k EXCEPT !.err[t] = "ok"], t)} : k' = TimerStart(s, t, n)
    /\ Goto(t, "sleep_sched")
    /\ UNCHANGED <<cpu, arg, isr, prog>>

(* rt_schedule called with interrupts enabled. *)
CallSchedule(t) ==
    /\ \E hop \in {<<"sched", "user">>, <<"sleep_sched", "sleep_ret">>, <<"exit_sched", "dead">>} :
          At(t, hop[1]) /\ Goto(t, hop[2])
    /\ k' = Schedule(k)
    /\ UNCHANGED <<cpu, arg, isr, prog>>

(* rt_thread_sleep, after rt_schedule has returned. *)
SleepReturn(t) ==
    /\ At(t, "sleep_ret")
    /\ k' = [k EXCEPT !.err[t] = IF @ = "timeout" THEN "ok" ELSE @]
    /\ Goto(t, "user")
    /\ UNCHANGED <<cpu, arg, isr, prog>>

EnterCritical(t) ==
    /\ Does(t, "lock") /\ k.lock < MaxLock
    /\ k' = [k EXCEPT !.lock = @ + 1]
    /\ UNCHANGED <<cpu, pc, arg, isr, prog>>

(* Variant: the scheduler is unlocked and not called. *)
ExitCriticalNoSchedule(t) ==
    /\ Does(t, "lock")
    /\ k' = [k EXCEPT !.lock = IF @ > 0 THEN @ - 1 ELSE 0]
    /\ UNCHANGED <<cpu, pc, arg, isr, prog>>

ExitCritical(t) ==
    /\ Does(t, "lock")
    /\ k' = [k EXCEPT !.lock = IF @ > 0 THEN @ - 1 ELSE 0]
    /\ IF k.lock <= 1 THEN Goto(t, "sched") ELSE UNCHANGED pc
    /\ UNCHANGED <<cpu, arg, isr, prog>>

(* rt_thread_suspend on the running thread; the caller then schedules. *)
SuspendSelf(t) ==
    /\ Does(t, "suspend")
    /\ k' = Suspend(k, t)
    /\ Goto(t, "sched")
    /\ UNCHANGED <<cpu, arg, isr, prog>>

(* rt_thread_resume: stat is read before interrupts are disabled. *)
ResumeCheck(t, u) ==
    /\ Does(t, "resume") /\ u # t
    /\ k.stat[u] = "suspend"
    /\ Goto(t, "resume")
    /\ arg' = [arg EXCEPT ![t] = u]
    /\ UNCHANGED <<k, cpu, isr, prog>>

ResumeDo(t) ==
    /\ At(t, "resume")
    /\ k' = Resume(k, arg[t])
    /\ Goto(t, "sched")
    /\ Done(t)
    /\ UNCHANGED <<cpu, isr, prog>>

(* rt_thread_startup: stat becomes SUSPEND, then rt_thread_resume. *)
Startup(t, u) ==
    /\ Does(t, "startup")
    /\ k.stat[u] = "init"
    /\ k' = [k EXCEPT !.stat[u] = "suspend"]
    /\ Goto(t, "resume")
    /\ arg' = [arg EXCEPT ![t] = u]
    /\ UNCHANGED <<cpu, isr, prog>>

(* _thread_exit, when the entry function of the thread returns; a thread is  *)
(* taken not to return with the scheduler locked.                            *)
Exit(t) ==
    /\ Does(t, "exit") /\ k.lock = 0
    /\ k' = Close(RemoveThread(k, t), t)
    /\ Goto(t, "exit_sched")
    /\ UNCHANGED <<cpu, arg, isr, prog>>

(* rt_thread_delete and rt_thread_detach of another thread: stat is read and *)
(* the thread unlinked in one stretch, closed in a second one.               *)
DeleteCheck(t, u) ==
    /\ Does(t, "delete") /\ u # t
    /\ k.stat[u] # "close"
    /\ arg' = [arg EXCEPT ![t] = u]
    /\ Goto(t, IF k.stat[u] = "init" THEN "delete_close" ELSE "delete_remove")
    /\ UNCHANGED <<k, cpu, isr, prog>>

DeleteRemove(t) ==
    /\ At(t, "delete_remove")
    /\ k' = RemoveThread(k, arg[t])
    /\ Goto(t, "delete_close")
    /\ UNCHANGED <<cpu, arg, isr, prog>>

DeleteClose(t) ==
    /\ At(t, "delete_close")
    /\ k' = Close(k, arg[t])
    /\ Goto(t, "user")
    /\ Done(t)
    /\ UNCHANGED <<cpu, isr, prog>>

(* rt_thread_control, RT_THREAD_CTRL_CHANGE_PRIORITY. *)
SetPriority(t, u, p) ==
    /\ Does(t, "prio")
    /\ k' = ChangePriority(k, u, p)
    /\ UNCHANGED <<cpu, pc, arg, isr, prog>>

(* The idle thread: rt_thread_defunct_dequeue reads the list with interrupts *)
(* enabled and unlinks the thread it found afterwards.                       *)
IdleLook ==
    /\ At(Idle, "user") /\ k.dead # <<>>
    /\ arg' = [arg EXCEPT ![Idle] = Head(k.dead)]
    /\ Goto(Idle, "idle_take")
    /\ UNCHANGED <<k, cpu, isr, prog>>

IdleTake ==
    /\ At(Idle, "idle_take")
    /\ k' = ListRemove(k, arg[Idle])
    /\ Goto(Idle, "user")
    /\ Done(Idle)
    /\ UNCHANGED <<cpu, isr, prog>>

Start(t) == \E u \in Thread : Startup(t, u)

ThreadStep(t) ==
    \/ Yield(t)
    \/ \E n \in SleepArg : Sleep(t, n)
    \/ CallSchedule(t)
    \/ SleepReturn(t)
    \/ EnterCritical(t)
    \/ ExitCritical(t)
    \/ SuspendSelf(t)
    \/ \E u \in prog.resumed : ResumeCheck(t, u)
    \/ \E u \in prog.deleted : DeleteCheck(t, u)
    \/ ResumeDo(t)
    \/ Start(t)
    \/ Exit(t)
    \/ DeleteRemove(t)
    \/ DeleteClose(t)
    \/ \E u \in prog.prio, p \in NewPrio : SetPriority(t, u, p)

-----------------------------------------------------------------------------
(* Interrupts. *)

(* PendSV_Handler: taken as soon as no other handler is active; `from' is not *)
(* read again before it is written.                                          *)
PendSV ==
    /\ k.flag /\ isr = "off" /\ ~k.bad
    /\ cpu' = k.to
    /\ k' = [k EXCEPT !.flag = FALSE, !.from = k.to]
    /\ UNCHANGED <<pc, arg, isr, prog>>

(* SysTick_Handler: rt_tick_increase. *)
TickInterrupt ==
    /\ isr = "off" /\ ~k.flag /\ ~k.bad
    /\ k' = CountTick(k)
    /\ isr' = IF k.rem[k.cur] = 1 THEN "sched" ELSE "timer"
    /\ UNCHANGED <<cpu, pc, arg, prog>>

(* rt_tick_increase: the slice is used up. *)
TickSchedule ==
    /\ isr = "sched" /\ ~k.bad
    /\ k' = Schedule(k)
    /\ isr' = "timer"
    /\ UNCHANGED <<cpu, pc, arg, prog>>

(* rt_timer_check: one turn of the loop; interrupts stay disabled until the  *)
(* loop ends.                                                                *)
TimerFires ==
    /\ isr \in {"timer", "loop"} /\ ~k.bad
    /\ Fired(k)
    /\ \E w \in {Expire(k, Head(k.tmr))} : k' = Schedule(w)
    /\ isr' = "loop"
    /\ UNCHANGED <<cpu, pc, arg, prog>>

TickReturn ==
    /\ isr \in {"timer", "loop"} /\ ~k.bad
    /\ ~Fired(k)
    /\ isr' = "off"
    /\ UNCHANGED <<k, cpu, pc, arg, prog>>

(* A device interrupt whose handler resumes a thread and schedules. *)
DeviceResumes(u) ==
    /\ isr # "loop" /\ ~k.bad
    /\ k.stat[u] = "suspend"
    /\ \E r \in {Resume(k, u)} : k' = Schedule(r)
    /\ UNCHANGED <<cpu, pc, arg, isr, prog>>

Interrupt == \/ TickInterrupt
             \/ TickSchedule
             \/ TimerFires
             \/ TickReturn
             \/ \E u \in prog.device : DeviceResumes(u)

Next == \/ \E t \in Thread : ThreadStep(t)
        \/ IdleLook
        \/ IdleTake
        \/ PendSV
        \/ Interrupt

(* The hardware: SysTick stays pending until it is served, so it is taken    *)
(* whatever other interrupts come; handlers end; the CPU goes on executing a *)
(* thread that is inside a kernel call.  A thread need not make calls.       *)
Tau == \E t \in Thread : \/ CallSchedule(t) \/ SleepReturn(t) \/ ResumeDo(t)
                         \/ DeleteRemove(t) \/ DeleteClose(t)

Fairness == /\ SF_vars(TickInterrupt)
            /\ WF_vars(TickSchedule \/ TimerFires \/ TickReturn)
            /\ WF_vars(PendSV)
            /\ SF_vars(Tau)

Spec == Init /\ [][Next]_vars
FairSpec == Spec /\ Fairness

-----------------------------------------------------------------------------
(* Properties. *)

TypeOK ==
    /\ k \in Kernel
    /\ cpu \in Thread
    /\ pc \in [Thread -> Pc]
    /\ arg \in [Thread -> Thread]
    /\ isr \in {"off", "sched", "timer", "loop"}

(* A thread that is being deleted is in no queue between the two stretches.  *)
BeingDeleted(t) == \E d \in Thread : pc[d] = "delete_close" /\ arg[d] = t

(* Ready queues, wait lists, defunct list and stat describe the same thing:  *)
(* a ready thread is in the queue of its priority and nowhere else, the      *)
(* running one and a sleeping one in no queue (scheduler.c).                 *)
QueuesMatchStat ==
    /\ ~k.bad
    /\ \A p \in Prio : IsOnce(k.rq[p])
    /\ \A t \in Thread, p \in Prio :
          t \in Elems(k.rq[p]) <=> (k.stat[t] = "ready" /\ k.prio[t] = p /\ ~BeingDeleted(t))
    /\ \A t \in Thread, o \in Obj : t \in Elems(k.wait[o]) => k.stat[t] = "suspend"
    /\ IsOnce(k.dead) /\ \A o \in Obj : IsOnce(k.wait[o])
    /\ \A t \in Elems(k.dead) : k.stat[t] = "close"

(* rt_thread_ready_priority_group has a bit for every non-empty queue only:  *)
(* rt_schedule takes the head of the queue without looking whether there is  *)
(* one.                                                                      *)
GroupExact == k.grp = {p \in Prio : k.rq[p] # <<>>}

(* The switch PendSV will make starts from the thread whose registers are in *)
(* the CPU and ends in rt_current_thread, however many times rt_schedule ran *)
(* since it was requested (context_gcc.S).                                   *)
SwitchRecord == IF k.flag THEN k.from = cpu /\ k.to = k.cur ELSE cpu = k.cur

(* A thread executing its own code is RUNNING and no ready thread has a      *)
(* higher priority, unless the scheduler is locked (CHANGE_PRIORITY does not *)
(* reschedule: programs that use it are left out).                           *)
HighestRuns ==
    (prog.prio = {} /\ isr = "off" /\ ~k.flag /\ k.lock = 0 /\ pc[cpu] = "user") =>
        /\ k.stat[cpu] = "running"
        /\ \A p \in k.grp : k.prio[cpu] <= p

(* The timer list is in the order of expiry, and holds exactly the activated *)
(* timers; only a suspended thread has one.  Outside the tick interrupt none *)
(* is overdue, also across the wrap of rt_tick: each expires within the      *)
(* longest sleep from now.                                                   *)
TimersSound ==
    /\ IsOnce(k.tmr)
    /\ \A t \in Thread : t \in Elems(k.tmr) <=> k.act[t]
    /\ \A t \in Thread : k.act[t] => k.stat[t] = "suspend"
    /\ \A i, j \in DOMAIN k.tmr : i < j => Minus(k.tout[k.tmr[j]], k.tout[k.tmr[i]]) < Half
    /\ isr = "off" => \A t \in Thread : k.act[t] => \E n \in SleepArg : Minus(k.tout[t], k.tick) <= n

(* A sleeping thread has a timer that will wake it. *)
SleeperHasTimer ==
    \A t \in Thread : (pc[t] \in {"sleep_sched", "sleep_ret"} /\ k.stat[t] = "suspend") => k.act[t]

(* A thread that is closed is not scheduled any more. *)
ClosedStaysClosed == [][\A t \in Thread : k.stat[t] = "close" => k'.stat[t] = "close"]_vars

(* "The thread object will be removed from thread queue" (thread.c:389, 488):*)
(* a closed thread is in no ready queue.                                     *)
ClosedIsUnqueued ==
    \A t \in Thread, p \in Prio : k.stat[t] = "close" => t \notin Elems(k.rq[p])

(* Ready threads of the highest priority take turns: a thread whose slice is *)
(* used up goes behind its peers (comments at scheduler.c:757 and 763).      *)
PeersShare == \A t \in Thread : (k.stat[t] = "ready" /\ k.prio[t] = 0) ~> (k.cur = t)

(* A sleeping thread is woken. *)
SleepEnds == \A t \in Thread : (pc[t] = "sleep_ret" /\ k.stat[t] = "suspend")
                                  ~> k.stat[t] \in {"ready", "running", "close"}
=============================================================================
