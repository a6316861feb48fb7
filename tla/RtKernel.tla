------------------------------ MODULE RtKernel ------------------------------
(***************************************************************************)
(* The data of the RT-Thread kernel and what its functions do to it: the    *)
(* ready queues of scheduler.c, the thread control blocks of thread.c, the  *)
(* thread timers of timer.c and the PendSV switch record of                 *)
(* libcpu/context_gcc.S.  An operator maps the kernel state k to the state  *)
(* after one call made with interrupts disabled; the modules that extend    *)
(* this one say where interrupts are enabled, that is, where steps begin    *)
(* and end.                                                                 *)
(*                                                                         *)
(* A thread has one list node (tlist).  Linking it while it is linked is    *)
(* recorded in k.bad and ends the behaviours of the modules: the lists are  *)
(* no longer lists.                                                         *)
(***************************************************************************)
EXTENDS Lists, Integers

CONSTANTS
    Thread,     \* thread control blocks, the idle thread included
    Obj,        \* IPC objects with a suspend_thread list
    MaxPrio,    \* RT_THREAD_PRIORITY_MAX
    Slice,      \* [Thread -> Nat]: init_tick
    TickMod     \* 2^32: rt_tick_t wraps around at this value

ASSUME KernelAssumption ==
    /\ MaxPrio \in Nat \ {0}
    /\ Slice \in [Thread -> Nat \ {0}]
    /\ TickMod \in Nat /\ TickMod > 4

Prio == 0..(MaxPrio - 1)
Tick == 0..(TickMod - 1)
Half == (TickMod - 1) \div 2           \* RT_TICK_MAX / 2
Stat == {"init", "ready", "suspend", "running", "close"}
Err  == {"ok", "timeout", "error"}

Kernel == [ rq    : [Prio -> Seq(Thread)],  \* rt_thread_priority_table
            grp   : SUBSET Prio,            \* rt_thread_ready_priority_group
            wait  : [Obj -> Seq(Thread)],   \* suspend_thread of the objects
            dead  : Seq(Thread),            \* _rt_thread_defunct
            stat  : [Thread -> Stat],
            yld   : [Thread -> BOOLEAN],    \* RT_THREAD_STAT_YIELD
            prio  : [Thread -> Prio],       \* current_priority
            rem   : [Thread -> Nat \ {0}],  \* remaining_tick
            err   : [Thread -> Err],        \* error
            cur   : Thread,                 \* rt_current_thread
            lock  : Nat,                    \* rt_scheduler_lock_nest
            flag  : BOOLEAN,                \* rt_thread_switch_interrupt_flag
            from  : Thread,                 \* rt_interrupt_from_thread
            to    : Thread,                 \* rt_interrupt_to_thread
            tick  : Tick,                   \* rt_tick
            tmr   : Seq(Thread),            \* _timer_list: threads by timer
            act   : [Thread -> BOOLEAN],    \* RT_TIMER_FLAG_ACTIVATED
            tout  : [Thread -> Tick],       \* timeout_tick
            bad   : BOOLEAN ]

-----------------------------------------------------------------------------
(* Lists. *)

Linked(k, t) == \/ \E p \in Prio : t \in Elems(k.rq[p])
                \/ \E o \in Obj : t \in Elems(k.wait[o])
                \/ t \in Elems(k.dead)

(* rt_list_remove(&thread->tlist), whatever list it is in. *)
ListRemove(k, t) ==
    [k EXCEPT !.rq   = [p \in Prio |-> Unlink(k.rq[p], t)],
              !.wait = [o \in Obj |-> Unlink(k.wait[o], t)],
              !.dead = Unlink(@, t)]

-----------------------------------------------------------------------------
(* scheduler.c *)

(* rt_schedule_remove_thread. *)
RemoveThread(k, t) ==
    LET r == ListRemove(k, t)
    IN  [r EXCEPT !.grp = IF r.rq[k.prio[t]] = <<>> THEN @ \ {k.prio[t]} ELSE @]

(* rt_schedule_insert_thread. *)
InsertThread(k, t) ==
    IF t = k.cur THEN [k EXCEPT !.stat[t] = "running"]
    ELSE [k EXCEPT !.stat[t] = "ready",
                   !.rq[k.prio[t]] = IF k.yld[t] THEN PushBack(@, t) ELSE PushFront(@, t),
                   !.grp = @ \cup {k.prio[t]},
                   !.bad = @ \/ Linked(k, t)]

(* _scheduler_get_highest_priority_thread. *)
HighestPriority(k) == CHOOSE p \in k.grp : \A q \in k.grp : p <= q
Highest(k) == Head(k.rq[HighestPriority(k)])

(* Variant: a second request before PendSV overwrites the first. *)
ContextSwitchOverwrite(k, f, t) == [k EXCEPT !.from = f, !.to = t, !.flag = TRUE]

(* rt_hw_context_switch and rt_hw_context_switch_interrupt: request PendSV. *)
ContextSwitch(k, f, t) == [k EXCEPT !.from = IF k.flag THEN @ ELSE f,
                                    !.to = t, !.flag = TRUE]

(* rt_schedule.  The YIELD flag of the current thread is cleared before the  *)
(* thread is put back into its ready queue.                                  *)
Stays(k) == /\ k.stat[k.cur] = "running"
            /\ \/ k.prio[k.cur] < HighestPriority(k)
               \/ k.prio[k.cur] = HighestPriority(k) /\ ~k.yld[k.cur]

ClearYield(k) == IF k.stat[k.cur] = "running" THEN [k EXCEPT !.yld[k.cur] = FALSE] ELSE k

SwitchTo(k, t, reinsert) ==
    LET k1 == [k EXCEPT !.cur = t]
        k2 == IF reinsert THEN InsertThread(k1, k.cur) ELSE k1
        k3 == RemoveThread(k2, t)
    IN  ContextSwitch([k3 EXCEPT !.stat[t] = "running"], k.cur, t)

KeepCurrent(k) == [RemoveThread(k, k.cur) EXCEPT !.stat[k.cur] = "running"]

(* Variant: the thread switched away from is put back whatever its stat is. *)
ScheduleReinserts(k) ==
    IF k.lock # 0 \/ k.grp = {} THEN k
    ELSE IF Stays(k) \/ Highest(k) = k.cur THEN KeepCurrent(ClearYield(k))
    ELSE SwitchTo(ClearYield(k), Highest(k), TRUE)

Schedule(k) ==
    IF k.lock # 0 \/ k.grp = {} THEN k
    ELSE IF Stays(k) \/ Highest(k) = k.cur THEN KeepCurrent(ClearYield(k))
    ELSE SwitchTo(ClearYield(k), Highest(k), k.stat[k.cur] = "running")

-----------------------------------------------------------------------------
(* timer.c, for the one-shot timers that every thread owns. *)

(* timeout_tick of a timer that is not activated is never read: 0. *)
TimerRemove(k, t) == [k EXCEPT !.tmr = Unlink(@, t), !.act[t] = FALSE, !.tout[t] = 0]

(* rt_timer_stop: only an activated timer is removed. *)
TimerStop(k, t) == IF k.act[t] THEN TimerRemove(k, t) ELSE k

(* a - b in the unsigned arithmetic of rt_tick_t. *)
Minus(a, b) == (a - b) % TickMod

(* Variant: ticks are compared as if rt_tick did not wrap around. *)
LaterNoWrap(k, u, at) == k.tout[u] > at

(* rt_timer_start: the new timer goes in front of the first one that fires   *)
(* after it; timers that fire together keep the order of their starts.       *)
Later(k, u, at) == Minus(k.tout[u], at) # 0 /\ Minus(k.tout[u], at) < Half

Position(k, at) ==
    CHOOSE i \in 0..Len(k.tmr) :
        /\ \A j \in 1..i : ~Later(k, k.tmr[j], at)
        /\ i < Len(k.tmr) => Later(k, k.tmr[i + 1], at)

TimerStart(k, t, n) ==
    LET k1 == TimerRemove(k, t)
        at == (k.tick + n) % TickMod
    IN  [k1 EXCEPT !.tout[t] = at, !.act[t] = TRUE,
                   !.tmr = LinkAfter(@, Position(k1, at), t)]

(* rt_timer_check: the first timer has fired. *)
Fired(k) == k.tmr # <<>> /\ Minus(k.tick, k.tout[Head(k.tmr)]) < Half

-----------------------------------------------------------------------------
(* thread.c *)

(* rt_thread_suspend. *)
Suspend(k, t) ==
    IF k.stat[t] \notin {"ready", "running"} THEN k
    ELSE TimerStop([RemoveThread(k, t) EXCEPT !.stat[t] = "suspend"], t)

(* rt_thread_resume after its check of stat. *)
Resume(k, t) == InsertThread(TimerStop(ListRemove(k, t), t), t)

(* _thread_timeout for a timer that rt_timer_check has taken off the list,   *)
(* up to its call of rt_schedule.                                            *)
Expire(k, t) ==
    InsertThread(ListRemove([TimerRemove(k, t) EXCEPT !.err[t] = "timeout"], t), t)

(* _thread_exit, rt_thread_detach and rt_thread_delete: timer, stat and      *)
(* rt_thread_defunct_enqueue, which inserts without unlinking.               *)
Close(k, t) ==
    LET k1 == TimerRemove(k, t)
    IN  [k1 EXCEPT !.stat[t] = "close", !.dead = PushFront(@, t), !.bad = @ \/ Linked(k, t),
                   !.yld[t] = FALSE]

(* Variant: a ready thread stays where it is. *)
ChangePriorityInPlace(k, t, p) == [k EXCEPT !.prio[t] = p]

(* Variant: the priority is changed before the thread is removed. *)
ChangePriorityFirst(k, t, p) ==
    IF k.stat[t] = "ready"
    THEN InsertThread(RemoveThread([k EXCEPT !.prio[t] = p], t), t)
    ELSE [k EXCEPT !.prio[t] = p]

(* RT_THREAD_CTRL_CHANGE_PRIORITY: only a ready thread changes queue. *)
ChangePriority(k, t, p) ==
    IF k.stat[t] = "ready"
    THEN InsertThread([RemoveThread(k, t) EXCEPT !.prio[t] = p], t)
    ELSE [k EXCEPT !.prio[t] = p]

(* Variant: the slice is renewed but the thread is not asked to yield. *)
CountTickNoYield(k) ==
    LET r == k.rem[k.cur] - 1
    IN  [k EXCEPT !.tick = (@ + 1) % TickMod,
                  !.rem[k.cur] = IF r = 0 THEN Slice[k.cur] ELSE r]

(* Variant: the slice is not renewed. *)
CountTickNoReload(k) ==
    LET r == k.rem[k.cur] - 1
    IN  [k EXCEPT !.tick = (@ + 1) % TickMod, !.rem[k.cur] = r, !.yld[k.cur] = @ \/ r = 0]

(* rt_tick_increase up to the first rt_hw_interrupt_enable. *)
CountTick(k) ==
    LET r == k.rem[k.cur] - 1
    IN  [k EXCEPT !.tick = (@ + 1) % TickMod,
                  !.rem[k.cur] = IF r = 0 THEN Slice[k.cur] ELSE r,
                  !.yld[k.cur] = @ \/ r = 0]
=============================================================================
