------------------------------- MODULE RtWait -------------------------------
(***************************************************************************)
(* What the IPC objects of ipc.c share: a thread suspends itself in the     *)
(* list of an object, for ever or with its timer running, is woken by       *)
(* whoever resumes it first, and learns from its error field which it was.  *)
(***************************************************************************)
EXTENDS RtThread, SequencesExt

CONSTANTS
    Flag,       \* [Obj -> {"fifo", "prio"}]: RT_IPC_FLAG_FIFO, RT_IPC_FLAG_PRIO
    WaitArg,    \* timeouts of the calls in ticks; Forever is RT_WAITING_FOREVER
    Msg,        \* mails
    Apps        \* the applications considered

Forever == -1
NoTime  == 0            \* RT_WAITING_NO

(* An application: its programs, the calls of ipc.c and mempool.c each       *)
(* thread makes in addition and those the device interrupt makes, the        *)
(* timeouts they give and the mails they send.                               *)
IpcCall == {"take", "release", "sem_reset", "sem_detach",
            "send", "urgent", "recv", "mb_reset", "mb_detach",
            "mutex_take", "mutex_release", "mutex_detach",
            "event_send", "event_recv", "event_reset", "event_detach",
            "mq_send", "mq_urgent", "mq_recv", "mq_reset", "mq_detach",
            "mp_alloc", "mp_free", "mp_detach"}
App == [ programs : SUBSET Programs,
         calls : [Thread -> SUBSET IpcCall], device : SUBSET IpcCall,
         timeouts : [Thread -> SUBSET WaitArg], mails : SUBSET Msg ]

ASSUME WaitAssumption ==
    /\ Flag \in [Obj -> {"fifo", "prio"}]
    /\ WaitArg \subseteq {Forever} \cup 0..(Half - 1)
    /\ Apps \subseteq App
    /\ Obj # {} /\ Msg # {}
    /\ IsFiniteSet(Thread)

(* The call a thread is in: which, on what list, how long it may still wait, *)
(* since when it waits (the local tick_delta) and the mail it sends.         *)
Frame == [ call : {"none"} \cup IpcCall, obj : Obj, left : {Forever} \cup 0..(Half - 1),
           since : Tick, msg : Msg ]

VARIABLES
    frame,  \* [Thread -> Frame]
    app     \* the application, chosen once

waitVars == <<frame, app>>

NoCall == [call |-> "none", obj |-> CHOOSE o \in Obj : TRUE, left |-> 0,
           since |-> 0, msg |-> CHOOSE v \in Msg : TRUE]

WaitInit == /\ frame = [t \in Thread |-> NoCall]
            /\ app \in Apps
            /\ prog \in app.programs

-----------------------------------------------------------------------------
(* From kernel state to kernel state. *)

(* The place of t in the list: last, or before the first thread of a lower   *)
(* priority.                                                                 *)
Place(x, t, o) ==
    LET w == x.wait[o]
    IN  IF Flag[o] = "fifo" THEN Len(w)
        ELSE CHOOSE i \in 0..Len(w) :
                /\ \A j \in 1..i : x.prio[w[j]] <= x.prio[t]
                /\ i < Len(w) => x.prio[t] < x.prio[w[i + 1]]

(* _ipc_list_suspend, for the running thread. *)
ListSuspend(x, t, o) ==
    LET s == Suspend(x, t)
    IN  [s EXCEPT !.wait[o] = LinkAfter(@, Place(s, t, o), t), !.bad = @ \/ Linked(s, t)]

(* Variant: the error of an earlier wait is kept. *)
BlockKeepError(x, t, o, n) ==
    LET s == ListSuspend(x, t, o)
    IN  IF n > 0 THEN TimerStart(s, t, n) ELSE s

(* The stretch that suspends the caller: error, list, timer. *)
Block(x, t, o, n) ==
    LET s == ListSuspend([x EXCEPT !.err[t] = "ok"], t, o)
    IN  IF n > 0 THEN TimerStart(s, t, n) ELSE s

(* _ipc_list_resume. *)
WakeFirst(x, o) == IF x.wait[o] = <<>> THEN x ELSE Resume(x, Head(x.wait[o]))

(* One turn of _ipc_list_resume_all. *)
WakeWithError(x, t) == Resume([x EXCEPT !.err[t] = "error"], t)

(* _ipc_list_resume_all with interrupts disabled. *)
WakeAll(x, o) == FoldLeft(WakeWithError, x, x.wait[o])

-----------------------------------------------------------------------------
(* Steps. *)

Asks(t, call) == At(t, "user") /\ call \in app.calls[t]

Enter(t, call, o, n, v) ==
    frame' = [frame EXCEPT ![t] = [call |-> call, obj |-> o, left |-> n,
                                   since |-> IF n > 0 THEN k.tick ELSE 0, msg |-> v]]
Leave(t) == frame' = [frame EXCEPT ![t] = NoCall]

(* rt_schedule after the caller has suspended itself. *)
WaitSchedule(t) ==
    /\ At(t, "wait_sched")
    /\ k' = Schedule(k)
    /\ Goto(t, "woken")
    /\ UNCHANGED <<cpu, arg, isr, prog, waitVars>>

(* The wait is over and error says it failed: the call returns the error.    *)
WaitFails(t) ==
    /\ At(t, "woken") /\ k.err[t] # "ok"
    /\ Goto(t, "user")
    /\ Leave(t)
    /\ UNCHANGED <<k, cpu, arg, isr, prog, app>>

Woken(t, call) == At(t, "woken") /\ frame[t].call = call /\ k.err[t] = "ok"

(* What is left of the timeout when the caller runs again. *)
LeftOf(c, now) ==
    IF c.left <= 0 THEN c.left
    ELSE IF Minus(now, c.since) >= c.left THEN 0 ELSE c.left - Minus(now, c.since)
Left(t) == LeftOf(frame[t], k.tick)

(* _ipc_list_resume_all with interrupts enabled (detach and delete): the list *)
(* is tested before interrupts are disabled; a list that was emptied in      *)
(* between has its head taken for a thread.                                  *)
WakeMore(t) ==
    /\ At(t, "wake_test") /\ k.wait[frame[t].obj] # <<>>
    /\ Goto(t, "wake_take")
    /\ UNCHANGED <<k, cpu, arg, isr, prog, waitVars>>

WakeTake(t) ==
    /\ At(t, "wake_take")
    /\ LET w == k.wait[frame[t].obj]
       IN  k' = IF w = <<>> THEN [k EXCEPT !.bad = TRUE] ELSE WakeWithError(k, Head(w))
    /\ Goto(t, "wake_test")
    /\ UNCHANGED <<cpu, arg, isr, prog, waitVars>>

AllWoken(t, call) ==
    At(t, "wake_test") /\ frame[t].call = call /\ k.wait[frame[t].obj] = <<>>

(* The device's interrupt handler makes a call of ipc.c. *)
DeviceAsks(call) == isr # "loop" /\ ~k.bad /\ call \in app.device

WaitStep(t) == \/ WaitSchedule(t)
               \/ WaitFails(t)
               \/ WakeMore(t)
               \/ WakeTake(t)

-----------------------------------------------------------------------------
(* Properties of waiting. *)

(* t is suspended in the list of the object of its call. *)
Waiting(t, o) == t \in Elems(k.wait[o])

(* A thread is in the list of an object only while it is in a call on that   *)
(* object; if the call has a timeout its timer is running, with the ticks    *)
(* that were left; if not, none is (ipc.c:540-551).                          *)
WaitersTimed ==
    \A t \in Thread, o \in Obj : Waiting(t, o) =>
        /\ frame[t].obj = o /\ pc[t] \in {"wait_sched", "woken"}
        /\ k.act[t] <=> frame[t].left > 0
        /\ k.act[t] => k.tout[t] = (frame[t].since + frame[t].left) % TickMod

(* The first thread of a list with RT_IPC_FLAG_PRIO has the highest priority *)
(* of those waiting (no thread's priority changes in these applications).    *)
WaitersInOrder ==
    \A o \in Obj : Flag[o] = "prio" =>
        \A i, j \in DOMAIN k.wait[o] : i < j => k.prio[k.wait[o][i]] <= k.prio[k.wait[o][j]]

(* Waiting threads are suspended in one list, that of their call, in the     *)
(* order of the object's flag, and will be woken when their timeout is over  *)
(* but not before, however often they were woken and waited again.           *)
WaitersSound == QueuesMatchStat /\ WaitersTimed /\ WaitersInOrder
=============================================================================
