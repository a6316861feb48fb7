------------------------------- MODULE RtSem -------------------------------
(***************************************************************************)
(* Semaphores (ipc.c).  A release hands its unit to the first waiter, which *)
(* returns from rt_sem_take when it runs again, or counts it.               *)
(***************************************************************************)
EXTENDS RtWait

CONSTANTS
    Sem,        \* the semaphores, each with its suspend list in Obj
    SemMax,     \* RT_SEM_VALUE_MAX
    SemInit     \* values at initialisation and reset

ASSUME SemAssumption ==
    /\ Sem \subseteq Obj
    /\ SemMax \in Nat \ {0}
    /\ SemInit \subseteq 0..SemMax

VARIABLES
    value,  \* [Sem -> 0..SemMax]
    gone,   \* the detached or deleted semaphores: applications let them be
    units   \* [Sem -> Nat]: history, the units released and not yet taken

semVars == <<value, gone, units>>

SemInitState ==
    \E n \in SemInit :
       /\ value = [s \in Sem |-> n]
       /\ units = [s \in Sem |-> n]
       /\ gone = {}

-----------------------------------------------------------------------------
(* rt_sem_take.  With no unit and RT_WAITING_NO it returns at once and       *)
(* changes nothing.                                                          *)
TakeUnit(t, s) ==
    /\ Asks(t, "take") /\ s \notin gone /\ value[s] > 0
    /\ value' = [value EXCEPT ![s] = @ - 1]
    /\ units' = [units EXCEPT ![s] = @ - 1]
    /\ UNCHANGED <<k, cpu, pc, arg, isr, prog, waitVars, gone>>

(* Variant: the timer is not started. *)
TakeWaitUntimed(t, s, n) ==
    /\ Asks(t, "take") /\ s \notin gone /\ value[s] = 0 /\ n # NoTime
    /\ k' = Block(k, t, s, Forever)
    /\ Enter(t, "take", s, n, NoCall.msg)
    /\ Goto(t, "wait_sched")
    /\ UNCHANGED <<cpu, arg, isr, prog, app, semVars>>

TakeWait(t, s, n) ==
    /\ Asks(t, "take") /\ s \notin gone /\ value[s] = 0 /\ n # NoTime
    /\ k' = Block(k, t, s, n)
    /\ Enter(t, "take", s, n, NoCall.msg)
    /\ Goto(t, "wait_sched")
    /\ UNCHANGED <<cpu, arg, isr, prog, app, semVars>>

(* The caller runs again with error RT_EOK: it has been given a unit. *)
Taken(t) ==
    /\ Woken(t, "take")
    /\ units' = [units EXCEPT ![frame[t].obj] = @ - 1]
    /\ Leave(t) /\ Goto(t, "user")
    /\ UNCHANGED <<k, cpu, arg, isr, prog, app, value, gone>>

(* rt_sem_release: what happens to the unit; at RT_SEM_VALUE_MAX the call    *)
(* returns -RT_EFULL and changes nothing.                                    *)
Give(s) ==
    /\ k.wait[s] # <<>> \/ value[s] < SemMax
    /\ units' = [units EXCEPT ![s] = @ + 1]
    /\ value' = IF k.wait[s] # <<>> THEN value ELSE [value EXCEPT ![s] = @ + 1]

Release(t, s) ==
    /\ Asks(t, "release") /\ s \notin gone
    /\ Give(s)
    /\ k' = WakeFirst(k, s)
    /\ IF k.wait[s] # <<>> THEN Goto(t, "sched") ELSE UNCHANGED pc
    /\ UNCHANGED <<cpu, arg, isr, prog, waitVars, gone>>

(* rt_sem_release in an interrupt handler, which schedules if it woke one.   *)
DeviceRelease(s) ==
    /\ DeviceAsks("release") /\ s \notin gone
    /\ Give(s)
    /\ \E w \in {WakeFirst(k, s)} : k' = IF k.wait[s] # <<>> THEN Schedule(w) ELSE k
    /\ UNCHANGED <<cpu, pc, arg, isr, prog, waitVars, gone>>

(* Threads that were given a unit and have not yet returned with it.         *)
Given(s) == {t \in Thread : /\ frame[t].call = "take" /\ frame[t].obj = s
                            /\ k.err[t] = "ok" /\ k.stat[t] # "suspend"}

(* rt_sem_control, RT_IPC_CMD_RESET. *)
SemReset(t, s, n) ==
    /\ Asks(t, "sem_reset") /\ s \notin gone
    /\ k' = WakeAll(k, s)
    /\ value' = [value EXCEPT ![s] = n]
    /\ units' = [units EXCEPT ![s] = n + Cardinality(Given(s))]
    /\ Goto(t, "sched")
    /\ UNCHANGED <<cpu, arg, isr, prog, waitVars, gone>>

(* rt_sem_detach and rt_sem_delete. *)
SemDetach(t, s) ==
    /\ Asks(t, "sem_detach") /\ s \notin gone
    /\ gone' = gone \cup {s}
    /\ Enter(t, "sem_detach", s, NoTime, NoCall.msg)
    /\ Goto(t, "wake_test")
    /\ UNCHANGED <<k, cpu, arg, isr, prog, app, value, units>>

(* The detached object is unlinked; rt_sem_delete frees it, which calls      *)
(* rt_schedule (rt_exit_critical) as rt_sem_detach does not.                 *)
SemDetached(t) ==
    /\ AllWoken(t, "sem_detach")
    /\ Leave(t)
    /\ Goto(t, "user") \/ Goto(t, "sched")
    /\ UNCHANGED <<k, cpu, arg, isr, prog, app, semVars>>

SemStep(t) ==
    \/ \E s \in Sem : TakeUnit(t, s)
    \/ \E s \in Sem, n \in app.timeouts[t] : TakeWait(t, s, n)
    \/ Taken(t)
    \/ \E s \in Sem : Release(t, s)
    \/ \E s \in Sem, n \in SemInit : SemReset(t, s, n)
    \/ \E s \in Sem : SemDetach(t, s)
    \/ SemDetached(t)

-----------------------------------------------------------------------------
(* Properties. *)

(* No unit is lost and none is used twice: those released and not taken are  *)
(* in the value or in the hands of a woken thread, whichever of release,     *)
(* timeout and interrupt came first (ipc.c:559, 627-638).                    *)
UnitsConserved == \A s \in Sem : units[s] = value[s] + Cardinality(Given(s))

(* Nobody waits for a semaphore that has units. *)
NoneWaitsForUnits == \A s \in Sem : k.wait[s] # <<>> => value[s] = 0
=============================================================================
