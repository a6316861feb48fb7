------------------------------ MODULE RtMutex ------------------------------
(***************************************************************************)
(* Mutexes (ipc.c): taken by their owner as often as it likes, waited for   *)
(* in the order of priority, with the owner raised to the priority of the   *)
(* highest waiter and set back when it lets go.  The last release hands the *)
(* mutex to the first waiter.                                               *)
(***************************************************************************)
EXTENDS RtWait

CONSTANTS
    Mutex,      \* the mutexes, each with its suspend list in Obj
    HoldMax,    \* RT_MUTEX_HOLD_MAX
    Nobody      \* RT_NULL as an owner

ASSUME MutexAssumption ==
    /\ Mutex \subseteq Obj
    /\ \A m \in Mutex : Flag[m] = "prio"
    /\ HoldMax \in Nat \ {0}
    /\ Nobody \notin Thread

NoPrio == MaxPrio           \* 0xFF, the original_priority of a free mutex

MutexState == [ value : {0, 1}, owner : Thread \cup {Nobody},
                hold : 0..HoldMax, orig : Prio \cup {NoPrio} ]

VARIABLES
    mx,     \* [Mutex -> MutexState]
    unmade, \* the detached or deleted mutexes: applications let them be
    depth   \* [Thread -> [Mutex -> Nat]]: history, takes that returned RT_EOK
            \* and were not yet undone by a release

mutexVars == <<mx, unmade, depth>>

Free == [value |-> 1, owner |-> Nobody, hold |-> 0, orig |-> NoPrio]

MutexInitState ==
    /\ mx = [m \in Mutex |-> Free]
    /\ unmade = {}
    /\ depth = [t \in Thread |-> [m \in Mutex |-> 0]]

Own(t, m, n) == [value |-> 0, owner |-> t, hold |-> n, orig |-> k.prio[t]]

-----------------------------------------------------------------------------
(* rt_mutex_take, which first clears the caller's error. *)
Cleared(t) == [k EXCEPT !.err[t] = "ok"]

MutexTakeFree(t, m) ==
    /\ Asks(t, "mutex_take") /\ m \notin unmade
    /\ mx[m].owner # t /\ mx[m].value > 0
    /\ k' = Cleared(t)
    /\ mx' = [mx EXCEPT ![m] = Own(t, m, @.hold + 1)]
    /\ depth' = [depth EXCEPT ![t][m] = @ + 1]
    /\ UNCHANGED <<cpu, pc, arg, isr, prog, waitVars, unmade>>

(* The owner takes it again; at RT_MUTEX_HOLD_MAX it is refused. *)
MutexTakeAgain(t, m) ==
    /\ Asks(t, "mutex_take") /\ m \notin unmade
    /\ mx[m].owner = t
    /\ k' = Cleared(t)
    /\ IF mx[m].hold < HoldMax
       THEN /\ mx' = [mx EXCEPT ![m].hold = @ + 1]
            /\ depth' = [depth EXCEPT ![t][m] = @ + 1]
       ELSE UNCHANGED <<mx, depth>>
    /\ UNCHANGED <<cpu, pc, arg, isr, prog, waitVars, unmade>>

Busy(t, m) == mx[m].owner # t /\ mx[m].value = 0

MutexTakeRefused(t, m) ==
    /\ Asks(t, "mutex_take") /\ m \notin unmade
    /\ Busy(t, m) /\ NoTime \in app.timeouts[t]
    /\ k' = [k EXCEPT !.err[t] = "timeout"]
    /\ UNCHANGED <<cpu, pc, arg, isr, prog, waitVars, mutexVars>>

(* Variant: the owner keeps its priority. *)
NoBoost(x, t, m) == x

(* The owner inherits the priority of a higher waiter. *)
Boost(x, t, m) ==
    IF x.prio[t] < x.prio[mx[m].owner] THEN ChangePriority(x, mx[m].owner, x.prio[t]) ELSE x

MutexTakeWait(t, m, n) ==
    /\ Asks(t, "mutex_take") /\ m \notin unmade
    /\ Busy(t, m) /\ n # NoTime
    /\ \E b \in {Boost(Cleared(t), t, m)} : k' = Block(b, t, m, n)
    /\ Enter(t, "mutex_take", m, n, NoCall.msg)
    /\ Goto(t, "wait_sched")
    /\ UNCHANGED <<cpu, arg, isr, prog, app, mutexVars>>

(* The caller runs again with error RT_EOK: it owns the mutex. *)
MutexTaken(t) ==
    /\ Woken(t, "mutex_take")
    /\ depth' = [depth EXCEPT ![t][frame[t].obj] = @ + 1]
    /\ Leave(t) /\ Goto(t, "user")
    /\ UNCHANGED <<k, cpu, arg, isr, prog, app, mx, unmade>>

-----------------------------------------------------------------------------
(* rt_mutex_release. *)

(* Only the owner releases. *)
MutexReleaseRefused(t, m) ==
    /\ Asks(t, "mutex_release") /\ m \notin unmade
    /\ mx[m].owner # t
    /\ k' = [k EXCEPT !.err[t] = "error"]
    /\ UNCHANGED <<cpu, pc, arg, isr, prog, waitVars, mutexVars>>

MutexReleaseInner(t, m) ==
    /\ Asks(t, "mutex_release") /\ m \notin unmade
    /\ mx[m].owner = t /\ mx[m].hold > 1
    /\ mx' = [mx EXCEPT ![m].hold = @ - 1]
    /\ depth' = [depth EXCEPT ![t][m] = @ - 1]
    /\ UNCHANGED <<k, cpu, pc, arg, isr, prog, waitVars, unmade>>

(* The priority the owner had when it took the mutex. *)
Restored(t, m) ==
    IF mx[m].orig # k.prio[t] THEN ChangePriority(k, t, mx[m].orig) ELSE k

(* Variant: the first waiter is woken and finds the mutex free. *)
MutexReleaseNoHandOver(t, m) ==
    /\ Asks(t, "mutex_release") /\ m \notin unmade
    /\ mx[m].owner = t /\ mx[m].hold = 1
    /\ mx' = [mx EXCEPT ![m] = Free]
    /\ \E r \in {Restored(t, m)} : k' = WakeFirst(r, m)
    /\ IF k.wait[m] # <<>> THEN Goto(t, "sched") ELSE UNCHANGED pc
    /\ depth' = [depth EXCEPT ![t][m] = @ - 1]
    /\ UNCHANGED <<cpu, arg, isr, prog, waitVars, unmade>>

MutexRelease(t, m) ==
    /\ Asks(t, "mutex_release") /\ m \notin unmade
    /\ mx[m].owner = t /\ mx[m].hold = 1
    /\ mx' = [mx EXCEPT ![m] = IF k.wait[m] = <<>> THEN Free ELSE Own(Head(k.wait[m]), m, 1)]
    /\ \E r \in {Restored(t, m)} : k' = WakeFirst(r, m)
    /\ IF k.wait[m] # <<>> THEN Goto(t, "sched") ELSE UNCHANGED pc
    /\ depth' = [depth EXCEPT ![t][m] = @ - 1]
    /\ UNCHANGED <<cpu, arg, isr, prog, waitVars, unmade>>

(* rt_mutex_detach and rt_mutex_delete. *)
MutexDetach(t, m) ==
    /\ Asks(t, "mutex_detach") /\ m \notin unmade
    /\ unmade' = unmade \cup {m}
    /\ Enter(t, "mutex_detach", m, NoTime, NoCall.msg)
    /\ Goto(t, "wake_test")
    /\ UNCHANGED <<k, cpu, arg, isr, prog, app, mx, depth>>

MutexDetached(t) ==
    /\ AllWoken(t, "mutex_detach")
    /\ Leave(t)
    /\ Goto(t, "user") \/ Goto(t, "sched")
    /\ UNCHANGED <<k, cpu, arg, isr, prog, app, mutexVars>>

MutexStep(t) ==
    \/ \E m \in Mutex : \/ MutexTakeFree(t, m)
                        \/ MutexTakeAgain(t, m)
                        \/ MutexTakeRefused(t, m)
                        \/ \E n \in app.timeouts[t] : MutexTakeWait(t, m, n)
                        \/ MutexReleaseRefused(t, m)
                        \/ MutexReleaseInner(t, m)
                        \/ MutexRelease(t, m)
                        \/ MutexDetach(t, m)
    \/ MutexTaken(t)
    \/ MutexDetached(t)

-----------------------------------------------------------------------------
(* Properties. *)

(* t was handed the mutex and has not yet returned with it. *)
Handed(t, m) == /\ frame[t].call = "mutex_take" /\ frame[t].obj = m
                /\ k.err[t] = "ok" /\ k.stat[t] # "suspend"

(* Whatever the order of release, timeout and interrupt, a thread holds a    *)
(* mutex exactly as often as its calls of take and release say, and nobody   *)
(* holds a mutex that another thread holds or that counts as free.           *)
MutexExclusive ==
    \A m \in Mutex :
       /\ mx[m].owner = Nobody <=> mx[m].value = 1
       /\ \A t \in Thread :
             depth[t][m] + (IF Handed(t, m) THEN 1 ELSE 0)
               = IF mx[m].owner = t THEN mx[m].hold ELSE 0

(* The owner of a mutex runs at least at the priority of every thread that   *)
(* waits for it, and a thread that owns none at its own (one mutex at a      *)
(* time; what nested ones do is in the README).                              *)
PriorityInherited ==
    /\ \A m \in Mutex \ unmade, t \in Thread :
          Waiting(t, m) => mx[m].owner # Nobody /\ k.prio[mx[m].owner] <= k.prio[t]
    /\ \A t \in Thread : (\A m \in Mutex : mx[m].owner # t) => k.prio[t] = InitPrio[t]
=============================================================================
