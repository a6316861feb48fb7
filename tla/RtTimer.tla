------------------------------ MODULE RtTimer ------------------------------
(***************************************************************************)
(* timer.c: the timer lists, with timer functions that themselves start,    *)
(* stop, detach or change timers.  Hard timers are checked in the clock     *)
(* interrupt with interrupts disabled; soft timers in the timer thread,     *)
(* whose functions run with interrupts enabled, between whose steps         *)
(* everybody else may run.  Skip lists have one level, as configured.       *)
(* The timers of blocked threads are modelled in RtThread.                  *)
(***************************************************************************)
EXTENDS Integers, Lists

CONSTANTS Timer, NoTimer,
          Periods,           \* the values of init_tick that callers use
          TickMod,           \* RT_TICK_MAX + 1
          MaxLate            \* bound: ticks a soft timer is left unserved

Half == (TickMod - 1) \div 2

(* rt_timer_start tells an earlier timeout from a later one only within half *)
(* a turn of rt_tick: a soft timer that is overdue by x and one started for   *)
(* more than RT_TICK_MAX / 2 - x get into the wrong order.                    *)
TimerAssumption ==
    /\ TickMod \in Nat \ {0} /\ MaxLate \in Nat
    /\ NoTimer \notin Timer
    /\ \A p \in Periods : p \in 1..(Half - 1) /\ p + MaxLate <= Half

VARIABLES
    tick,        \* rt_tick
    known,       \* the timers that are initialised
    active, periodic, isSoft, init, timeout,   \* the flags, init_tick and
                 \* timeout_tick of a timer
    hard, soft,  \* _timer_list, _soft_timer_list
    local,       \* which check -> its list of the timer it runs (at most one)
    check,       \* the clock interrupt: [at, timer]
    service,     \* the timer thread: [at, timer, wait]
    raced,       \* history: between the timer thread's last look at its list
                 \* and its sleep a timer was started or a tick has passed
    wanted       \* history: the timers that were started, not stopped since,
                 \* and have not fired for the last time

fields == <<known, active, periodic, isSoft, init>>
lists == <<hard, soft, local>>
history == <<raced, wanted>>
vars == <<tick, fields, timeout, lists, check, service, history>>

Init ==
    /\ tick = 0 /\ known = {}
    /\ active = [t \in Timer |-> FALSE]
    /\ periodic = [t \in Timer |-> FALSE]
    /\ isSoft = [t \in Timer |-> FALSE]
    /\ init = [t \in Timer |-> 0]
    /\ timeout = [t \in Timer |-> 0]
    /\ hard = <<>> /\ soft = <<>>
    /\ local = [hard |-> <<>>, soft |-> <<>>]
    /\ check = [at |-> "idle", timer |-> NoTimer]
    /\ service = [at |-> "look", timer |-> NoTimer, wait |-> 0]
    /\ raced = FALSE /\ wanted = {}

(* The unsigned difference a - b. *)
Minus(a, b) == (a - b) % TickMod
Due(t) == Minus(tick, timeout[t]) < Half

(* RT_SOFT_TIMER_BUSY: only while a soft timer's function runs. *)
Busy == service.at = "call"
Suspended == service.at \in {"gone", "delayed"}
(* The timer thread has looked at its list and is about to sleep. *)
Decided == service.at \in {"suspend", "delay"}

-----------------------------------------------------------------------------
(* _timer_init on a timer that is not in use. *)
Setup(t) ==
    /\ t \notin known
    /\ known' = known \cup {t}
    /\ active' = [active EXCEPT ![t] = FALSE]
    /\ \E p, s \in BOOLEAN, n \in Periods :
          /\ periodic' = [periodic EXCEPT ![t] = p]
          /\ isSoft' = [isSoft EXCEPT ![t] = s]
          /\ init' = [init EXCEPT ![t] = n]
    /\ UNCHANGED <<timeout, lists, service, history>>

(* _timer_remove, whatever list t is in; the timeout of a timer in no list  *)
(* is not looked at again (kept 0).                                         *)
Removed(t) ==
    /\ hard' = Unlink(hard, t)
    /\ soft' = Unlink(soft, t)
    /\ local' = [k \in DOMAIN local |-> Unlink(local[k], t)]

(* The search of rt_timer_start: behind the timers that are due no later.   *)
Place(s, to) ==
    LET later == {i \in DOMAIN s : Minus(timeout[s[i]], to) \in 1..(Half - 1)}
    IN  IF later = {} THEN Len(s)
        ELSE (CHOOSE i \in later : \A j \in later : i <= j) - 1

(* Variant: only a timer thread without any timer is resumed. *)
WakesIfGone(t) == isSoft[t] /\ ~Busy /\ service.at = "gone"

(* rt_timer_start resumes the timer thread, which then looks again. *)
Wakes(t) == isSoft[t] /\ ~Busy /\ Suspended

(* Variant: a timer that is started again is not removed first. *)
EnlistTwice(t) ==
    LET to == (tick + init[t]) % TickMod
    IN  /\ timeout' = [timeout EXCEPT ![t] = to]
        /\ active' = [active EXCEPT ![t] = TRUE]
        /\ hard' = IF isSoft[t] THEN hard ELSE LinkAfter(hard, Place(hard, to), t)
        /\ soft' = IF isSoft[t] THEN LinkAfter(soft, Place(soft, to), t) ELSE soft
        /\ local' = [k \in DOMAIN local |-> Unlink(local[k], t)]
        /\ UNCHANGED <<known, periodic, isSoft, init>>

(* rt_timer_start up to the timer thread: removal, new timeout, insertion.  *)
Enlist(t) ==
    LET to == (tick + init[t]) % TickMod
        h == Unlink(hard, t)
        s == Unlink(soft, t)
    IN  /\ timeout' = [timeout EXCEPT ![t] = to]
        /\ active' = [active EXCEPT ![t] = TRUE]
        /\ hard' = IF isSoft[t] THEN h ELSE LinkAfter(h, Place(h, to), t)
        /\ soft' = IF isSoft[t] THEN LinkAfter(s, Place(s, to), t) ELSE s
        /\ local' = [k \in DOMAIN local |-> Unlink(local[k], t)]
        /\ UNCHANGED <<known, periodic, isSoft, init>>

Start(t) ==
    /\ t \in known
    /\ Enlist(t)
    /\ wanted' = wanted \cup {t}
    /\ service' = IF Wakes(t) THEN [service EXCEPT !.at = "check", !.wait = 0]
                              ELSE service
    /\ raced' = (raced \/ (isSoft[t] /\ Decided))

(* rt_timer_stop does nothing to a timer that is not active. *)
Stop(t) ==
    /\ t \in known
    /\ IF active[t]
       THEN /\ Removed(t)
            /\ timeout' = [timeout EXCEPT ![t] = 0]
            /\ active' = [active EXCEPT ![t] = FALSE]
            /\ wanted' = wanted \ {t}
       ELSE UNCHANGED <<lists, active, timeout, wanted>>
    /\ UNCHANGED <<known, periodic, isSoft, init, service, raced>>

(* rt_timer_detach, rt_timer_delete; the fields mean nothing afterwards. *)
Detach(t) ==
    /\ t \in known
    /\ known' = known \ {t}
    /\ Removed(t)
    /\ timeout' = [timeout EXCEPT ![t] = 0]
    /\ active' = [active EXCEPT ![t] = FALSE]
    /\ periodic' = [periodic EXCEPT ![t] = FALSE]
    /\ isSoft' = [isSoft EXCEPT ![t] = FALSE]
    /\ init' = [init EXCEPT ![t] = 0]
    /\ wanted' = wanted \ {t}
    /\ UNCHANGED <<service, raced>>

(* rt_timer_control: the commands that set something. *)
Control(t) ==
    /\ t \in known
    /\ \/ \E n \in Periods \ {init[t]} : init' = [init EXCEPT ![t] = n] /\ UNCHANGED periodic
       \/ periodic' = [periodic EXCEPT ![t] = ~@] /\ UNCHANGED init
    /\ UNCHANGED <<known, active, isSoft, timeout, lists, service, history>>

(* Everybody while interrupts are enabled, and the function of a hard timer  *)
(* while they are not.                                                      *)
Operation == /\ check.at \in {"idle", "call"}
             /\ \E t \in Timer : Setup(t) \/ Start(t) \/ Stop(t) \/ Detach(t)
                                \/ Control(t)
             /\ UNCHANGED <<tick, check>>

-----------------------------------------------------------------------------
(* The timer t of a list that is due is moved to the check's own list       *)
(* before its function is called; a one-shot timer is then inactive.        *)
Take(k, t) ==
    /\ hard' = Unlink(hard, t)
    /\ soft' = Unlink(soft, t)
    /\ local' = [local EXCEPT ![k] = <<t>>]
    /\ timeout' = [timeout EXCEPT ![t] = 0]
    /\ active' = [active EXCEPT ![t] = periodic[t]]
    /\ wanted' = IF periodic[t] THEN wanted ELSE wanted \ {t}
    /\ UNCHANGED <<known, periodic, isSoft, init>>

(* The timer's function is over and it is not to run again. *)
Retire(t) == /\ Removed(t)
             /\ wanted' = wanted \ {t}
             /\ UNCHANGED <<fields, timeout>>

(* Variant: a periodic timer is started again whatever its function did. *)
ReturnRestarts(k, t) ==
    IF periodic[t] /\ t \in known THEN Enlist(t) /\ UNCHANGED wanted
    ELSE IF local[k] = <<>> THEN UNCHANGED <<fields, timeout, lists, wanted>>
    ELSE Retire(t)

(* After the function: a timer that is no longer in the check's list was    *)
(* stopped, detached or started by somebody.                                *)
Return(k, t) ==
    IF local[k] = <<>> THEN UNCHANGED <<fields, timeout, lists, wanted>>
    ELSE IF periodic[t] /\ active[t] THEN Enlist(t) /\ UNCHANGED wanted
    ELSE Retire(t)

(* How late the soft timer t is. *)
Late(t) == IF Due(t) THEN Minus(tick, timeout[t]) ELSE 0

(* rt_tick_increase up to rt_timer_check.  The sleep of the timer thread is *)
(* itself a hard timer, which is due after `wait' ticks, at the next tick   *)
(* if that is 0.                                                            *)
Tick ==
    /\ check.at = "idle"
    /\ \A t \in Elems(soft) : Late(t) < MaxLate
    /\ tick' = (tick + 1) % TickMod
    /\ check' = [check EXCEPT !.at = "look"]
    /\ service' = IF service.at # "delayed" THEN service
                  ELSE IF service.wait > 1 THEN [service EXCEPT !.wait = @ - 1]
                  ELSE [service EXCEPT !.at = "check", !.wait = 0]
    /\ raced' = (raced \/ Decided)
    /\ UNCHANGED <<fields, timeout, lists, wanted>>

(* rt_timer_check, in the clock interrupt. *)
HardFire ==
    /\ check.at = "look" /\ hard # <<>> /\ Due(hard[1])
    /\ Take("hard", hard[1])
    /\ check' = [at |-> "call", timer |-> hard[1]]
    /\ UNCHANGED <<tick, service, raced>>

HardReturn ==
    /\ check.at = "call"
    /\ Return("hard", check.timer)
    /\ check' = [at |-> "look", timer |-> NoTimer]
    /\ UNCHANGED <<tick, service, raced>>

HardEnd ==
    /\ check.at = "look"
    /\ hard # <<>> => ~Due(hard[1])
    /\ check' = [check EXCEPT !.at = "idle"]
    /\ UNCHANGED <<tick, fields, timeout, lists, service, history>>

-----------------------------------------------------------------------------
(* _timer_thread_entry.  Its steps are taken while interrupts are enabled.  *)
At(pc) == service.at = pc /\ check.at = "idle"
Goto(pc) == service' = [service EXCEPT !.at = pc]

(* _timer_list_next_timeout, and the time left until then. *)
Look ==
    /\ At("look")
    /\ raced' = FALSE
    /\ IF soft = <<>> THEN Goto("suspend")
       ELSE LET wait == Minus(timeout[soft[1]], tick)
            IN  IF wait < Half
                THEN service' = [service EXCEPT !.at = "delay", !.wait = wait]
                ELSE Goto("check")
    /\ UNCHANGED <<tick, fields, timeout, lists, check, wanted>>

(* rt_thread_suspend on itself, or rt_thread_delay. *)
Sleep ==
    /\ Decided /\ check.at = "idle"
    /\ Goto(IF service.at = "suspend" THEN "gone" ELSE "delayed")
    /\ UNCHANGED <<tick, fields, timeout, lists, check, history>>

(* rt_soft_timer_check. *)
SoftFire ==
    /\ At("check") /\ soft # <<>> /\ Due(soft[1])
    /\ Take("soft", soft[1])
    /\ service' = [service EXCEPT !.at = "call", !.timer = soft[1]]
    /\ UNCHANGED <<tick, check, raced>>

SoftReturn ==
    /\ At("call")
    /\ Return("soft", service.timer)
    /\ service' = [service EXCEPT !.at = "check", !.timer = NoTimer]
    /\ UNCHANGED <<tick, check, raced>>

SoftEnd ==
    /\ At("check")
    /\ soft # <<>> => ~Due(soft[1])
    /\ Goto("look")
    /\ UNCHANGED <<tick, fields, timeout, lists, check, history>>

Next == \/ Operation \/ Tick \/ HardFire \/ HardReturn \/ HardEnd
        \/ Look \/ Sleep \/ SoftFire \/ SoftReturn \/ SoftEnd

Spec == Init /\ [][Next]_vars

-----------------------------------------------------------------------------
(* A timer is in one place; the lists hold active timers in the order in    *)
(* which they are due, so that rt_timer_stop, which goes by the flag,       *)
(* removes every timer that could fire, and looking at the first suffices.  *)
Remaining(t) == LET d == Minus(timeout[t], tick)
                IN  IF d < Half THEN d ELSE d - TickMod
ListSound(s) ==
    /\ IsOnce(s)
    /\ \A i \in DOMAIN s : s[i] \in known /\ active[s[i]]
    /\ \A i, j \in DOMAIN s : i < j => Remaining(s[i]) <= Remaining(s[j])
TimersListed ==
    /\ ListSound(hard) /\ ListSound(soft)
    /\ \A t \in Elems(hard) : ~isSoft[t]
    /\ \A t \in Elems(soft) : isSoft[t]
    /\ \A k \in DOMAIN local : Elems(local[k]) \cap (Elems(hard) \cup Elems(soft)) = {}

(* The timer thread sleeps without limit only if no soft timer is active    *)
(* and otherwise wakes when the first one is due, at the next tick if it is *)
(* due already.  Exempt: what happens between its look and its sleep        *)
(* (timer.c:800-819), after which it sleeps too long or for ever.           *)
ServiceWakesInTime ==
    Suspended /\ ~raced =>
        \A t \in Elems(soft) :
            /\ service.at = "delayed"
            /\ service.wait <= Remaining(t) \/ (service.wait <= 1 /\ Remaining(t) <= 1)

(* The lists implement timers that are due after their interval, never      *)
(* before and, in the clock interrupt, never later, and that do not fire    *)
(* once stopped.                                                            *)
InCheck(t) == \E k \in DOMAIN local : t \in Elems(local[k])
Listed(t) == t \in Elems(hard) \cup Elems(soft)
Abs == INSTANCE AbsTimers
       WITH interval <- init,
            phase <- [t \in Timer |-> CASE Listed(t) -> "going"
                                        [] InCheck(t) /\ active[t] -> "again"
                                        [] InCheck(t) /\ ~active[t] -> "once"
                                        [] OTHER -> "off"],
            left <- [t \in Timer |-> IF Listed(t) THEN Remaining(t) ELSE 0]
TimersKeepPromises == Abs!Spec
=============================================================================
