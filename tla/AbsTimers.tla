----------------------------- MODULE AbsTimers -----------------------------
(***************************************************************************)
(* What the timers of timer.c promise, without lists, ticks or checks: a    *)
(* timer that is going has `left' ticks to go; time does not pass a timer   *)
(* of the clock interrupt that is due; a timer fires when it is due and     *)
(* only then, and a periodic one is armed again unless its function (or     *)
(* somebody meanwhile) stopped it or made it a one-shot timer.              *)
(***************************************************************************)
EXTENDS Integers

CONSTANT Timer

VARIABLES phase,            \* "off", "going", or firing: "once", "again"
          left,             \* 0 unless going
          wanted,           \* started, not stopped since, to fire (again)
          periodic, isSoft, interval

settings == <<periodic, isSoft, interval>>

Init == /\ phase = [t \in Timer |-> "off"]
        /\ left = [t \in Timer |-> 0]
        /\ wanted = {}
        /\ periodic \in [Timer -> BOOLEAN]
        /\ isSoft \in [Timer -> BOOLEAN]
        /\ interval \in [Timer -> Nat]

Put(t, p, n) == /\ phase' = [phase EXCEPT ![t] = p]
                /\ left' = [left EXCEPT ![t] = n]

(* Only the timer t changes its settings. *)
OnlyOf(t) == \A u \in Timer \ {t} : /\ periodic'[u] = periodic[u]
                                    /\ isSoft'[u] = isSoft[u]
                                    /\ interval'[u] = interval[u]

Start(t) == /\ Put(t, "going", interval[t])
            /\ wanted' = wanted \cup {t}
            /\ UNCHANGED settings

(* Stopped, or detached: what it was set to then means nothing any more. *)
Stop(t) == /\ Put(t, "off", 0)
           /\ wanted' = wanted \ {t}
           /\ OnlyOf(t)

Change(t) == UNCHANGED <<phase, left, wanted>> /\ OnlyOf(t)

Fire(t) == /\ phase[t] = "going"
           /\ left[t] = 0 \/ (left[t] < 0 /\ isSoft[t])
           /\ Put(t, IF periodic[t] THEN "again" ELSE "once", 0)
           /\ wanted' = IF periodic[t] THEN wanted ELSE wanted \ {t}
           /\ UNCHANGED settings

(* The timer's function has returned. *)
Finish(t) == /\ phase[t] \in {"once", "again"}
             /\ IF phase[t] = "again" /\ periodic[t]
                THEN Put(t, "going", interval[t]) /\ UNCHANGED wanted
                ELSE Put(t, "off", 0) /\ wanted' = wanted \ {t}
             /\ UNCHANGED settings

Tick == /\ \A t \in Timer : phase[t] = "going" /\ ~isSoft[t] => left[t] > 0
        /\ left' = [t \in Timer |-> IF phase[t] = "going" THEN left[t] - 1 ELSE 0]
        /\ UNCHANGED <<phase, wanted, settings>>

Next == \/ Tick
        \/ \E t \in Timer : Start(t) \/ Stop(t) \/ Change(t) \/ Fire(t) \/ Finish(t)

vars == <<phase, left, wanted, settings>>

Spec == Init /\ [][Next]_vars
=============================================================================
