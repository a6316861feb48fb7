------------------------------ MODULE RtEvent ------------------------------
(***************************************************************************)
(* Event sets (ipc.c).  A thread waits for all or for one of a set of       *)
(* flags and may ask that those it gets be cleared.  A send goes through    *)
(* the waiting threads in their order and clears as it goes, so that a flag *)
(* the first one cleared is gone for the next.                              *)
(***************************************************************************)
EXTENDS RtWait

CONSTANTS
    Event,      \* the events, each with its suspend list in Obj
    Bit,        \* the flags of an event
    Sent,       \* the sets that are sent
    Wants       \* [Thread -> SUBSET Want]: what each thread asks for

(* event_set and event_info of a thread. *)
Want == [ set : SUBSET Bit \ {{}}, all : BOOLEAN, clear : BOOLEAN ]

ASSUME EventAssumption ==
    /\ Event \subseteq Obj
    /\ Sent \subseteq SUBSET Bit \ {{}}
    /\ Wants \in [Thread -> SUBSET Want]

VARIABLES
    flags,  \* [Event -> SUBSET Bit]: event->set
    want,   \* [Thread -> Want]; its set is what was received once it was
    over    \* the detached or deleted events: applications let them be

eventVars == <<flags, want, over>>

EventInitState ==
    /\ flags = [e \in Event |-> {}]
    /\ want = [t \in Thread |-> [set |-> Bit, all |-> TRUE, clear |-> FALSE]]
    /\ over = {}

Met(w, fs) == IF w.all THEN w.set \subseteq fs ELSE w.set \cap fs # {}

-----------------------------------------------------------------------------
(* rt_event_send: one waiting thread after the other.  The state of the walk *)
(* is the kernel's, the flags that are left and what the threads want.       *)

(* Variant: the flags are not cleared. *)
ServeUncleared(x, t) ==
    IF ~Met(x.want[t], x.flags) THEN x
    ELSE [x EXCEPT !.want[t].set = @ \cap x.flags, !.k = Resume(@, t)]

Serve(x, t) ==
    IF ~Met(x.want[t], x.flags) THEN x
    ELSE LET got == x.want[t].set \cap x.flags
         IN  [k     |-> Resume(x.k, t),
              flags |-> IF x.want[t].clear THEN x.flags \ got ELSE x.flags,
              want  |-> [x.want EXCEPT ![t].set = got]]

Walk(e, set) ==
    FoldLeft(Serve, [k |-> k, flags |-> flags[e] \cup set, want |-> want], k.wait[e])

Settle(e, x) == flags' = [flags EXCEPT ![e] = x.flags] /\ want' = x.want

EventSend(t, e, set) ==
    /\ Asks(t, "event_send") /\ e \notin over
    /\ \E x \in {Walk(e, set)} :
          /\ k' = x.k /\ Settle(e, x)
          /\ IF x.k # k THEN Goto(t, "sched") ELSE UNCHANGED pc
    /\ UNCHANGED <<cpu, arg, isr, prog, waitVars, over>>

(* rt_event_send in an interrupt handler. *)
DeviceEventSend(e, set) ==
    /\ DeviceAsks("event_send") /\ e \notin over
    /\ \E x \in {Walk(e, set)} :
          /\ k' = IF x.k # k THEN Schedule(x.k) ELSE k
          /\ Settle(e, x)
    /\ UNCHANGED <<cpu, pc, arg, isr, prog, waitVars, over>>

-----------------------------------------------------------------------------
(* rt_event_recv, which first clears the caller's error. *)

EventRecvNow(t, e, w) ==
    /\ Asks(t, "event_recv") /\ e \notin over
    /\ Met(w, flags[e])
    /\ k' = [k EXCEPT !.err[t] = "ok"]
    /\ want' = [want EXCEPT ![t] = [w EXCEPT !.set = @ \cap flags[e]]]
    /\ flags' = [flags EXCEPT ![e] = IF w.clear THEN @ \ w.set ELSE @]
    /\ UNCHANGED <<cpu, pc, arg, isr, prog, waitVars, over>>

EventRecvRefused(t, e, w) ==
    /\ Asks(t, "event_recv") /\ e \notin over
    /\ ~Met(w, flags[e]) /\ NoTime \in app.timeouts[t]
    /\ k' = [k EXCEPT !.err[t] = "timeout"]
    /\ UNCHANGED <<cpu, pc, arg, isr, prog, waitVars, eventVars>>

EventRecvWait(t, e, w, n) ==
    /\ Asks(t, "event_recv") /\ e \notin over
    /\ ~Met(w, flags[e]) /\ n # NoTime
    /\ want' = [want EXCEPT ![t] = w]
    /\ k' = Block(k, t, e, n)
    /\ Enter(t, "event_recv", e, n, NoCall.msg)
    /\ Goto(t, "wait_sched")
    /\ UNCHANGED <<cpu, arg, isr, prog, app, flags, over>>

EventReceived(t) ==
    /\ Woken(t, "event_recv")
    /\ Leave(t) /\ Goto(t, "user")
    /\ UNCHANGED <<k, cpu, arg, isr, prog, app, eventVars>>

(* rt_event_control, RT_IPC_CMD_RESET. *)
EventReset(t, e) ==
    /\ Asks(t, "event_reset") /\ e \notin over
    /\ k' = WakeAll(k, e)
    /\ flags' = [flags EXCEPT ![e] = {}]
    /\ Goto(t, "sched")
    /\ UNCHANGED <<cpu, arg, isr, prog, waitVars, want, over>>

(* rt_event_detach and rt_event_delete. *)
EventDetach(t, e) ==
    /\ Asks(t, "event_detach") /\ e \notin over
    /\ over' = over \cup {e}
    /\ Enter(t, "event_detach", e, NoTime, NoCall.msg)
    /\ Goto(t, "wake_test")
    /\ UNCHANGED <<k, cpu, arg, isr, prog, app, flags, want>>

EventDetached(t) ==
    /\ AllWoken(t, "event_detach")
    /\ Leave(t)
    /\ Goto(t, "user") \/ Goto(t, "sched")
    /\ UNCHANGED <<k, cpu, arg, isr, prog, app, eventVars>>

EventStep(t) ==
    \/ \E e \in Event :
          \/ \E set \in Sent : EventSend(t, e, set)
          \/ \E w \in Wants[t] : \/ EventRecvNow(t, e, w)
                                 \/ EventRecvRefused(t, e, w)
                                 \/ \E n \in app.timeouts[t] : EventRecvWait(t, e, w, n)
          \/ EventReset(t, e)
          \/ EventDetach(t, e)
    \/ EventReceived(t)
    \/ EventDetached(t)

-----------------------------------------------------------------------------
(* Properties. *)

(* No thread waits for what the event holds: whatever was sent while others  *)
(* were served, nobody stays asleep with its condition met.                  *)
NoMetWaiter ==
    \A e \in Event \ over, t \in Thread : Waiting(t, e) => ~Met(want[t], flags[e])

(* The waiting threads that a step wakes with RT_EOK. *)
Served(e) == {t \in Elems(k.wait[e]) : k'.stat[t] # "suspend" /\ k'.err[t] = "ok"}

(* Flags leave the set only by a reset or in the hands of a thread that asked *)
(* for them to be cleared, and what such a thread gets is not given to one    *)
(* that waits behind it as well (rt_event_send, rt_event_recv).               *)
FlagsGoToOne ==
    [][\A e \in Event :
          /\ \/ \E t \in Thread : EventReset(t, e) \/ \E w \in Wants[t] : EventRecvNow(t, e, w)
             \/ flags[e] \ flags'[e]
                   \subseteq UNION {want'[t].set : t \in {u \in Served(e) : want[u].clear}}
          /\ \A i, j \in DOMAIN k.wait[e] :
                LET t == k.wait[e][i]
                    u == k.wait[e][j]
                IN  (i < j /\ {t, u} \subseteq Served(e) /\ want[t].clear)
                       => want'[t].set \cap want'[u].set = {}]_<<vars, waitVars, eventVars>>
=============================================================================
