----------------------------- MODULE RtMailbox -----------------------------
(***************************************************************************)
(* Mailboxes (ipc.c): a ring of BoxSize mails, a list of waiting receivers  *)
(* (the mailbox's own) and a list of waiting senders.  A woken thread is    *)
(* given nothing: it looks at the mailbox again, and waits again with what  *)
(* is left of its timeout when another thread has come first.               *)
(***************************************************************************)
EXTENDS RtWait

CONSTANTS
    Box,        \* the mailboxes, each with its receivers' list in Obj
    Senders,    \* [Box -> Obj]: suspend_sender_thread
    BoxSize     \* size, less than RT_MB_ENTRY_MAX

ASSUME MailboxAssumption ==
    /\ Box \subseteq Obj
    /\ Senders \in [Box -> Obj \ Box]
    /\ \A m, l \in Box : Senders[m] = Senders[l] => m = l
    /\ \A m \in Box : Flag[Senders[m]] = Flag[m]
    /\ BoxSize \in Nat \ {0}

Slot == 0..(BoxSize - 1)
Mailbox == [pool : [Slot -> Msg], in : Slot, out : Slot, entry : 0..BoxSize]

VARIABLES
    mb,     \* [Box -> Mailbox]
    closed, \* the detached or deleted mailboxes
    last    \* history: the mails last accepted and last handed to a receiver

boxVars == <<mb, closed, last>>

(* A mailbox as rt_mb_create and rt_mb_init leave it. *)
EmptyBox == [pool |-> [i \in Slot |-> NoCall.msg], in |-> 0, out |-> 0, entry |-> 0]

BoxInitState ==
    /\ mb = [m \in Box |-> EmptyBox]
    /\ last = [m \in Box |-> [sent |-> NoCall.msg, urgent |-> FALSE, got |-> NoCall.msg]]
    /\ closed = {}

Full(m)  == mb[m].entry = BoxSize
Empty(m) == mb[m].entry = 0

-----------------------------------------------------------------------------
(* From mailbox to mailbox. *)

(* Variant: the offset wraps one slot late. *)
PutLate(b, v) ==
    [b EXCEPT !.pool[b.in] = v, !.in = IF @ = BoxSize - 1 THEN @ ELSE @ + 1, !.entry = @ + 1]

(* The end of rt_mb_send_wait. *)
Put(b, v) ==
    [b EXCEPT !.pool[b.in] = v, !.in = (@ + 1) % BoxSize, !.entry = @ + 1]

(* rt_mb_urgent. *)
PutFirst(b, v) ==
    LET o == (b.out - 1) % BoxSize
    IN  [b EXCEPT !.out = o, !.pool[o] = v, !.entry = @ + 1]

(* The end of rt_mb_recv. *)
Get(b) == [b EXCEPT !.out = (@ + 1) % BoxSize, !.entry = @ - 1]

-----------------------------------------------------------------------------
(* A mail is stored and a receiver woken; a mail is fetched and a sender     *)
(* woken.                                                                    *)
Post(t, m, b, v, urgent) ==
    /\ mb' = [mb EXCEPT ![m] = b]
    /\ last' = [last EXCEPT ![m].sent = v, ![m].urgent = urgent]
    /\ k' = WakeFirst(k, m)
    /\ Goto(t, IF k.wait[m] # <<>> THEN "sched" ELSE "user")

(* Variant: no sender is woken. *)
FetchSilently(t, m) ==
    /\ last' = [last EXCEPT ![m].got = mb[m].pool[mb[m].out]]
    /\ mb' = [mb EXCEPT ![m] = Get(@)]
    /\ Goto(t, "user")
    /\ UNCHANGED k

Fetch(t, m) ==
    /\ last' = [last EXCEPT ![m].got = mb[m].pool[mb[m].out]]
    /\ mb' = [mb EXCEPT ![m] = Get(@)]
    /\ k' = WakeFirst(k, Senders[m])
    /\ Goto(t, IF k.wait[Senders[m]] # <<>> THEN "sched" ELSE "user")

(* rt_mb_send_wait, first turn; a full mailbox and RT_WAITING_NO: -RT_EFULL. *)
Send(t, m, v) ==
    /\ Asks(t, "send") /\ m \notin closed /\ ~Full(m)
    /\ Post(t, m, Put(mb[m], v), v, FALSE)
    /\ UNCHANGED <<cpu, arg, isr, prog, waitVars, closed>>

SendWait(t, m, v, n) ==
    /\ Asks(t, "send") /\ m \notin closed /\ Full(m) /\ n # NoTime
    /\ k' = Block(k, t, Senders[m], n)
    /\ Enter(t, "send", Senders[m], n, v)
    /\ Goto(t, "wait_sched")
    /\ UNCHANGED <<cpu, arg, isr, prog, app, boxVars>>

(* The sender runs again: next turn of its loop.                             *)
SendAgain(t, m) ==
    /\ Woken(t, "send") /\ frame[t].obj = Senders[m]
    /\ IF ~Full(m)
       THEN Post(t, m, Put(mb[m], frame[t].msg), frame[t].msg, FALSE) /\ Leave(t)
       ELSE IF Left(t) = 0
            THEN /\ k' = [k EXCEPT !.err[t] = "ok"]
                 /\ Goto(t, "user") /\ Leave(t)
                 /\ UNCHANGED <<mb, last>>
            ELSE /\ k' = Block(k, t, Senders[m], Left(t))
                 /\ Enter(t, "send", Senders[m], Left(t), frame[t].msg)
                 /\ Goto(t, "wait_sched")
                 /\ UNCHANGED <<mb, last>>
    /\ UNCHANGED <<cpu, arg, isr, prog, app, closed>>

Urgent(t, m, v) ==
    /\ Asks(t, "urgent") /\ m \notin closed /\ ~Full(m)
    /\ Post(t, m, PutFirst(mb[m], v), v, TRUE)
    /\ UNCHANGED <<cpu, arg, isr, prog, waitVars, closed>>

(* rt_mb_recv, first turn. *)
Recv(t, m) ==
    /\ Asks(t, "recv") /\ m \notin closed /\ ~Empty(m)
    /\ Fetch(t, m)
    /\ UNCHANGED <<cpu, arg, isr, prog, waitVars, closed>>

RecvWait(t, m, n) ==
    /\ Asks(t, "recv") /\ m \notin closed /\ Empty(m) /\ n # NoTime
    /\ k' = Block(k, t, m, n)
    /\ Enter(t, "recv", m, n, NoCall.msg)
    /\ Goto(t, "wait_sched")
    /\ UNCHANGED <<cpu, arg, isr, prog, app, boxVars>>

(* The receiver runs again. *)
RecvAgain(t, m) ==
    /\ Woken(t, "recv") /\ frame[t].obj = m
    /\ IF ~Empty(m)
       THEN Fetch(t, m) /\ Leave(t)
       ELSE IF Left(t) = 0
            THEN /\ k' = [k EXCEPT !.err[t] = "timeout"]
                 /\ Goto(t, "user") /\ Leave(t)
                 /\ UNCHANGED <<mb, last>>
            ELSE /\ k' = Block(k, t, m, Left(t))
                 /\ Enter(t, "recv", m, Left(t), NoCall.msg)
                 /\ Goto(t, "wait_sched")
                 /\ UNCHANGED <<mb, last>>
    /\ UNCHANGED <<cpu, arg, isr, prog, app, closed>>

(* rt_mb_control, RT_IPC_CMD_RESET. *)
BoxReset(t, m) ==
    /\ Asks(t, "mb_reset") /\ m \notin closed
    /\ \E w \in {WakeAll(k, m)} : k' = WakeAll(w, Senders[m])
    /\ mb' = [mb EXCEPT ![m].entry = 0, ![m].in = 0, ![m].out = 0]
    /\ Goto(t, "sched")
    /\ UNCHANGED <<cpu, arg, isr, prog, waitVars, closed, last>>

(* rt_mb_detach and rt_mb_delete: the receivers, then the senders.           *)
BoxDetach(t, m) ==
    /\ Asks(t, "mb_detach") /\ m \notin closed
    /\ closed' = closed \cup {m}
    /\ Enter(t, "mb_detach", m, NoTime, NoCall.msg)
    /\ Goto(t, "wake_test")
    /\ UNCHANGED <<k, cpu, arg, isr, prog, app, mb, last>>

(* After the senders the object is unlinked; rt_mb_delete frees its pool and *)
(* itself, which calls rt_schedule.                                          *)
BoxDetached(t, m) ==
    /\ AllWoken(t, "mb_detach")
    /\ \/ /\ frame[t].obj = m
          /\ frame' = [frame EXCEPT ![t].obj = Senders[m]]
          /\ UNCHANGED pc
       \/ /\ frame[t].obj = Senders[m]
          /\ Leave(t)
          /\ Goto(t, "user") \/ Goto(t, "sched")
    /\ UNCHANGED <<k, cpu, arg, isr, prog, app, boxVars>>

(* rt_mb_send (no waiting) in an interrupt handler. *)
DeviceSend(m, v) ==
    /\ DeviceAsks("send") /\ m \notin closed /\ ~Full(m)
    /\ mb' = [mb EXCEPT ![m] = Put(@, v)]
    /\ last' = [last EXCEPT ![m].sent = v, ![m].urgent = FALSE]
    /\ \E w \in {WakeFirst(k, m)} : k' = IF k.wait[m] # <<>> THEN Schedule(w) ELSE k
    /\ UNCHANGED <<cpu, pc, arg, isr, prog, waitVars, closed>>

BoxStep(t) ==
    \E m \in Box :
       \/ \E v \in app.mails : Send(t, m, v) \/ Urgent(t, m, v)
       \/ \E v \in app.mails, n \in app.timeouts[t] : SendWait(t, m, v, n)
       \/ SendAgain(t, m)
       \/ Recv(t, m)
       \/ \E n \in app.timeouts[t] : RecvWait(t, m, n)
       \/ RecvAgain(t, m)
       \/ BoxReset(t, m)
       \/ BoxDetach(t, m)
       \/ BoxDetached(t, m)

-----------------------------------------------------------------------------
(* Properties. *)

(* The mails in the ring, oldest first. *)
Mails(m) == [i \in 1..mb[m].entry |-> mb[m].pool[(mb[m].out + i - 1) % BoxSize]]

(* Threads that were woken from list o and have not yet looked again. *)
Coming(o) == {t \in Thread : frame[t].obj = o /\ frame[t].call \in {"send", "recv"}
                             /\ k.err[t] = "ok" /\ k.stat[t] # "suspend"}

(* A mail waits for no receiver that is asleep unless somebody is on the way *)
(* to fetch it, a slot for no sender likewise.                               *)
NoneWaitsForMail ==
    \A m \in Box :
       /\ k.wait[m] # <<>> => mb[m].entry <= Cardinality(Coming(m))
       /\ k.wait[Senders[m]] # <<>> =>
             BoxSize - mb[m].entry <= Cardinality(Coming(Senders[m]))
=============================================================================
