-------------------------------- MODULE RtMq --------------------------------
(***************************************************************************)
(* Message queues (ipc.c).  A message lives in a cell that is in the free   *)
(* list, in the queue, or in the hands of the thread that copies a message  *)
(* into it or out of it with interrupts enabled.  Waiting is as in a        *)
(* mailbox: whoever is woken looks again.                                   *)
(***************************************************************************)
EXTENDS RtWait

CONSTANTS
    Mq,         \* the message queues, each with its receivers' list in Obj
    MqSenders,  \* [Mq -> Obj]: suspend_sender_thread
    MaxMsgs     \* max_msgs, less than RT_MQ_ENTRY_MAX

ASSUME MqAssumption ==
    /\ Mq \subseteq Obj
    /\ MqSenders \in [Mq -> Obj \ Mq]
    /\ \A q, r \in Mq : MqSenders[q] = MqSenders[r] => q = r
    /\ \A q \in Mq : Flag[MqSenders[q]] = Flag[q]
    /\ MaxMsgs \in Nat \ {0}

Cell == 1..MaxMsgs
NoCell == 0
MqState == [ free : Seq(Cell),              \* msg_queue_free
             queue : Seq(Cell),             \* msg_queue_head to msg_queue_tail
             text : [Cell -> Msg],          \* the messages
             entry : 0..MaxMsgs ]

VARIABLES
    mq,     \* [Mq -> MqState]
    cell,   \* [Thread -> Cell \cup {NoCell}]: the cell a thread copies (msg)
    ended,  \* the detached or deleted queues: applications let them be
    mqLast  \* history: the messages last queued and last taken off the queue

mqVars == <<mq, cell, ended, mqLast>>

(* rt_mq_init and rt_mq_create link the cells in front of each other. *)
FreshMq == [free |-> Reverse([i \in Cell |-> i]), queue |-> <<>>,
            text |-> [c \in Cell |-> NoCall.msg], entry |-> 0]

MqInitState ==
    /\ mq = [q \in Mq |-> FreshMq]
    /\ cell = [t \in Thread |-> NoCell]
    /\ ended = {}
    /\ mqLast = [q \in Mq |-> [sent |-> NoCall.msg, urgent |-> FALSE, got |-> NoCall.msg]]

-----------------------------------------------------------------------------
(* From queue to queue. *)

TakeFree(b) == [b EXCEPT !.free = Tail(@)]

(* Variant: an urgent message is linked at the tail. *)
LinkLast(b, c, v, first) ==
    [b EXCEPT !.text[c] = v, !.queue = PushBack(@, c), !.entry = @ + 1]

(* The message is copied and the cell linked: at the tail, or at the head    *)
(* when it is urgent.                                                        *)
Link(b, c, v, first) ==
    [b EXCEPT !.text[c] = v, !.queue = IF first THEN PushFront(@, c) ELSE PushBack(@, c),
              !.entry = @ + 1]

TakeHead(b) == [b EXCEPT !.queue = Tail(@), !.entry = @ - 1]

GiveBack(b, c) == [b EXCEPT !.free = PushFront(@, c)]

(* Variant: the queued cells are dropped. *)
Dropped(b) == [b EXCEPT !.queue = <<>>, !.entry = 0]

(* rt_mq_control, RT_IPC_CMD_RESET: the queued cells go to the free list one *)
(* by one, from the head.                                                    *)
Emptied(b) == [b EXCEPT !.free = Reverse(b.queue) \o @, !.queue = <<>>, !.entry = 0]

-----------------------------------------------------------------------------
(* Sending: a free cell is taken, the message copied, the cell linked and a  *)
(* receiver woken.                                                           *)

MqFull(q) == mq[q].free = <<>>

StartSend(t, q, call, v) ==
    /\ cell' = [cell EXCEPT ![t] = Head(mq[q].free)]
    /\ mq' = [mq EXCEPT ![q] = TakeFree(@)]
    /\ Enter(t, call, q, NoTime, v)
    /\ Goto(t, "between")
    /\ UNCHANGED k

(* rt_mq_send_wait, first turn of its loop, and rt_mq_urgent.  A full queue  *)
(* and RT_WAITING_NO: -RT_EFULL and nothing changes.                         *)
MqSend(t, q, call, v) ==
    /\ Asks(t, call) /\ q \notin ended /\ ~MqFull(q)
    /\ StartSend(t, q, call, v)
    /\ UNCHANGED <<cpu, arg, isr, prog, app, ended, mqLast>>

MqSendWait(t, q, v, n) ==
    /\ Asks(t, "mq_send") /\ q \notin ended /\ MqFull(q) /\ n # NoTime
    /\ k' = Block(k, t, MqSenders[q], n)
    /\ Enter(t, "mq_send", MqSenders[q], n, v)
    /\ Goto(t, "wait_sched")
    /\ UNCHANGED <<cpu, arg, isr, prog, app, mqVars>>

(* The sender runs again: next turn of its loop.                             *)
MqSendAgain(t, q) ==
    /\ Woken(t, "mq_send") /\ frame[t].obj = MqSenders[q]
    /\ IF ~MqFull(q)
       THEN StartSend(t, q, "mq_send", frame[t].msg)
       ELSE /\ IF Left(t) = 0
               THEN k' = [k EXCEPT !.err[t] = "ok"] /\ Goto(t, "user") /\ Leave(t)
               ELSE /\ k' = Block(k, t, MqSenders[q], Left(t))
                    /\ Enter(t, "mq_send", MqSenders[q], Left(t), frame[t].msg)
                    /\ Goto(t, "wait_sched")
            /\ UNCHANGED <<mq, cell>>
    /\ UNCHANGED <<cpu, arg, isr, prog, app, ended, mqLast>>

(* Variant: a receiver is woken only by the first message of a queue. *)
MqSentQuietly(t, q) ==
    /\ At(t, "between") /\ frame[t].call \in {"mq_send", "mq_urgent"} /\ frame[t].obj = q
    /\ mq' = [mq EXCEPT ![q] = Link(@, cell[t], frame[t].msg, frame[t].call = "mq_urgent")]
    /\ mqLast' = [mqLast EXCEPT ![q].sent = frame[t].msg, ![q].urgent = frame[t].call = "mq_urgent"]
    /\ cell' = [cell EXCEPT ![t] = NoCell]
    /\ k' = IF mq[q].entry = 0 THEN WakeFirst(k, q) ELSE k
    /\ Goto(t, IF k.wait[q] # <<>> THEN "sched" ELSE "user")
    /\ Leave(t)
    /\ UNCHANGED <<cpu, arg, isr, prog, app, ended>>

MqSent(t, q) ==
    /\ At(t, "between") /\ frame[t].call \in {"mq_send", "mq_urgent"} /\ frame[t].obj = q
    /\ mq' = [mq EXCEPT ![q] = Link(@, cell[t], frame[t].msg, frame[t].call = "mq_urgent")]
    /\ mqLast' = [mqLast EXCEPT ![q].sent = frame[t].msg, ![q].urgent = frame[t].call = "mq_urgent"]
    /\ cell' = [cell EXCEPT ![t] = NoCell]
    /\ k' = WakeFirst(k, q)
    /\ Goto(t, IF k.wait[q] # <<>> THEN "sched" ELSE "user")
    /\ Leave(t)
    /\ UNCHANGED <<cpu, arg, isr, prog, app, ended>>

(* rt_mq_send in an interrupt handler, which nothing interrupts. *)
DeviceMqSend(q, v) ==
    /\ DeviceAsks("mq_send") /\ q \notin ended /\ ~MqFull(q)
    /\ mq' = [mq EXCEPT ![q] = Link(TakeFree(@), Head(@.free), v, FALSE)]
    /\ mqLast' = [mqLast EXCEPT ![q].sent = v, ![q].urgent = FALSE]
    /\ \E w \in {WakeFirst(k, q)} : k' = IF k.wait[q] # <<>> THEN Schedule(w) ELSE k
    /\ UNCHANGED <<cpu, pc, arg, isr, prog, waitVars, cell, ended>>

-----------------------------------------------------------------------------
(* Receiving: the head is taken, the message copied, the cell given back and *)
(* a sender woken.                                                           *)

MqEmpty(q) == mq[q].entry = 0

StartRecv(t, q) ==
    LET c == Head(mq[q].queue)
    IN  /\ cell' = [cell EXCEPT ![t] = c]
        /\ mq' = [mq EXCEPT ![q] = TakeHead(@)]
        /\ mqLast' = [mqLast EXCEPT ![q].got = mq[q].text[c]]
        /\ Enter(t, "mq_recv", q, NoTime, mq[q].text[c])
        /\ Goto(t, "between")
        /\ UNCHANGED k

(* rt_mq_recv, first turn of its loop. *)
MqRecv(t, q) ==
    /\ Asks(t, "mq_recv") /\ q \notin ended /\ ~MqEmpty(q)
    /\ StartRecv(t, q)
    /\ UNCHANGED <<cpu, arg, isr, prog, app, ended>>

MqRecvWait(t, q, n) ==
    /\ Asks(t, "mq_recv") /\ q \notin ended /\ MqEmpty(q) /\ n # NoTime
    /\ k' = Block(k, t, q, n)
    /\ Enter(t, "mq_recv", q, n, NoCall.msg)
    /\ Goto(t, "wait_sched")
    /\ UNCHANGED <<cpu, arg, isr, prog, app, mqVars>>

MqRecvAgain(t, q) ==
    /\ Woken(t, "mq_recv") /\ frame[t].obj = q
    /\ IF ~MqEmpty(q)
       THEN StartRecv(t, q)
       ELSE /\ IF Left(t) = 0
               THEN k' = [k EXCEPT !.err[t] = "timeout"] /\ Goto(t, "user") /\ Leave(t)
               ELSE /\ k' = Block(k, t, q, Left(t))
                    /\ Enter(t, "mq_recv", q, Left(t), NoCall.msg)
                    /\ Goto(t, "wait_sched")
            /\ UNCHANGED <<mq, cell, mqLast>>
    /\ UNCHANGED <<cpu, arg, isr, prog, app, ended>>

MqReceived(t, q) ==
    /\ At(t, "between") /\ frame[t].call = "mq_recv" /\ frame[t].obj = q
    /\ mq' = [mq EXCEPT ![q] = GiveBack(@, cell[t])]
    /\ cell' = [cell EXCEPT ![t] = NoCell]
    /\ k' = WakeFirst(k, MqSenders[q])
    /\ Goto(t, IF k.wait[MqSenders[q]] # <<>> THEN "sched" ELSE "user")
    /\ Leave(t)
    /\ UNCHANGED <<cpu, arg, isr, prog, app, ended, mqLast>>

-----------------------------------------------------------------------------
(* rt_mq_control, RT_IPC_CMD_RESET. *)
MqReset(t, q) ==
    /\ Asks(t, "mq_reset") /\ q \notin ended
    /\ \E w \in {WakeAll(k, q)} : k' = WakeAll(w, MqSenders[q])
    /\ mq' = [mq EXCEPT ![q] = Emptied(@)]
    /\ Goto(t, "sched")
    /\ UNCHANGED <<cpu, arg, isr, prog, waitVars, cell, ended, mqLast>>

(* rt_mq_detach and rt_mq_delete, when no thread is copying: the receivers,  *)
(* then the senders.                                                         *)
MqDetach(t, q) ==
    /\ Asks(t, "mq_detach") /\ q \notin ended
    /\ \A u \in Thread : cell[u] = NoCell
    /\ ended' = ended \cup {q}
    /\ Enter(t, "mq_detach", q, NoTime, NoCall.msg)
    /\ Goto(t, "wake_test")
    /\ UNCHANGED <<k, cpu, arg, isr, prog, app, mq, cell, mqLast>>

MqDetached(t, q) ==
    /\ AllWoken(t, "mq_detach")
    /\ \/ /\ frame[t].obj = q
          /\ frame' = [frame EXCEPT ![t].obj = MqSenders[q]]
          /\ UNCHANGED pc
       \/ /\ frame[t].obj = MqSenders[q]
          /\ Leave(t)
          /\ Goto(t, "user") \/ Goto(t, "sched")
    /\ UNCHANGED <<k, cpu, arg, isr, prog, app, mqVars>>

MqStep(t) ==
    \E q \in Mq :
       \/ \E v \in app.mails, call \in {"mq_send", "mq_urgent"} : MqSend(t, q, call, v)
       \/ \E v \in app.mails, n \in app.timeouts[t] : MqSendWait(t, q, v, n)
       \/ MqSendAgain(t, q)
       \/ MqSent(t, q)
       \/ MqRecv(t, q)
       \/ \E n \in app.timeouts[t] : MqRecvWait(t, q, n)
       \/ MqRecvAgain(t, q)
       \/ MqReceived(t, q)
       \/ MqReset(t, q)
       \/ MqDetach(t, q)
       \/ MqDetached(t, q)

-----------------------------------------------------------------------------
(* Properties. *)

(* The messages in the queue, first one first. *)
Messages(q) == [i \in DOMAIN mq[q].queue |-> mq[q].text[mq[q].queue[i]]]

(* Every cell is in the free list, in the queue or in the hands of one       *)
(* thread that copies, and nowhere twice, though cells change hands with     *)
(* interrupts enabled; entry counts the queue; and what a receiver copies is *)
(* still the message that it took off the queue (rt_mq_recv, rt_mq_control). *)
CellsConserved ==
    \A q \in Mq :
       LET hands == {t \in Thread : cell[t] # NoCell /\ frame[t].obj = q}
           lists == mq[q].free \o mq[q].queue
       IN  /\ Cell = Elems(lists) \cup {cell[t] : t \in hands}
           /\ MaxMsgs = Len(lists) + Cardinality(hands)
           /\ mq[q].entry = Len(mq[q].queue)
           /\ \A t \in hands : frame[t].call = "mq_recv" => mq[q].text[cell[t]] = frame[t].msg

(* Threads that were woken from list o and have not yet looked again.        *)
MqComing(o) == {t \in Thread : frame[t].obj = o /\ frame[t].call \in {"mq_send", "mq_recv"}
                               /\ pc[t] # "between"
                               /\ k.err[t] = "ok" /\ k.stat[t] # "suspend"}

(* No receiver sleeps while there is a message that no woken receiver comes  *)
(* for, and no sender while there is a free cell that none comes for.        *)
NoMqWaitInVain ==
    \A q \in Mq :
       /\ k.wait[q] # <<>> => mq[q].entry <= Cardinality(MqComing(q))
       /\ k.wait[MqSenders[q]] # <<>> =>
             Len(mq[q].free) <= Cardinality(MqComing(MqSenders[q]))
=============================================================================
