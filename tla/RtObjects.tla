----------------------------- MODULE RtObjects -----------------------------
(***************************************************************************)
(* The threads of RtThread with the mutexes, events, message queues and     *)
(* memory pools they share, as RtIpc has them with semaphores and           *)
(* mailboxes.                                                               *)
(***************************************************************************)
EXTENDS RtMutex, RtEvent, RtMq, RtMemPool

(* Every suspend list is a field of one object. *)
ASSUME ObjectsAssumption ==
    /\ Mutex \cap (Event \cup Mq \cup Pool) = {}
    /\ Event \cap (Mq \cup Pool) = {} /\ Mq \cap Pool = {}
    /\ {MqSenders[q] : q \in Mq} \cap (Mutex \cup Event \cup Pool) = {}

objectVars == <<vars, waitVars, mutexVars, eventVars, mqVars, poolVars>>

ObjectsInit == /\ Init /\ WaitInit
               /\ MutexInitState /\ EventInitState /\ MqInitState /\ PoolInitState

OnlyMutexes == UNCHANGED <<eventVars, mqVars, poolVars>>
OnlyEvents  == UNCHANGED <<mutexVars, mqVars, poolVars>>
OnlyQueues  == UNCHANGED <<mutexVars, eventVars, poolVars>>
OnlyPools   == UNCHANGED <<mutexVars, eventVars, mqVars>>

ObjectsDevice ==
    \/ \E e \in Event, set \in Sent : DeviceEventSend(e, set) /\ OnlyEvents
    \/ \E q \in Mq, v \in app.mails : DeviceMqSend(q, v) /\ OnlyQueues
    \/ \E p \in Pool : \E b \in out[p] : DeviceFree(p, b) /\ OnlyPools

ObjectsNext ==
    \/ Next /\ UNCHANGED <<waitVars, mutexVars>> /\ OnlyMutexes
    \/ \E t \in Thread : WaitStep(t) /\ OnlyMutexes /\ UNCHANGED mutexVars
    \/ \E t \in Thread : MutexStep(t) /\ OnlyMutexes
    \/ \E t \in Thread : EventStep(t) /\ OnlyEvents
    \/ \E t \in Thread : MqStep(t) /\ OnlyQueues
    \/ \E t \in Thread : PoolStep(t) /\ OnlyPools
    \/ ObjectsDevice

ObjectsSpec == ObjectsInit /\ [][ObjectsNext]_objectVars

-----------------------------------------------------------------------------
(* Nobody sleeps beside what it waits for: flags, messages, cells, blocks.   *)
NobodyForgotten == NoMetWaiter /\ NoMqWaitInVain /\ NoPoolWaitInVain

(* Cells and blocks are neither lost nor in two places. *)
BuffersConserved == CellsConserved /\ BlocksConserved

(* A message queue is a queue: messages are taken in the order in which they *)
(* were linked, urgent ones first, none twice and none lost.                 *)
MqQueue == INSTANCE AbsMailbox WITH
              Box <- Mq, Size <- MaxMsgs, queue <- [q \in Mq |-> Messages(q)], last <- mqLast
MqIsQueue == MqQueue!Spec
=============================================================================
