------------------------------- MODULE RtIpc -------------------------------
(***************************************************************************)
(* The threads of RtThread, their interrupts, and the IPC objects they      *)
(* share: each step is one of the kernel's own or one inside a call of      *)
(* ipc.c, made by the running thread or by the device's interrupt handler.  *)
(***************************************************************************)
EXTENDS RtSem, RtMailbox

(* Every suspend list is a field of one object. *)
ASSUME IpcAssumption == Sem \cap (Box \cup {Senders[m] : m \in Box}) = {}

ipcVars == <<vars, waitVars, semVars, boxVars>>

IpcInit == Init /\ WaitInit /\ SemInitState /\ BoxInitState

DeviceStep == \/ \E s \in Sem : DeviceRelease(s) /\ UNCHANGED boxVars
              \/ \E m \in Box, v \in app.mails : DeviceSend(m, v) /\ UNCHANGED semVars

IpcNext ==
    \/ Next /\ UNCHANGED <<waitVars, semVars, boxVars>>
    \/ \E t \in Thread : WaitStep(t) /\ UNCHANGED <<semVars, boxVars>>
    \/ \E t \in Thread : SemStep(t) /\ UNCHANGED boxVars
    \/ \E t \in Thread : BoxStep(t) /\ UNCHANGED semVars
    \/ DeviceStep

IpcSpec == IpcInit /\ [][IpcNext]_ipcVars

-----------------------------------------------------------------------------
(* Nobody waits in vain: no thread waits for a semaphore that has units, no  *)
(* receiver stays asleep for a mail that nobody is on the way to fetch and   *)
(* no sender for a slot nobody is on the way to fill, whatever was released, *)
(* reset or fetched, by whom, and whoever came first.                        *)
NoneWaitsInVain == NoneWaitsForUnits /\ NoneWaitsForMail

(* A mailbox is a queue: mails are handed out in the order in which they     *)
(* were accepted, urgent ones first, none twice and none lost, whichever     *)
(* thread was woken and overtaken (rt_mb_send_wait, rt_mb_urgent,            *)
(* rt_mb_recv, rt_mb_control).                                               *)
Queue == INSTANCE AbsMailbox WITH Size <- BoxSize, queue <- [m \in Box |-> Mails(m)]
MailboxIsQueue == Queue!Spec
=============================================================================
