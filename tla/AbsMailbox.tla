----------------------------- MODULE AbsMailbox -----------------------------
(***************************************************************************)
(* What mailboxes promise: each is a queue of at most Size mails.  A mail   *)
(* is appended, or put in front when urgent; a receiver gets the front one; *)
(* a reset throws all away.                                                 *)
(***************************************************************************)
EXTENDS Naturals, Sequences

CONSTANTS Box, Size, Msg

VARIABLES
    queue,  \* [Box -> Seq(Msg)]
    last    \* the mails last accepted (sent, urgent or not) and handed out (got)

Init == queue = [m \in Box |-> <<>>] /\ last \in [Box -> [sent : Msg, urgent : BOOLEAN, got : Msg]]

Accept(m, v) == /\ Len(queue[m]) < Size
                /\ queue' = [queue EXCEPT ![m] = Append(@, v)]
                /\ last' = [last EXCEPT ![m].sent = v, ![m].urgent = FALSE]

AcceptUrgent(m, v) == /\ Len(queue[m]) < Size
                      /\ queue' = [queue EXCEPT ![m] = <<v>> \o @]
                      /\ last' = [last EXCEPT ![m].sent = v, ![m].urgent = TRUE]

Deliver(m) == /\ queue[m] # <<>>
              /\ last' = [last EXCEPT ![m].got = Head(queue[m])]
              /\ queue' = [queue EXCEPT ![m] = Tail(@)]

Clear(m) == queue' = [queue EXCEPT ![m] = <<>>] /\ UNCHANGED last

Next == \E m \in Box : \/ \E v \in Msg : Accept(m, v) \/ AcceptUrgent(m, v)
                       \/ Deliver(m)
                       \/ Clear(m)

Spec == Init /\ [][Next]_<<queue, last>>
=============================================================================
