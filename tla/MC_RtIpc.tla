------------------------------ MODULE MC_RtIpc ------------------------------
EXTENDS RtIpc

CONSTANTS main, a, b, idle, sem, box, boxSenders, mail1, mail2

Prios  == main :> 1 @@ a :> 1 @@ b :> 0 @@ idle :> 2
Slices == main :> 1 @@ a :> 1 @@ b :> 1 @@ idle :> 1
SenderLists == box :> boxSenders

Flags == sem :> "prio" @@ box :> "fifo" @@ boxSenders :> "fifo"

Starter == [ calls |-> main :> {"startup"} @@ a :> {} @@ b :> {} @@ idle :> {},
           resumed |-> {}, deleted |-> {}, prio |-> {}, device |-> {} ]
Waits == {Forever, NoTime, 1, 2}
EndlessWaits == [t \in Thread |-> {Forever}]
StartPrograms == {Starter}

(* Two threads take, main and the device release, main resets; a and b give  *)
(* different timeouts.                                                       *)
SemApp == [ programs |-> StartPrograms,
            calls |-> main :> {"release", "sem_reset"} @@ a :> {"take"} @@ b :> {"take"}
                      @@ idle :> {},
            device |-> {"release"}, mails |-> {},
            timeouts |-> main :> {Forever} @@ a :> {NoTime, 2} @@ b :> {Forever, 1} @@ idle :> {} ]

(* Two receivers; mails come from the device.  A second mail lets b fetch    *)
(* both before a, woken by the first, has run: a waits again.                *)
RecvApp == [ SemApp EXCEPT !.calls = main :> {} @@ a :> {"recv"} @@ b :> {"recv"} @@ idle :> {},
                           !.timeouts = main :> {} @@ a :> {NoTime, 2} @@ b :> {Forever} @@ idle :> {},
                           !.device = {"send"}, !.mails = {mail1} ]

(* Two senders, and main receives; b, released by main, may fill the slot    *)
(* that a was woken for: a waits again.                                      *)
SendApp == [ SemApp EXCEPT !.calls = main :> {"recv", "release"} @@ a :> {"send"}
                                     @@ b :> {"send", "take"} @@ idle :> {},
                           !.timeouts = main :> {} @@ a :> {2} @@ b :> {Forever} @@ idle :> {},
                           !.device = {}, !.mails = {mail1} ]

(* The order of mails, with urgent ones. *)
OrderApp == [ SendApp EXCEPT !.calls = main :> {"send", "urgent", "mb_reset"} @@ a :> {}
                                       @@ b :> {"recv"} @@ idle :> {},
                             !.timeouts = EndlessWaits, !.mails = {mail1, mail2} ]

(* Objects are detached while threads wait for ever. *)
DetachApp == [ SemApp EXCEPT !.calls = main :> {"sem_detach", "mb_detach", "mb_reset"} @@ a :> {"take", "recv"}
                                       @@ b :> {"recv", "send"} @@ idle :> {},
                             !.device = {}, !.timeouts = EndlessWaits, !.mails = {mail1} ]

IpcApps == {SemApp, RecvApp, SendApp, OrderApp, DetachApp}
=============================================================================
