---------------------------- MODULE MC_RtObjects ----------------------------
EXTENDS RtObjects

CONSTANTS main, a, b, idle, mutex, event, mqueue, mqSenders, pool, mail1, mail2, f1, f2

Prios  == main :> 1 @@ a :> 1 @@ b :> 0 @@ idle :> 2
Slices == main :> 1 @@ a :> 1 @@ b :> 1 @@ idle :> 1
SenderLists == mqueue :> mqSenders
Flags == mutex :> "prio" @@ event :> "prio" @@ mqueue :> "fifo" @@ mqSenders :> "fifo" @@ pool :> "fifo"

Starter == [ calls |-> main :> {"startup"} @@ a :> {} @@ b :> {} @@ idle :> {},
             resumed |-> {}, deleted |-> {}, prio |-> {}, device |-> {} ]
(* b, of the highest priority, also sleeps, so that the others get to run.   *)
SleepyStarter == [ Starter EXCEPT !.calls = main :> {"startup"} @@ a :> {} @@ b :> {"sleep"}
                                            @@ idle :> {} ]
TwoPrograms == {Starter, SleepyStarter}
Waits == {Forever, NoTime, 1, 2}
NoWaits == [t \in Thread |-> {}]
NoCalls == [t \in Thread |-> {}]

(* Three threads contend for a mutex; b waits one tick at most. *)
MutexApp == [ programs |-> {SleepyStarter}, device |-> {}, mails |-> {},
              calls |-> [t \in Thread |-> IF t = idle THEN {} ELSE {"mutex_take", "mutex_release"}],
              timeouts |-> a :> {Forever} @@ b :> {1} @@ NoWaits ]

MutexDetachApp == [ MutexApp EXCEPT !.calls = main :> {"mutex_take", "mutex_detach"}
                                              @@ a :> {"mutex_take"} @@ b :> {"mutex_take"} @@ idle :> {},
                                    !.timeouts = a :> {NoTime, Forever} @@ b :> {Forever} @@ NoWaits ]

(* Two receivers with different wishes; the device sends and main resets. *)
EventApp == [ MutexApp EXCEPT !.programs = {Starter},
                              !.calls = main :> {"event_reset"} @@ a :> {"event_recv"}
                                        @@ b :> {"event_recv"} @@ idle :> {},
                              !.timeouts = a :> {2} @@ b :> {Forever} @@ NoWaits,
                              !.device = {"event_send"} ]
EventDetachApp == [ EventApp EXCEPT !.calls[main] = {"event_detach", "event_send"}, !.device = {},
                                    !.timeouts = a :> {NoTime, Forever} @@ b :> {Forever} @@ NoWaits ]
EventWants == b :> {[set |-> {f1, f2}, all |-> TRUE, clear |-> TRUE]}
              @@ a :> {[set |-> {f1, f2}, all |-> FALSE, clear |-> FALSE]} @@ NoWaits
EventSets == {{f1}, {f1, f2}}

(* Two receivers and the device; a fetches what b was woken for. *)
MqRecvApp == [ EventApp EXCEPT !.calls = main :> {} @@ a :> {"mq_recv"} @@ b :> {"mq_recv"} @@ idle :> {},
                               !.device = {"mq_send"}, !.mails = {mail1} ]

(* Two senders and a receiver. *)
MqSendApp == [ EventApp EXCEPT !.calls = main :> {"mq_recv"} @@ a :> {"mq_send"}
                                         @@ b :> {"mq_send"} @@ idle :> {},
                               !.timeouts = a :> {2} @@ b :> {Forever} @@ NoWaits,
                               !.device = {}, !.mails = {mail1} ]

(* Order, with urgent messages, reset and messages from the device in the    *)
(* middle of a copy.                                                         *)
MqOrderApp == [ MqRecvApp EXCEPT !.calls = main :> {"mq_send", "mq_urgent", "mq_reset"} @@ a :> {}
                                           @@ b :> {"mq_recv"} @@ idle :> {},
                                 !.timeouts = b :> {Forever} @@ main :> {Forever} @@ NoWaits,
                                 !.mails = {mail1, mail2} ]
MqDetachApp == [ MqSendApp EXCEPT !.programs = {Starter},
                                  !.calls = main :> {"mq_detach", "mq_send"} @@ a :> {"mq_recv", "mq_send"}
                                            @@ b :> {"mq_recv"} @@ idle :> {},
                                  !.timeouts = a :> {Forever} @@ b :> {Forever} @@ NoWaits ]

(* Two threads allocate, main and the device free. *)
PoolApp == [ EventApp EXCEPT !.calls = main :> {"mp_free"} @@ a :> {"mp_alloc"} @@ b :> {"mp_alloc"}
                                       @@ idle :> {},
                             !.timeouts = a :> {2} @@ b :> {Forever} @@ NoWaits,
                             !.device = {"mp_free"} ]
PoolDetachApp == [ PoolApp EXCEPT !.calls[main] = {"mp_detach"}, !.device = {},
                                  !.timeouts = a :> {NoTime, Forever} @@ b :> {Forever} @@ NoWaits ]

ObjectApps == {MutexApp, MutexDetachApp, EventApp, EventDetachApp, MqRecvApp, MqSendApp,
               MqOrderApp, MqDetachApp, PoolApp, PoolDetachApp}
=============================================================================
