----------------------------- MODULE MC_RtThread -----------------------------
EXTENDS RtThread, TLC

CONSTANTS main, a, b, idle

(* main and a share a priority; b is above them, idle below.  Only main has  *)
(* a slice of more than one tick.                                            *)
Prios  == main :> 1 @@ a :> 1 @@ b :> 0 @@ idle :> 2
Slices == main :> 2 @@ a :> 1 @@ b :> 1 @@ idle :> 1

(* Only main makes calls, and those that start the other threads. *)
Quiet == [ calls |-> main :> {"startup"} @@ a :> {} @@ b :> {} @@ idle :> {},
           resumed |-> {}, deleted |-> {}, prio |-> {}, device |-> {} ]

(* Sleeping, yielding and the scheduler lock; the device wakes b. *)
TimeProgram ==
    [ Quiet EXCEPT !.calls = main :> {"startup", "sleep", "lock"} @@ a :> {"yield", "sleep"}
                             @@ b :> {"sleep"} @@ idle :> {},
                   !.device = {b} ]

(* Life of threads: a exits or is deleted, b is deleted in any state but     *)
(* asleep on a timer, main suspends itself and is resumed by a and by the    *)
(* device.                                                                   *)
LifeProgram ==
    [ Quiet EXCEPT !.calls = main :> {"startup", "delete", "suspend"}
                             @@ a :> {"exit", "resume", "yield", "lock"}
                             @@ b :> {"suspend", "yield"} @@ idle :> {},
                   !.resumed = {main}, !.deleted = {a, b}, !.device = {main} ]

(* Priorities change while threads are initialised, ready, running, asleep. *)
PrioProgram ==
    [ Quiet EXCEPT !.calls = main :> {"startup", "prio"} @@ a :> {"sleep", "yield"}
                             @@ b :> {"sleep", "prio"} @@ idle :> {},
                   !.prio = {main, a, b} ]

SafetyPrograms == {TimeProgram, LifeProgram, PrioProgram}

(* Liveness: main and b sleep, the device wakes b; only the tick moves the   *)
(* processor between main and its peer a.                                    *)
SleepProgram ==
    [ Quiet EXCEPT !.calls = main :> {"startup", "sleep"} @@ a :> {} @@ b :> {"sleep"} @@ idle :> {},
                   !.device = {b} ]
LivePrograms == {SleepProgram}
PairPrios == main :> 0 @@ a :> 0 @@ b :> 1 @@ idle :> 2

(* Three peers, and only the tick moves the processor from one to another. *)
PeerPrios == main :> 0 @@ a :> 0 @@ b :> 0 @@ idle :> 1
QuietPrograms == {Quiet}

(* A sleeping thread is deleted by one of a higher priority. *)
DeletePrograms ==
    {[ Quiet EXCEPT !.calls = main :> {"startup", "delete", "sleep"} @@ a :> {"sleep"}
                              @@ b :> {} @@ idle :> {},
                    !.deleted = {a} ]}
DeletePrios == main :> 0 @@ a :> 1 @@ b :> 1 @@ idle :> 2
=============================================================================
