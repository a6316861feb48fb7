-------------------------- MODULE MC_SchedulerList --------------------------
EXTENDS SchedulerList

CONSTANTS t1, t2, t3

Slices == t1 :> 2 @@ t2 :> 3 @@ t3 :> 0
Zero   == [t \in Thread |-> 0]

(* Three priorities; boosts bring a thread that timed out to a priority of   *)
(* its own; t3 is created by a running body and may exit.                    *)
Sleepers == [ Priority |-> t1 :> 1 @@ t2 :> 3 @@ t3 :> 4,
              Boost |-> t1 :> 1 @@ t2 :> 1 @@ t3 :> 0, Slice |-> Slices,
              MaySleep |-> {t1, t2}, MayExit |-> {t3}, LateThread |-> {t3},
              ThreadModeCalls |-> FALSE ]

(* All at the highest priority, with slices of different lengths. *)
Peers == [ Sleepers EXCEPT !.Priority = Zero, !.Boost = Zero,
                           !.MaySleep = {}, !.LateThread = {} ]

(* Two sleepers of one priority; the first thread may sleep in thread mode. *)
Pair == [ Sleepers EXCEPT !.Priority = t1 :> 1 @@ t2 :> 1 @@ t3 :> 2, !.Boost = Zero,
                          !.LateThread = {} ]
PairThreadMode == [ Pair EXCEPT !.ThreadModeCalls = TRUE ]

(* Sleepers that share both their priority and the one they are boosted to. *)
Sharers == [ Sleepers EXCEPT !.Priority = t1 :> 3 @@ t2 :> 3 @@ t3 :> 1,
                             !.Boost = t1 :> 1 @@ t2 :> 1 @@ t3 :> 0 ]

SoundPrograms == {Sleepers, Sharers, Peers}
PairPrograms == {Pair}
ThreadModePrograms == {PairThreadMode}

(* The theorems about this scheduler assume it of all programs. *)
ASSUME SoundProgramsAssumption == \A p \in SoundPrograms : OwnPlaces(p)
=============================================================================
