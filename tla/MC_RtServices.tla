--------------------------- MODULE MC_RtServices ---------------------------
EXTENDS RtServices, TLC

MCPeriods == {1, 2}

(* Nothing distinguishes the timers, the threads, the names or the users of *)
(* the devices, and all properties are safety properties.                   *)
Symmetry == UNION {Permutations(S) : S \in {Timer, Thread, Name, User}}
=============================================================================
