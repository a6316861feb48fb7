------------------------------ MODULE MC_Board ------------------------------
EXTENDS Board

(* Periods of one tick, as led_task has, of several, and of nearly half a   *)
(* turn of uwTick.                                                          *)
MCPeriod == [i \in 0..2 |-> <<1, 2, 4>>[i + 1]]
=============================================================================
