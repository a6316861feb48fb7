---------------------------- MODULE BoardEncoder ----------------------------
(***************************************************************************)
(* component_tim_encode.c: the wheel moves the counter of the encoder timer *)
(* in either direction, around its end, also between the two accesses of    *)
(* encode_update to it.                                                     *)
(***************************************************************************)
EXTENDS Integers

CONSTANTS EncodeMax,   \* encode_max: the counter counts modulo it, 65536
          Reach        \* bound: how far the wheel is from where it started,
                       \* and how many pulses are lost

EncoderAssumption == EncodeMax \in Nat \ {0} /\ EncodeMax % 2 = 0

Half == EncodeMax \div 2

VARIABLES counter,            \* the timer's counter
          total, perPeriod,   \* encode_total, encode_per_period
          reading,            \* encode_update is between its two accesses
          moved,              \* history: pulses since the counter was reset
          position,           \* history: pulses since the start
          lost                \* history: pulses while encode_update was reading

vars == <<counter, total, perPeriod, reading, moved, position, lost>>

Init == /\ counter = 0 /\ total = 0 /\ perPeriod = 0 /\ reading = FALSE
        /\ moved = 0 /\ position = 0 /\ lost = 0

(* One pulse; encode_update runs before half a turn of the counter.         *)
Pulse(d) ==
    /\ position + d \in (-Reach)..Reach
    /\ reading => lost + d \in (-Reach)..Reach
    /\ moved + d \in (1 - Half)..(Half - 1)
    /\ counter' = (counter + d) % EncodeMax
    /\ position' = position + d
    /\ moved' = moved + d
    /\ lost' = IF reading THEN lost + d ELSE lost
    /\ UNCHANGED <<total, perPeriod, reading>>

(* Variant: a counter in the upper half is not taken for a negative one. *)
CorrectedTooLate(count) == IF count < -Half - 1 THEN count + EncodeMax ELSE count

(* The correction of encode_update for a counter that ran below zero. *)
Corrected(count) == IF count <= -Half THEN count + EncodeMax ELSE count

Read == /\ ~reading
        /\ perPeriod' = Corrected(-counter)
        /\ total' = total + perPeriod'
        /\ reading' = TRUE
        /\ UNCHANGED <<counter, moved, position, lost>>

Reset == /\ reading
         /\ counter' = 0
         /\ moved' = 0
         /\ reading' = FALSE
         /\ UNCHANGED <<total, perPeriod, position, lost>>

Next == Pulse(1) \/ Pulse(-1) \/ Read \/ Reset

-----------------------------------------------------------------------------
(* Over any number of updates and turns of the counter encode_total is the  *)
(* way travelled, backwards, less the pulses that came between the read of  *)
(* the counter and its reset (component_tim_encode.c:43-55), which are the  *)
(* only ones lost.                                                          *)
EncoderTracks == ~reading => total = -(position - lost - moved)
=============================================================================
