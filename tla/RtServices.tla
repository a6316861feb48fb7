----------------------------- MODULE RtServices -----------------------------
(***************************************************************************)
(* The kernel services that consist of intrusive lists, on the list         *)
(* operations of RtList: the pointers themselves ("pointers"), the timer    *)
(* lists ("timers"), the object containers ("objects") and the devices      *)
(* registered in one ("devices").  The services do not share state: each    *)
(* behaviour runs one of them, from the initial states of all.              *)
(***************************************************************************)
EXTENDS RtList, FiniteSets

CONSTANTS Timer, NoTimer, Periods, TickMod, MaxLate,
          Thread, Object, Name, Dynamic, IrqObject, NoThread, NoObject,
          User, Standalone, Bare, Spoilt

VARIABLES
    part,        \* the service that runs
    tick, known, active, periodic, isSoft, init, timeout, hard, soft, local,
    check, service, raced, wanted,
    list, type, name, lock, job, present,
    dev, driver, users, call, doubtful, early, torn

T == INSTANCE RtTimer
D == INSTANCE RtDevice

(* What the modules assume of their constants. *)
ASSUME NodesFinite == IsFiniteSet(Node)
ASSUME TimersConfigured == T!TimerAssumption
ASSUME DevicesConfigured == D!ObjectAssumption /\ D!DeviceAssumption

timerVars == <<tick, known, active, periodic, isSoft, init, timeout, hard, soft,
               local, check, service, raced, wanted>>
objectVars == <<list, type, name, lock, job, present>>
deviceVars == <<dev, driver, users, call, doubtful, early, torn>>
serviceVars == <<part, vars, timerVars, objectVars, deviceVars>>

ServiceInit ==
    /\ part \in {"pointers", "timers", "objects", "devices"}
    /\ Init /\ T!Init /\ D!ObjectInit /\ D!DeviceInit

Pointers == /\ Next
            /\ part = "pointers" /\ UNCHANGED <<part, timerVars, objectVars, deviceVars>>
Timers == /\ T!Next
          /\ part = "timers" /\ UNCHANGED <<part, vars, objectVars, deviceVars>>
Objects == /\ \/ \E t \in Thread : D!ObjectStep(t)
              \/ \E o \in Object, n \in Name : D!IrqInit(o, n)
           /\ part = "objects" /\ UNCHANGED <<part, vars, timerVars, deviceVars>>
Devices == /\ (\E t \in Thread : D!DeviceStep(t)) \/ D!DeviceUse
           /\ part = "devices" /\ UNCHANGED <<part, vars, timerVars>>

ServiceNext == Pointers \/ Timers \/ Objects \/ Devices

ServiceSpec == ServiceInit /\ [][ServiceNext]_serviceVars

-----------------------------------------------------------------------------
(* The pointer code implements lists as sequences. *)
Abs == INSTANCE AbsLists
       WITH list <- [h \in Heads |-> IF part = "pointers" THEN Walk(h, Cardinality(Node))
                                     ELSE <<>>]
ImplementsLists == Abs!Spec

TimersListed == T!TimersListed
ServiceWakesInTime == T!ServiceWakesInTime
TimersKeepPromises == T!TimersKeepPromises
SearchesSound == D!SearchesSound
DevicesSound == part = "devices" => D!NamesShared /\ D!UsersServed
=============================================================================
