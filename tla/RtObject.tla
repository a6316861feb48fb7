------------------------------ MODULE RtObject ------------------------------
(***************************************************************************)
(* object.c: one container of kernel objects, used by threads that find,    *)
(* initialise, allocate, detach and delete objects, and by interrupts that  *)
(* initialise some.  The searches run with interrupts enabled under         *)
(* rt_enter_critical; the list is changed with interrupts disabled, in a    *)
(* step of its own, apart from the object's type.  An object belongs to     *)
(* the thread that sets it up or takes it down until that is finished, and  *)
(* interrupts do not detach objects.                                        *)
(***************************************************************************)
EXTENDS Lists

CONSTANTS Thread, Object, Name,
          Dynamic,            \* objects of the heap; the others are static
          IrqObject,          \* static objects that interrupts set up
          NoThread, NoObject

ObjectAssumption ==
    /\ Dynamic \subseteq Object /\ IrqObject \subseteq Object \ Dynamic
    /\ NoThread \notin Thread /\ NoObject \notin Object

VARIABLES
    list,     \* information->object_list
    type,     \* object -> "null", "static" or "dynamic"
    name,     \* object -> name
    lock,     \* the thread in rt_enter_critical
    job,      \* thread -> the call it is in
    present   \* history: thread -> the objects it seeks that have been in the
              \* list since its search began

objectVars == <<list, type, name, lock, job, present>>

Idle == [at |-> "idle", op |-> "none", obj |-> NoObject, name |-> "", node |-> NoObject]

ObjectInit ==
    /\ list = <<>>
    /\ type = [o \in Object |-> "null"]
    /\ name = [o \in Object |-> ""]
    /\ lock = NoThread
    /\ job = [t \in Thread |-> Idle]
    /\ present = [t \in Thread |-> {}]

(* One processor: while the scheduler is locked no other thread runs. *)
Runs(t) == lock \in {NoThread, t}

First == IF list = <<>> THEN NoObject ELSE list[1]
(* The node behind o; NoObject is the head. *)
Behind(o) == LET i == CHOOSE j \in DOMAIN list : list[j] = o
             IN  IF i = Len(list) THEN NoObject ELSE list[i + 1]

(* Nobody sets o up or takes it down. *)
Unclaimed(o) == \A t \in Thread : job[t].obj # o

(* Variant: the search does not lock the scheduler. *)
SearchUnlocked(t, j) ==
    /\ UNCHANGED lock
    /\ job' = [job EXCEPT ![t] = [j EXCEPT !.at = "search", !.node = First]]
    /\ present' = [present EXCEPT ![t] = {o \in Elems(list) : name[o] = j.name}]

(* rt_enter_critical, and the first node. *)
Search(t, j) ==
    /\ lock = NoThread
    /\ lock' = t
    /\ job' = [job EXCEPT ![t] = [j EXCEPT !.at = "search", !.node = First]]
    /\ present' = [present EXCEPT ![t] = {o \in Elems(list) : name[o] = j.name}]

(* rt_object_find; rt_device_register begins in the same way (device.c:59). *)
Find(t, n) ==
    /\ job[t].at = "idle"
    /\ Search(t, [Idle EXCEPT !.op = "find", !.name = n])
    /\ UNCHANGED <<list, type, name>>

(* rt_object_init on an object that is not in use. *)
InitObject(t, o, n) ==
    /\ job[t].at = "idle"
    /\ o \notin Dynamic \cup IrqObject /\ type[o] = "null" /\ Unclaimed(o)
    /\ Search(t, [Idle EXCEPT !.op = "init", !.obj = o, !.name = n])
    /\ UNCHANGED <<list, type, name>>

Goto(t, at) == job' = [job EXCEPT ![t].at = at]

(* rt_object_allocate: RT_KERNEL_MALLOC gives memory that is not in use (if *)
(* it gives none nothing happens).                                          *)
Allocate(t, o, n) ==
    /\ Runs(t) /\ job[t].at = "idle"
    /\ o \in Dynamic /\ type[o] = "null" /\ Unclaimed(o)
    /\ job' = [job EXCEPT ![t] = [Idle EXCEPT !.op = "allocate", !.at = "fields",
                                              !.obj = o, !.name = n]]
    /\ UNCHANGED <<list, type, name, lock, present>>

(* One turn of the search: a name that matches ends a find; rt_object_init  *)
(* looks whether the object itself is in the list already.                  *)
Compare(t) ==
    /\ job[t].at = "search" /\ Runs(t)
    /\ LET n == job[t].node
           ends == n = NoObject \/ (job[t].op # "init" /\ name[n] = job[t].name)
       IN  /\ n # job[t].obj \/ n = NoObject        \* the assertion
           /\ IF ends
              THEN /\ lock' = NoThread
                   /\ Goto(t, IF job[t].op = "init" THEN "fields" ELSE "found")
              ELSE /\ n \in Elems(list)  \* otherwise its next is n for ever
                   /\ job' = [job EXCEPT ![t].node = Behind(n)]
                   /\ UNCHANGED lock
    /\ UNCHANGED <<list, type, name, present>>

(* The search has returned. *)
Found(t) ==
    /\ Runs(t) /\ job[t].at = "found" /\ job[t].op = "find"
    /\ job' = [job EXCEPT ![t] = Idle]
    /\ present' = [present EXCEPT ![t] = {}]
    /\ UNCHANGED <<list, type, name, lock>>

Fields(t) ==
    /\ Runs(t) /\ job[t].at = "fields"
    /\ LET o == job[t].obj
       IN  /\ type' = [type EXCEPT ![o] = IF job[t].op = "allocate" THEN "dynamic" ELSE "static"]
           /\ name' = [name EXCEPT ![o] = job[t].name]
    /\ Goto(t, "insert")
    /\ UNCHANGED <<list, lock, present>>

Insert(t) ==
    /\ Runs(t) /\ job[t].at = "insert"
    /\ list' = PushFront(list, job[t].obj)
    /\ job' = [job EXCEPT ![t] = Idle]
    /\ present' = [present EXCEPT ![t] = {}]
    /\ UNCHANGED <<type, name, lock>>

(* rt_object_detach and rt_object_delete: the type is reset first. *)
TakeDown(t, o) ==
    /\ Runs(t) /\ job[t].at = "idle"
    /\ type[o] # "null" /\ Unclaimed(o) /\ o \notin IrqObject
    /\ type' = [type EXCEPT ![o] = "null"]
    /\ job' = [job EXCEPT ![t] = [Idle EXCEPT !.op = "detach", !.at = "unlink", !.obj = o]]
    /\ UNCHANGED <<list, name, lock, present>>

(* The name of an object that is in no list is not looked at again: kept "". *)
UnlinkObject(t) ==
    /\ Runs(t) /\ job[t].at = "unlink"
    /\ list' = Unlink(list, job[t].obj)
    /\ name' = [name EXCEPT ![job[t].obj] = ""]
    /\ present' = [u \in Thread |-> present[u] \ {job[t].obj}]
    /\ job' = [job EXCEPT ![t] = Idle]
    /\ UNCHANGED <<type, lock>>

(* rt_object_init, all of it, in an interrupt. *)
IrqInit(o, n) ==
    /\ o \in IrqObject /\ type[o] = "null"
    /\ list' = PushFront(list, o)
    /\ type' = [type EXCEPT ![o] = "static"]
    /\ name' = [name EXCEPT ![o] = n]
    /\ UNCHANGED <<lock, job, present>>

ObjectStep(t) ==
    \/ \E n \in Name : Find(t, n)
    \/ \E o \in Object, n \in Name : InitObject(t, o, n) \/ Allocate(t, o, n)
    \/ Compare(t) \/ Found(t) \/ Fields(t) \/ Insert(t)
    \/ \E o \in Object : TakeDown(t, o)
    \/ UnlinkObject(t)

-----------------------------------------------------------------------------
(* A search never stands on an object that has left the list, and finds     *)
(* none only if none of the name was there all the while; meanwhile         *)
(* interrupts add objects, and the objects themselves keep the type that    *)
(* says whether they are in the list, but for those being set up or taken   *)
(* down.                                                                    *)
SearchesSound ==
    /\ \A t \in Thread :
          /\ job[t].at = "search" => job[t].node \in Elems(list) \cup {NoObject}
          /\ job[t].at = "found" /\ job[t].node = NoObject => present[t] = {}
    /\ IsOnce(list)
    /\ \A o \in Object : Unclaimed(o) => (type[o] # "null") = (o \in Elems(list))
=============================================================================
