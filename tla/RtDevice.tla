------------------------------ MODULE RtDevice ------------------------------
(***************************************************************************)
(* device.c on the container of device objects: registration is a search    *)
(* for the name followed by rt_object_init and by the reset of the device's *)
(* fields, each a step (or several).  Users initialise, open and close a    *)
(* device at the same time: nothing in device.c locks, and the operations   *)
(* of the driver, which are external and may fail, run in the middle of the *)
(* calls.  A user has a device open once, closes what it has opened, and    *)
(* the device is not unregistered before (nor during a call).               *)
(***************************************************************************)
EXTENDS RtObject, FiniteSets

CONSTANTS User,         \* whoever opens a device: one for each open
          Standalone,   \* devices registered with RT_DEVICE_FLAG_STANDALONE
          Bare,         \* devices whose driver has no device_open
          Spoilt        \* bound: the devices with which users go on as before
                        \* although they are early or torn

(* ref_count has 8 bits: the assertion of device.c:255.                     *)
DeviceAssumption ==
    /\ IsFiniteSet(User) /\ Cardinality(User) < 256
    /\ Standalone \subseteq Object /\ Bare \subseteq Object

VARIABLES
    dev,        \* device -> [activated, open, ref]
    driver,     \* external: device -> the driver has it open
    users,      \* device -> the users that have it open
    call,       \* user -> the call it is in: [at, obj, count], count: what it
                \* has read from ref_count
    doubtful,   \* history: devices linked while another thread was registering
                \* the same name
    early,      \* history: devices used before their registration was over
    torn        \* history: devices with calls that disturbed each other

deviceVars == <<dev, driver, users, call, doubtful, early, torn>>

Fresh == [activated |-> FALSE, open |-> FALSE, ref |-> 0]
Out == [at |-> "out", obj |-> NoObject, count |-> 0]

DeviceInit ==
    /\ dev = [o \in Object |-> Fresh]
    /\ driver = [o \in Object |-> FALSE]
    /\ users = [o \in Object |-> {}]
    /\ call = [u \in User |-> Out]
    /\ doubtful = {} /\ early = {} /\ torn = {}

(* rt_device_register: the search for the name. *)
Register(t, o, n) ==
    /\ job[t].at = "idle"
    /\ o \notin IrqObject /\ type[o] = "null" /\ Unclaimed(o)
    /\ Search(t, [Idle EXCEPT !.op = "register", !.obj = o, !.name = n])
    /\ UNCHANGED <<list, type, name, deviceVars>>

(* A name that is taken ends it; otherwise rt_object_init. *)
Registered(t) ==
    /\ job[t].at = "found" /\ job[t].op = "register"
    /\ IF job[t].node # NoObject
       THEN /\ Runs(t)
            /\ job' = [job EXCEPT ![t] = Idle]
            /\ present' = [present EXCEPT ![t] = {}]
            /\ UNCHANGED lock
       ELSE Search(t, [job[t] EXCEPT !.op = "init"])
    /\ UNCHANGED <<list, type, name, deviceVars>>

(* rt_object_init links the device; its fields are reset afterwards. *)
Link(t) ==
    /\ Runs(t) /\ job[t].at = "insert"
    /\ list' = PushFront(list, job[t].obj)
    /\ Goto(t, "reset")
    /\ doubtful' = IF \E u \in Thread \ {t} : /\ job[u].op \in {"register", "init"}
                                              /\ job[u].name = job[t].name
                   THEN doubtful \cup {job[t].obj} ELSE doubtful
    /\ UNCHANGED <<type, name, lock, present, dev, driver, users, call, early, torn>>

Reset(t) ==
    /\ Runs(t) /\ job[t].at = "reset"
    /\ dev' = [dev EXCEPT ![job[t].obj] = Fresh]
    /\ job' = [job EXCEPT ![t] = Idle]
    /\ present' = [present EXCEPT ![t] = {}]
    /\ UNCHANGED <<list, type, name, lock, driver, users, call, doubtful, early, torn>>

(* rt_device_unregister, rt_object_detach.  Not while a user has the device *)
(* open or is in a call: the code does not look, the application sees to it. *)
Unregister(t, o) ==
    /\ users[o] = {} /\ \A u \in User : call[u].obj # o
    /\ TakeDown(t, o)
    /\ driver' = [driver EXCEPT ![o] = FALSE]
    /\ UNCHANGED <<dev, users, call, doubtful, early, torn>>

Unregistered(t) ==
    /\ UnlinkObject(t)
    /\ doubtful' = doubtful \ {job[t].obj}
    /\ early' = early \ {job[t].obj}
    /\ torn' = torn \ {job[t].obj}
    /\ UNCHANGED <<dev, driver, users, call>>

(* The calls of users.  A user thread runs while no search has the scheduler *)
(* locked, and each access of its call to what the calls share is a step.   *)
CalledOn(o, ats) == {u \in User : call[u].obj = o /\ call[u].at \in ats}

(* Two calls that disturb each other: both have read ref_count and neither  *)
(* has written it; one has opened the driver and another closes it; both    *)
(* have passed the test of a stand-alone device; one initialises a driver   *)
(* that is open.                                                            *)
Overlap(o) ==
    \/ \E u, v \in CalledOn(o, {"o_write", "c_write"}) : u # v
    \/ CalledOn(o, {"o_flag", "o_read", "o_write"}) # {} /\ CalledOn(o, {"c_driver", "c_flag"}) # {}
    \/ o \in Standalone /\ \E u, v \in CalledOn(o, {"o_driver", "o_flag"}) : u # v
    \/ driver[o] /\ CalledOn(o, {"i_init", "o_init"}) # {}

(* The call of u goes on at "at", or is over. *)
On(u, at) == call' = [call EXCEPT ![u].at = at]
Over(u) == call' = [call EXCEPT ![u] = Out]

Begin(u, o, at) == call' = [call EXCEPT ![u] = [Out EXCEPT !.at = at, !.obj = o]]

(* rt_device_init, up to the driver's initialisation. *)
BeginInit(u, o) ==
    /\ ~dev[o].activated
    /\ Begin(u, o, "i_init")
    /\ UNCHANGED <<dev, driver, users>>

(* rt_device_open, up to the test of RT_DEVICE_FLAG_ACTIVATED. *)
BeginOpen(u, o) ==
    /\ u \notin users[o]
    /\ Begin(u, o, IF dev[o].activated THEN "o_busy" ELSE "o_init")
    /\ UNCHANGED <<dev, driver, users>>

BeginClose(u, o) ==
    /\ u \in users[o]
    /\ Begin(u, o, "c_test")
    /\ UNCHANGED <<dev, driver, users>>

(* The driver's initialisation, which may leave it closed and may fail. *)
Initialise(u, o) ==
    /\ call[u].at \in {"i_init", "o_init"}
    /\ \E d \in {driver[o], FALSE} : driver' = [driver EXCEPT ![o] = d]
    /\ \/ /\ dev' = [dev EXCEPT ![o].activated = TRUE]
          /\ IF call[u].at = "i_init" THEN Over(u) ELSE On(u, "o_busy")
       \/ Over(u) /\ UNCHANGED dev
    /\ UNCHANGED users

(* A stand-alone device that is open answers -RT_EBUSY. *)
TestBusy(u, o) ==
    /\ call[u].at = "o_busy"
    /\ IF o \in Standalone /\ dev[o].open THEN Over(u) ELSE On(u, "o_driver")
    /\ UNCHANGED <<dev, driver, users>>

(* The driver opens the device or not; for one that has nothing to open,    *)
(* open_flag is overwritten by the flags of the caller.                     *)
OpenDriver(u, o) ==
    /\ call[u].at = "o_driver"
    /\ \/ /\ driver' = [driver EXCEPT ![o] = TRUE]
          /\ dev' = IF o \in Bare THEN [dev EXCEPT ![o].open = FALSE] ELSE dev
          /\ On(u, "o_flag")
       \/ o \notin Bare /\ Over(u) /\ UNCHANGED <<dev, driver>>
    /\ UNCHANGED users

SetOpen(u, o) ==
    /\ call[u].at = "o_flag"
    /\ dev' = [dev EXCEPT ![o].open = TRUE]
    /\ On(u, "o_read")
    /\ UNCHANGED <<driver, users>>

(* ref_count++ and ref_count-- read the count and write it later. *)
ReadCount(u, o) ==
    /\ call[u].at \in {"o_read", "c_read"}
    /\ call' = [call EXCEPT ![u].at = IF @ = "o_read" THEN "o_write" ELSE "c_write",
                            ![u].count = dev[o].ref]
    /\ UNCHANGED <<dev, driver, users>>

WriteMore(u, o) ==
    /\ call[u].at = "o_write"
    /\ dev' = [dev EXCEPT ![o].ref = (call[u].count + 1) % 256]
    /\ users' = [users EXCEPT ![o] = @ \cup {u}]
    /\ Over(u)
    /\ UNCHANGED driver

(* rt_device_close refuses a device without users. *)
TestUsed(u, o) ==
    /\ call[u].at = "c_test"
    /\ IF dev[o].ref = 0
       THEN Over(u) /\ users' = [users EXCEPT ![o] = @ \ {u}]
       ELSE On(u, "c_read") /\ UNCHANGED users
    /\ UNCHANGED <<dev, driver>>

WriteLess(u, o) ==
    /\ call[u].at = "c_write"
    /\ dev' = [dev EXCEPT ![o].ref = (call[u].count - 1) % 256]
    /\ users' = [users EXCEPT ![o] = @ \ {u}]
    /\ Begin(u, o, "c_last")
    /\ UNCHANGED driver

(* Variant: the driver closes the device for every user that leaves. *)
NeverLast(u, o) ==
    /\ call[u].at = "c_last"
    /\ On(u, "c_driver")
    /\ UNCHANGED <<dev, driver, users>>

(* A build that tests the value it has written does so in the step that     *)
(* follows.                                                                 *)
TestLast(u, o) ==
    /\ call[u].at = "c_last"
    /\ IF dev[o].ref # 0 THEN Over(u) ELSE On(u, "c_driver")
    /\ UNCHANGED <<dev, driver, users>>

(* If the driver cannot close it, the device keeps its open flag, and a     *)
(* stand-alone one stays busy.                                              *)
CloseDriver(u, o) ==
    /\ call[u].at = "c_driver"
    /\ \/ driver' = [driver EXCEPT ![o] = FALSE] /\ On(u, "c_flag")
       \/ Over(u) /\ UNCHANGED driver
    /\ UNCHANGED <<dev, users>>

ClearOpen(u, o) ==
    /\ call[u].at = "c_flag"
    /\ dev' = [dev EXCEPT ![o].open = FALSE]
    /\ Over(u)
    /\ UNCHANGED <<driver, users>>

(* A user calls with a device that it finds in the list.  While a device    *)
(* outside Spoilt is early or torn, users only close what they have open,   *)
(* one at a time, until it can be unregistered.                             *)
Enter(u, o) ==
    /\ call[u] = Out /\ type[o] # "null" /\ o \in Elems(list)
    /\ \/ /\ early \cup torn \subseteq Spoilt
          /\ BeginInit(u, o) \/ BeginOpen(u, o) \/ BeginClose(u, o)
       \/ (\A v \in User : call[v] = Out) /\ BeginClose(u, o)
    /\ early' = IF Unclaimed(o) THEN early ELSE early \cup {o}

Proceed(u, o) ==
    /\ call[u].obj = o
    /\ \/ Initialise(u, o) \/ TestBusy(u, o) \/ OpenDriver(u, o) \/ SetOpen(u, o)
       \/ ReadCount(u, o) \/ WriteMore(u, o)
       \/ TestUsed(u, o) \/ WriteLess(u, o) \/ TestLast(u, o)
       \/ CloseDriver(u, o) \/ ClearOpen(u, o)
    /\ UNCHANGED early

DeviceUse ==
    /\ lock = NoThread
    /\ \E u \in User, o \in Object :
          /\ Enter(u, o) \/ Proceed(u, o)
          /\ torn' = IF Overlap(o)' THEN torn \cup {o} ELSE torn
    /\ UNCHANGED <<objectVars, doubtful>>

(* rt_device_read, rt_device_write: passed to the driver. *)
Usable(o) == dev[o].ref > 0

DeviceStep(t) ==
    \/ (Compare(t) \/ Fields(t)) /\ UNCHANGED deviceVars
    \/ \E o \in Object, n \in Name : Register(t, o, n)
    \/ Registered(t) \/ Link(t) \/ Reset(t) \/ Unregistered(t)
    \/ \E o \in Object : Unregister(t, o)

-----------------------------------------------------------------------------
(* Two devices share a name only if they were being registered at the same  *)
(* time: rt_device_register looks for the name before it is in the list     *)
(* (device.c:59-62).                                                        *)
NamesShared ==
    \A a, b \in Elems(list) : a # b /\ name[a] = name[b] => a \in doubtful \/ b \in doubtful

(* The count of a device is the number of its users at every step of their  *)
(* calls; while there are any, the device is activated and open, and so is  *)
(* its driver (open_flag is overwritten for a moment while another user     *)
(* opens a device without device_open); a stand-alone device has one user;  *)
(* and a device that nobody uses or closes is marked open only if the       *)
(* driver could not close it.  Exempt: a device with calls that disturbed   *)
(* each other (Overlap), and one that is used before rt_device_register has *)
(* reset its fields (device.c:63-65), whose users it forgets.               *)
UsersServed ==
    \A o \in Elems(list) : Unclaimed(o) /\ o \notin early \cup torn =>
        /\ dev[o].ref = Cardinality(users[o])
        /\ Usable(o) => /\ dev[o].activated /\ driver[o]
                        /\ dev[o].open \/ (o \in Bare /\ CalledOn(o, {"o_flag"}) # {})
        /\ o \in Standalone => Cardinality(users[o]) <= 1
        /\ users[o] = {} /\ CalledOn(o, {"c_flag"}) = {} /\ dev[o].open => driver[o]
=============================================================================
