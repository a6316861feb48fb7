----------------------------- MODULE RtMemPool -----------------------------
(***************************************************************************)
(* Memory pools (mempool.c): blocks of one size in a free list.  A thread   *)
(* that finds none waits, the last one in front, and looks again when a     *)
(* block comes back.                                                        *)
(***************************************************************************)
EXTENDS RtWait

CONSTANTS
    Pool,       \* the pools, each with its suspend list in Obj
    Total       \* block_total_count

ASSUME PoolAssumption ==
    /\ Pool \subseteq Obj
    /\ Total \in Nat \ {0}

BlockId == 1..Total
PoolState == [ list : Seq(BlockId), count : 0..Total ]

VARIABLES
    mp,     \* [Pool -> PoolState]: block_list, block_free_count
    out,    \* [Pool -> SUBSET BlockId]: history, the blocks handed out
    shut    \* the detached or deleted pools: applications let them be

poolVars == <<mp, out, shut>>

(* A pool as rt_mp_create and rt_mp_init leave it: the blocks by address. *)
AllFree == [list |-> [i \in BlockId |-> i], count |-> Total]

PoolInitState ==
    /\ mp = [p \in Pool |-> AllFree]
    /\ out = [p \in Pool |-> {}]
    /\ shut = {}

-----------------------------------------------------------------------------
(* rt_mp_alloc. *)

Pop(b) == [list |-> Tail(b.list), count |-> b.count - 1]

GetBlock(p) ==
    /\ mp' = [mp EXCEPT ![p] = Pop(@)]
    /\ out' = [out EXCEPT ![p] = @ \cup {Head(mp[p].list)}]

(* A free block at once.  No block and no time: -RT_ETIMEOUT.                *)
Alloc(t, p) ==
    /\ Asks(t, "mp_alloc") /\ p \notin shut /\ mp[p].count > 0
    /\ GetBlock(p)
    /\ UNCHANGED <<k, cpu, pc, arg, isr, prog, waitVars, shut>>

AllocRefused(t, p) ==
    /\ Asks(t, "mp_alloc") /\ p \notin shut /\ mp[p].count = 0
    /\ NoTime \in app.timeouts[t]
    /\ k' = [k EXCEPT !.err[t] = "timeout"]
    /\ UNCHANGED <<cpu, pc, arg, isr, prog, waitVars, poolVars>>

(* The caller goes to the front of the list, whatever its priority. *)
SuspendInFront(x, t, p) ==
    LET s == Suspend([x EXCEPT !.err[t] = "ok"], t)
    IN  [s EXCEPT !.wait[p] = PushFront(@, t), !.bad = @ \/ Linked(s, t)]

BlockInFront(x, t, p, n) ==
    LET s == SuspendInFront(x, t, p) IN IF n > 0 THEN TimerStart(s, t, n) ELSE s

AllocWait(t, p, n) ==
    /\ Asks(t, "mp_alloc") /\ p \notin shut /\ mp[p].count = 0 /\ n # NoTime
    /\ k' = BlockInFront(k, t, p, n)
    /\ Enter(t, "mp_alloc", p, n, NoCall.msg)
    /\ Goto(t, "wait_sched")
    /\ UNCHANGED <<cpu, arg, isr, prog, app, poolVars>>

(* The caller runs again: what is left of its time is computed before        *)
(* interrupts are disabled.                                                  *)
AllocWoken(t) ==
    /\ Woken(t, "mp_alloc")
    /\ frame' = [frame EXCEPT ![t].left = Left(t), ![t].since = 0]
    /\ Goto(t, "between")
    /\ UNCHANGED <<k, cpu, arg, isr, prog, app, poolVars>>

(* Next turn of the loop. *)
AllocAgain(t, p) ==
    /\ At(t, "between") /\ frame[t].call = "mp_alloc" /\ frame[t].obj = p
    /\ IF mp[p].count > 0
       THEN GetBlock(p) /\ Goto(t, "user") /\ Leave(t) /\ UNCHANGED k
       ELSE /\ IF frame[t].left = 0
               THEN k' = [k EXCEPT !.err[t] = "timeout"] /\ Goto(t, "user") /\ Leave(t)
               ELSE /\ k' = BlockInFront(k, t, p, frame[t].left)
                    /\ Enter(t, "mp_alloc", p, frame[t].left, NoCall.msg)
                    /\ Goto(t, "wait_sched")
            /\ UNCHANGED <<mp, out>>
    /\ UNCHANGED <<cpu, arg, isr, prog, app, shut>>

-----------------------------------------------------------------------------
(* rt_mp_free of a block that was handed out. *)
PutBlock(p, b) ==
    /\ mp' = [mp EXCEPT ![p] = [list |-> PushFront(@.list, b), count |-> @.count + 1]]
    /\ out' = [out EXCEPT ![p] = @ \ {b}]

(* The first waiting thread is resumed. *)
WakeForBlock(p) ==
    IF k.wait[p] = <<>> THEN k
    ELSE Resume([k EXCEPT !.err[Head(k.wait[p])] = "ok"], Head(k.wait[p]))

FreeBlock(t, p, b) ==
    /\ Asks(t, "mp_free") /\ p \notin shut
    /\ PutBlock(p, b)
    /\ k' = WakeForBlock(p)
    /\ IF k.wait[p] # <<>> THEN Goto(t, "sched") ELSE UNCHANGED pc
    /\ UNCHANGED <<cpu, arg, isr, prog, waitVars, shut>>

(* rt_mp_free in an interrupt handler. *)
DeviceFree(p, b) ==
    /\ DeviceAsks("mp_free") /\ p \notin shut
    /\ PutBlock(p, b)
    /\ \E w \in {WakeForBlock(p)} : k' = IF k.wait[p] # <<>> THEN Schedule(w) ELSE k
    /\ UNCHANGED <<cpu, pc, arg, isr, prog, waitVars, shut>>

(* rt_mp_detach and rt_mp_delete. *)
PoolDetach(t, p) ==
    /\ Asks(t, "mp_detach") /\ p \notin shut
    /\ shut' = shut \cup {p}
    /\ Enter(t, "mp_detach", p, NoTime, NoCall.msg)
    /\ Goto(t, "wake_test")
    /\ UNCHANGED <<k, cpu, arg, isr, prog, app, mp, out>>

PoolDetached(t) ==
    /\ AllWoken(t, "mp_detach")
    /\ Leave(t)
    /\ Goto(t, "user") \/ Goto(t, "sched")
    /\ UNCHANGED <<k, cpu, arg, isr, prog, app, poolVars>>

PoolStep(t) ==
    \/ \E p \in Pool : \/ Alloc(t, p)
                       \/ AllocRefused(t, p)
                       \/ \E n \in app.timeouts[t] : AllocWait(t, p, n)
                       \/ AllocAgain(t, p)
                       \/ \E b \in out[p] : FreeBlock(t, p, b)
                       \/ PoolDetach(t, p)
    \/ AllocWoken(t)
    \/ PoolDetached(t)

-----------------------------------------------------------------------------
(* Properties. *)

(* Every block is in the free list or handed out, once, and the counter that *)
(* decides whether the list is looked at counts it.                          *)
BlocksConserved ==
    \A p \in Pool : /\ mp[p].count = Len(mp[p].list)
                    /\ mp[p].count + Cardinality(out[p]) = Total
                    /\ BlockId = Elems(mp[p].list) \cup out[p]

(* Threads that were woken and have not yet looked again. *)
PoolComing(p) == {t \in Thread : frame[t].obj = p /\ frame[t].call = "mp_alloc"
                                 /\ k.err[t] = "ok" /\ k.stat[t] # "suspend"}

(* Nobody sleeps beside a block that no woken thread comes for. *)
NoPoolWaitInVain ==
    \A p \in Pool \ shut : k.wait[p] # <<>> => mp[p].count <= Cardinality(PoolComing(p))
=============================================================================
