---------------------------- MODULE SchedulerList ----------------------------
(***************************************************************************)
(* Src/scheduler_list.c: a priority scheduler whose threads are functions   *)
(* called to completion.  SysTick_Handler counts sleepers down, picks the   *)
(* best ready thread and calls its function inside the interrupt; only the  *)
(* first thread (scheduler_start) runs in thread mode, where SysTick may    *)
(* interrupt it between any two steps.                                      *)
(*                                                                         *)
(* Lists are sequences of threads (a TCB's ready_node is in at most one     *)
(* ready list, its sleep_node in at most one of the other lists); linking a *)
(* node that is already linked, or following a list head as if it were a    *)
(* TCB, sets `fault' and ends the behaviour: what the C program does after  *)
(* that is undefined.                                                       *)
(***************************************************************************)
EXTENDS Lists, SequencesExt

CONSTANTS
    Thread,
    NoThread,       \* NULL
    MaxPriority,    \* MAX_PRIORITY
    DefaultSlice,   \* TIME_SLICE_TICKS
    SleepArg,       \* the arguments threads pass to thread_sleep
    MaxCalls,       \* bound: kernel calls in one run of a body
    Programs        \* the application programs considered

(* An application: the arguments of its thread_create calls (a priority of 0 *)
(* is the highest), the threads whose bodies call thread_sleep and           *)
(* thread_exit, the threads created by a running body instead of before the  *)
(* start, and whether the first thread calls the kernel in thread mode.      *)
Program == [ Priority : [Thread -> Nat], Boost : [Thread -> Nat], Slice : [Thread -> Nat],
             MaySleep : SUBSET Thread, MayExit : SUBSET Thread, LateThread : SUBSET Thread,
             ThreadModeCalls : BOOLEAN ]

ASSUME SchedulerListAssumption ==
    /\ NoThread \notin Thread
    /\ MaxPriority \in Nat \ {0}
    /\ DefaultSlice \in Nat \ {0}
    /\ SleepArg \subseteq Nat /\ MaxCalls \in Nat
    /\ Programs \subseteq Program

Prio == 0..(MaxPriority - 1)

VARIABLES
    s,      \* the globals of scheduler_list.c and the fields of the TCBs
    stack,  \* the function bodies being executed, the running one last
    isr,    \* SysTick_Handler is active
    prog,   \* the program, chosen once
    phase   \* "boot" until scheduler_start, "on" after, "halted" in its while (1)

vars == <<s, stack, isr, prog, phase>>

(* A running body: whose it is, where it is, the locals of the call it is    *)
(* in, the calls it has made, and whether SysTick_Handler called it.         *)
Frame(t) == [owner |-> t, pc |-> "body", arg |-> 0, old |-> 0, calls |-> 0, root |-> FALSE]

Priority == prog.Priority

(* scheduler_init; the TCBs are not yet created. *)
Init ==
    /\ prog \in Programs
    /\ s = [ready   |-> [p \in Prio |-> <<>>],   rbm |-> {},
            sleep   |-> [p \in Prio |-> <<>>],   sbm |-> {},
            timeout |-> <<>>, defunct |-> <<>>,
            prio    |-> Priority, ticks |-> [t \in Thread |-> 0],
            slice   |-> [t \in Thread |-> 0],
            status  |-> [t \in Thread |-> "none"],
            current |-> NoThread, fault |-> "none"]
    /\ stack = <<>> /\ isr = FALSE /\ phase = "boot"

-----------------------------------------------------------------------------
(* Pure parts of the functions, from scheduler state to scheduler state.    *)

SliceMax(t) == IF prog.Slice[t] = 0 THEN DefaultSlice ELSE prog.Slice[t]

ReadyLinked(q, t) == \E p \in Prio : t \in Elems(q.ready[p])
SleepLinked(q, t) == \/ \E p \in Prio : t \in Elems(q.sleep[p])
                     \/ t \in Elems(q.timeout) \/ t \in Elems(q.defunct)

(* list_insert_tail of t's ready_node, and the bitmap update that follows. *)
LinkReady(q, t, p) ==
    IF ReadyLinked(q, t) THEN [q EXCEPT !.fault = "relinked"]
    ELSE [q EXCEPT !.ready[p] = PushBack(@, t), !.rbm = @ \cup {p}]

(* list_remove of t's ready_node; clears the bit of p if list p is empty. *)
UnlinkReady(q, t, p) ==
    LET r == [i \in Prio |-> Unlink(q.ready[i], t)]
    IN  [q EXCEPT !.ready = r, !.rbm = IF r[p] = <<>> THEN @ \ {p} ELSE @]

(* thread_create. *)
Create(q, t) ==
    IF Priority[t] >= MaxPriority \/ prog.Boost[t] > Priority[t] THEN q
    ELSE LinkReady([q EXCEPT !.prio[t] = Priority[t], !.ticks[t] = 0,
                             !.slice[t] = SliceMax(t), !.status[t] = "ready"],
                   t, Priority[t])

(* SysTick_Handler, for one sleeper: one tick less; on the last one it moves *)
(* to timeout_list.  A sleeper with 0 ticks is not counted.                 *)
CountOne(q, t) ==
    LET rest == [p \in Prio |-> Unlink(q.sleep[p], t)]
        less == [q EXCEPT !.ticks[t] = @ - 1]
    IN  IF q.ticks[t] = 0 THEN q
        ELSE IF q.ticks[t] > 1 THEN less
        ELSE [less EXCEPT !.status[t] = "ready",
                          !.sleep     = rest,
                          !.sbm       = {p \in @ : rest[p] # <<>> \/ rest[p] = q.sleep[p]},
                          !.timeout   = PushBack(@, t)]

(* The sleepers of the given priorities, by priority and then by age. *)
SleepersOf(q, prios) ==
    FlattenSeq([i \in 1..MaxPriority |-> IF i - 1 \in prios THEN q.sleep[i - 1] ELSE <<>>])

(* Variant: the loop stops after the first priority of the bitmap. *)
CountDownFirst(q) ==
    FoldLeft(CountOne, q, SleepersOf(q, {p \in q.sbm : \A o \in q.sbm : p <= o}))

CountDown(q) == FoldLeft(CountOne, q, SleepersOf(q, q.sbm))

(* SysTick_Handler: the time slice of the current thread. *)
CountSlice(q) ==
    IF q.current # NoThread /\ q.slice[q.current] > 0
    THEN [q EXCEPT !.slice[q.current] = @ - 1] ELSE q

(* Variant: the thread is linked at its original priority without leaving    *)
(* the boosted list.                                                         *)
RestoreNoUnlink(q) ==
    LET c == q.current
    IN  IF c = NoThread \/ q.prio[c] = Priority[c] THEN q
        ELSE IF ReadyLinked(q, c) THEN LinkReady([q EXCEPT !.prio[c] = Priority[c]], c, Priority[c])
        ELSE [q EXCEPT !.prio[c] = Priority[c]]

(* scheduler, first part: a boosted current thread returns to its original  *)
(* priority.                                                                *)
RestorePriority(q) ==
    LET c == q.current
    IN  IF c = NoThread \/ q.prio[c] = Priority[c] THEN q
        ELSE LET r == [q EXCEPT !.prio[c] = Priority[c]]
             IN  IF ReadyLinked(q, c)
                 THEN LinkReady(UnlinkReady(r, c, q.prio[c]), c, Priority[c]) ELSE r

(* Variant: the ready bit of the boosted priority is not set. *)
WakeOneNoBit(q, t) ==
    LET new == IF prog.Boost[t] <= Priority[t] THEN Priority[t] - prog.Boost[t] ELSE 0
    IN  [q EXCEPT !.slice[t] = SliceMax(t), !.prio[t] = new, !.ready[new] = PushBack(@, t)]

(* scheduler, second part: every thread of timeout_list becomes ready at    *)
(* its boosted priority with a full slice.                                  *)
WakeOne(q, t) ==
    LET old == q.prio[t]
        new == IF prog.Boost[t] <= Priority[t] THEN Priority[t] - prog.Boost[t] ELSE 0
        r   == LinkReady([q EXCEPT !.slice[t] = SliceMax(t), !.prio[t] = new], t, new)
    IN  IF old # new /\ r.ready[old] = <<>> THEN [r EXCEPT !.rbm = @ \ {old}] ELSE r

WakeTimedOut(q) == FoldLeft(WakeOne, [q EXCEPT !.timeout = <<>>], q.timeout)

(* scheduler, third part: the head of the highest non-empty list becomes    *)
(* current and moves to the tail.  When the current thread itself is that   *)
(* head with an empty slice and a peer behind it, the code moves it to the  *)
(* tail first and then takes best_node->next: the list head.                *)
CanPick(q) == q.rbm # {} /\ q.ready[Min(q.rbm)] # <<>>

(* Variant: an empty slice is renewed, the list is not rotated. *)
PickRenewOnly(q) ==
    LET best == Head(q.ready[Min(q.rbm)])
    IN  [q EXCEPT !.slice[best] = IF best = q.current /\ @ = 0 THEN SliceMax(best) ELSE @,
                  !.current = best]

Pick(q) ==
    LET hp      == Min(q.rbm)
        list    == q.ready[hp]
        best    == Head(list)
        expired == best = q.current /\ q.slice[best] = 0
    IN  IF expired /\ Len(list) > 1 THEN [q EXCEPT !.fault = "wild"]
        ELSE [q EXCEPT !.slice[best] = IF expired THEN SliceMax(best) ELSE @,
                       !.current     = best,
                       !.ready[hp]   = Append(Tail(list), best)]

(* thread_exit: the sleep_node leaves the list it is in. *)
UnlinkSleep(q, t) ==
    IF ~SleepLinked(q, t) THEN q
    ELSE LET r == [p \in Prio |-> Unlink(q.sleep[p], t)]
         IN  [q EXCEPT !.sleep   = r,
                       !.timeout = Unlink(@, t),
                       !.defunct = Unlink(@, t),
                       !.sbm     = IF r[Priority[t]] = <<>> THEN @ \ {Priority[t]} ELSE @]
-----------------------------------------------------------------------------
(* Actions. *)

Top == stack[Len(stack)]
Alive == s.fault = "none"
Running(pc) == Alive /\ stack # <<>> /\ Top.pc = pc
SetTop(f) == [stack EXCEPT ![Len(stack)] = f]
Goto(pc) == stack' = SetTop([Top EXCEPT !.pc = pc])

ThreadCreate(t) ==
    /\ IF t \in prog.LateThread THEN isr /\ Running("body") ELSE phase = "boot"
    /\ Alive /\ s.status[t] = "none"
    /\ s' = Create(s, t)
    /\ UNCHANGED <<stack, isr, phase, prog>>

SchedulerStart ==
    /\ phase = "boot"
    /\ IF CanPick(s)
       THEN LET first == Head(s.ready[Min(s.rbm)])
            IN  /\ s' = [s EXCEPT !.current = first]
                /\ stack' = <<Frame(first)>>
                /\ phase' = "on"
       ELSE phase' = "halted" /\ UNCHANGED <<s, stack>>
    /\ UNCHANGED <<isr, prog>>

(* SysTick_Handler up to the call of the chosen thread, in one step: nothing *)
(* in the program can interrupt it.                                          *)
SysTick ==
    /\ Alive /\ phase = "on" /\ ~isr
    /\ \E counted \in {CountSlice(CountDown(s))} : \E restored \in {RestorePriority(counted)} :
       \E q \in {WakeTimedOut(restored)} :
          IF q.fault = "none" /\ CanPick(q)
          THEN \E r \in {Pick(q)} :
                 /\ s' = r
                 /\ IF r.fault = "none"
                    THEN isr' = TRUE /\ stack' = Append(stack, [Frame(r.current) EXCEPT !.root = TRUE])
                    ELSE UNCHANGED <<isr, stack>>
          ELSE s' = q /\ UNCHANGED <<isr, stack>>
    /\ UNCHANGED <<phase, prog>>

(* A body calls into the scheduler. *)
MayCall == /\ Running("body") /\ (isr \/ prog.ThreadModeCalls)
           /\ Top.calls < MaxCalls

CallSleep(n) ==
    /\ MayCall /\ Top.owner \in prog.MaySleep
    /\ stack' = SetTop([Top EXCEPT !.pc = "sleep_mark", !.arg = n, !.calls = @ + 1])
    /\ UNCHANGED <<s, isr, phase, prog>>

CallExit ==
    /\ MayCall /\ Top.owner \in prog.MayExit
    /\ stack' = SetTop([Top EXCEPT !.pc = "exit_mark", !.calls = @ + 1])
    /\ UNCHANGED <<s, isr, phase, prog>>

(* A body returns to its caller; the one SysTick_Handler called ends the    *)
(* interrupt.                                                               *)
Return ==
    /\ Running("body")
    /\ stack' = Front(stack)
    /\ isr' = (isr /\ ~Top.root)
    /\ UNCHANGED <<s, phase, prog>>

(* thread_sleep, cut where list operations begin; every step reads          *)
(* current_thread again.                                                    *)
SleepMark ==
    /\ Running("sleep_mark")
    /\ LET c == s.current
       IN  IF s.status[c] = "sleep" THEN Goto("body") /\ UNCHANGED s
           ELSE /\ s' = [s EXCEPT !.ticks[c] = Top.arg, !.status[c] = "sleep",
                                  !.prio[c] = Priority[c]]
                /\ stack' = SetTop([Top EXCEPT !.pc = "sleep_unlink", !.old = s.prio[c]])
    /\ UNCHANGED <<isr, phase, prog>>

SleepUnlink ==
    /\ Running("sleep_unlink")
    /\ s' = IF ReadyLinked(s, s.current) THEN UnlinkReady(s, s.current, Top.old) ELSE s
    /\ Goto("sleep_link")
    /\ UNCHANGED <<isr, phase, prog>>

SleepLink ==
    /\ Running("sleep_link")
    /\ LET c == s.current
           p == s.prio[c]
       IN  s' = IF SleepLinked(s, c) THEN [s EXCEPT !.fault = "relinked"]
                ELSE [s EXCEPT !.sleep[p] = PushBack(@, c), !.sbm = @ \cup {p}]
    /\ Goto("func")
    /\ UNCHANGED <<isr, phase, prog>>

(* thread_exit, in the same way. *)
ExitMark ==
    /\ Running("exit_mark")
    /\ IF s.status[s.current] = "exit" THEN Goto("body") /\ UNCHANGED s
       ELSE s' = [s EXCEPT !.status[s.current] = "exit"] /\ Goto("exit_unlink")
    /\ UNCHANGED <<isr, phase, prog>>

(* Variant: the ready_node stays linked. *)
ExitUnlinkSleepOnly ==
    /\ Running("exit_unlink")
    /\ s' = UnlinkSleep(s, s.current)
    /\ Goto("exit_link")
    /\ UNCHANGED <<isr, phase, prog>>

ExitUnlink ==
    /\ Running("exit_unlink")
    /\ LET c == s.current
       IN  s' = UnlinkSleep(IF ReadyLinked(s, c) THEN UnlinkReady(s, c, s.prio[c]) ELSE s, c)
    /\ Goto("exit_link")
    /\ UNCHANGED <<isr, phase, prog>>

ExitLink ==
    /\ Running("exit_link")
    /\ s' = IF SleepLinked(s, s.current) THEN [s EXCEPT !.fault = "relinked"]
            ELSE [s EXCEPT !.defunct = PushBack(@, s.current)]
    /\ Goto("func")
    /\ UNCHANGED <<isr, phase, prog>>

(* The call current_thread->func() that ends thread_sleep and thread_exit. *)
CallFunc ==
    /\ Running("func")
    /\ stack' = Append(SetTop([Top EXCEPT !.pc = "body"]), Frame(s.current))
    /\ UNCHANGED <<s, isr, phase, prog>>

Step == \/ \E n \in SleepArg : CallSleep(n)
        \/ CallExit
        \/ Return
        \/ SleepMark \/ SleepUnlink \/ SleepLink
        \/ ExitMark \/ ExitUnlink \/ ExitLink
        \/ CallFunc

(* while (1) in scheduler_start. *)
Halted == phase = "halted" /\ UNCHANGED vars

Next == \/ \E t \in Thread : ThreadCreate(t)
        \/ SchedulerStart
        \/ Halted
        \/ SysTick
        \/ Step

(* The timer keeps ticking and the CPU keeps executing; a body runs to      *)
(* completion, as the scheduler requires of it (each makes at most MaxCalls *)
(* calls).                                                                  *)
Fairness == /\ WF_vars(SchedulerStart)
            /\ WF_vars(SysTick)
            /\ WF_vars(Step)

Spec == Init /\ [][Next]_vars /\ Fairness
-----------------------------------------------------------------------------
(* Properties. *)

(* The programs the scheduler is right for: no kernel calls in thread mode,  *)
(* no thread that both sleeps and exits, and an empty slice never finds a    *)
(* peer behind the current thread (line 292): whoever enters a ready list    *)
(* late, waking up at its boosted priority or created by a running body,     *)
(* does not meet a thread whose own priority that is, and a thread that      *)
(* shares its priority has a slice of two ticks at least.                    *)
OwnPlaces(p) ==
    /\ ~p.ThreadModeCalls
    /\ p.MaySleep \cap p.MayExit = {}
    /\ \A t, u \in Thread : t # u =>
          /\ t \in p.MaySleep => p.Priority[t] # p.Priority[u] + p.Boost[t]
          /\ t \in p.LateThread \/ p.Slice[t] = 1 \/ (p.Slice[t] = 0 /\ DefaultSlice = 1)
                => p.Priority[t] # p.Priority[u]

(* Some frame is between the first and the last step of thread_sleep or      *)
(* thread_exit.                                                              *)
InCall == \E i \in DOMAIN stack :
             stack[i].pc \in {"sleep_unlink", "sleep_link", "exit_unlink", "exit_link"}

(* status and the lists agree (TCB_t.status, scheduler_list.h:29): between   *)
(* calls, a ready thread is in the ready list of its current priority and in *)
(* no other, a sleeping one in the sleep list of its original priority, an   *)
(* exited one in defunct_list; timeout_list is empty.  At all times the      *)
(* bitmaps have exactly the bits of non-empty lists: scheduler and           *)
(* SysTick_Handler look at no list whose bit is clear.                       *)
StatusMatchesLists ==
    ~InCall =>
    /\ s.timeout = <<>>
    /\ \A t \in Thread, p \in Prio :
          /\ t \in Elems(s.ready[p]) <=> (s.status[t] = "ready" /\ p = s.prio[t])
          /\ t \in Elems(s.sleep[p]) <=> (s.status[t] = "sleep" /\ p = Priority[t])
    /\ \A t \in Thread : t \in Elems(s.defunct) <=> s.status[t] = "exit"
BitmapsExact == /\ s.rbm = {p \in Prio : s.ready[p] # <<>>}
                /\ s.sbm = {p \in Prio : s.sleep[p] # <<>>}
ListsAgree == StatusMatchesLists /\ BitmapsExact

(* No node is linked twice and current_thread is always a TCB.               *)
NoFault == s.fault = "none"

(* When SysTick_Handler calls a thread, no ready thread has a higher         *)
(* priority than the one called (scheduler, lines 275-320).                  *)
CallsHighest ==
    [][isr' /\ ~isr => \A t \in Thread : s'.status[t] = "ready"
                                       => s'.prio[s'.current] <= s'.prio[t]]_vars

(* A sleeper is counted down by every tick and woken by the last one, not    *)
(* one tick early or late, however many sleep at the same priority.          *)
WakesOnTime ==
    [][SysTick =>
         \A t \in Thread : s.status[t] = "sleep" /\ s.ticks[t] > 0 =>
            /\ s'.ticks[t] = s.ticks[t] - 1
            /\ s'.status[t] = IF s.ticks[t] = 1 THEN "ready" ELSE "sleep"]_vars

(* A thread that sleeps for at least one tick becomes ready again.           *)
SleeperWakes ==
    \A t \in Thread : (s.status[t] = "sleep" /\ s.ticks[t] > 0) ~> s.status[t] = "ready"

(* Threads of equal priority share the processor: none of the highest        *)
(* priority waits for ever (the rotation of lines 313-318).                  *)
PeersTakeTurns ==
    \A t \in Thread : (s.status[t] = "ready" /\ s.prio[t] = 0)
                         ~> (s.current = t \/ s.status[t] # "ready")

(* "When the current thread's slice is used up and others have the same      *)
(* priority, switch to the next thread" (line 291): current_thread becomes a *)
(* thread.                                                                   *)
SwitchesToPeer == s.fault # "wild"

(* thread_sleep puts the thread that calls it to sleep (lines 118, 157).     *)
SleepsTheCaller == Running("sleep_unlink") => s.status[Top.owner] = "sleep"
=============================================================================
