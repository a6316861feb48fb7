# Verification of mcu-bottom

The repository is the firmware base of an STM32 board. It holds two things:

* `src/rt-thread-nano/` - the RT-Thread Nano kernel for one Cortex-M core. In
  `rtconfig.h`: 32 priorities, a 1 kHz tick, semaphores and mailboxes, the small
  memory heap; mutexes, events, message queues, memory pools, the other two heap
  allocators, signals, devices and the soft-timer thread are in the source and
  switched off. What is switched off is modelled as the source has it when it is
  switched on.
* `src/Src/`, `src/Inc/` - the board's own code: a run-to-completion priority
  scheduler (`scheduler_list.c`), a table of periodic tasks (`scheduler.c`), a
  USART receiver, CAN motor drivers, encoder, PID, PWM, LED and key modules.

Everything here is checked by TLC on small instances; what the section
"Theorems" lists is also proved with TLAPS for every value of the constants.

## Inventory

| Part | State it keeps | Operations | What is hard about it |
|---|---|---|---|
| Intrusive lists, `rtservice.h` | `next`, `prev` of every node | init, insert after/before, remove, isempty | order of four pointer writes; inserting a node that is still linked |
| Scheduler, `scheduler.c` | ready queue per priority, priority bitmap, `rt_current_thread`, `rt_scheduler_lock_nest` | `rt_schedule`, insert, remove, enter/exit critical | called from threads and interrupts; a switch is requested now and made later; bitmap and queues written separately |
| Context switch, `context_gcc.S` | `rt_interrupt_from_thread`, `_to_thread`, `_switch_interrupt_flag` | request, PendSV | a second request before the first is served |
| Threads, `thread.c` | `stat`, `current_priority`, `remaining_tick`, `error`, one `tlist` node, one timer | startup, yield, sleep, suspend, resume, exit, detach/delete, control | functions enable interrupts between their steps; interrupts resume threads |
| Clock, `clock.c`, `irq.c` | `rt_tick`, interrupt nesting | `rt_tick_increase` from SysTick | time slice; wrap-around of the tick |
| Timers, `timer.c` | hard and soft timer lists, `timeout_tick`, ACTIVATED, the list on the stack of a check | init, start, stop, control, detach, `rt_timer_check`, the soft-timer thread | unsigned comparison across the wrap; callbacks that schedule, or that operate on timers, their own included; the timer thread's sleep against a start |
| Idle thread, `idle.c` | defunct list | enqueue, dequeue, cleanup | reads the list with interrupts enabled |
| Semaphores, `ipc.c` | `value`, suspend list | take, release, reset, detach/delete | timeout against release; waiters by priority |
| Mailboxes, `ipc.c` | ring, two suspend lists | send, send_wait, urgent, recv, reset, detach/delete | a woken thread is overtaken and waits again with the rest of its timeout |
| Mutexes, `ipc.c` | `owner`, `hold`, `original_priority`, suspend list | take, release, detach/delete | inheritance of the priority and its end; hand-over against timeouts |
| Events, `ipc.c` | the set of flags, suspend list, what each waiter wants | send, recv, reset, detach/delete | AND, OR and CLEAR served while the list is walked |
| Message queues, `ipc.c` | free list, queue, two suspend lists | send_wait, urgent, recv, reset, detach/delete | a message is in no list while it is copied with interrupts enabled |
| Memory pools, `mempool.c` | free list, counter, suspend list | alloc, free, detach/delete | allocators that are overtaken and wait again |
| Small memory heap, `mem.c` | chain of blocks, `lfree` | alloc, realloc, free | split, merge on both sides, lowest free block |
| memheap, `memheap.c` | items linked by address, free list, semaphore | alloc, realloc, free | two lists over one memory; a move in two stretches |
| Slab, `slab.c` | pages, zones by size, spare zones, `memusage` | alloc, realloc, free | zones that change size, stale descriptions of pages |
| Heap front end, `kservice.c` | the lock of the heap | `rt_malloc`, `rt_realloc`, `rt_free` and their relatives | every call to the allocator under one lock |
| Kernel objects, `object.c` | typed lists of objects, name and type of each | init, allocate, detach, delete, find | searches with interrupts enabled, type and list changed apart |
| Devices, `device.c` | activation, open flag, count of users | register, unregister, init, open, close | registration in several steps; nothing locks: initialisations, opens and closes of several threads meet while the driver runs; drivers that refuse |
| Run-to-completion scheduler, `Src/scheduler_list.c` | ready, sleep, timeout and defunct lists, two bitmaps, TCB fields | create, sleep, exit, SysTick | threads run *inside* SysTick, the first one in thread mode; boosts after a timeout; slices |
| Periodic tasks, `Src/scheduler.c` | last run time per task | `task_run` | wrap of `uwTick` |
| USART, `Src/app_usart.c` | receive buffer, index, time of last byte | receive interrupt, `usart_task` | the interrupt between any two steps of the task |
| CAN and ZDT motors, `Src/component_zdt_EmmV5.c`, `Src/app_zdt_motor.c` | settings and copies of the settings sent | `can_SendCmd`, task, receive callback | settings change during a blocking transmission |
| Encoder, `Src/component_tim_encode.c` | counter of the timer, `encode_total` | `encode_update` | counter read and cleared in two accesses, both directions, wrap |
| M2006, PID, PWM, LED, key | measurements, outputs | copies and arithmetic | nothing that interleaves |

**How the parts meet.** SysTick calls `rt_tick_increase`, which spends the slice
of the current thread, calls `rt_schedule`, then `rt_timer_check`, whose
callback `_thread_timeout` readies a thread and calls `rt_schedule` again.
Threads call `ipc.c`, which suspends them through `thread.c` and starts their
timer; a release, a mail or an interrupt resumes them. Whoever comes first
leaves its verdict in `thread->error`. `rt_schedule` only changes
`rt_current_thread` and records a switch; PendSV makes it when no other handler
is active. A mutex changes the priority of its owner through `rt_thread_control`,
wherever that thread is. Devices are objects; objects, timers, threads and
semaphores are linked with the same lists; `rt_malloc` stands before whichever
allocator is configured. An exited thread waits in the defunct list for the idle thread.
`scheduler_list.c` and the periodic task table are independent of the kernel and
of each other: they are alternatives to it.

**What makes each part correct.** Lists: both directions agree. Scheduler:
queue, bitmap and `stat` say the same, a thread is in one queue at most, the
highest ready priority runs, peers take turns. Switch: from the context in the
registers to the current thread. Threads: whoever sleeps has a timer, whoever
exited never comes back. Timers: due when their interval is over, neither earlier
nor, in the interrupt, later, and never once stopped. IPC: units, messages, flags,
blocks and mutexes are neither lost nor in two hands, mails and messages come in
order, nobody sleeps beside what it waits for, the owner of a mutex is not slower
than who waits for it. Heaps: blocks tile the memory, free memory is found again,
two callers never own one byte. Objects: a search is not led astray by what
others do meanwhile. Devices: the count is that of the users, and the driver of a device with users is open. Board: a message is
neither cut nor lost, a setting changed is a setting sent, every pulse is counted,
a task runs when its period is over. `PROJECT.json` lists the hazards one by one, each at its line.

## Modules

`Lists` (sequences as lists: push, link, unlink) and the modules below. A
definition named `...Late`, `...Only`, and so on, headed *Variant*, is a wrong
form of the next definition and is used only to show that a property notices it.

| Module | Models | Correspondence |
|---|---|---|
| `RtList` | the pointers of `rtservice.h` | one action per function; a node is inserted only when linked to itself |
| `AbsLists` | what lists promise | sequences that never share a node |
| `RtTimer` | `timer.c` with timer functions that operate on timers | one action per call, per turn of `rt_timer_check` and per stretch of the timer thread; `check` and `service` say where the two checks are |
| `AbsTimers` | what timers promise | ticks to go, per timer |
| `RtObject` | one container of `object.c` | `job` says where a thread is in a search, a set-up or a taking-down; a turn of the search loop is a step |
| `RtDevice` | `device.c` on `RtObject` | registration cut where interrupts are enabled; `rt_device_init`, `open` and `close` cut at each access to the device, `call` says where each user is; a driver that may refuse |
| `RtServices` | `RtList`, `RtTimer`, `RtObject` and `RtDevice` side by side | `part` says which of them a behaviour is about; they share no state |
| `RtKernel` | the kernel's data and its functions | the record `k`, one operator per C function, from state to state; no steps |
| `RtThread` | one core, threads, SysTick, PendSV, a device | one action per stretch of code between two points where interrupts are enabled; `pc` says where in a kernel call a thread is, `isr` where SysTick_Handler is |
| `RtWait` | `_ipc_list_suspend`, `_resume`, `_resume_all`, timeouts | `frame` holds the locals of the call a thread is in |
| `RtSem`, `RtMailbox` | semaphores, mailboxes | one action per call, and per stretch after a wait |
| `AbsMailbox` | what a mailbox or a message queue promises | a bounded queue with urgent items |
| `RtIpc` | `RtThread` with `RtSem` and `RtMailbox` | every step is one of theirs |
| `RtMutex`, `RtEvent`, `RtMq`, `RtMemPool` | the other things threads wait for | as `RtSem`; the hand-over of a mutex, the walk of `rt_event_send` and each copy of a message between two stretches are as in the code |
| `RtObjects` | `RtThread` with those four | every step is one of theirs |
| `RtSmallMem` | `mem.c` | items by offset from `heap_ptr` |
| `RtMemHeap` | `memheap.c` | items by offset; `next`, `prev` and the free list; the two stretches of a moving `rt_memheap_realloc` are two steps |
| `RtSlab` | `slab.c` | free page runs, zones, the zones of each size, spare zones, `memusage` |
| `RtHeap` | `rt_malloc`, `rt_realloc`, `rt_free` before one of the three | `config` is the allocator that `rtconfig.h` chooses; each call is one step, because the heap is locked around it and interrupt handlers do not allocate |
| `AbsHeap` | what a heap promises | regions that never overlap |
| `SchedulerList` | `Src/scheduler_list.c` | SysTick up to the call of a thread is one step; `thread_sleep` and `thread_exit` are cut where list operations begin; `stack` is the C stack of running functions |
| `BoardTasks` | `task_run` of `Src/scheduler.c` | one action per read of `uwTick`, comparison, task |
| `BoardUsart` | `Src/app_usart.c` | `UART_RxCpltCallback` is one step, each access of `usart_task` to what it shares with it another; a message too long for the string of `usart_printf` may leave it in the undefined state `lost` |
| `BoardMotors` | `zdt_motor_task`, `can_SendCmd` | one action per command, frame and setting copied; the motors that put the frames together are external |
| `BoardEncoder` | `encode_update` | the read and the reset of the counter are two steps, pulses come at any time |
| `Board` | the four before it side by side | as `RtServices` |
| `MC_*` | instances for TLC | threads, priorities, the applications, symmetry |
| `ListsProofs`, `RtServicesProofs`, `RtKernelProofs` (threads, semaphores, mailboxes), `RtObjectsProofs`, `RtSlabProofs`, `RtHeapProofs`, `BoardProofs`, `SchedulerListProofs` | theorems and lemmas | |

`RtKernel` keeps a flag `bad`: it is set when a node is linked while it is linked
or when a list head is taken for a thread. Nothing happens after it; properties
require it to be false. `SchedulerList` has `fault` for the same purpose.

**Applications.** A kernel does what threads ask of it. The variable `prog` (and
`app` for IPC) is chosen in the initial state from a set of applications and
never changes; it says which calls each thread makes. One run therefore checks
several scenarios. A thread may make any of its calls any number of times, in
any order, and may stop making calls.

**Interrupts.** SysTick and PendSV have the lowest priority, PendSV is served
first, so SysTick never starts while a switch is pending. A device interrupt may
come inside SysTick, wherever interrupts are enabled; nothing interrupts it. The
loop of `rt_timer_check` runs with interrupts disabled.

## Runs

| Run | Distinct states | What it shows |
|---|---|---|
| `intrusive_lists` | 605 887 | `RtServices`. The list functions implement sequences and keep both directions inverse; timers are due when they promise, through the wrap of the tick and whatever their functions do to timers; the timer thread wakes in time; searches in a container stay right under concurrent set-ups and take-downs. Names, counts, drivers and stand-alone devices stay right while two threads register and unregister devices and two users initialise, open and close them, step by step, but for a device on which two calls have overlapped in a way the property names. |
| `list_scheduler_sound` | 22 430 | `scheduler_list.c`: lists, bitmaps and status agree, the best thread is called, sleepers wake on their tick, peers take turns, for three applications that satisfy `OwnPlaces` (see *Assumptions*): sleepers with priorities of their own, sleepers that share both their priorities, and peers. |
| `list_scheduler_slice_end` | - | violation: end of a slice. |
| `list_scheduler_thread_mode` | - | violation: sleep called in thread mode. |
| `thread_safety` | 948 352 | Queues, bitmap, switch record, timers and `stat` under sleeping, yielding, locking, exiting, deleting, suspending, resuming, priority changes and interrupts. |
| `thread_live` | 17 848 | Every sleep ends; two peers share the processor. |
| `thread_peers_share` | - | violation: three peers do not. |
| `thread_delete_window` | - | violation: a thread is closed while it is ready. |
| `ipc` | 1 993 446 | Semaphore and mailbox: units, mails, timeouts and wait lists, with releases and mails from threads and a device. |
| `ipc_objects` | 1 714 097 | Mutex, event, message queue and memory pool: one owner, inheritance, flags served to those whose wish they met, messages in order, cells and blocks conserved, nobody forgotten. |
| `heap` | 301 322 | Each of the three allocators behind `rt_malloc`: blocks tile the memory, nothing is lost, and every call does what an abstract allocator may do. |
| `board` | 1 266 392 | Messages that fit are echoed as they came, motors follow their settings, the encoder follows the wheel, tasks run on time - with the interrupt, the change, the pulse or the tick between any two steps. |

**Bounds and why they are enough.**
*Lists:* two heads and four nodes cover every case of neighbours (head, other
node, the same node) of an insertion or a removal, and moves between lists.

*Timers:* two timers, each hard or soft, one-shot or periodic, with periods of 1
and 2, so that two are due together, one while the other's function runs, and one
is started before and behind the other. `TickMod` is 7: the longest interval is
below half of it, as `RT_TICK_MAX / 2` requires, and behaviours go around it.
`MaxLate` is 1: a soft timer may be one tick late. The two timers are
interchangeable and all properties of the run are safety properties, so that its
symmetry set is sound.

*Objects and devices:* three objects, one of them allocated and one handled by an
interrupt, two names and two threads: a search meets an object that is being set
up, one that is being taken down and one that the interrupt moves.
Two of the objects are devices, one stand-alone, the other with a driver that has
no `device_open` (`Bare`); two threads register them and two users open them: the
first open, a further one, a close that leaves a user and one that leaves none,
any two of them step by step. `Spoilt` is empty: when a device is used before its
registration is over, or calls on it overlap, calls under way go on, and after
them its users only close, one after the other; nothing is claimed of such a
device, and it counts as sound again once it is unregistered. Timers, threads,
names and users are interchangeable.

*Threads:* three and the idle thread, two at one priority, one above, one below:
preemption, round robin, and a switch request that replaces another all happen.
`TickMod` scales 2^32 down to 8 (7 in `ipc` and `ipc_objects`); the longest
timeout (2) is below half of it. `MaxLock` bounds the nesting of the scheduler
lock at 2: inner and outermost unlock differ. Slices of 1 and 2 ticks: one ends at
each tick, one outlives a tick. `MaxCalls` bounds the calls one body of
`SchedulerList` makes before it returns.

*IPC:* mailboxes and message queues hold 2 items: empty, partly filled, full, and
offsets wrap. `SemMax` and `HoldMax` are 2, so that a release and a nested take
meet the maximum. Two flags: one or both sent, both wanted with AND and with OR.
A pool of 2 blocks: two allocators and a third that waits. The timeouts given by
each thread are the smallest sets with a call that does not wait, one that waits
for ever and one that can be woken, overtaken and left with a rest.

*Heap:* sizes are scaled. Small heap: alignment 2, header 2, smallest payload 4,
24 bytes; up to four blocks fit, so that a block is freed between free and between
used neighbours, and a split happens at either end; of the sizes asked for, 0 is
refused, 11 is rounded up, 1 is raised to the smallest payload, 4 and 6 leave rests
just too small or just large enough for a block of their own. memheap: 34 bytes
with headers of 2. Slab: ten pages of 24 bytes, zones of three pages, requests up
to 24 from zones and larger ones from pages; one caller program fills three zones
and empties two, so that a zone goes back to the pages (`ReleaseThresh` is 1), in
the other a zone passes from one size to another.

*Board:* a receive buffer of 4 and a string of 4, of which the frame of
`usart_printf` takes 2, with messages of any length around both: one of 2 fits
both, one of 3 the buffer only; a silence of 1 tick
on a tick of 4; two motors with two settings; a counter that turns at 8 and a wheel
that goes 9 pulses either way, more than a turn; three tasks with periods 1, 2 and
4 on a tick of 10. The four theorems of `BoardProofs` lift these bounds.

**Fairness.** SysTick stays pending until it is served, so it is taken even if
device interrupts come again and again: strong fairness of `TickInterrupt`. A
handler ends: weak fairness of its steps and of PendSV. The processor executes a
thread that is inside a kernel call: strong fairness of `Tau`, because ticks and
switches interrupt it. Nothing is assumed of a thread outside kernel calls: it
need not call anything. In `SchedulerList` the timer ticks, and a body makes at
most `MaxCalls` calls and returns, as a run-to-completion scheduler requires.

`HighestRuns` leaves out applications that change priorities:
`RT_THREAD_CTRL_CHANGE_PRIORITY` does not reschedule.

## What the runs found

1. `scheduler_list.c:297` - when the current thread's slice is used up and it has
   a peer, its node moves to the tail and then `best_node->next` is taken, which
   is the list head: `current_thread` points into the middle of an array.
2. `scheduler_list.c:127` - the thread started by `scheduler_start` runs in thread
   mode. A SysTick between its call of `thread_sleep` and the reads of
   `current_thread` selects another thread, and that one is put to sleep.
3. `scheduler.c:458` - `rt_schedule` clears the YIELD flag of the current thread
   before `rt_schedule_insert_thread` reads it, so that a thread whose slice is
   used up goes to the *front* of its queue. Two peers still alternate; with three
   the third never runs.
4. `thread.c:515` - between the two critical sections of `rt_thread_delete` (and
   `rt_thread_detach`) the thread's timer may fire and make it ready: it is then
   closed while it is linked in a ready queue.

Seen while modelling, and either exempted by name in a property, kept out by the
applications the runs use, or outside what is modelled:

*Threads and IPC*

* `_ipc_list_resume_all` tests the list before it disables interrupts. In detach
  and delete a timeout or an interrupt may empty the list in between, and the head
  is taken for a thread. `WakeTake` models it; the applications detach only while
  threads wait for ever and no device wakes them.
* `rt_thread_resume` reads `stat` with interrupts enabled; if the thread is resumed
  by another and exits in that window, a closed thread is made ready.
* A tick between a thread's suspension and its `rt_schedule` sets YIELD on a
  suspended thread; woken later, it goes behind its peers once.
* `rt_sem_detach` and `rt_mb_detach` do not call `rt_schedule`: a woken thread of
  higher priority waits for the next scheduling point.
* `rt_scheduler_lock_nest` is 16 bits and signed, its comment says `RT_UINT16_MAX`.
* Inheritance holds for one mutex at a time. Releasing the inner of two nested
  mutexes restores `original_priority` and drops what the outer still needs;
  releasing them in the order in which they were taken leaves the thread boosted.
  Inheritance is not transitive, and a boosted thread that waits elsewhere keeps
  its place in that list (`thread.c:760`). Detaching a mutex leaves its owner
  boosted. `rt_mutex_release` without waiters lowers a priority without
  rescheduling.
* Who waits for a memory pool is served last come, first served. `rt_mp_alloc`
  computes the rest of its timeout before interrupts are disabled.

*Timers*

* The timer thread looks at its list and suspends itself in two steps
  (`timer.c:800-819`): a start in between is not heard, and it sleeps too long or
  for ever. `ServiceWakesInTime` exempts that window.
* `RT_TIMER_CTRL_SET_ONESHOT` in the function of a periodic timer leaves ACTIVATED
  set while the timer is in no list. A periodic timer of 0 ticks keeps
  `rt_timer_check` in its loop; `Periods` excludes it. `GET_REMAIN_TIME` answers
  `timeout_tick`, the time of the next timeout and not what remains.
* `rt_timer_start` sorts by unsigned differences (`timer.c:455-475`). A soft timer
  that is overdue by `x` ticks and one that is started for more than half a turn of
  `rt_tick` less `x` get into the wrong order, and the first then waits for the
  second. `rt_timer_start` admits every interval below half a turn;
  `TimerAssumption` excludes those within `MaxLate` of it.

*Objects and devices*

* `rt_object_find` and `rt_object_init` walk a container with interrupts enabled;
  if an interrupt took down the object under the walk, its node would be linked to
  itself and the walk would not end. The runs have interrupts that do not.
* The type of an object is cleared before it leaves its list (`object.c:407`).
* `rt_device_register` looks for the name and links the device in two steps, so two
  devices may get one name, and resets the fields of a device that is already
  linked (`device.c:63-65`). The assertion in `rt_device_destroy` fails for
  every device that `rt_device_create` makes. When a driver's close fails, the open
  flag stays, and a stand-alone device stays busy. `ref_count` has 8 bits.
* Nothing in `device.c` locks, and the driver runs in the middle of each call.
  `Overlap` names the four ways in which two calls disturb each other: both have
  read `ref_count` and neither has written it (`device.c:252`, `280`), and one user
  is lost; one has opened the driver and another closes it (`238-252`, `286-293`), which
  leaves a user with a closed driver and a cleared open flag; both are past the test
  of a stand-alone device (`231-250`), and both get it; one initialises a driver that another has
  opened since (`212-216`). `DevicesSound` exempts a device from the step that brings
  two calls there until it is unregistered, and no other interleaving.

*Heaps*

* `RT_ALIGN` of a size within `RT_ALIGN_SIZE - 1` of 2^32 wraps around to 0:
  `rt_smem_alloc` then returns a smallest block and `rt_smem_realloc` frees the
  block. `SmallMemAssumption` excludes such sizes.
* `rt_smem_realloc` to a slightly smaller size copies to a new block, and returns
  `RT_NULL` when there is none, although the old block is large enough.
* In `plug_holes` the update of `lfree` while merging backward never happens:
  `lfree` is already at or below the predecessor.
* `rt_memheap_alloc` of 0 bytes gives a smallest block; a request for exactly
  `available_size` is refused; a moving `rt_memheap_realloc` takes the semaphore
  twice. The slab allocator has no lock of its own.

*Board*

* In `scheduler_list.c`, `thread_sleep(0)` sleeps for ever, and `thread_sleep` and
  `thread_exit` end by calling the current thread's function again, on top of the
  stack of the one that called.
* A byte that comes while `usart_task` ends a message is lost or misplaced; between
  its read of `uwTick` and of `rxtick` it cuts the message. A message that reaches
  the end of the buffer starts again at 0. One of 118 to 127 bytes fits the buffer
  but not, with `"recive : "`, the newline and the zero, the string of `usart_printf`
  (`app_usart.c:49-51`): `vsprintf` writes over the stack. `EchoExact` exempts these
  three, and says that no other message overruns the string.
* A setting of a motor changed while its command is sent is noted as sent and stays
  unsent. `MotorsFollow` exempts it. `zdt_location_get` reads an earlier answer
  (`app_zdt_motor.c:59`).
* Pulses between the read of the encoder's counter and its reset are lost.
* The accessor of `component_can_m2006.c:133` accepts the index 7 of an array of
  seven.
* `app_tim_it.c` and `component_tim_pwm.c` do not compile as they stand.

## Theorems

| Theorem | Statement |
|---|---|
| `RtServicesProofs!ListsWellLinked` | `ServiceSpec => []WellLinked` |
| `RtServicesProofs!ListsImplement` | `ServiceSpec => ImplementsLists`, a refinement of `AbsLists` |
| `RtServicesProofs!TimersStayListed` | `ServiceSpec => []TimersListed` |
| `RtServicesProofs!TimerThreadWakes` | `ServiceSpec => []ServiceWakesInTime` |
| `RtServicesProofs!TimersImplement` | `ServiceSpec => TimersKeepPromises`, a refinement of `AbsTimers` |
| `RtServicesProofs!SearchesStaySound` | `ServiceSpec => []SearchesSound` |
| `RtServicesProofs!DevicesStaySound` | `ServiceSpec => []DevicesSound` |
| `RtKernelProofs!ThreadTypes` | `Spec => []TypeOK` |
| `RtKernelProofs!QueuesSound` | `Spec => []QueuesMatchStat` |
| `RtKernelProofs!GroupIsExact` | `Spec => []GroupExact` |
| `RtKernelProofs!SwitchIsRight` | `Spec => []SwitchRecord` |
| `RtKernelProofs!ClosedForGood` | `Spec => ClosedStaysClosed` |
| `RtKernelProofs!SleepersWake` | `Spec => []SleeperHasTimer` |
| `RtKernelProofs!TimersInOrder` | `Spec => []TimersSound` |
| `RtKernelProofs!HighestThreadRuns` | `Spec => []HighestRuns` |
| `RtKernelProofs!MailboxesAreQueues` | `IpcSpec => MailboxIsQueue` |
| `RtKernelProofs!NoUnitIsLost` | `IpcSpec => []UnitsConserved` |
| `RtKernelProofs!NobodyWaitsInVain` | `IpcSpec => []NoneWaitsInVain` |
| `RtKernelProofs!WaitersAreSound` | `IpcSpec => []WaitersSound` |
| `RtObjectsProofs!QueuesAreQueues` | `ObjectsSpec => MqIsQueue` |
| `RtObjectsProofs!NothingIsLost` | `ObjectsSpec => []BuffersConserved` |
| `RtObjectsProofs!MutexesExclude` | `ObjectsSpec => []MutexExclusive` |
| `RtObjectsProofs!NobodyIsForgotten` | `ObjectsSpec => []NobodyForgotten` |
| `RtObjectsProofs!FlagsAreParted` | `ObjectsSpec => FlagsGoToOne` |
| `RtObjectsProofs!PriorityIsInherited` | `ObjectsSpec /\ []OneMutexEach => []PriorityInherited` |
| `RtHeapProofs!BlocksAlwaysTile` | `Spec => []BlocksTile` |
| `RtHeapProofs!NoMemoryIsLost` | `Spec => []NothingLost` |
| `RtHeapProofs!HeapsAreAllocators` | `Spec => HeapIsAllocator`, a refinement of `AbsHeap` |
| `BoardProofs!EncoderExact` | `Spec => []EncoderTracks` |
| `BoardProofs!TasksStart` | `Spec => TasksOnTime` |
| `BoardProofs!EchoIsExact` | `Spec => []EchoExact` |
| `BoardProofs!MotorsRun` | `Spec => []MotorsFollow` |
| `SchedulerListProofs!StatusAndListsAgree` | `Spec => []ListsAgree` |
| `SchedulerListProofs!NoNodeTwice` | `Spec => []NoFault` |
| `SchedulerListProofs!HighestIsCalled` | `Spec => CallsHighest` |
| `SchedulerListProofs!EveryTickCounts` | `Spec => WakesOnTime` |

*Assumptions.* `RtServicesProofs` has those of the modules: list heads and nodes differ, and nodes are finitely many; the
intervals of timers are at least a tick and, with `MaxLate`, the time a soft timer is left
unserved, at most half a turn of `rt_tick`, without which `TimersListed` is false (see above);
objects that interrupts add are added by interrupts only; there are fewer than 256 users of devices
(`device.c:255` asserts it). A user of a device has it open once at a time, closes what it has opened, and a device that is open or
in a call is not unregistered: the guards of `BeginOpen`, `BeginClose` and `Unregister`, since `device.c` does not look. Nothing is assumed of how
the calls of users interleave. `KernelAssumption` and `ThreadAssumption` say what the constants
are (any set of threads, any number of priorities, any slices, any modulus above
4; with 4, `Half` is 1 and two timers a tick apart cannot be put in order, so that
`TimersSound` is false). The theorems about `RtThread` also assume `Disciplined`: no thread deletes
another, and a thread that may exit is resumed by nobody. Both restrictions are
needed: finding 4 and the window of `rt_thread_resume` break `QueuesMatchStat`
without them. TLC checks the programs of `thread_safety` beyond that discipline,
in the combinations where the windows are harmless. `NoUnitIsLost`, `NobodyWaitsInVain`,
`WaitersAreSound`, `MutexesExclude`, `NobodyIsForgotten`, `FlagsAreParted` and `PriorityIsInherited` assume `Patient`: a thread that waits in a call of `ipc.c` is
woken by `ipc.c` or by its timer only (no `rt_thread_resume`, no delete, no driver that
resumes threads), nobody locks the scheduler, and the idle thread makes no such
call; `ipc.c` relies on the first, since a thread resumed from outside takes
its error field for a unit, and on the last two in its context checks
(`RT_DEBUG_SCHEDULER_AVAILABLE`). `IpcAssumption` and `ObjectsAssumption` say that a
suspend list is a field of one object. `WaitersAreSound` also assumes `Settled`: no object is detached or deleted,
because `WakeTake` may take a list head for a thread (the run of `ipc` detaches
where that cannot happen), and no priority is changed, which would leave a waiter in
its old place. `PriorityIsInherited` assumes
`PrioritiesFixed`, no use of `RT_THREAD_CTRL_CHANGE_PRIORITY`, which `rt_mutex_release` would undo, and
`OneMutexEach`: no thread owns one mutex and takes or waits for another. Without it
the property is false: the release of an inner mutex gives back the priority that
the outer one's waiters lent, and an owner that is raised while it waits elsewhere
neither moves in that list nor passes its priority on. Every application of `ipc` and of
`ipc_objects` satisfies `Patient`, those of `ipc_objects` also the other two. The theorems that mailboxes
and message queues are queues and that buffers are conserved need no discipline: they hold whatever threads and devices
do to each other, for any size, any number of objects and any mails, given the
assumptions the modules make on their constants (`WaitAssumption`: there is an
object and a mail, threads are finitely many). `RtHeapProofs` and `RtSlabProofs` have the assumptions
of `RtHeap`: sizes of headers, memory and requests are multiples of the alignment where the code
makes them so, `Word` is more than the small heap and what a request is rounded up by, so
that no size wraps, no request is so large that `RT_ALIGN` wraps it, and the pool of memheap has room for the two
items of `rt_memheap_init`. For `slab.c`, `SlabAssumption`: a page is a multiple of 8 bytes, `memusage` fits in the heap,
and `zone_limit` is at most the 16 KB that `zoneindex` knows (`ZALLOC_ZONE_LIMIT`); `SlabChunkAssumption`:
a zone has room for its header and at least two chunks of every size below `zone_limit`, as `rt_slab_init`
arranges by making it a quarter of a zone, and a size that is rounded to that of a chunk takes as
many pages as before, so that it does not matter which of the two the code asks with. `BoardProofs` assumes
`BoardConfigured`: a counter with an even number of values, periods shorter than a
turn of `uwTick`, and a zero byte that is never sent; buffer, bytes, table, periods,
widths, the number of motors and their settings are arbitrary. `SchedulerListProofs` assumes `Sound`: every program satisfies
`OwnPlaces`. No thread calls the kernel in thread mode (line 127: a tick between the call
and the reads of `current_thread` puts another thread to sleep); nobody both sleeps and
exits (a body that has exited is entered once more, and a sleep would link its node a
second time); no sleeper's boosted priority is another thread's own, and a thread that is created late
or has a slice of one tick shares its priority with nobody (lines 295-297: a current
thread whose slice is empty must not find a peer behind it). The runs
`list_scheduler_slice_end` and `list_scheduler_thread_mode` show that it goes wrong without. The module of the
run `list_scheduler_sound` states, and TLC evaluates, that its three programs satisfy `OwnPlaces`; threads,
priorities, boosts, slices, sleep times and the number of calls are otherwise arbitrary.

*Argument, services.* `WellLinked` is inductive together with the types (`PointersSound`).
That the pointers implement lists rests on `Chains(next, L)`: following `next` from each head
one meets the nodes of its sequence in `L` and then the head again, no node is in two places, and
a node that is in none is linked to itself. Such sequences are unique, and `Walk` finds
them, because a list cannot be longer than there are nodes (`WalksAre`). Both insertions change `next` in the same
way, behind the cell itself or behind the one that `prev` leads to (`Hooked`), which links the node into one
sequence (`ListsGrow`); a removal is `Unhooked` (`ListsShrink`).
The timers need more. `TimersInv` says of each timer in which list it is: an active one in
the list of its kind or in that of the check that runs it, no other in any; and each of the two lists is
sorted by what is *left* (`Rem`), a signed number that the unsigned
difference stands for as long as it lies within half a turn (`Rest`, `InTime`). A tick
takes one from all of them, a start finds the place behind those with no more left, and a
check whose list lost its timer while the function ran knows that somebody
stopped it. `WakeInv` adds how long the timer thread means to sleep, and on both
rest the steps of `AbsTimers`: each action is shown to be one step of it or none
(`Shown` says what the mapped state is for each place a timer can be). The containers: `Claims` gives
each object to one call at most, and `Stage` says how far that call is; the
type of an object that is nobody's says whether it is linked. `Searching` says that a search
stands in front of everything it seeks that was there all the while
(`Ahead`), which interrupts keep, because they add in front. Devices: who is about to
link a device has seen the name free, or another was linked since and is noted
as doubtful (`NamesInv`); a device with users or in a call is linked, of known type, and no
registration has it unless it was used early (`ServedInv`), so that none resets it. Until two calls overlap (`Clash`),
what a call has read from `ref_count` is still there when it writes (`CountInv`), the driver and the flag
that an opening call has set stay until its user closes (`OpenInv`), whoever
closes the driver has seen the count at 0 and nobody has come since (`CloseInv`), and of those who hold
or are about to take a stand-alone device there is one (`AloneInv`). Each step of a call gets a lemma; where
the four could break, the step itself, or the one before it, is an overlap.

*Argument, kernel.* `QueuesMatchStat` is not inductive: it says nothing of a function
half done, of timers, or of a thread about to be resumed. The first part of
`RtKernelProofs` therefore defines `SoundBut(x, U)`: kernel state `x` is consistent except for the
threads in `U`, which are in no list. `ListRemove` takes a thread into `U`,
`InsertThread`, `Close` or a wait list take it out; each operator of `RtKernel`
gets a lemma in these terms, and `Schedule` is proved to keep `Sound` and to keep
the switch record right. Its second part adds `PlacesSound`, which ties each
thread's place in its code to the kernel state - above all that a thread about to
be resumed is not closed in the meantime - and proves the invariant `IInv` action
by action; each property follows from it. `IInv` was first checked by TLC on
disciplined applications (2.0 million states). `ListsProofs` has the facts about
sequences without repetition that the kernel lemmas cite.

*Argument, time and priority.* `IInv` knows nothing of time. `TInv` adds what each
thread's timer and place say: `OnTime` (the list of timers is in the order in which
they expire, seen from `tick`, and outside the tick interrupt none is overdue),
`Sleepers` (a thread between `rt_thread_sleep`'s suspension and its return has its
timer running, or has been made ready), `IdleAlive` (the idle thread never blocks, so
that there is always a thread to switch to) and `Ruling` (the current thread has
the highest ready priority wherever the code does not owe a call of `rt_schedule`).
The order of timers is circular: distances from `tick`, not the values, are compared,
and each lemma on `TimerStart`, `Expire` and `CountTick` shows that those distances
stay below `Half`.

*Argument, queues.* A mailbox is a ring: `Mails` is a sequence cut out of `pool` from
`out` on, and `entry` is the distance from `out` to `in` (`BoxInv`). Each of `Put`,
`PutFirst` and `Get` is shown to append, prepend or drop a mail of that sequence, so
that every step of `IpcNext` is a step of `AbsMailbox` or stutters. A message queue
is a chain of cells: `MqInv` says that free cells, queued cells and the cells of
threads that are copying partition the pool, and that a thread has a cell just while
it copies (`CellsSound`); then the texts in the chain are the abstract queue, and a
cell that is being filled or emptied is in nobody else's hands. `BuffersConserved`
is that partition together with the one of a pool's blocks (`PoolSound`).

*Argument, waiting.* A wait list is part of the kernel state, so that `IInv` already
speaks of it, and a timer of a waiting thread is a timer like any other (`Timely`).
`WaitInv` adds the callers: a thread in a list is in a call on that list, with
error `ok` and its timer running for what is left (`CallSound`). Each thing that
`ipc.c` does to lists - suspend the caller, wake the first, wake all, set an
error - is described once, for any object, by which threads it touches (`Attended`,
`Wakes`, `BlockedIn`). `CallInv` ties calls to semaphores and mailboxes. What no
invariant on the lists alone can say is who is *on the way*: a woken thread that has
not run yet is in no list and holds no unit. `Turns(J, L, X)` therefore records,
for each step, the threads `J` that set out, those `L` that arrive and the lists `X`
that gain their first thread; every step of `IpcNext` is shown to be such a turn.
`UnitsConserved` follows by counting: a release adds one to `value` or one thread to
`Given`. `NoneWaitsForMail` follows likewise: a mail that is stored while a receiver
waits sets a receiver out, one that is taken lets one arrive, a thread that finds
nothing and waits again leaves a mailbox with nothing in it. When a detach call
has taken a list head for a thread (`Breaks`) the model stops, and the two
properties hold in that state too.

*Argument, objects.* The second part of `RtObjectsProofs` keeps the same account for mutexes,
events, message queues and pools. `Back` says who is on the way back: woken by a call on
the object, and not yet where it looks at the object again; `Flow(J, L)`, that a step
adds the threads `J` to those and takes `L` from them, and `Passes`, that it grows
no wait list but those it names. A mutex that is released with waiters goes to a thread
that has not run yet: `Handed` is `Back` for a call of `rt_mutex_take`, and the
invariant `MutexSafe` says that `owner` and `hold` agree with what the threads'
calls and hand-overs say, and `value` with the owner. In a queue or a pool a woken thread owns
nothing yet: `NoMqWaitInVain` and `NoPoolWaitInVain` say that where something is
left and somebody waits, somebody is on the way. An event's flags are compared with every waiter:
`rt_event_send` keeps `NoMetWaiter` because its walk comes past the whole list, however
many of its nodes leave it, and the flags only become fewer on the way (`Walked`):
who was not served where the walk passed has no met wish at its end. `Parted` keeps
the account of the flags on that walk: what left came with a served thread that
clears, and nothing that left is found by a later one. That no other step serves anybody
(`NoneServed`) holds because threads that sleep do not move their own calls (`OwnFrame`).
`PriorityInherited` needs `LendInv`: what a release restores is the owner's own
priority, nobody waits for a mutex it owns, and a mutex's waiters are in the order of
their *own* priorities (`InitPrio`), in which they stay however often the owner's is
raised, because a waiter owns nothing. So the thread that a release takes from the
head needs no more than its own priority to be above those behind it. `Lent` says which
steps change priorities at all; that every other step only takes threads out of
a list, in order, is the part of `Shrinks` on `InOrder`.

*Argument, heap.* The small heap and memheap keep their blocks in a `Row`: items at
offsets, each with at least a header's length before the next and linked to it, nothing between. All
that the code does to a row is one of three things, `IsCut` (an item becomes two), `IsMerge`
(two become one) and `IsMark` (an item is taken or given back), and each keeps it a row, for any
sizes. Between those steps the properties do not hold, and the invariant says by how much.
`ApartBut` and `ApartFrom` say which free items may touch between the halves of `plug_holes`,
`Lowest` what `lfree` is while an item before it is being freed; for memheap `Whole(x, U)` has the
free items `U` that are not in the free list at the moment, and `ApartSave` the one whose right
neighbour is still to be joined. What is in use, or available, is a sum over the items: `Totals`
is a running total along the offsets, and `TotalsChange` says how much its end moves when one or
two items change, so that each cut, merge and mark has its amount and the statistics follow by adding.
`LiveOk` and `OwnersFit` say that the owners' sizes belong to the items in use and fit into them;
since items have no byte in common (`RegionsApart`), an item that is taken from the free ones touches
no owner's bytes, which is what a step of `AbsHeap` asks. A block that
`rt_memheap_realloc` has copied and not yet freed keeps its owner until it is.

*Argument, slab.* `RtSlabProofs` has no rows: the memory is pages, and a page is told apart by what it is
for. The invariant names it: there is a `g` in `Owners` that gives each page its owner, the first page of a run that is
`memusage`, a zone, a spare zone, a large block or a block of `rt_page_alloc`, or nobody (`PagesParted`),
and `SlabFits(x, lv, raw, g)` says that the state `x` of the allocator, the blocks `lv` of the callers and `g` agree: `UsesFit`
what `memusage` tells of each run, `BlocksFit` that every block has an owner, `ZonesFit` that a zone's chunks
are in use, freed or not cut yet, each in one of these (`ZoneOk`), `ListsFit` that a zone is in the list of its size while it
has a free chunk. `g` is not a variable: each operation is shown to have a next one, which differs from
the last in one run, claimed or dropped (`Claimed`, `Dropped`). That the free runs stay in order and apart is a matter of
replacing a few neighbours in a sequence (`Spliced`): `PageFreeKeeps` and `PageTakeKeeps` say that
`rt_slab_page_free` and `rt_slab_page_alloc` add or take just those pages, whatever they join or cut. `zoneindex` is treated
row by row: each row is a step, and a size is rounded up to a size of the same index. `HandedOut` is what
every way to a new block ends in - a chunk of a listed zone, of a spare one, of a new one, a large block, a page - and a `realloc` that
moves is that followed by a free in the state it left. Blocks of one zone are chunks of it and blocks of two owners lie in
pages of two runs, so no two share a byte (`BlocksApart`), which gives the step of `AbsHeap`.
The two properties that sum over sets, `PagesTile` and `SlabUsedExact`, follow from `SlabInv` at the end: a fold over
a finite set is taken apart one element at a time (`SetsBuilt`), and the sum is compared with the number
of pages covered (`Covered`) and with a running total over all addresses (`Counts`, `CountIn`).

*Argument, board.* The encoder: the counter is the pulses since the reset, modulo
its number of values, and those stay below half a turn, so that the correction
restores them with their sign. The table: the tick, the last run time and the time
since are tied by one congruence per task (`CountedFrom`), and while a task is
compared its time is below a turn, so that the unsigned difference is the time that
passed. The receiver: outside the steps that end a message, and if no byte came
during them, the message lies in the buffer from its beginning, index and pointer
are its length (`Fits`), and behind its end, once that is written, the string of
the buffer is the message (`StringIsMessage`); the undefined step of `Echo` is taken only
for a string that does not fit, which then is a message that does not. The motors: a position command is two frames
and a synchronisation one (`PositionFrames`, `StartFrames`); `Underway` says how far a command
has come between `can_SendCmd` and the motor, `Hold` that the motors served so far
hold what they are set to. A change during a round takes its motor out of what is claimed
until its next command is filled.

*Argument, scheduler_list.* `ListsAgree` speaks of the moments between calls; the
invariant must know where each thread is during one. `Held(q, Rdy, Slp, Ext, Lvl, Orig)` says
that the ready lists hold just the threads of `Rdy`, each once and at its level `Lvl`,
the sleep lists those of `Slp` at their own priority, `defunct_list` those of `Ext`, and
that the bitmaps are exact; every list operation has a lemma that says how it moves a
thread between these sets, and `IInv` defines the sets from `status` and from the place
of the frame that is in a call (`Rdy`, `Slp`, `Ext` lag behind `status` by the list operations still
owed). `Frames` says that calls come from the interrupt only and that all of
its frames belong to the current thread, so that one thread at most is between two
lists. The two walks of `SysTick_Handler` are folds; `Counted` and `Woken` say what
holds of the state after each of their first `n` steps, whatever the order of the list.
`Lead` is the part without which line 292 could not be excluded: where the current thread is at the head of
the list of its own priority and not alone there, its slice has more than one tick left, so that
the next tick does not empty it. It rests on the rotation in `Pick` and on `OwnPlaces`. `IInv` was first checked by TLC on
1 453 programs of two and three threads.

*Only model-checked.* The four liveness properties, `SleepEnds`, `PeersShare`,
`SleeperWakes` and `PeersTakeTurns`, which rest on fairness and are out of the prover's reach, and the four runs that refute a
statement of the source, whose counterexamples are TLC's. Every safety and action property of the other
runs is stated by a theorem.

## What is not modelled

* Data: stack frames, FPU registers, messages' contents beyond their identity,
  hooks, logging, assertions, the string functions of `kservice.c`.
* Signals (`signal.c`) and the SMP half of the kernel: compiled out, and woven
  through the stack frames of the port.
* Start-up code (`components.c`): it gives the initial states.
* `rt_thread_delay_until`, which is a sleep whose timeout is computed first.
* Of the motors' commands all but the two that `zdt_motor_task` sends; M2006
  feedback, PID and PWM arithmetic, the LED and key shells: copies and arithmetic
  without interleaving.
* The vendor's HAL: how it locks a UART that receives and transmits is external.

## Plan

Done, in this order: `RtList`, `SchedulerList`, `RtKernel` with `RtThread` and
their proofs, `RtWait`, `RtSem`, `RtMailbox`, `RtIpc`, `RtSmallMem` with `AbsHeap`;
then `RtMutex`, `RtEvent`, `RtMq`, `RtMemPool` with `RtObjects`; `RtTimer` with
`AbsTimers`, `RtObject`, `RtDevice` with `RtServices`; `RtMemHeap`, `RtSlab` with
`RtHeap`; `Board` with its four parts and `BoardProofs`.

The theorems followed, `slab.c` last. What is left is the code named above as not modelled.
