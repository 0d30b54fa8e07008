# A TLA+ verification of hthreads

hthreads moves the core of a POSIX-like threading system into FPGA cores, so
that threads on the CPU and threads in hardware use the same primitives. This
directory models those cores as TLA+ state machines, checks them with TLC on
small instances, and proves with TLAPS what holds for every instance. Two parts
of the network software that comes with it are modelled as well: the descriptor
ring of the Ethernet driver, which the CPU, its interrupt handler and a DMA
engine share, and the heap of the network stack.

## The system

Paths below are relative to `src/src/hardware/MyRepository/pcores/axi_hthread_cores`
unless they begin with `src/`.

| part | code | what it does |
|---|---|---|
| thread manager | `axi_thread_manager_v1_00_a` | hands out thread IDs, keeps the thread table (status, parent, detached, joined) and the thread on the CPU; create, clear, join, exit, yield, next, add |
| scheduler | `axi_scheduler_v1_00_a` | the ready queue, one doubly linked list per priority in BRAM, and the decision which thread runs next; starts hardware threads by a bus write; keeps the lock that libc takes around malloc |
| synchronization manager | `axi_sync_manager_v1_00_a` | the mutexes, a FIFO of waiters each, and a bus master that adds the new owner of a mutex to the ready queue |
| condition variables | `axi_cond_vars_v1_00_a` | a FIFO of waiters per variable, and a bus master that wakes the signalled ones |
| system calls | `src/src/software/system/mblaze` | run with interrupts off, read and write the cores, switch contexts |
| interrupt, syscall entry | `src/src/archs/mblaze/src` | preemption: yield, acknowledge, switch |
| user API | `src/src/software/user` | traps into the system calls |
| nanokernel | `src/hal/src/software/nanokernel` | the loop of a slave processor that runs a hardware thread |
| libc malloc lock | `src/src/software/lib/init.c` | spins on the scheduler's malloc lock |
| Ethernet driver | `src/src/software/drivers/eth` | rings of buffer descriptors that a DMA engine works through (`xdma_channel_sg.c`), the driver over them (`xemac*.c`) and the network interface (`netif.c`) |
| lwIP heap | `src/src/software/lwip/core/mem.c` | first-fit allocation for the network stack |

The cores are bus slaves, one command per read or write. The thread manager and
the scheduler also talk over private wires: the thread manager raises a
request, the scheduler raises busy, serves it, lowers busy and leaves a byte of
answer. Wake-ups from the synchronization manager and the condition variables
come back to the thread manager as ADD_THREAD reads, at any time.

The network software is apart from these: one task calls lwIP, which calls
`netif.c`; the Ethernet interrupt enters the driver between two steps of the
task, and the DMA engine runs beside both.

## Modules

| module | content |
|---|---|
| `ThreadManager` | the thread manager core |
| `Scheduler` | the ready queue of the scheduler core and how the thread manager and the CPU use it |
| `ReadyQueue` | what it promises: FIFOs, and the best head or the idle thread next |
| `MallocLock` | the malloc lock of the scheduler core and its callers in libc |
| `SchedulerCore` | the core with both, the ready queue and the malloc lock |
| `SynchManager` | the synchronization manager core and its callers |
| `Mutex` | what it promises: FIFO mutexes with hand-over |
| `CondVar` | the condition variable core and its callers |
| `Condition` | what it promises: FIFOs, woken in order |
| `LinkedList` | when a set of threads is linked from a first to a last register, and the sequence the links make of it |
| `Kernel` | the composition: thread manager, scheduler, system calls, preemption handler, hardware threads and waking cores on the two interconnects |
| `DmaChannel` | a scatter gather DMA channel: the functions of the driver, and the engine |
| `Emac` | the Ethernet driver and the network interface over one channel |
| `TransferRing` | what a channel promises: descriptors transferred in order, and once until a reset |
| `Heap` | the lwIP heap |
| `Allocator` | what it promises: regions inside the heap and apart |
| `*_proofs` | theorems about the module named |
| `MC*` | instances for TLC |

**ThreadManager.** `entry` is the thread table, `stack` and `next_ID` the ID
stack that shares its BRAM, `state` the state of the FSM. A command that needs
nothing from the scheduler is one action, from IDLE_STATE to the acknowledge:
the core takes no second transaction before. The others stop where the FSM
examines the scheduler's answer, and the scheduler may answer anything. The
bus word is abstracted to an error code and an ID. A thread exits only itself
(`Exits`), as the system call and the nanokernel do it.

**Scheduler.** `thread`, `level` and `param` are the three BRAMs,
`encoder_input` the bit per non-empty list. Every command is one action, since
the FSM returns to idle before it takes the next; the start of a hardware
thread is two, because the thread manager is answered before the bus write.
`Next` lets a queued thread be moved only from an end of its list and to
another list; `NextAny` allows every call of hthread_setschedparam.

**SynchManager.** `mutex`, `tnext` and `snext` are the stores, the others the
registers of the wake-up master, which runs beside the slave. `blocked` and
`held` record what the callers were told. The bus carries one transfer at a
time: an unlock reaches the core when its master is not in the two cycles in
which it fetches from its list.

**CondVar.** `cvar` and `link` are the table. A broadcast is one step per
waiter, because the master empties the channel while the core fills it.
`sending` is the thread the master has taken off the channel.

**Kernel.** Instances of `ThreadManager` and `Scheduler`, joined by the request
lines (`tm2sch`), the answer (`Sch2Tm_Data`) and the current thread, which the
scheduler reads. `owner` is the bus master whose transaction the thread manager
serves, `granted` the thread that a synchronization core wakes. `cpu` is the step
of the system call or handler at which the CPU is: one step per bus transaction,
`at` naming the one that is next or under way. `on`
and `context` are the loaded context and where each other thread resumes; `on`
may differ from the thread manager's current thread inside the kernel only. `hw`
is the loop of a slave processor: its command register (`go`) and whether it
waits, runs or exits. The mutex and condition variable cores are reduced to
linking a thread (`Wait`, `HWWait`) and adding one later (`Wake`).
`abandoned` is a history variable: the threads `_syscall_create` has given up on
without clearing them. A program gives an interface to one live thread at a
time (`InterfaceFree`).

There are two interconnects (`src/src/platforms/xilinx/vivado_archgen/scripts/hthreads.tcl`).
Every access to a core goes over core_bus_slave, which `owner` holds for a
transaction with the thread manager. The masters of the synchronization manager,
the condition variables and the scheduler share core_bus_master. A core that
wakes a thread is granted it first (`Grant`), then core_bus_slave behind it
(`Wake`), and gives both back at the end (`Woken`); the scheduler's start command
goes from core_bus_master to the hardware thread (`StartWrite`). Both are
configured for area (STRATEGY 1) and without priorities: they carry one transfer
at a time, and any master may be next. The system call reads that change nothing
(the current thread, the detached bit) belong to the step after them.

**MallocLock.** The three registers of the core, and `inside`, how often a
thread has taken the lock and not given it back. A request is one step. The
loop of `__malloc_lock` is `ACQUIRE` again and again.

**DmaChannel, Emac.** `bd` is the ring, with the bits of control and status word
that steer the engine; the pointers and counts keep their names. `open`, the
number of puts not committed, is a history variable. The engine is external: it
reads the stop bit when it comes to a descriptor, clears its busy bit, counts
packets, raises SG_END when it stops and the threshold interrupt when enough
packets are there. Between two of its steps it may be overtaken at every point
where the driver could see the difference: `XEmac_SgSend` and `XEmac_SgRecv` are
three steps each (put, commit, start), the interrupt handler one per descriptor.
The handler does not interrupt `XEmac_SgSend`, which masks interrupts, but does
come between two calls of it for the same frame. Reset waits for the engine to
stop, as `XDmaChannel_SgStop` does, clears its registers and starts it again,
with a threshold of one. A frame that cannot be put is dropped, and the stack
may go on sending. `setup` selects what is explored: sending frames of one
descriptor with a reset, with a stack that takes received frames in time or not,
sending frames of up to two, sending copied frames, receiving with a reset. Over a
stack that is late (`Late`) `low_level_input` may find no buffer to exchange and
return, and `XEmac_Start` may find the receive list empty and return before it
starts the send channel. Frames have no contents; where they are copied, `buf`
says from which send buffer a descriptor is sent, until a frame is dropped.

**Heap.** `mem` has the headers by address, without `ram_end`, whose back link is
written and never read. Each call is one step: lwIP is built with NO_SYS, where
the semaphore is empty and one task makes all calls. `mem_realloc` is called only
by `pbuf_realloc`, to make a block smaller. `live` are the regions the callers
hold; `trimmed` records that `mem_realloc` has cut a block off below `lfree`.
Addresses are offsets in `ram`: regions are aligned where `ram` is, an array of
bytes that nothing in `mem.c` aligns.

## Runs

| run | instance | checks |
|---|---|---|
| thread_manager | 3 IDs | `TypeOK`, `FreeIDsUnused`, `NoIDLost`, `IdentityKept` |
| scheduler | 4 threads, 3 priorities, 1 hardware interface; malloc lock with its four-bit count | `QueueBitsExact`, `NextIsBest`, `HolderInside`, `ImplementsReadyQueue` |
| scheduler_any | 3 threads, 2 priorities, every call of hthread_setschedparam | `OneElementLevels`, violated |
| synch | 3 threads, 2 mutexes of all kinds, counts below 3; or 4 threads, 3 fast mutexes | `HoldersOwn`, `WakeupsExact`, `ImplementsMutex`, `GrantedWakesUp` |
| condvar | 4 threads, 2 variables, a channel of 4 | `WaitersExact`, `ChannelNeverFull`, `ImplementsCondition`, `SignalledRuns` |
| kernel | 4 IDs, 3 priorities, 2 creates, threads of every kind, 1 interface | `RunsCurrent`, `NoThreadLost`, `JoinedHasExited`, `NoStartLost`, `DetachedFreed`, `PriorityApplied`, `QueuedCanRun`, `RequestsFit`, `BusFreed` |
| kernel_start | as kernel | `StartWritten`, violated |
| kernel_preempt | as kernel | `PreemptionPending`, violated |
| heap | 24 bytes, headers of 2, alignment 2, six sizes | `Linked`, `Plugged`, `LowestFree`, `Owned`, `AlignedRegions`, `ImplementsAllocator` |
| emac | a ring of 3, threshold 2, 3 send buffers, the five setups | `HandsOff`, `EndStops`, `PktCountExact`, `FramesIntact`, `ImplementsRing`, `KeepsReceiving`, `FramesSent`, `FramesHandedUp` |
| emac_drop | the same ring, receiving, the stack late | `HandsOff`, violated |
| emac_sendbuf | the same ring, sending copied frames | `CopiesInside`, violated |

*Bounds.* Three IDs exhaust the ID stack, free it in another order than it was
filled, and have a parent, a child and a bystander. Four threads make a list
with a head, a middle and a tail beside the current thread, or two lists. The malloc lock and the ready
queue share no register, so that each is explored beside the other at rest
(`locking`). Two mutexes and three threads make a hand-over while a wake-up is
on the bus; a send list of two needs four threads and three mutexes. The run
synch explores both as two instances (`wide`); in the second only thread 0 uses
several mutexes, and shares each with one other thread. Four threads make a
broadcast to three waiters; the channel, as in the core, is as deep as there
are threads. Four threads wait for one variable, or three for two (`wide` in
`MCCondVar`): the links are shared by all variables. In the kernel two IDs are
the main and the idle thread, and a program creates two threads (`MaxCreates`).
If they are joinable and better than the main thread or in hardware, both may
live at once, so that there are lists of two and a queued thread beside the
parent; threads of the other kinds, detached or as good as the main thread, are
created one after the other, with an ID that is used again (`kinds`). With two
threads alive CREATE finds no ID left and fails. A heap of twelve units holds up to six blocks,
so that neighbours are free, used or absent on either side of the block that is
freed; the sizes are odd and even, and one is large enough to be cut down. A
ring of three has a first, a middle and a last descriptor, wraps, and holds a
full frame of two beside a part of another; a threshold of two lets packets wait
below it. The code has twice as many send buffers as descriptors; three for
three are fewer, and still enough. A reset happens at most once.

*Views.* The cores do not clear what they will write before they read it again:
the ends of empty lists, links of threads in no list, used cells of the ID stack,
and the same is true of the local variables of the interrupt handler. The runs
thread_manager, scheduler, kernel and emac explore states that differ in these
only once (`LiveState` of their MC modules). Explored without it, the same
instances reach the same set of views (for thread_manager and scheduler compared
with one thread fewer).

*Deadlock* checking is off for the mutexes, as two callers may well deadlock on
two of them; for the heap, where nothing has to be freed; for the Ethernet
driver, which rests when nobody sends and nothing arrives; and for the kernel,
because of the deadlock that kernel_start is about (`Overtaken`).

*Fairness.* The masters of the synchronization manager and of the condition
variables are weakly fair: once they have a thread to wake they hold their
request until the bus acknowledges and completes it. In the kernel the clocked
state machines of the cores are weakly fair, and so are the steps of a master
whose transfer has been acknowledged (`Progress`). kernel_start also supposes that
the interconnect does not pass over a waking core for ever (`Arbitration`): its
counterexample is a deadlock, and not a master that is never granted. In the Ethernet driver the
engine, the handler (an interrupt that stays raised is taken) and a call of
`XEmac_SgSend` that has begun are weakly fair. No caller is fair: nobody has to
lock, signal, send, take a received packet or answer. `FramesSent` supposes, in
the property, that the stack goes on sending and takes received frames in time.

*What the violations show.*
- scheduler_any: SET_SCHED_PARAM reads the entry of the new list before it
  unlinks the thread. If old and new priority are the same and the thread heads
  a list of two, the other thread is lost, although its queue bit is set. A
  thread moved from the middle leaves a stale back pointer. `Next` leaves both
  out.
- kernel_start: the scheduler answers the thread manager before it writes the
  start command. If a core that wakes a thread is granted core_bus_master in
  between, and the CPU core_bus_slave, the CPU's transaction waits for the
  scheduler, the scheduler for core_bus_master, and its holder for
  core_bus_slave. `BusFreed` says that a transaction ends unless a start command
  has been overtaken so.
- kernel_preempt: a preemption raised between the handler's yield and its
  acknowledge is cleared, and the worse thread runs on.
- emac_drop: `low_level_input` returns when `recv_pkt_buf` is full, and does not
  give the descriptors of the packets it drops back. The list counts and the
  engine then disagree about who has which descriptor.
- emac_sendbuf: the send buffer pointer wraps only when it is past the end of
  `SendBufferMem`, so that one frame in turn is copied behind it.

*Disagreements without a run.* The models leave these out or allow them, and
what they check is about the rest.
- UNLOCK does not look at its caller, where hthread_mutex_unlock promises a
  failure: the callers of `SynchManager` unlock what they hold.
- The wake-up master of the synchronization manager misses a hand-over that
  comes while it fetches from its list.
  It needs an interconnect with concurrent transfers.
- The scheduler lets a thread set the priority of itself and of its children,
  and a detached thread is nobody's child but thread 0's. Created by another
  thread, it runs with the priority its ID had before: `PriorityApplied` is
  about the children of the main thread and joinable threads.
- The nanokernel exits a thread and does not clear it, where hthread_exit
  promises that a detached thread is deallocated at once: `DetachedFreed` is
  about software threads.
- `_exit_thread` is repeated after an error, although the first call has marked
  the thread as exited. The thread manager answers an exception by a word of
  zeroes, which software reads as success or as thread 0.
- The sixteenth nested `__malloc_lock` would wrap the count to zero. A thread
  that spins on the lock and is better than its holder never lets it run.
- An SG_END that comes between the handler's restart and its acknowledgement is
  cleared unseen. Receiving goes on all the same (`KeepsReceiving`); a frame to
  send may wait until the next one (`FramesSent`).
- A frame that `XEmac_SgSend` refuses has used up its send buffer: enough of
  them in a row overwrite one that waits. `FramesIntact` ends at the first.
- When the receive list is empty at a reset, `XEmac_Start` leaves the send channel
  stopped. If the send list is full, `XEmac_SgSend` fails before it would start
  the channel, and nothing is sent any more: `FramesSent` is about a stack that
  keeps up.
- `lfree` is not "the lowest free block" (`mem.c:87`) after `mem_realloc` has
  cut one off below it (`trimmed`). The block is found again after the next
  `mem_free` below it.
- `mem_malloc` splits every block it takes, and refuses one of exactly the size
  asked for: what `Plugged` says is one block again cannot be had in one piece.
- `xemacif_input` does not test what `pbuf_alloc` returns, and a single aligned
  pbuf is sent from its own memory without a reference to it.

## Proofs

Every theorem holds for every value of the constants that satisfies the named
assumption of its module (`NumIDsAssumption`, `SchedulerAssumption`,
`CoreAssumption`, `SynchAssumption`, `CondVarAssumption`, `HeapAssumption`,
`DmaChannelAssumption` and `EmacAssumption`; `LockAssumption` and `KeepsUp` are hypotheses of the
theorems). The type invariants of these modules are proved as part of the
inductive invariants. All proofs are by an inductive invariant, `IInv` unless
another name is given, with one lemma per action.

| module | theorem | states |
|---|---|---|
| `ThreadManager_proofs` | `TypeCorrect` | `Spec => []TypeOK` |
| | `FreshIDs` | `Spec => []FreeIDsUnused` |
| | `IDsConserved` | `Spec => []NoIDLost` |
| | `IdentityPreserved` | `Spec => IdentityKept` |
| `Scheduler_proofs` | `QueueAgrees` | `Spec => []QueueBitsExact` |
| | `BestRunsNext` | `Spec => []NextIsBest` |
| | `MallocExclusive` | `LockAssumption => (CoreSpec => []HolderInside)` |
| | `CoreImplementsReadyQueue` | `CoreSpec => ImplementsReadyQueue` |
| `SynchManager_proofs` | `MutualExclusion` | `Spec => []HoldersOwn` |
| | `NoSleeperLost` | `Spec => []WakeupsExact` |
| | `CoreImplementsMutex` | `Spec => ImplementsMutex` |
| `CondVar_proofs` | `NoWaiterLost` | `Spec => []WaitersExact` |
| | `SignalsNeverWait` | `Spec => []ChannelNeverFull` |
| | `CoreImplementsCondition` | `Spec => ImplementsCondition` |
| `Heap_proofs` | `ListWhole` | `Spec => []Linked` |
| | `HolesPlugged` | `Spec => []Plugged` |
| | `NoneMissed` | `Spec => []LowestFree` |
| | `BlocksOwned` | `Spec => []Owned` |
| | `RegionsAligned` | `Spec => []AlignedRegions` |
| | `HeapImplementsAllocator` | `Spec => ImplementsAllocator` |
| `Emac_proofs` | `StaysInList` | `KeepsUp => (Spec => []HandsOff)` |
| | `StopBits` | `KeepsUp => (Spec => []EndStops)` |
| | `CountTrusted` | `KeepsUp => (Spec => []PktCountExact)` |
| | `FramesApart` | `KeepsUp => (Spec => []FramesIntact)` |
| | `ChannelImplementsRing` | `KeepsUp => (Spec => ImplementsRing)` |

**Thread manager.** `TypeOK` is inductive by itself, with one step per action
(`TypeStep`). The ID invariants are inductive only together: that CLEAR finds the
cell below `next_ID` to be none of the free ones needs the number of used IDs
(`Cardinality(UsedIDs) = next_ID`), that CREATE uses up exactly one needs that
the free cells are distinct and unused. `CreateIDs` and `ClearIDs` are these two
arguments; `OtherIDs` shows that every other action leaves table status and
stack as they are. `IdentityStep` follows from the actions and from
`FreeIDsUnused`: CREATE is the one that writes a whole entry, and it writes one
no thread uses.

**Lists.** What a walk along the links finds would need induction over data. The
invariants say instead that some sequence without repetition follows the links
from the first register to the last and has the right elements (`Chain` of
`LinkedList`); a step is proved by giving the sequence after it. The lemmas of
`LinkedList_proofs` do this once for all three cores: an element is appended,
the first or the last is taken off, a write to the link of an element of another
list changes nothing, and a list of threads is no longer than there are threads.

The refinement mappings turn links into sequences, by a recursive function that
walks from the first register to the last (`ListOf`) or along a number of links
(`Walk`). No induction is needed to know what they compute: the sequence of the
chain satisfies the equation of the function, and what satisfies it is the
function. So `ListOf` of a chain is the chain's sequence, and what a step does
to the chain (append, take off an end, leave alone) it does to the FIFO.

**Scheduler.** `IInv == TypeOK /\ QueueBitsExact /\ NextIsBest`. A dispatch needs
the decision register: DEQUEUE takes the head of a list and clears the bit of the
current thread, and only `NextIsBest` says that the two are the same. A change of
priority is an unlinking and an append (`Unlinking`, `MoveToKeeps`), and is the
place where the proof needs that the thread is at an end of its list and changes
it (`SafeToMove`); scheduler_any shows why.

For the refinement `RInv` adds to `IInv` what the core knows of the idle thread
(`IdleInv`): without it the decision register cannot be the idle thread exactly
when all FIFOs are empty. `QueueGrows`, `QueueShrinks` and `QueueStays` say what
a command does to the FIFO of each priority, `Chosen` that the decision register
is the abstract choice, before and after every step; `EnqueueMaps`,
`DispatchMaps`, `SetParamMaps` and `SetIdleMaps` are one per abstract action.
The malloc lock and the start of a hardware thread are stutters (`Unseen`).

**Synchronization manager.** `IInv == TypeOK /\ HoldersOwn /\ OwnersHold /\
OnlyRecursive /\ WakeupsExact`. That every holder is the owner is not inductive:
an unlock hands the mutex to the first waiter, which must not hold anything
(`OwnersHold`: the owner sleeps with a count of one, or holds as much as the count
says) and must be asleep (`WakeupsExact`: waiters and owners still asleep are
linked, each once); and a mutex that is not recursive is given up at once
(`OnlyRecursive`). The refinement to FIFO mutexes follows from the same
invariant: one lemma for each outcome of LOCK, TRYLOCK and UNLOCK (`TakenMaps`,
`NestedMaps`, `WaitForMaps`, `UnlockMaps`), and the step in which the master has
added the thread is the abstract wake-up (`SendDoneMaps`).

**Condition variables.** `IInv == TypeOK /\ WaitersExact /\ SomeoneRuns`. The
length of a list has the width of a thread ID and would wrap if all threads
waited; `SomeoneRuns` and the bound on the length of a chain exclude it. The same
count shows that the channel never fills: its threads wait, and are distinct. In
the refinement the threads on their way are the one being sent, the channel and
the rest of a broadcast, in this order; a broadcast takes effect when it begins,
and the steps in which the core moves the rest to the channel are stutters
(`WakesMaps`).

**Malloc lock.** `LockInv` adds the types to `HolderInside`. The ready queue leaves
the lock's registers alone, so that it holds of the core as a whole (`CoreSpec`).

**Heap.** `IInv == TypeOK /\ Linked /\ Plugged /\ LowestFree /\ Owned`. The parts
need each other: that `mem_free` finds at most one free neighbour on each side,
as `plug_holes` supposes, is `Plugged`; that `mem_malloc` splits a free block
inside itself is `Linked` (no block is smaller than its header, or the unsigned
subtraction would let any request in); that freed memory is the caller's is
`Owned`. That `lfree` never reaches `ram_end` follows because a block is only taken
when there is room for another header behind it. The refinement follows from
`Owned` and `Linked`: blocks of different regions do not overlap. Alignment is an
invariant of its own beside `IInv`: headers are at multiples of the alignment
(`InPlace`), because a block is only ever cut at a header, a header and an
aligned size behind another one, and `Aligned` is right although it takes the
remainder of the size with the header added (`AlignedMultiple`).

**Ethernet driver.** `IInv` has four parts, of which the first is about the channel
alone and kept by each of its functions, whoever calls it (`DmaChannel_proofs`;
`Emac_proofs` has the driver). `Channel` measures
every descriptor by its distance behind GetPtr (`From`): PutPtr and LastPtr are at
the end of the list (`Ends`), the engine is at a descriptor of the list or right
behind it (`InList`), the busy status is clear behind the engine and, before the
first reset, set ahead of it (`BusyAhead`), and the count counts the packets
behind the engine (`Passed`). `EndStops` alone is not inductive, as a commit
changes the stop bit of a descriptor that the engine may have read already; with
`InList`, which says what the engine has latched, it is. `Done`, how many
descriptors the engine has behind it, is the refinement mapping; it has to look
at the busy bit where a full ring has its end in front of its beginning.
A reset is `resetting` of the ring: only between the stop of the engine and the
clearing of its registers may descriptors that were done be waiting again.
`Pulling` says that the handler pulls no more packets than were counted,
`Refill` that a receive ring is full but for what the handler has in hand, in
order, and that the stack has room for what may arrive, and `InTurn` that the
waiting frames have the send buffers before the next one in turn. `KeepsUp`, that
frames arrive on the receive side only when the stack has room for them, is
needed: emac_drop shows what happens without it. The number of send buffers,
`EmacAssumption`, is at least that of the descriptors, and twice that in
`netif.c`.

*Only model-checked:* all liveness, which is outside the reach of the prover, and
the kernel, whose invariants rest on each other through every register of the
composition.

## Not modelled

- Of the scheduler core: the reads for debugging, which change nothing, and
  TOGGLE_PREEMPTION, which masks the preemption line. Of the synchronization
  manager: the commands that read its status.
- The reset core, the timer, the interrupt controllers, bus interfaces and FSL:
  reset sequencing, counters and wiring. The `plb_` predecessors of the cores,
  and the PowerPC port, which has the same system calls.
- Saving and restoring registers, attributes, keys and the interrupt association
  of the user API: they have no state that is shared.
- A second CPU with the system call lock. The kernel reduces the mutex and
  condition variable cores to what they do to a thread; they are composed with
  it by their promises and not by their modules, as the product is out of TLC's
  reach.
- Of the Ethernet driver: FIFO and polled modes, which `netif.c` does not use,
  PHY access, multicast, options, statistics; the DMA bus error, which
  `xemacif_error_handler` ignores. Of the network interface: ARP, checksums, cache flushes.
- The lwIP protocols, pbufs and pools, the device files, sleep, the accelerators
  and their benchmarks. They are vendored, or run in one task without sharing
  state with the threading system. By lines they are most of the repository.
