# A TLA+ model of the Puppy kernel

Puppy is an operating system for 32-bit Intel PCs. Its kernel runs on one CPU
and is not preemptible: interrupts come in system calls, but the CPU changes
hands only where kernel code yields, waits, sleeps or exits, or where the timer
finds user code running. This directory models the parts of the kernel that are
hard to test because of that: what happens between two yields is simple, the
orders in which such pieces follow each other are not.

## The system and its parts

| Part | State | Operations | What is hard about it |
|---|---|---|---|
| Scheduling (`process/manager.cpp`, `tasks/scheduler.cpp`, `tasks/awaker.cpp`, `synch/waitqueue.cpp`) | ready queue, wait queues, sleep queue, process states and wait tokens | deschedule, ready, wake, reschedule, sleep, yield, wait, wakeall, the awaker | signals race with timeouts; entries outlive waits |
| Processes (`process/manager.cpp`, `tasks/collector.cpp`, `tasks/deleter.cpp`, `process/table.h`, `process/bitmap.h`) | process table, children, exited table, collected list, pid and GDT bitmaps | spawn, exit, kill, collect, collectany, collector, deleter | parents die while children die; slots are used again |
| Dispatch (`tasks/scheduler.cpp`, `syscalls/manager.cpp`, `time/manager.cpp`) | tickets, used ticks, tick handlers | the lottery, tickForSchedule, end of a system call, timer callbacks | off-by-one, wrap-around, counters never reset |
| Synchronisation (`synch/mutex.cpp`, `semaphore.cpp`, `event.cpp` and their filesystems) | owner, value, maximum, raised | wait, trylock, unlock, signal, max, raise, lower | lost wake-ups, waiters that lose a race |
| Channels (`synch/pipe.cpp`, `synch/msgueue.cpp`, `libc/keyedstore.h`) | circular buffers, open ends, reference counts | open, read, write, ioctl, inherit, close | blocked clients when the other side leaves |
| Files (`fs/vfs.cpp`, `fs/filesystem.cpp`, `fs/handletable.h`, `syscalls/impl/fs.cpp`) | mounts, handles, mapped files, reference counts | open, close, dup, mmap, pipe, mount, unmount, spawn, exit | references held by several owners, calls that fail half-way |
| Memory (`mm/*.cpp`, `libc/malloc.cpp`) | page counts, page tables, regions, heap | map, protect, fault, write, unmap, clone, exec, exit, malloc, free | copy-on-write, counts of 8 bits, merging of blocks |
| Terminal and keyboard (`drivers/ps2/keyboard.cpp`, `tasks/keybqueue.cpp`, `tty/*.cpp`, `drivers/framebuffer/fb.cpp`) | ring of key events, their queue, foreground list, line buffer, cursor | interrupt, task, read, line editing, escape sequences | interrupts between check and wait, edges of buffers and of the screen |
| Disks (`fs/vol/*.cpp`) | sector cache | read, write, evict, fail | coherence of the cache |
| Boot, drivers, ELF loader, FAT, user space | | | sequential, device I/O or third-party |

The parts meet in a few places. Everything that blocks does so through
Scheduling. `exit` closes files, which wakes waiters of pipes, queues and the
terminal, and hands children to the collector. The timer interrupt drives the
clock, the tick handlers and preemption.

## Modules

| Module | Models | Status |
|---|---|---|
| `Scheduling` | process states, ready queue, wait queues, sleep queue, awaker, interrupts | proved (`SynchProofs`) |
| `ProcessManager` (extends `Scheduling`) | life of a process, collector, deleter | proved, refines `ProcessLife` (`ProcessManagerProofs`) |
| `ProcessLife` | what process management promises | proved (`BookkeepingProofs`) |
| `ProcessSlots` | pids, GDT indices and descriptors | proved (`BookkeepingProofs`) |
| `Lottery` | the draw over the ordered ready queue | proved (`BookkeepingProofs`) |
| `Quantum` | ticks, slices, preemption | `SliceBounded` proved (`BookkeepingProofs`) |
| `TickHandlers` | periodic timer callbacks | proved (`BookkeepingProofs`) |
| `Synch` (extends `Scheduling`) | mutexes, semaphores, events | safety proved (`SynchProofs`) |
| `RingBuffer` | the circular buffers of pipes and message queues | lemmas in `ChannelsProofs` |
| `Channel` | a bounded first-in first-out channel | abstract specification |
| `MessageQueue` | a message queue and its reference count | proved, refines `Channel` (`ChannelsProofs`) |
| `Pipe` | a pipe, its ends and handles | safety proved, refines `Channel` (`ChannelsProofs`) |
| `FileHandles` | handles, mapped files, mounts and both reference counts | proved (`FilesProofs`) |
| `SectorCache` | a volume behind its cache of sectors | proved (`DevicesProofs`) |
| `Paging` | physical pages, page tables, regions, faults | proved (`PagingProofs`) |
| `KernelHeap` | malloc, free and sbrk | proved (`HeapProofs`) |
| `Keyboard` | interrupt handler, key event task, foreground and readers | proved (`DevicesProofs`) |
| `Selection` | what a loop that drops entries leaves of a list | used by `SectorCache`, `Keyboard` and `Lottery` |
| `TTYFile` | line buffer and both line disciplines | proved (`DevicesProofs`) |
| `Screen` | escape sequences and the cursor | proved (`DevicesProofs`) |
| `MC*` | instances for TLC | |

### Grain

An action is what one process does from the moment it gets the CPU, or begins a
system call, to the point where it yields or returns. `current` is the process
that has the CPU, or `Scheduler` while the lottery runs. Interrupts are actions
of their own. The code runs user code, system calls and kernel tasks with
interrupts enabled, and the handlers of faults and interrupts with interrupts
masked. An interrupt that arrives inside a system call or a kernel task is
modelled as arriving before or after the piece between two yields. This is an
abstraction, not a theorem: the keyboard's handler wakes a queue and so changes
the ready queue, and nothing in the code keeps it from doing so in the middle of
another change. The models do not show what happens then (see the hazards).

### Scheduling

`Resched` is the one place where states change, as `deschedule` and `reschedule`
are in the code: it bumps the wait token on a wake-up and keeps the count of each
process in the ready queue. The order of that queue matters to the lottery only
and is in `Lottery`. A wait queue is a set of entries (process, token), since
`wakeall` empties it. The sleep queue is a binary heap whose comparison reads
the *current* `sleeptill` of the processes; `Top` is the earliest entry while no
key has changed (`HeapIntact`) and any entry once one has. The awaker buries,
wakes, ignores, polls or parks, one action for each branch of its loop.
`AwakerIgnore` is the branch that finds an old token: it changes nothing, and as
kernel code is not preempted it is taken for ever.

### ProcessManager

A process is identified with its slot: pid and `process_t`. `collecting` is what
a blocked `collect` or `collectany` waits for; `doomed` is the effect of `kill`,
which makes the process resume in the reaper. `WakeQueues` joins the wake-ups of
the files that `exit` closes, of the collector and of the parent. Programs
collect only their own children, as the PANICs of `collect` demand. The model
assumes that programs use waits without timeouts: an entry that a timed wait
leaves in the sleep queue outlives its process, and from there on the awaker
reads freed memory and wakes strangers (below).

### Dispatch

`Lottery` keeps the ready queue in order and takes every winning number.
`Quantum` counts ticks modulo `Width` (2^8 in the code). `ProcessSlots` keeps
both bitmaps with their moving starting points, and whose descriptor is in each
GDT entry. `TickHandlers` keeps the slots, periods and countdowns.

### Synch and channels

In `Synch`, `call` is the wait a process is inside of; `Attempt` is one turn of
the loop in `wait`, and `Patient` says whether a woken waiter may block again,
which the code allows only with a timeout. `MessageQueue` and `Pipe` take from
Scheduling that a wait queue holds exactly its waiters (`WaitersQueued`, proved)
and reduce it to a set of processes; the end of a wait is then an action that is
enabled. The reference count of the store (`refs`) and the handles that children
inherit are explicit. `Channel` is what both promise.

### Files and disks

An open file is an object with a reference count and the filesystem it is open
in (`home`, None once it is closed). A handle is an entry of a process's table:
an object, or the forwarding of one of the three terminal handles. Regions keep
the file they map. `spawn` and `exit` run through lists, one element at a step,
and `busy` keeps everybody else out, as nothing there yields. `lost` counts the
references that a failed `fopen` or `fdup` took and nobody holds; `tainted` are
the objects that a clone of a process with mapped files, or a `pipe()` that
found one free number, gave an uncounted user. Paths are names of mount points,
and what is in a file is left out. In `SectorCache` an action is one sector; a
write that the disk reports as failed may have reached it (`torn`).

### Memory

`frame` maps each use a process has for a physical page (a page of its memory,
its page tables as one, its directory) to that page. A region is one of
`NumSlots` slots of `RegionSize` pages; which address it gets is left out. What a
page holds is one value, `view` is what the process last wrote or inherited
there. `wrapped` says that a count of `CountLimit` (2^8 in the code) went around;
`exposed` that a page was made writable while shared, and `overruled` names the
pages that `clonePage` made writable although their region was protected
meanwhile. `KernelHeap` computes in block headers as `malloc.cpp` does.

### Keyboard and terminals

The interrupt handler is an action, as is each piece of the key event task: it
empties the ring (`drain`), enables interrupts (`leaving`) and waits (`asleep`);
the window in between is where an interrupt goes unseen. `arrived` and `queued`
are what the ring and the queue ought to hold. In `TTYFile` a step is what `read`
does between two keys; `spent` marks the call that took the last byte there was.
`Screen` keeps positions in pixels as the framebuffer does.

## Runs

States and times are for two workers on a desktop machine.

| Run | Instance | Shows |
|---|---|---|
| `scheduling` | 2 processes, 1 object, clock to 2, tokens to 3; 48 thousand states, half a minute | queues agree with states, wake-ups are honest, only leftovers delay a sleeper |
| `stale_sleep_entry` | the same, smaller | violation: a sleep that never ends |
| `processes` | 2 slots, 1 object, system tasks woken up to 3 times; 317 thousand states, 3 minutes | family tree, zombies, slots, no PANIC, refinement of `ProcessLife` |
| `process_liveness` | 2 slots, no object | a dead orphan's slot is given back |
| `bookkeeping` | 2 processes for slices, 3 for the lottery, 6 pids, 4 slots, 3 tick handlers; 45 thousand states | lottery, slices, tick handlers, bitmaps, lives |
| `synch` | 2 processes, one mutex, semaphore or event, clock to 1, 2 signals; 93 thousand states | ownership, permits, no missed signal, timeouts, termination |
| `lock_not_held` | 2 processes, 1 mutex | violation: `IOCTL_MUTEX_LOCK` returns without the mutex |
| `channels` | 3 processes, 2 places, 2 items; 185 thousand states, 3 to 4 minutes | FIFO, nobody left blocked, lifetimes |
| `reader_abandoned` | the same | violation: a reader sleeps on when the last writer goes |
| `files` | 2 processes, 2 objects, 2 volumes; 3 sectors behind 2 cached; 3 readers, rings of 3, 5 bytes; a line buffer of 4; a screen of 3 rows and 4 columns; 671 thousand states, 1 to 2 minutes | reference counts of files and filesystems, cache coherence, order of keys, no missed input, line editing, cursor |
| `mapping_keeps_file` | the same | violation: the file of a child's mapping is closed |
| `memory` | 2 or 3 processes, 7 physical pages, regions of 2 pages, counts modulo 3; a heap of 12 headers in pages of 4; 238 thousand states, 2 minutes | page counts, private memory, heap blocks |

`bookkeeping`, `synch`, `channels`, `files` and `memory` check parts or objects
that do not interact: a variable chosen in the initial state (`part`) says which
one moves, so that the states add up instead of multiplying. `MCFiles` and
`MCMemory` look at some parts twice, with what multiplies kept apart: "handles"
has two processes over one mount and "mounts" all mounts with one process;
"keys" has one reader and "foreground" one chord; "pages" has two processes with
anonymous memory and "crowd" three with mapped files, which is where a count
wraps. Physical pages are taken from the ends of the free ones, since nothing
tells them apart.

Some properties join what used to be separate ones, because they are about one
structure: `FamilyTree` says who is listed where, orphans and zombies included,
`NoDangling` includes that no PANIC is reached, `SlotsFound` that the searches
fail only when all is taken and that pids and GDT indices advance together until
the search wraps.

**Bounds.** Two processes are enough for every race between a signal and a
timeout, for a thief of a mutex, and for a parent and a child that die in either
order; three are used where two blocked clients of one channel matter. A slot is
used again with `MaxWakes` = 3 and not with 2, which is why `processes` has 3;
`process_liveness` has 2, so it is about the first use of each slot. `MaxToken`
lets a process block, be woken and block again. Six pids over two system
descriptors let both searches wrap around. Two places and items of two
kinds make a reordering visible; writes of two and reads of one wrap and stop in
the middle. Bounds are guards (`MayBlock`, `InTime`, `MaySpawn`, `MayCollect`,
`Count`, `MaxSpawned`, `MaxSlice`, `MaxLeaks`, `MaxRefs`, `MaxIO`, `MaxBytes`,
`MaxKeys` and the like), never state constraints. Two objects let a place in
memory be used again while another file is open. A cache of two sectors of three
evicts. Rings of three places and five bytes go around, and are overrun. Seven
physical pages hold two processes with both pages of a region and run out when
both copy; counts modulo 3 wrap with three processes. A heap of three pages
has room for allocations of up to 6 headers in every order that splits and merges
on both sides. A screen of 3 rows and 4 columns has edges, corners and an inside.

**Fairness.** Weak fairness of the clock, of the timer's preemption of user code
and of the idle loop, and of kernel code that has the CPU. Strong fairness of
being chosen by the lottery: the draw is random over the tickets, so a process
that is ready again and again is drawn with probability one. By
`OddsFollowTickets` that holds for a process with two tickets or more, and for
one with a single ticket unless it is last in the queue at every draw; in that
case strong fairness is an assumption the code does not guarantee. `Pipe` leaves
scheduling out, so a client whose wait has ended resumes under weak fairness. A
process inside a system call returns (`Quantum`), since system calls are finite.

**Deadlock** is not checked where clients may all be blocked for good reason or
where a PANIC halts the machine (`processes`, `process_liveness`, `channels`,
`bookkeeping`, `files`, `memory`, where the bounds on inputs end a behaviour
too); elsewhere it is.

## Proofs

Every safety invariant and action property the runs check is proved, and
so are all three refinements. The theorems hold for any number of processes,
queues, slots, messages, files and pages, and any sizes of tables, buffers and
caches; the runs check the same definitions on small instances. A property is
seldom inductive as it stands. Each proof names the invariant that is, has one
lemma per action, and ends in one temporal step.

* `SynchProofs`. `SchedInv` joins `TypeOK`, `ReadyOnce`, `WaitersQueued`,
  `SleepersQueued` and `AwakerOnDuty` with two facts that make it inductive:
  whoever runs is AVAILABLE (`RunnerReady`), and the awaker blocks only on its own
  queue (`AwakerPlace`). `HonestWake` is an action property that follows from it:
  a wake-up is a signal of the queue that was waited on, or a timeout that was
  asked for and has come. `SynchInv` adds the objects: `GrantedIsOwned`,
  `NoMissedSignal` and `PermitsConserved` need that a process blocked on an object
  is inside a wait for that object, and that one that runs on inside a wait was
  woken by its object or after its deadline (`WaitsHonest`), which needs
  `WaitersQueued`. From it follows `GivesUpInTime`: a wait with a timeout that
  comes back with nothing has waited its time.
* `ProcessManagerProofs`. `PMInv` has two halves. The first is about queues:
  besides `ReadyOnce` and `WaitersQueued`, no entry of the sleep queue is stale
  (`SleepersOnly`). The second ties the tables to states: a slot's state agrees
  with the table it is in (`SlotStates`), whoever blocks in `collect` waits for
  its own child (`CollectsOwn`), the system tasks park on their own queues
  (`ParkPlaces`), and between two lotteries the exited table has exactly the
  processes that have exited (`ExitedOnly`). `FamilyTree`, `NoMissedExit` and
  `NoDangling`, that no PANIC is reached included, follow. `LifeRefined`: each
  action maps to the one step of `ProcessLife` it is about, or to none; an exit
  hands its children to the collector in one step because the loop over the list
  does not yield. All this assumes waits without timeouts (`Timeouts = {}`), as
  the model does.
* `BookkeepingProofs`. `SliceBounded` is not inductive: the slice is tied to
  `usedticks`, which wraps around and survives the slice; `SliceCounted` ties them.
  `IndicesOwned`: pids and GDT indices are taken and given back in step although
  they are searched independently. `SlotsFound` needs that as many indices as pids
  are in use, besides the system's (`FoundInv`), so that the second search cannot
  fail when the first did not. `ParentsLive` in the abstract specification of
  lives. `OnSchedule`: a handler's countdown and the ticks that passed it over add
  up to its period (`TickInv`). `OddsFollowTickets`: once the exited processes are
  gone everyone in the ready queue can run, each is in it once and the idle process
  always is (`LotteryInv`); so the count at the end of the loop is the total that
  the draw is reduced by, every number stops somewhere, and a process wins the
  numbers between the counts before and after it (`CountedOnTheWay`, `WinsOf`).
* `ChannelsProofs`. Both buffers keep the write pointer behind the last place in
  use (`WellFormed`). For queues, a `Put` appends to `Contents` and a `Get` takes
  its head; for pipes, where one call moves several characters, steps along the
  places add up and less than a whole round of them leads to different places
  (`AlongAdds`, `AlongDiffers`). `QueueInv` gives `StoreCounts`,
  `NoMissedMessage` and `OnlyLeaksPanic`. `PipeInv` gives `BlockedForReason`: it
  needs that the flags of the ends say whether somebody holds them, and that only
  holders are inside a call, so that the last close finds nobody inside. Every
  step of either is a step of `Channel` (`QueueRefined`, `PipeRefined`).
* `FilesProofs`. `FileInv` joins the counts of files (`CountInv`), what the kernel
  knows of open objects and mounts (`ObjectInv`, `MountInv`) and of processes in
  the middle of `spawn` or `exit` (`ProcessInv`). Neither `ReferencesCounted` nor
  `FilesystemsCounted` is inductive alone: a close finds the file open only
  because the counts are right, an unmount leaves a filesystem under its open
  files only because `openObjects` counts them, and the long calls keep the counts
  because a process that is not alive holds nothing.
* `DevicesProofs`. `CacheCoherent` needs that the list and the hash of the cache
  have the same sectors, each once (`DiskInv`), so that evicting the last one
  removes the one that is counted. `KeysInOrder`: both rings hold what came and
  was not taken, until one is overrun (`KeysInv`, which places every event).
  `NoMissedInput` covers the task's way to sleep: an event that comes after its
  last look at the ring is `unseen` before the task sleeps (`InputInv`).
  `InputAsTyped`: the line buffer holds what was typed and not read, over
  deletions and both disciplines. Until a call takes the last byte there is, keys
  go into a buffer that is read from its start (`Sane`), and a key changes the
  buffer only while `read` waits for one. `CursorOnScreen`: a backspace subtracts
  a row or a column from an unsigned position; it stays at or above 0 because the
  cursor is always at whole rows and columns (`CursorInGrid`), which the size of
  the screen must be, too.
* `PagingProofs`. `PagesCounted` and `PrivateMemory`, from one invariant
  `MemoryInv`. Giving a page back cannot panic because its count is the number of
  its users (`CountInv`), and that needs that a free slot uses none
  (`SlotsEmpty`). Reading what one wrote needs that a writable page has one user
  (`PrivateInv`), which a fault that takes a free page has from the counts. A page
  is in a region and no more writable than it (`RegionInv`). The arithmetic comes
  first: replacing what one process uses changes the users of a page by the
  difference (`RowReplaced`), hence what taking, giving back, copying and sharing
  pages do to counts that are right.
* `HeapProofs`. `HeapConsistent`, from `HeapInv`: each block of the free list
  leads to the least one above it or back to the start (`Ordered`), blocks have
  disjoint extents below the break (`Tidy`), no free block ends where the next
  begins (`Apart`), and extents and waste add up (`Fills`). A search that starts
  anywhere in such a list meets all of it (`GoesRound`), so `free` finds the one
  place where the block belongs (`SpotBelow`) and its loop ends. The two merges of
  `free` and the split of `malloc` are one lemma each (`JoinFills`, `InsertFills`,
  `TakeFills`); growing the heap adds a block in use that is then freed
  (`GrowFills`).

Where a proof needs an induction over numbers, it takes the least counterexample
(`LeastNatural`, from the well-foundedness of the naturals) instead of an
induction rule. Loops over lists are written as what they compute, so that there
is something to prove about: a removal keeps the entries with other indices
(`Selection`, `Without`), a read or write of several characters moves the pointer
by their number (`Along`), the tickets counted so far are a set whose size is
the count (`Tickets`), and the blocks a search of the heap looks at are the fewest
that are closed under its step (`Looked`).

Assumptions are the named `ASSUME`s of the modules: the system tasks are distinct
from each other and from ordinary processes, the awaker's queue belongs to the
awaker alone, each synchronisation object is of one kind, a buffer has at least
one place, a message queue finitely many clients, lengths, limits and periods are
natural numbers, the tick counter is wider than the largest quantum, there are
more slots than system tasks, processes, open files and physical pages are
finitely many where they are counted, a process may hold a ticket, a reference
count can be 1, the screen has whole rows (two or more) and columns (three or
more) of the font, the heap lies above the allocator's static header, its pages
and requests to grow have at least one header, and the marks for "nobody" and
"nothing" are not values. `ProcessManager` assumes waits without timeouts.

Only model-checked:

* liveness (`OnlyLeftoversDelay`, `SlotGivenBack`, `Preempted`, `ComesBack`,
  `NoOneLeftBehind`), which is out of the prover's reach.

## Where the code and its documentation differ

Shown by a run:

* A wait with a timeout that is signalled early leaves its entry in the sleep
  queue. When the entry is due the awaker spins on it, and no sleep ends any
  more (`stale_sleep_entry`).
* `Mutex::lock` is `wait(0)`, which gives up when another process is faster, and
  the ioctl reports success (`lock_not_held`).
* `MessageQueueBuffer::closeWriter` does not wake readers (`reader_abandoned`).
* `MemoryManager::clone` copies mapped regions without taking a reference of
  their files, and each copy closes its file when it goes (`mapping_keeps_file`).

Stated exactly by a property that holds:

* The first process of the ready queue wins one number too many and the last one
  too few (`OddsFollowTickets` has the tolerance of one; `tasks/scheduler.cpp:72`
  compares with `>=`, and no number is left without a winner).
* `usedticks` is never reset after a slice, so that later slices end at their
  first tick until the counter wraps (`SliceCounted`, `process/manager.cpp:695`).
* A tick handler registered for every N ticks runs every N + 1 (`OnSchedule`,
  `time/manager.cpp:97`; `time/manager.h:59` says every N).
* The deleter clears the GDT entry `pid + 6`, which is the process's own only
  until the search for a GDT index wraps around (`SlotsFound`,
  `tasks/deleter.cpp:61`).
* An open of a message queue with neither flag leaks a reference, and the last
  close then PANICs (`OnlyLeaksPanic`, `synch/msgueue.cpp:256`).
* `fopen` and `fdup` with a full handle table lose a reference, and `pipe()` with
  one free number leaves a handle to a closed file (`ReferencesCounted` counts the
  former as `lost` and leaves the latter out as `tainted`).
* A page that was shared when its region was read-only becomes writable for all
  who share it when the region is made writable (`exposed` in `PrivateMemory`,
  `mm/memmgr.cpp:110`), and a page marked copy-on-write becomes writable by a
  write although its region was made read-only meanwhile (`overruled`,
  `mm/virt.cpp:305`).
* The keyboard ring and the key event queue are written without a look whether
  they are full (`overrun` in `KeysInOrder`), and an interrupt between the task's
  last look and its wait is seen with the next key only (`unseen` in
  `NoMissedInput`, `tasks/keybqueue.cpp:86`).
* A read that takes the last byte of the line buffer leaves its indices where
  they are (`spent` in `InputAsTyped`, `tty/file.cpp:288`).
* Moves of the cursor may end one past the last row and column (`moved` in
  `CursorOnScreen`, `drivers/framebuffer/fb.cpp:159`).
* A sector write that failed may be on the disk and not in the cache (`torn` in
  `CacheCoherent`, `fs/vol/volume.cpp:76`).

Not in one model: a leftover sleep entry of a process that has exited. The
awaker puts the process into the exited table a second time (PANIC), or, after
the deleter has freed it, reads its page, or wakes the next process in that slot
if the tokens agree.

## Not modelled

* In files: reading, writing and positions, deletion of files and directories,
  and listing the mount points. Positions are local to a handle; what is read
  comes from the filesystems below.
* In memory: scratch pages, kernel regions, contiguous allocation, and where in
  the address space a region goes.
* Opening and closing mutexes, semaphores and events: they use the same store as
  message queues, whose model has it.
* Interrupts in the middle of a change to the ready queue or to the heap's list.
  A finer grain would show that nothing protects them, and the code says no more.
* A leftover sleep entry of a process that exits, as above: `Scheduling` with
  exits is a state space beyond what TLC finishes in minutes.
* What the code promises nothing about: an open root directory that iterates the
  list of mounts while mounts change, a child that inherits a terminal handle and
  outlives the parent it points into, a key typed while the foreground changes,
  `kill` of a process that waits for keys, `collectany` without children, a mutex
  held by a process that exits.
* memfs, initrd and FAT (glue without state across calls), the ELF loader and
  scripts (sequential parsing of formats), drivers (they talk to devices that the
  repository does not contain), boot code and interrupt entry (sequential, or
  machine code), user space and third-party code (the models allow every order of
  system calls).

The repository is mostly the last of these: newlib, libc++, MicroPython, FatFs
and ACPICA are hundreds of thousands of lines, so the modelled lines are a small
share of all of it, and more than a third (3.7 of 10 thousand lines, comments and
includes counted) of the kernel's files that a modelled part has code in.
