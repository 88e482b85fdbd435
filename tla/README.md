# A TLA+ verification of the EZOS kernel

EZOS (its shell calls itself Cerulia) is an i686 kernel for one processor: a
preemptive scheduler, user processes in ring 3, a page allocator, pipes, a small
TCP/IP stack, drivers for NVMe, AHCI, ATA and USB, and eight file systems.  This
directory models the parts of it whose correctness depends on the order of events
(interrupts, failures, lost messages, loss of power, late answers of devices, clicks),
checks them with TLC on small instances, and proves the most important results with
TLAPS for every value of the constants.

`PROJECT.json` holds the machine-readable side: components, runs, mutants, the map
from definitions to source lines, findings, hazards and theorems.

## 1. Inventory

### How the code runs

There is one CPU.  Interrupt gates and the `int 0x80` gate clear IF, so interrupt
handlers and system calls run with interrupts off unless they turn them on.  The shell
(task 0) and kernel threads run with IF = 1.  IRQ0 ticks the clock, lets
`task_timer_tick` end timed sleeps, runs the timers of the network stack and calls
`schedule()`; IRQ1 and IRQ11 wake the tasks that sleep on the keyboard and on the
network.  A section of code is atomic exactly when IF = 0 throughout it.  The recurring
question is therefore which sections really run with IF = 0: several calls (`fd_close`
of a pipe end, `task_unlock`, the tail of `task_sleep`) turn interrupts on in the middle.

### Components

| component | state | operations | what makes it correct |
|---|---|---|---|
| scheduler, `task.c`, `task_switch.asm` | `g_tasks`, `g_current`, stacks | create, fork, exit, wait, yield, tick, switch | every task resumes on its own frame; one task is RUNNING; READY tasks run; only exited processes are freed |
| wait queues, `task.c` | chain per queue, `wake_tick` | sleep, wake all, time out | a sleeper can always be woken; no wakeup or exit is lost; deadlines survive the wrap of the clock |
| page allocator, `pmm.c` | bitmap, `g_used` | allocate a run, free a run, apply the firmware map | no page has two owners; the counter agrees with the bitmap |
| process memory, `exec.c`, `elf.c`, `task.c` | accounts in `task_t` and in locals, page tables | exec, load, unwind, fork, exit, collect | no page leaks on any failure path; a process maps its own pages only |
| pipes, `fd.c` | `g_pipes`, descriptor tables | pipe, read, write, close, copy at fork | counts agree with the tables; bytes come out once and in order; end of file is exact; nobody sleeps in vain |
| files of a process, `fd.c` | descriptor tables, a buffer for each file, files on the disk | open, read, write, seek, grow, close and save, copy at fork, close at exit | every buffer has one owner; nothing of what memory held before shows; a file does not vanish |
| kernel heap, `kmalloc.c` | pool of blocks, list of the free ones, `km_used_bytes` | allocate, free, audit | blocks do not overlap and hold what was asked for; free neighbours are merged |
| network: TCP, `net.c` | socket table, buffers, timers | segment handler, timer, socket calls | streams exact in both directions; end of stream is the end; everything sent is acknowledged or given up; no connection outlives its listener |
| network: ARP, ICMP, DHCP, DNS, `net.c` | ARP table, lease, renewal, DNS cache, reply buffers | ping, dhcp, resolve, renewal in the timer, receive interrupt | an answer belongs to the question that waits; a lease ends in time and is one server's; every command returns |
| file systems, `fs.c`, `fat.c`, `exfat.c`, `ext4.c`, `ntfs.c`, `f2fs.c`, `refs.c` | on-disk structures, cached tables, hints, current directory | create, replace, delete, mkdir, rmdir, cd, mount | what a call promised stays; allocation and directories agree; loss of power leaves what each format claims |
| storage, `nvme.c`, `ahci.c`, `ata.c`, `usbmsc.c` | rings, phase, toggles, command slot | read and write a sector, start-up | success means done, except over a command AHCI or ATA gave up; every call returns |
| USB, `usbhc.c`, `uhci.c`, `ehci.c`, `usbenum.c` | ports, device table, addresses, toggles | enumerate, claim, transfer | an entry stands for the device that answers at its address |
| input, `keyboard.c`, `usbkbd.c`, `usbmouse.c` | key ring, previous report, buttons | interrupt, poll, get | keys arrive once and in order; buttons agree |
| window manager, `gfxwin.c` | window table, focus, menu, button memories, redraw request | open, close, minimise, drag, menu, task bar, dock, theme | focus and flags agree; one window per application; the screen shows what is there |
| kernel log, card driver, boot, drawing | ring of lines, registers, pixels | - | see "Not modelled" |

The complete list with the state of the work is under "components" in
`PROJECT.json`.

Components meet in few places: system calls enter `fd.c`, `task.c` and `net.c`;
`exec.c` and `task_fork` build processes from `pmm.c` and register them in `task.c`;
descriptors, pipes and sockets have their buffers from the kernel heap; blocking calls of pipes, keyboard and network are all loops around `task_sleep`, and
their wakeups are all `task_wake_all`, from interrupt handlers or from other tasks;
`process_exit` gives back memory, closes descriptors and wakes waiters.

File systems sit on the sector calls of `ata.c`, which hand over to NVMe, AHCI, USB or
PIO; the network timers and the receive interrupt share buffers with the socket calls of
processes and the commands of the shell; the desktop polls the same keyboard and mouse.

The hard behaviours are: an interrupt between any two statements that run with IF = 1;
a condition that is checked before, and acted on after, such a point; allocation or a
write failing at any step of a sequence; power lost between two sector writes; reference
counts through fork and exit; clock, sequence and ring counters that wrap; loss,
duplication, cutting and reordering in the network; an answer of a device or of a server
that arrives when somebody else is waiting; and the many small button and focus states of
the desktop.

## 2. Modules

| module | models |
|---|---|
| `Scheduler` | task table, wait queues, `schedule()` and `switch_to`, IRQ0, a device interrupt, process creation, exit and collection |
| `SchedulerInv` | the discipline under which the scheduler is right, and the inductive invariant |
| `SchedulerProofs` | type correctness; the invariant and its consequences |
| `Pmm` | the page allocator |
| `ProcMem`, `ProcMemProofs` | page tables, exec, ELF loading, fork and exit as sequences of allocator calls, each of which may fail; the proofs about them and about the allocator |
| `PageOwnership` | the abstract specification: pages granted to one owner and released by it |
| `Pipe`, `PipeProofs` | pipe pool, descriptor tables, blocking reads and writes; the proofs about them |
| `PipeStream` | the abstract specification: a bounded stream with holders at both ends |
| `Heap` | the kernel heap, as operators from a pool to a pool, and what it promises |
| `Files`, `FilesProofs` | descriptors that are files, with their buffers from the heap and their files on the disk; the proofs about both modules |
| `Tcp`, `TcpProofs` | socket table, `tcp_input`, `net_tick`, socket calls, far ends and the network; the proofs about them |
| `NetConf`, `NetConfProofs` | ARP, sending, ping, DHCP with renewal, DNS with cache; the proofs about them |
| `DiskCall` | what a file system call is: writes, one of which fails or is the last before power is lost |
| `Fat`, `ExFat`, `Ext4`, `Ntfs`, `F2fs`, `Refs` | one driver each, as operators from a state of the disk and a fault to the next state |
| `Fs` | the layer above: paths, the system volume, the calls, mounting again, histories |
| `BlockCall` | what the block drivers share: the call in progress, its limit, the medium |
| `Nvme`, `Ahci`, `Ata`, `UsbBus`, `UsbMsc`, `Hid` | one driver each with its device |
| `Devices`, `DevicesProofs` | their composition: one driver, its start-up and its calls; the proofs about them |
| `Desktop`, `DesktopProofs` | the window manager and its main loop; the proofs about them |
| `MCScheduler`, `MCProcMem`, `MCPipe`, `MCTcp`, `MCNetConf`, `MCFs`, `MCDevices`, `MCDesktop` | constant values for TLC |

### Scheduler

A task's stack is at a label `pc[t]` and has an interrupt flag `intr[t]`.  `cpu` is the
stack the processor executes on, `g_current` what the scheduler believes, and `esp[t]`
says whose frame the saved stack pointer of task t points to; a switch to a frame that
is not the task's own is visible as `esp[t] # t`.  Code with IF = 0 is one action
(`Schedule` inside `Irq0` and `Sleep`); code with IF = 1 is one action per statement
that touches shared state (`SchedPick` ... `SchedSwitch`, the tail of `task_sleep` as
`HltRemove`, `HltTick`, `HltState`, `task_create` as `CreateFind`, `CreateEntry`,
`CreateStack`, the wait loop as `CheckPid`, `Sleep`, `ReapPid`).  Which operations the
shell and the processes use is a constant, so that a run can ask about one combination.

Abstractions: a queue is a set of tasks (its order decides nothing but the order in
which tasks become READY); there are two queues, the one of `task_wait_pid` and one
that stands for keyboard, network and sleep; the reads of `schedule()` up to its choice
are one step; the five assignments that free a slot in `task_wait_pid_opt` are one step;
failures of fork and exec leave this state unchanged and appear in `ProcMem`;
`task_sleep` with a task lock held returns at once and is a stutter; a shell that polls
may collect any exited process, which includes its background jobs.

### Process memory

`Pmm` has the bitmap, the counter, first fit and the reservation of firmware pages.
`ProcMem` gives every process, and the code that builds one, an account of pages; every
call to the allocator is an action with a failing alternative, and `lock` says whose code
runs with interrupts off.  exec interleaves with exits and forks outside the section in
which it borrows entry 1 of the kernel page directory.  A page table is a function from the
pages of the user area; `paging_map`, `paging_unmap` and `paging_query` are operators on it,
over ranges.  `paging_map` cannot fail on aligned pages once the table is in place, so it has
no failing alternative.  An image is any set of program headers, also one that begins below
the user area, reaches beyond it or has no headers; `elf_validate` decides which of them exec
goes on with, and `Loaded` leaves out the empty headers, as `elf_load` does.  The order in
which segments are loaded and in which an account is given back is left open: the code's
order is one of those the model allows.

### Pipes

A descriptor is free, a file or one end of a pipe.  Reading and writing is a loop: each
round (`Read`, `Write`) evaluates the condition and finishes or falls asleep, with
interrupts off; a wakeup leads to another round, and anything can run in between.
Closing at exit is one step per descriptor.  The object is changed and the entry of the
table is cleared in one step although `fd_close` turns interrupts on between the two: the
entry belongs to a process that is inside the kernel and nobody else reads it.  A pool
that is exhausted or a heap that has no buffer makes `fd_pipe` return without effect.
The close of a pipe end inside `process_exit` turns interrupts on (fd.c:218) when the process
is ZOMBIE already.  From then on it is `exposed`: others run between its closes, and `Reap`,
which as `task_wait_pid_opt` looks at no descriptor, may take the slot with ends still open.
`gone` counts the ends that are lost that way; they keep the pipe out of the pool, and a peer
that waits for them waits for ever.  The code never runs an exposed process again once it is
switched out; the model lets it go on, which adds behaviours.

### Kernel heap and files

`Heap` counts in units of 16 bytes, the allocator's alignment; requests stay in bytes and the
rounding is done modulo `Word` (2^32), so that the check of the bound in front of it matters.
The list of free blocks is in address order, which makes a set of blocks enough.  The contents
of the canaries are left out.

`Files` has one action per system call, as interrupts are off; `fd_close` of a file that was
written is two steps, the deletion of the old entry (`DeleteOld`) and the creation of the new
one (`fd_close_save`, or `SaveFails`), because the power may go in between, each of them may fail, and a process that exits and
has closed the end of a pipe may be collected there.  A process with a pipe end and files is
in phase `exposed` from the close of the pipe end on (`ClosePipe`; the end itself is `Pipe`'s),
and `Collect` may take its slot with files open.  `fd_table_init` of the slot's next process
then overwrites the only pointers to their buffers, which `forgotten` records.  `fd_table_dup` is one step per
descriptor, each with a request that the heap may refuse.  What is in a file is a sequence of
letters that say where a byte came from: written by a program (`new`), cleared by `fd_grow`
(`zero`), or what the memory held before (`old`).  `Found` is what a reader finds: an entry
that a fork left without a buffer still has its size, and its reads go to low memory.
`others` are the blocks of all other callers of the heap, which allocate and free at any time,
also in interrupts, so that first fit and fragmentation take every course.  `starved` is a
history variable, a fork found no memory; `cut` marks the step in which a save ends without
its file, by `SaveFails`, `PowerLoss` or `Collect`.  The layers meet the rest of the kernel as
little as possible: where a tick may hit an exit is `Scheduler`'s subject, and the disk is a
function from names to contents, as the writes of a create are `Fs`'s.

### TCP

A call of a program runs with interrupts off and is one action, except where it sleeps;
`connect_syn`/`connect_ends`, `accept`/`accept_ends` and `recv`/`recv_ends` are the halves
around a sleep.  `Arrive` is `tcp_input` on any segment the far end may have sent, whole or
cut, again and again; what we send stays on the wire until the far end has no use for it.
A byte is named by its place in its stream, so that a lost, repeated or swapped byte is
visible.  Sequence numbers are modulo `SeqMod` and start just below the wrap.  A program
uses the sockets it made itself.  Owners that end leave sockets behind, which the next
`socket` call reclaims, as in the code.

### ARP, ping, DHCP and DNS

The shell's commands follow a script; a command is split where it sleeps and between the
reads of a DHCP answer that the receive interrupt may overwrite.  Anything that was ever
sent may be answered at any later time, any number of times, by every server.  The
clock is modular and starts just below its wrap.  What a frame carries is a kind, a number
and a name; what `net_dhcp` takes from the buffer at which moment is kept exactly.  A name is
a short sequence of letters and stands for its own address, because the cache cuts a name
and compares it up to the cut.  `dhcp_renew_check` runs inside the tick with the time it
reads.

### File systems

A call is an operator: it threads a record of disk, driver variables and locals through
the writes the code makes, in the code's order, under a fault (`none`, a write that
fails, power lost before a write).  `Fs` takes every sequence of calls up to `MaxCalls` on
each format, with at most one fault, in the last call.  After a fault the volume is mounted again
and looked at.  A block, cluster or record is a value with the entries or data it holds;
sizes are small enough that directories grow, convert and run full, tables fill, and a
file needs more than the direct part of its node.  Deleting, replacing and rolling back
are the code's sequences of writes, results that the code ignores included.  A long
function is a chain of operators, one for each stage, that take what the code has found so
far as arguments (`FatDelete` looks up, `FatDeleteHit` removes what was found).

What the volume promises differs by format and the properties say so: ext4 and f2fs
never look at the result of a write, so a failed write is excused there; NTFS refuses a
half written record.  `Tolerated` lists what the code leaves behind without any fault.
A ReFS volume that is mounted again after a change goes astray (finding 2: the next write
overwrites the live objects tree); the histories of `fs` include such mounts, `astray` marks
them, and `Promised`, `NoFaultClean` and `CommitIsAtomic` promise nothing about a volume after one.

### Storage, USB and input

One driver is chosen in the initial state; it starts up, then serves calls of one sector.
Every poll of a driver is an action of its own, so the device acts between any two of
them.  A device reports an error or stays silent through the limit; one in `Late`
completes afterwards: NVMe, AHCI and ATA are all in it.  For USB the ports are enumerated first: addresses, configuration
and claims, on buses with one or two controllers; then the bulk-only transport moves
packets with their toggles, fails, resets and retries.  Input has the ring with both of
its writers, reports that are sent again because an acknowledgement was lost, and
`uhci_interrupt_in` with its unlink.  As on the controller the code was tried on, a packet
goes to the first enabled port with the address.  A sector is two packets on UHCI and one
on EHCI.  Drives have LBA48.  One task reads keys.

### Desktop

A position of the pointer is a place: what the hit tests tell apart.  One iteration of
the main loop is two steps, input and mouse, and every layer keeps the button memory it
has in the code.  A window has its flags, its application and the two memories `moving` and
`mm`; its title and its contents are left out.  `mode` and `depth` say whether the shell or a
desktop runs, `depth` how many desktops lie below one that was started from the terminal inside
it, and `gui` is the code's `gw_gui_active`, which the inner desktop clears when it ends while
the outer one goes on; the shell can set the theme, start a game and start the desktop again.  Drawing without
a redraw request (the pointer, hovered icons, the second in the system monitor) is
`Redrawn`.  Any press of an icon may be the second of two within 400 ms, as the first
changes nothing else; for a title bar, where it does, the window of the first is kept.
`fresh` says whether the last full redraw shows the present windows, focus, menu and
theme and no drag has painted over them: one step of a drag paints the whole background and
only the windows that meet its region.

## 3. Runs

| run | bounds | what it shows |
|---|---|---|
| `sched_syscalls` | 3 slots, 2 processes ever, slice 2, clock modulo 8, timeouts of 2 ticks | contexts, wakeups, exits; READY tasks run, exits are collected, deadlines fire |
| `sched_shell` | 3 slots, 3 tasks ever, slice 1, no timeouts, a file, a pipe end and a file each; no tick in the middle of a switch | everything the shell and kernel threads do with IF = 1 beside processes that fork, exit and collect: descriptors of a process that was cut off, whose slots are freed |
| `procmem` | 10 pages, 2 processes, 2 programs | accounting, isolation, refinement of `PageOwnership` |
| `pipe` | 1 pipe of 2 bytes, 2 processes with 2 descriptors, 2 byte values; or a pool of 5 units, 2 processes with 1 file each, files of 2 letters of 12 bytes, requests of 28 and 1008 bytes modulo 1024; collected slots forget at most one end of each kind of a pipe | counts and pool, sleepers, refinement of `PipeStream`; heap, buffers, files |
| `tcp` | 2 sockets, 2 processes, a client with 3 bytes and a server, numbers modulo 16, ring of 3 | both streams exact, end of stream, listeners, retransmission |
| `netconf` | 1 ARP slot, 1 cache slot, 2 DHCP servers, 2 names, one the beginning of the other, 9 ticks around the wrap of a clock modulo 32 | lease, one answer, names, ping, every command returns whose sleep is not lost |
| `fs` | 7 formats, 2 files, 1 directory, 5 calls (FAT, exFAT) or 4, one fault | promises, no debris, removal order, atomic commit (of ReFS, until a mount after a change), honest fsck |
| `devices` | 3 calls, 2 faults, 3 sectors, rings of 2, 3 buses; 2 keys on each keyboard | success means done, toggles, device table, input, every call returns |
| `desktop` | 2 windows, terminal, settings and system monitor, 1 game icon, desktops nested once | focus, one window per application, screen |
| `sched_lost_sleeper` | shell sleeps | violation: tail of `task_sleep` |
| `refs_remount` | ReFS mounted again | violation: the next block handed out is in use |
| `storage_no_clock` | calls from system calls | violation: a limit that never passes |

Why the bounds are enough to show something: three slots are the shell, a parent and a
child, or two processes competing for a slot; two tasks ever are enough to reuse one; a
clock of 8 ticks wraps many times within a run, and a deadline of 2 ticks set at tick 7 lies beyond
the wrap; a third task lets a process fork into a slot that another process has just collected; 10 pages let one process exist and make
every allocation of a second one fail at some point; a ring of two bytes has wrapped
positions, partial reads and partial writes.  The run checks pipes and files side by side (a
behaviour is one or the other, `half`), and tells states apart by `MCView`, which leaves out
what no step reads: bytes of a ring that were read, the table of an unused slot but for its
buffers, and of the table of a process that exits what `fd_close` does not look at.  A pool of 80 bytes holds two small blocks and a rest
below or above the size at which a block is split, so that blocks are split, taken whole and
merged on both sides, and a fork or a growth finds no memory; the request of 1008 bytes
wraps to a small size when the bound is not checked.  Two letters let a file grow past a hole,
and a file of three is refused by `fd_open`.  With two descriptors a file is enough to
make `fd_pipe` fail after it took an object.  Three bytes of a peer exceed the receive
ring (which holds two) and allow a hole with something behind it; two sockets are a
listener and a connection, or two that compete for a slot.  One cache slot makes every
second name an eviction.  Five clusters, four slots in a directory block and four or five
calls fill a volume, grow a directory and replace a file in it.  Three calls let an answer
come one or two calls late; rings of two wrap at once.  Two windows with three applications
cover every pair and the refused third.

Every property of a passing run is violated by a plausible fault of the code, named
"faulty variant" in the modules or put beside the definition it varies, and listed under
"mutants".

`sched_shell` runs `CalmSpec`, in which no tick comes between `g_current = next` and `switch_to`:
finding 4 says what such a tick does, and after it there are no contexts left to speak of.  Its
view `NoClock` leaves the clock out, which nothing reads when no sleep is timed.

Deadlock is checked in `sched_syscalls`, `procmem` and `desktop`.  In `sched_shell` a tick
between the statements of `task_create` dispatches a task that has no frame yet and the
machine stops; in `pipe` processes may wait for an end that only they hold; the other runs
end when their calls, ticks or sockets are used up.

### Fairness

Scheduler (`FairSpec`): weak fairness of the CPU's own steps (a processor that can execute
does) and strong fairness of IRQ0: the timer interrupt arrives again and again and is
delivered at some point at which IF = 1, even though every task turns interrupts off
from time to time.  `Tcp`: weak fairness of `net_tick` on every socket, which IRQ0 calls.
`NetConf`: weak fairness of a command that waits, which is woken by a frame or its
deadline; but a command that sleeps may be lost at any moment (`SleeperLost`), as finding 1
has it, and then no fairness brings it back: `Returns` is about the others.  `Devices`: weak fairness of the driver's own polling while a call is in
progress.  No fairness is assumed of devices, peers, servers, programs or users, nor of the order in
which tasks become READY.

## 4. What is proved

All theorems hold for every value of the constants that satisfies the named
assumptions (`SchedulerAssumption`, `PmmAssumption`, `ProcMemAssumption`,
`PipeAssumption`, `RefAssumption`, `HeapAssumption`, `FilesAssumption`, `TcpAssumption`,
`NetConfAssumption`, `DesktopAssumption`, `BlockAssumption`, `NvmeAssumption`,
`UsbAssumption`, `HidAssumption`), which TLC evaluates in every run of the component.

**Types.**  `SchedulerProofs!TypeCorrect`: `TypeOK` is inductive for every combination
of operations.

**Scheduler safety.**  `SchedulerProofs!InvariantHolds` and its consequences
(`ContextsAreOwn`, `SingleRunning`, `NoLostWakeup`, `SleepersReachable`,
`DescriptorsClosed`, `OnlyZombies`) assume `Disciplined`: code with IF = 1 only starts
processes and collects finished jobs, and everything else happens inside system calls.  The
invariant holds of `CalmSpec` with pipe ends: a process whose exit has closed one may be
switched out for ever at any statement up to `g_current = next` and collected there, and
`DescriptorsClosed` says what it leaves open.  With files only (`FilesOnly`) the exit keeps
IF = 0, every step of `Spec` is calm (`FilesAreCalm`), and `FilesInvariantHolds` and the four
theorems that rest on it hold of `Spec`.  The shell does more than the discipline allows;
findings 1 and 4 leave it in one respect each and the property fails there, so the assumptions
say precisely where the kernel relies on good luck.  The properties are not inductive
by themselves: `OwnContext` at the end of a switch depends on where the interrupted stack
is (`ExecInv`), on what every other stack looks like (`FrameInv`), and on there always
being somebody to switch to (`ShellInv`); `NoMissedExit` depends on a sleeper's being on
the queue it waits on with interrupts off since its check.  `IInv` is the conjunction.
`SleepersReachable` is the counterpart of finding 1: without `task_sleep` from the shell or a
kernel thread every BLOCKED task is in a queue or has a deadline ahead.

**Process memory.**  `ProcMemProofs` assumes `PageAligned` (no two segments of a program
share a page, as `user/user.ld` arranges with `ALIGN(0x1000)`; finding 5 shows the need
for it) and nothing else about the files: that a program fits the user area follows from
`elf_validate` (`ValidImageFits`), whatever its headers say.  It proves, through the inductive invariant `IInv`: `NoPageLeaks`,
`PagesExclusive`, `CounterAgrees`, `AddressSpacesIsolated`, and `Refinement`: every step
of exec, fork and exit is a step of `PageOwnership` or a stutter.  The invariant says that
the set bits are the firmware pages and the pages on the accounts (`PagesAccounted`), that
the accounts are disjoint, that tables refer to own pages, and how the progress of each
builder determines which fields of its account are set (`ControlInv`); the last part is
what makes the failure paths go through.  What the allocator does comes first:
`AllocTakesFreePages` and `FreeReturnsPages`.

**Pipes.**  `PipeProofs` proves for any number of processes, descriptors and pipe objects
and every ring size: the two counts of a pipe are the numbers of descriptors that hold its
ends plus `gone`, through `fd_pipe`, fork, close, exit, collection in the middle of an exit and
the failure of `fd_pipe` halfway (`CountsAreRight`); a sleeping reader faces an empty ring and
a sleeping writer a full one, with an end on the other side that was never closed
(`SleepersHaveReason`; it may be one that a collected slot forgot); and the rings implement the
bounded streams of `PipeStream`, step for step, with a holder `Nobody` for forgotten ends
(`PipesAreStreams`).  `RefAssumption` says that all descriptors of all processes together and
the forgotten ends, which `MaxForgotten` bounds, fit the 16 bits of a count: 16 tasks with 16
descriptors each are far below, and the rest is left to `MaxForgotten`.  The inductive invariant `Inv` is `Types`, `CallOK` (a call in
progress is on an open end of its direction, which a process that is inside the kernel
cannot lose), `RingOK` (the write position is `count` behind the read position, modulo the
size), `RefsMatch` and `NobodySleepsInVain`.  `RefsMatch` needs cardinalities: one entry of a
table changes, so the set of holders gains or loses one element.  For the refinement the
content of a ring is read from `tail` for `count` bytes; `Push` and `Pull` lemmas relate the
copying loops to appending and cutting that sequence.

**Kernel heap and files.**  `FilesProofs` proves for every size of the pool, number of
processes and descriptors, set of names and size of files, and whatever sizes the rest of the
kernel asks for: `HeapSound` (with `FreeMerged`, a conjunct of it), `BuffersOwned`, `NothingStale` and `FilesKept`.
`HeapAssumption` says that the pool with a header and the rounding fits a word (384 KB in
2^32), `FilesAssumption` that the largest file does; without them the 32-bit sums
would wrap.  The theorems are about `FilesSpec`; the run takes the same Init and Next.

The invariant `FilesInv` has five parts, types included.  `HeapOK` is the layout: blocks tile the pool, no
two free ones touch, every allocated block has room for header, request and canary, and
`used` is the number of units in them.  That it is kept is proved once for each operation
of the heap (`KmallocServed`, `KfreeKeeps`), by cases on what a split leaves and on which
neighbours are merged; the tiling without gaps is what makes a freed neighbour unique and the
merge complete.  `Owned` ties allocated blocks to entries, `others` and `forgotten`, one to one; it is
carried through allocation, adoption by an entry, dropping and regrowth by lemmas of their
own (`OwnedMalloc`, `OwnedAdopt`, `OwnedDrop`, `OwnedRegrow`, and `OwnedForget` for the table of a slot
that is used again).  `EntryOK` says that a buffer
has exactly the letters of its size and no `old` letter unless a fork was starved.  `JobsOK`
says which entries a call in progress is about, and that the child of a fork has no entry
behind the one the loop is at; without it the copy would overwrite a buffer.  `FilesKept`, an
action property, follows from the invariant step by step: the only steps that shorten
a file are `DeleteOld`, which starts a save of that file, and `SaveFails`; `Collect` and
`PowerLoss` end saves.
`LargestIsServed` says of every sound heap that it serves a request exactly if the largest
free block is long enough: `kmalloc_largest_free` does not promise too much.

**TCP.**  `TcpProofs` proves for any number of sockets, processes and far ends and every size
of the buffers: `StreamInCorrect`, `FinCorrect`, `StreamOutCorrect`, `ParentCorrect` and
`TypeCorrect`.  `TcpAssumption` asks that a stream, with its SYN and FIN, is shorter than
the number space (a byte is named by its place, so that a stream that wraps past its own start
is outside the model) and that the retransmission buffer is smaller than half the space, as
1536 is in 2^32.  The proofs need both: acknowledgements and segments are placed by
differences modulo `SeqMod` (`Plus`, `Minus` and the lemmas about them), and a difference
says where a byte belongs only when the two numbers are closer than that.

The invariant is `Inv == InvIn /\ (~stolen => InvOut)`.  `InvIn` holds whatever the callers do
to each other's slots: the ring of a socket is a piece of the far end's stream, `rcv_nxt` stands
right behind it and the FIN, and what waits out of order lies at its place (`Recv`).  `InvOut`
holds until a `connect` that timed out frees a slot that belongs to somebody else
(net.c:1907; `stolen` records it).  It says of the send side that the retransmission buffer is
the tail of what was sent and `snd_una` stands in front of it (`SendOK`); that nobody has heard
of the port of a socket whose SYN is not out yet, and that no two sockets share an
identity (`PortOK`, `PortsLow`, `Ids`), without which an old acknowledgement could move a new
connection; that what is on the wire carries the bytes its number stands for (`Carries`); that
the listener of a connection nobody has accepted is there and has the same owner (`Family`: the
owner is what makes it true when `sock_reclaim` frees the sockets of a dead process, children
and listener together); and that a `connect` that waits for a MAC finds its socket as it left it
(`Connects`).  A step that changes one socket is handled once (`OneSocket`), the steps that
create or free sockets by what they do to the table (`TableStep`, `CallStep`).  That
`StreamOut` needs its condition came out of the proof: finding 11.

**Network configuration.**  `NetConfProofs` proves the four properties of the run `netconf`
for every number of servers, hosts, names, cache slots and ticks and every start of the
clock: `LeasesExpire`, `LeasesAreWhole`, `AnswersMatchQueries`, `PingsAreAnswered`.
`NetConfAssumption` bounds a lease by half the number space and has it a multiple of eight
ticks: a lease is a number of seconds, at most `DHCP_LEASE_MAX_SEC` = 100000, of 1000 ticks
each (net.c:579, 824), in 2^32.  The invariant `NetInv` has two halves.  `DhcpInv`: T1, T2 and
the end lie ahead of now in this order, as far as they have not been passed, and none is
further away than half the space (`ClockOK`), which makes the signed comparison of
`dhcp_renew_check` right across the wrap; and what the shell will apply came from a server
whose address it has read, with the buffer closed since (`TransactionOK`).  `NameInv`: every
message in flight with the number of the present query or echo request carries the present
name (`MsgsOK`), an answer in the buffer is for that name, and an entry of the cache holds
the address of a name that its own, cut, name begins (`CacheOK`).  The answer from the cache
is therefore only that of a name this one begins with; the stronger statement is
finding 9.

**Desktop.**  `DesktopProofs` proves the three properties of the run `desktop` for every
size of the window table and every set of applications and icons: `FocusIsOne`,
`AppsOpenOnce`, `ScreenShowsState`.  The invariant `DeskInv` says of the whole state
that the window table is well formed, that no application of the launcher has two windows,
that focus pointer and flags agree (`Good`), and that outside a press or a drag the screen is
current or a full redraw is due, between the halves of an iteration too (`Current`).  The
argument for the last: an operation on windows never clears the redraw request, and a mouse
step without the button either asks for a redraw or leaves what `Seen` shows unchanged
(`Moved`, `Quiet`).

**Storage, USB and input.**  `DevicesProofs` proves for every drive, capacity, ring depth, bus with
any number of ports, number of calls and number of faults: a sector call that returned 0 did
what it was asked (`SuccessIsDone`), host and disk agree on the toggles after a command that
succeeded and after a recovery that took effect (`TogglesInStep`), every entry of the
device table stands for a device that answers at its address (`TableAnswered`), and, for every
ring, set of keys and number of presses, what is pressed is read in order, once, and
completely as long as nothing was dropped or sent again (`InputIsKept`).  A step belongs
to the driver that is running, so the invariant `Inv` has a part for each:

- NVMe, `RingOK`: the doorbells, the phase and the positions of device and driver fit
  together, and the ids of commands that wait are apart by their age.  A completion that
  comes late is therefore never taken for the present command's.  `NvmeAssumption` has the
  ids wrap no sooner than twice the depth of the ring, as 16 bits and at most 32 entries do
  (nvme.c:69, 164); with fewer an id would return while its completion waits.
- AHCI: a command that was given up may still hold slot 0 and run later.  A call that finds
  the slot free has the only command that can end while it waits.  A call that does not is
  issued over the other one (the result of the wait at ahci.c:244 is ignored), takes its end for
  its own (250) and may return 0 without its work; so may a call whose sector number is cut to
  28 bits (219).  `call.astray` marks both, and `SuccessIsDone` says that nothing else does.
- ATA: a drive that got a command and was given up may still ask for its data when the next
  call, which looks at BSY only, writes its own (`Commanded`); then the data of the old command is
  read, or what is written goes into it, and the call returns 0.  `call.astray` marks such a
  call; in the waits of every other the command in the device is the call's own, data is
  requested only for a sector that exists, and the FIFO holds the sector or what the call wrote.
- USB, enumeration (`UsbTable`): ports are reset one after the other (`PortsOK`, `Scanned`),
  a port behind the present one has address 0 or has not been enabled, the device in progress is
  the one that answers at address 0 or at the new address (`Enumerating`), and what is in the
  table stays configured (`Entered`).  The packet that goes to the first enabled port is why the
  order matters.
- USB, sector calls: where the disk stands in command, data and status follows from where
  the driver stands (`UsbTransfer`, `UsbProgress`), as long as the toggles agree; when they
  do not, a packet is acknowledged and dropped, and the call cannot report success.
  `Recovered` follows the three requests of `bot_reset_recovery`.
- Keyboards and mouse (`HidInv`).  `HidOrder`: for each keyboard what was read, the ring and
  the loop that injects are one increasing list of presses.  For the PS/2 keyboard this is
  enough; a USB keyboard shows what is held down, and `usbkbd_poll` takes for pressed what
  the report before did not show.  So `HidReports` says of every report that is on its way:
  a key it shows and an earlier one (or the last one taken) did not was pressed later than all that was
  handed on or shown up to that earlier one.  This survives a report that is sent again and
  one that is lost, after which a press may be missed but none comes twice or out of order.
  `HidComplete` follows the newest press, the last report and the toggles as long as the ring
  was never full, nothing was lost and nothing was sent again.

**Model-checked only.**  Liveness (`ReadyRuns`, `ExitCollected`, `DeadlineWakes`,
`Settles`, `Returns`, `CallReturns`): TLAPS does not treat fairness.  The properties of
the file systems: what a file system driver computes is a fold
over directory entries and chains; induction over such data is out of the prover's reach,
so these modules stay with TLC.

## 5. Findings

Checked by a run, with the quotation it contradicts in `PROJECT.json`:

1. `task_sleep` (task.c:714), `sched_lost_sleeper`: a task that halted because nobody else
   could run takes itself off its queue while still BLOCKED, with interrupts on; a tick at
   that moment switches it out for ever.
2. `rs_scan_live` (refs.c:729), `refs_remount`: after a mount the allocator of ReFS hands
   out the root of the live objects tree.
3. Limits of the storage drivers (nvme.c:206, ahci.c:117, uhci.c:540), `storage_no_clock`:
   in a system call interrupts are off and the tick counter stands still, so a silent
   device is waited for without end.

Refuted by TLC with the constants given here, without a run of their own:

4. The same kernel with `KernelOps = {"exec", "wait"}` violates `NoMissedExit`
   (`task_wait_pid_opt`, task.c:377, from the shell: a child that exits between the check
   and the sleep is never noticed; task.h:10 says the window is excluded), with
   `{"exec", "yield"}` it violates `OwnContext` (`task_yield`, task.c:723: `schedule()`
   interrupted by itself saves a stack pointer in the wrong task; task.h:16).  With the
   constants of `sched_shell` it violates `NoFdLeak` without the exception `PipeClosed`
   (fd.c:218: closing a pipe end turns interrupts on after the process became ZOMBIE, and the
   rest of its table stays open for ever; task.h:98), and `OnlyZombiesFreed` without the
   exception of the shell (task.c:377-379: a tick between the shell's look at a ZOMBIE and its
   release lets a process collect it and another one fork into the slot, which the shell then
   frees).  With these constants, `KernelOps = {"exec"}` and `Spec` in place of `CalmSpec` it
   violates `OwnContext` and `NoFdLeak`: the tick after the close of a pipe end finds
   `schedule()` between `g_current = next` and `switch_to`.
5. `ProcMem` with 6 pages, `VaPages = 5` and `Images <- Overlapping` violates
   `NothingLeftBehind` (elf.c:143: two segments that share a page and an allocation that
   fails later leak a page; elf.h:50).
6. `Tcp` with the constants of `tcp` violates `CallKeepsSocket` (net.c:1907: a call that
   slept continues with a slot that meanwhile belongs to another connection; net.c:19
   says no lock is needed).
7. `NetConf` with the constants of `netconf` violates `FrameIsMine` (net.c:287: a sender
   that sleeps for an address loses the payload in the shared frame buffer to another
   sender, to the answer to an echo request, or to `dhcp_send`, net.c:656, in IRQ0 or in a dhcp command; the
   comment at net.c:276 says that nobody touches the buffer meanwhile).
8. `Tcp` with `MaxOpens = 3` violates `ChildHasListener`, whose words are those of `tcp_close`
   (net.c:1429-1431): the timer gives a SYN up after 9.4 s and frees the slot while
   `connect` sleeps for 10 s; another process makes the slot a listener, and `sock_free` at
   net.c:1907 takes that one away from its connections.
9. `NetConf` with the constants of `netconf` violates `CachedUnderItsName`: `dns_cache_put`
   (net.c:1080) copies the key up to its size without a terminator, so that a longer name
   finds the entry of a name that it begins with; tests/test_dns.py:582 expects one entry per
   name.
10. `Desktop` with `Apps = {"terminal", "paint"}` violates `MoveIsPaint`: `gw_create`
   (gfxwin.c:701) does not reset `mousemove`, which the paint application sets (2643), and
   another window in the same slot is sent its motion (gfxwin.h:76); with the constants of
   `desktop` it violates `LauncherMeansDesktop`: the launcher is installed at gfxwin.c:3950 and
   never removed, so that the text shell's games then run in windows nobody draws (games.c:1295).

11. `Tcp` with one socket, `Procs = {a, b}`, no clients, one server, `PeerLen` 0, `SendMax = 1`,
   `RxBuf = 2`, `RtxBuf = 1`, `OooBuf = 0`, `RtxMax = 0`, `MaxOpens = 3` and the numbers of `tcp`
   violates `SegmentsExact`: a `connect` that timed out frees the slot of another
   process's `connect` that waits in `arp_resolve` (net.c:1895), the slot is taken again, both
   calls send a SYN of the same socket, and its numbers skip one in the stream.

Noted while reading, each part of the model as it is or left out with its component:

- TCP: the FIN and the SYN+ACK are not repeated (net.c:1437, 1503); data that arrives in
  FIN_WAIT is dropped (1623).
- DHCP: a renewal time of 0 stands for "at once" but is not due in half of the range of the
  clock (899); after a NAK or the end of the lease the state that would ask again is never
  reached (851) and the card keeps its address.
- FAT: a name can be placed behind an end mark and stays invisible (`fat_find_free_slots`,
  fat.c:1351); replacing a file deletes it first, so a create that fails loses the old
  content (fs.c:672).
- F2FS: a log that is full may continue in a segment of another log (f2fs.c:1019); a file
  past its direct node reuses its own node id (1510); a create that runs out of space leaks.
- ext4 and f2fs ignore the result of every write; NTFS writes the bitmaps last and does not
  restore the index on a failed rmdir (ntfs.c:1930).
- NVMe: a completion that comes late makes every later command fail, one behind
  (nvme.c:206).  AHCI: a sector number is cut to 28 bits for a drive without LBA48 (ahci.c:219);
  the result of the wait for slot 0 is ignored (244), so that the late end of a command given up
  before makes the next call return 0 without its work.  ATA: `ata_select` waits for BSY only
  and not for DRQ, so that after a command given up and answered late the next call moves the
  data of that one and returns 0.  `SuccessMeansDone` without its second disjunct is violated by
  `devices` in both ways.
  UHCI: `uhci_interrupt_in` loses a report that completes between the last poll and the
  unlink.
- Descriptors: when memory runs out in `fd_table_dup` the child's entry keeps size and dirty
  flag without a buffer (fd.c:449, whose comment speaks of an empty file): reads and writes
  within the size go to low memory, `fd_grow` copies nothing and leaves the part below the old
  size uncleared, and closing writes what is found there over the parent's file.  `NothingStale`
  is excused from then on (`starved`).  Opening with `O_TRUNC` and closing without a write
  leaves the file as it was.  Closing a file that was written deletes it before the new one is
  created (fd.c:240), so that loss of power, a full disk, or the collection of a process that exits with the end of
  a pipe below the file (fd.c:218) loses both; `FilesKept` says that nothing else does, and that
  no other file goes with it.  Such a collection also leaks the buffers of files (`forgotten`) and
  the ends of pipes (`gone`), whose peers then sleep for ever.
- A second reader of the key ring may get a key twice (keyboard.c:219).
- Desktop: the button released over the task bar leaves a window in its dragged state, in which
  clicks are not drawn (gfxwin.c:3962); the window layer's button memory is stale after the task
  bar.  GUI terminal: scrolling moves the caret but not the start of the input
  (gfxwin.c:3267).

## 6. Not modelled, and what is left

Not modelled: the kernel log (sequential, short, called with interrupts off), the network card driver (any frame may be lost or late in `Tcp` and `NetConf`; its
interrupt is `Arrive` and `net_input`), drawing, the contents of windows, games and the
web view, HTTP, table parsing at boot, formatting and mount-time parsing of volumes, the
read-only EROFS, shell commands and line editing.  They have little order of events to
explore or only decode data.

Left to do:

1. The canaries of the heap, which need callers that write past their buffer.
2. The chains behind wait queues, and the order in which a wakeup makes tasks READY.
3. The HTTP client and the card driver on top of `Tcp` and `NetConf`.
