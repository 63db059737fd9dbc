# Verification of xv6-network

TLA+ models of the kernel, its drivers, and the user programs of this repository that have state of their own;
TLC configurations that check them on small instances; and TLAPS proofs, for every number of CPUs, processes, locks,
buffers and blocks, of the safety of the process table and of spin locks, that a pipe is a queue, the console's ring a
line editor, buffer cache and disk driver a store of blocks, and that the network driver sends and reads packets in order
and none twice.

- [The system and its parts](#the-system-and-its-parts)
- [How the models are built](#how-the-models-are-built)
- [Modules](#modules)
- [Runs](#runs)
- [Fairness](#fairness)
- [Proofs](#proofs)
- [Where code and comments disagree, and limits of the
  promises](#where-code-and-comments-disagree-and-limits-of-the-promises)
- [Not modelled](#not-modelled)

To check a run: `tlc -config <run>.cfg <module>` (the table under [Runs](#runs) names both). To check the proofs:
`tlapm ProcProofs.tla`, and likewise `ProcInv`, `ProcCalls`, `BufCacheProofs`, `PipeProofs`, `ConsoleProofs`,
`Ne2000Proofs`, `SpinlockProofs`.
PROJECT.json lists components, runs, hazards, theorems, and for every definition the lines of the source it models.

## The system and its parts

xv6-network is xv6, before it had a log, with a driver for NE1000/NE2000 network cards. From below:

- **Boot.** The boot processor reads the MP tables of the BIOS and starts the other processors one by one
  (main.c, mp.c, lapic.c, bootother.S). From then on each runs `scheduler()`.
- **Spin locks** exclude other CPUs, and by turning interrupts off also the handlers of the own CPU (spinlock.c).
- **Processes** (proc.c, trap.c, sysproc.c, swtch.S). One lock, `ptable.lock`, protects the table, and is held across
  every context switch. `sleep` and `wakeup` are what all waiting in the kernel is made of.
- **Memory** (kalloc.c, vm.c, exec.c). Pages come from one free list; address spaces are built, copied and taken down.
- **Buffer cache and disk** (bio.c, ide.c). A buffer is used by one process at a time; requests form a queue whose
  head the drive works on; an interrupt completes it.
- **File system** (fs.c, file.c, sysfile.c, pipe.c). Inodes with counts of names and of users, directories, paths,
  block lists, a free map; file structures with shared offsets; descriptors; pipes. Every write goes to the disk at
  once, and no log makes a system call atomic: the order of the writes is all there is against crashes.
- **Console and keyboard** (console.c, kbd.c). A ring of characters filled by interrupts and emptied by readers; a
  screen with a cursor behind two ports.
- **Network card** (eth/). A process in read or write, the interrupt handler and the card share registers and memory.
- **User level**: the memory allocator (umalloc.c), the shell (sh.c), mkfs (mkfs.c), library algorithms.

The parts meet at few places, and the models meet there too. `Proc` establishes that `sleep` loses no wakeup; the
modules of pipes, buffers and the console take over that `sleep` gives up its lock and sleeps in one step, and look at
the rest of their own waiting. `Spinlock` establishes that critical sections exclude each other; elsewhere a critical
section is one step. `BufCache` establishes that blocks are lent to one process at a time and that a write which has
returned is on the disk (`BlockStore`); `Fs` and `FileData` take one `bread .. brelse` as one step. `FileTable`
contains the pipe's two ends, as `pipealloc` makes them and `pipeclose` drops them; what happens inside is `Pipe`.

## How the models are built

**Steps.** A step is what no other CPU, process, interrupt or device can interfere with: a critical section, or an
access to shared state outside one. What the code writes without the lock that protects it is a step of its own; so
are the writes of the disk in `Fs` and `FileData`, which makes every state one that a crash may leave behind.

**Control.** The actions follow the branches, early returns and error paths of a modelled function, with the exceptions
that [Not modelled](#not-modelled) lists: paths that only devices that fail would take, and the parts of functions that
concern data no module has.

**Data** is cut down to what the properties tell apart: bytes are members of a small set, a page has two cells, keys are a
few of every kind. Widths matter where unsigned numbers wrap; the wrap is then at a small number that is a multiple of
the ring's size, as 2^32 is of PIPESIZE and INPUT_BUF.

**Parts that share no state** are checked in one run by a module that chooses one of them at the start (`part`, or
`scene`) and lets only that one take steps; fairness is stated for that one.

**Known deviations.** Where the code has a behaviour that breaks a property in a way described
[below](#where-code-and-comments-disagree-and-limits-of-the-promises), the model contains it, and a history variable
(`mixed`, `twins`, `spurious`, `fails`, `strayed`, `overlapped`, `astray`, `bare`) delimits the promise: it holds
until that has happened.

**Mutations.** Definitions named `X_Something` in front of a definition `X` are `X` with a plausible slip. For every
property of every passing run there is one which makes TLC find it violated (PROJECT.json, "mutants").

## Modules

### Processes: `ProcTable`, `ProcSched`, `ProcFamily`, `Proc`, `ProcProps`, `MCProc`

`Proc` models proc.c, the parts of trap.c and sysproc.c that call it, and the end of exec.c. `ProcTable` has the state
and the helpers, `ProcSched` the scheduler, the timer and the way in and out of the kernel, `ProcFamily` fork, exit, wait
and kill, and `Proc` adds `sys_sleep` and exec and composes them. The state is the process
table (`state`, `pid`, `parent`, `killed`, `chan`, `kstack`, `pgdir`, `name`: the fields of `struct proc`; `image` is the
program that really runs), per CPU the process it is on (`proc`), the page directory in use (`cr3`), the place in the
scheduler loop (`spc`, `idx`) and in the timer handler (`irq`), the owners of `ptable.lock` and `tickslock`, and for
each slot the point `pc` at which its kernel thread is, with the frame `ret`, `np`, `left` that it returns to.
A process "holds `ptable.lock`" by its CPU holding it; the lock is handed over by the switch, as in the code.

| code | actions |
|---|---|
| `scheduler()` | `SchedAcquire`, `SchedSkip`, `SchedRun`, `SchedBack`, `SchedRelease` |
| `sched`, `yield`, `forkret`, the rest of `sleep` after the switch | `sched`, `yield`, `YieldReturn`, `SleepReturn` |
| `fork` and `allocproc`, with their failures | `allocproc`, `ForkKstack`, `ForkCopy`, `ForkUndo`, `ForkRun`, `ForkName` |
| `exit`, `wait`, `kill` | `exit`, `init_exit`; `WaitAcquire`, `WaitReap`, `WaitFail`, `WaitSleep`; `kill` |
| `sys_sleep` and the `sleep(&ticks, &tickslock)` in it | `SleepStart`, `SleepDone`, `SleepCheck`, `SleepLock`, `SleepUnlock`, `SleepSet`, `SleepRelock` |
| `trap`: timer, system calls, faults, the tests of `killed` | `TimerIntr`, `TickCount`, `TickWakeup`, `TickRelease`, `Syscall`, `Fault`, `ReturnToUser` |
| `exec`, as far as it names the process | `exec` |

User programs are an arbitrary sequence of system calls and faults. The exception is init, which runs initcode.S and
init.c: it asks for `exit` when a `fork` or `exec` of its own has failed, and only then (`initcall`); `init_exit` is
the panic that follows. Of the checks in `sched` the one on `ncli` is a count of the locks held, and the one on
interrupts a matter of the point at which a process is; `intena`, saved and restored there, is in `Spinlock` only.
`ProcProps` has the properties and the fairness; `MCProc` restricts, per scene, what user code asks for. `ProcInv`,
`ProcCalls`, `ProcProofs` contain the [proofs](#proofs).

### Spin locks: `Spinlock`

State: `locked` and `owner` of each lock, per CPU the interrupt flag, `ncli`, `intena`, and the code that it runs;
`saved` is the code that a handler has interrupted. `acquire` goes through `pushcli` (reading eflags), `pushcli_cli`,
`acquire_check`, `acquire_xchg`, `acquire_own`; `release` through `release_xchg`, `popcli`, `popcli_sti`; `interrupt` and
`iret` come between any two of them when the flag is set. Handlers take and give back locks, ordinary code nests locks
and plain `pushcli`s.

### Memory: `Vm`

State: the free list, the address space `as` (size, mapping, page tables) of each process, the one being built (`new`),
kernel stacks, and the call in progress. `kalloc` and `kfree` are single steps; `allocuvm`, `deallocuvm`, `setupkvm`,
`copyuvm`, `freevm` take one step per page, so that two processes compete for the last pages in the middle of `sbrk`,
`fork`, `exec` and `wait`, and each failure is taken with every number of pages already allocated. `lost` holds the pages
of directories that `setupkvm` drops. A process that shrinks to the size 0 loses its pages, and `growproc` returns -1: it
keeps its size and goes on, without the `switchuvm` that would flush the TLB, and may make any call (`bare` marks its
space). Which of its instructions it can still execute is left open.

### Boot: `Boot`

`mpinit` (search in the EBDA or the base memory, then the ROM), `mpinit_entry`, `mpinit_end` with the fallback to one
processor, `main`, `bootothers` with `lapicstartap`, the wait for `booted`, and on the started processor `bootother`
(bootother.S), `mpmain`, `mpmain_booted`. The stack of the next processor is one word in memory, written for each.

### Buffer cache and disk: `BufCache`, `BufCacheProps`, `BlockStore`

State: the list of buffers with block, flags and data, the IDE queue, the drive with its current command, the disk, and
for each process the buffers it holds and the point it is at. `bread`, `BgetHit`, `BgetSleep`, `BgetFresh`, `BgetPanic`,
`BreadCheck`, `bwrite`, `brelse`, `iderw`, `IderwWait` are the steps of processes; `DriveDone` the drive; `ideintr` and
`SpuriousIntr` the handler. `BlockStore` is what callers rely on: a value per block, lent to one process at a time. The
refinement takes as the value of a block the contents of its dirty buffer, else what is on its way to the disk, else
the disk.

### File system: `Fs`, `FileData`, `FileTable`

`Fs` models inodes, directories and names: dinodes and entries on the disk, the inode cache, per process what is left
of its call (`todo`), the calls it will make (`plan`), its current directory and one open file. `iget`, `ilock`,
`iload`, `iunlock`, `iput` with `itrunc`, `ifree`, `iputend`, `iupdate` (`setlink`), directory writes (`setent`),
`ialloc` are steps, and so are the parts of `namex`, `open`, `create`, `unlink`, `link`, `chdir` between them. In the
order of the code: `link` takes a reference to the entry it finds in its way and drops it again, and `chdir` drops the
old directory before it stores the new one.

`FileData` models contents: the bitmap, the blocks, the inodes on disk and in memory, one call in progress per file.
`balloc`, `bfree_zero`/`bfree_bit`, `bmap_*`, `write_block`, `write_done`, and at the end of an inode's life and the
beginning of the next one's `trunc_done`, `ifree`, `ialloc`, `create`, are one disk write each;
`Crash` drops all that is in memory between any two of them. `readi` is a function of the inode, compared with a history
variable `text`.

`FileTable` models file structures, descriptors, pipe ends and references to inodes: `filealloc`, `filedup`,
`fileclose`, `sys_open`, `sys_dup`, `sys_close`, `sys_pipe` with `pipealloc`, reads and writes through a shared offset,
`fork` and `exit`. Tables and pages run out in the middle; `sys_pipe` takes its two descriptors in two steps (`pipe_fd0`,
`pipe_fd1`), so that the second fails when the first is taken.

### Pipes: `Pipe`, `PipeProps`, `Fifo`

State: the fields of `struct pipe`, whether its page is freed, and per process the ends it has, the point it is at and
its counters. `WriteStart` .. `WriteDone`, `ReadStart` .. `ReadDone`, `Wake`, `PipecloseWrite`, `PipecloseRead`, `kill`.
`Fifo` is the abstract bounded queue; the mapping reads the ring from `nread` to `nwrite`.

### Console: `Console`, `LineInput`, `Cga`, `Kbd`

`Console`: the ring with its indices `r`, `w`, `e` (wrapping), `consoleintr` (`Key`, `Backspace`, `KillLine`) and
`consoleread` (`Read`, `Loop`, `ReadKilled`, `ReadSleep`, `ReadByte`, `ReadEof`, `ReadDone`). `LineInput` is the
abstract line editor; that the ring implements it is [proved](#proofs) in `ConsoleProofs`. `Cga`: CPUs that print
(`Begin`, `End`) from `cprintf`, which takes `cons.lock` unless a panic has turned that off, from `consolewrite`,
which always takes it, and from the echo, which never does; `cgaputc` as single port accesses; `panic`. `Kbd`: keys go
down and up, the keyboard sends one or two bytes for each, `kbdintr` with `kbdgetc` decodes them; the reference is the
meaning of a key given the keys that are held.

### Network card: `Ne2000`, `EthProbe`

`Ne2000`: the card (registers with pages, receive ring, send buffers, remote DMA), a process in `ne_pio_write`
(`write`, `rdma_setup`, `rdma_wait`, `outs`, `poll`, `start_xmit`, `count`) or `ne_pio_read` (`read`, `read_curr`,
`read_page0`, `read_copy`, `read_bnry`), and the handler (`interrupt`, `int_isr`, `int_ack`, `int_ptx`) on the same or
another CPU. The card receives, finishes transfers and transmits whenever it likes (`Receive`, `DmaDone`, `TxDone`);
`prompt`, which never changes, says that a remote DMA of this card ends before the process goes on. The card is
external: it is modelled by what the driver expects of it. `start_xmit` during a transmission either is missed by the
card or takes the place of what it was sending. `is16bit` decides how many bytes `ne_getblock` stores: on a 16-bit
card twice as many as its caller has room for in `dummy`, `header` and the buffer (`Spill`, `Block`), because `insw`
counts words and is given bytes. The history `arrived` keeps of every packet its length and the page it went to,
counted on where the ring wraps. `Ne2000Proofs` proves what the driver [promises](#proofs). `EthProbe`: `ethinit` and
`ne_probe` with every kind of device at two ports, and what `ethioctl` says then.

### User level: `Umalloc`, `ShellParse`, `ShellRun`, `Mkfs`, `Library`

`Umalloc`: the circular free list; `malloc`, `morecore`, `free` one step of their loops at a time. `ShellParse`: the
recursive descent of sh.c on every line, against a definition of the language by splitting the tokens. `ShellRun`:
`runcmd` as sequences of system calls by processes with descriptors; any call may fail; the shell's own loop with `cd`
and the end of its input; programs that write little, or so much that they wait for a reader. `Mkfs`: `main` and
`iappend`, with reads of any length; what the image says is read back by the kernel's formulas. `Library`: `match` of
grep on one line, `skipelem`, `memmove`, `printint`, `atoi`, the IP and UDP checksums, as functions of all short
inputs.

## Runs

| run | module | what it checks |
|---|---|---|
| `proc_table` | `MCProc` | safety of the process table on two CPUs |
| `proc_live` | `MCProc` | liveness of processes under one CPU |
| `proc_born` (violation) | `ProcProps` | `kill(0)` and the next child |
| `bufcache` | `MCBufCache` | cache, driver and disk implement `BlockStore`; calls return |
| `fs` | `MCFs` | names, inodes and crashes, two processes |
| `files` | `MCFiles` | open files; contents; crashes while blocks are allocated |
| `pipe` | `MCPipe` | the pipe implements `Fifo`; wakeups, ends and the page |
| `console` | `MCConsole` | input implements `LineInput`; the screen |
| `kernel` | `MCKernel` | spin locks, memory, boot, keyboard, probing |
| `ne` | `MCNe2000` | sending, receiving and the handler |
| `ne_rdc` (violation) | `Ne2000` | the wait for `ISR_RDC` |
| `user` | `MCUser` | malloc, shell, mkfs, library |

A property that is a conjunction names its parts, which are defined and explained one by one in the module.

**proc_table.** Two CPUs, three slots, pids up to 3, in three scenes: a child with a child of its own, which fork,
exit and wait in any order; any family with kills and faults (on one CPU); a child that sleeps, is killed and runs
programs. No two CPUs are on one kernel stack (`OneCpuPerStack`). `SlotsSound`: no CPU is on a stack or page directory
that was freed (`NeverOnFreedMemory`), free slots own no memory (`NoLeak`), every process has a living parent
(`ParentAlive`) and a pid of its own (`PidsUnique`). `NoLostWakeup`: no tick is missed in `sys_sleep`, no exit and no
kill in `wait`. `NoPanic`: no panic of `sched` or `sleep` is reached, nor "zombie exit", and "init exiting" only if
init was killed (`kill(1)` is among the calls) or a `fork` or `exec` of its own has failed, as it does when the table
or memory is full; the run reaches both. Two CPUs and three processes are the least in which a parent, its child and
its grandchild interleave on two stacks; pids are never reused within the bound, nor in the code, which counts up.

**proc_live.** One CPU, scenes "orphan" (a grandchild that outlives its parent or not) and "sleep": runnable processes
run and sleepers wake up (`NobodyStuck`, of `RunnableRuns` and `SleepEnds`), killed processes exit (`KilledDies`),
zombies of init are freed (`ZombieReaped`), each unless init panics because its fork failed. One CPU, because with
several the code promises liveness only with fair locks, which `xchg` is not.

**bufcache.** Two processes, two buffers, three blocks, one of which is read while another is held, as `balloc` does;
two operations for each process, one interrupt for no reason. With fewer buffers than blocks every read may recycle.
`BuffersSound`: a block is in one buffer (`OneBufferPerBlock`), a buffer has one user (`BusyIsExclusive`), what the driver
works on belongs to a process that waits for it (`QueuedIsOwned`), clean buffers are on the disk (`WriteThrough`). The
whole is a `BlockStore` (`ImplementsStore`); calls return or `bget` panics (`CallsReturn`).

**fs.** Two processes and five inodes, in four scenes (`MCFs`). Boot: one with two calls and one with one, of nine
calls on paths chosen to collide (create, link and unlink of one file, removal of the directory it is in and of one a
process is in, ".." of it). Nested and Orphan: a process is in a directory of which the other removes the name, and
that of its parent, and looks up ".." or makes something there. Linked: a `link` that fails because its name is taken,
while the other process removes the old name and the one in the way. `NoPanic` ("ilock: no type" excepted, once a
lookup went up to a directory that is gone: `strayed`); `CrashSafe` (in every state, which a crash may leave, no name
refers to a free inode and no inode has more names than links); `InodesSound`: what is open stays allocated
(`OpenIsAllocated`), cached copies agree with the disk (`CacheCoherent`), every call gives its references back
(`RefsReturned`), link counts are exact at rest (`LinksExact`); `CallsReturn` (no deadlock among the locks of inodes).

**files.** Scene "table": two processes, three file structures, two descriptors each, one page: `FilesSound` (`RefsCount`,
`NothingLost` and no panic) and `NoPieceTwice`. Scene "data": one file, blocks of two cells, one direct block and an
indirect one, lengths 0, 1, 3, one past the largest file and one that overflows, three bitmap blocks of three bits:
`ReadsBack`, `BlocksSound`. Scene "crash": two files, fewer blocks than they need, one crash: `BlocksSound` (`NoSharing`,
`FreeIsZero`, `NoneLost` and no panic but that of a full disk), `Durable`.

**pipe.** A writer and a reader, which may be killed; two bytes of room, counters that wrap at four, reads and writes
of 0 to three: `ImplementsFifo`, `ShortRead` (a short read means empty, and 0 bytes of at least one the end),
`PipeSound` (`WriterNotStuck`, `ReaderNotStuckUnlessKilled`, `FreedUnused`), `CallsReturn`. A write is longer than the
ring, so that it sleeps in the middle; the counters wrap twice in the bound. Several writers and readers are for the
[proofs](#proofs): TLC takes too long with a third process.

**console.** Scene "in": two readers, one of which may be killed, a ring of three, indices that wrap at six:
`ImplementsLines` (with `EofAlone`: every ^D is one end of file), `ReadReturns`. Scene "out": two CPUs print on 2 x 2
cells, enough to wrap and to scroll; one echoes, one panics: `ScreenShows`, with `CursorRead`.

**kernel.** Scene "lock": two CPUs, two locks, one extra `pushcli`, handlers: `CriticalSection` (`Exclusive`,
`FlagRestored`). Scene "vm": two processes, nine pages of two bytes, `sbrk` by 3 and -2: `MemorySound` (`OnePlace`,
every page in exactly one place; `MappedIsSize`; no panic but that of a fork by a process that has shrunk to 0, which
is excepted from `MappedIsSize` too). Scene "boot": three processors with any of them as the boot processor, a table
with a gap, no valid table: `BootSound` (`OneEach`, `AllUp`). Scene "kbd": three keys held at once: `KeyMeaning`.
Scene "eth": `ProbeFinds`.

**ne.** A 16-bit card that is prompt sends five packets, some of them empty, through two send buffers, so that each is
used again, while two packets arrive; a card of either width that is not prompt receives four packets of two lengths
in a ring of four pages, which wraps, to be read into buffers that are too small or large enough, while one is written
(`Scene`). `SendQueueSound`: with a prompt card what is sent was written, in that order and none twice
(`SentIsWritten`), and nothing is left out unless a transmission was started during another (`overlapped`); marks and
counters agree (`FilledMatches`); no packet is reported that was not sent. `ReadsArrived`: packets are read in order,
each once, with exactly the bytes that the code takes. `HandlerEnds`. Behaviours end when the driver has gone astray
(`astray`): the handler has met register page 1, or words stored past the end of `dummy` or `header` have hit a
variable that is in use.

**user.** malloc on a heap of eight units (`HeapSound`, of `Partition` and `Merged`); every line of up to five
characters (`Parses`, with `Terminated`); six command lines with pipes, lists, redirections and background, perhaps
after a `cd`, with programs that may fill a pipe, up to two failing calls (`StartsRight`, of `Plumbed` and `InOrder`;
`PromptAgain`); mkfs with two files of up to seven cells (`ImageReads`, with `BitmapExact`); all inputs of up to six
cells to the library (`Computes`: `Matches`, `Splits`, `Overlaps`, `Checksums`, `PrintsBack`: `atoi` reads back what
`printint` prints of numbers that are not negative, reads 0 of others since it stops at the sign, and wraps).

Deadlock is checked where the system never stops (processes, kernel). It is not in the runs in which processes have done
all their calls, or in which the kernel halts after a panic.

## Fairness

- *Processes* (`ProcProps!Fairness`): every CPU executes the code it is in. The timer keeps interrupting, and its period
  is longer than its handler, so that interrupted code gets on: strong fairness for steps that an interrupt can delay.
  init keeps calling `wait`, as its loop does (init.c:28-42), until a fork of its own fails. Nothing is assumed of other
  programs.
- *Buffer cache*: processes execute and give back the buffers they hold, the drive completes its command, interrupts are
  taken (weak fairness).
- *File system*: the same. That a process which waits for an inode gets on when it is free is weak fairness as well: each
  process has finitely many calls.
- *Pipe, console*: a process woken up gets the lock eventually, among finitely many (strong fairness of `Wake`), and a
  process with nothing left to do closes its ends, as `exit` does. Nobody is assumed to write, read or type.
- *Network card*: the CPU of the handler executes; nothing is assumed of the card.
- *Shell*: processes that do not wait execute, programs that read end once their input ends, and programs that fill a pipe
  once another program reads it or nobody can.

## Proofs

TLC checks instances; the theorems hold for every value of the constants.

**Processes** (`ProcProofs`, with `ProcInv` and `ProcCalls`). Assumptions (`ProcAssumption`): there
is a CPU0, at least one slot, and `NONE` is neither a CPU, a slot nor the channel of the clock. Theorem `Invariance`: the
conjunction `IInv` holds in every reachable state. None of the properties is inductive by itself. That no two CPUs are on
one stack, for example, needs that a process is RUNNABLE only when its context is saved, or its CPU still holds
`ptable.lock`; this needs to know at which points the lock is held; and that in turn, which frame `sched` returns to. The
conjuncts are

- `CpuInv`, `StackInv`, `OnCpuInv`: what a CPU executes, which of the two locks it holds at each point, and the state
  of the process it is on;
- `ContextInv`: a process on no CPU is in `sched`; zombies, and only they, never return;
- `BuildInv`: the slot that a fork builds is EMBRYO, belongs to one fork, and has the memory that fork has given it;
- `MemoryInv`: living slots have a stack and a directory, free ones nothing;
- `TickInv`, `WaitInv`: a sleeper has something to wait for, or whoever will wake it is under way;
- `FamilyInv`, `PidInv`: init lives, every living process has a living parent, pids are below `nextpid` and differ.

There is a lemma for each action (`...Inv`). It states what the action changes, and then cites a lemma on steps of its
kind, which has a step per conjunct: `LoopStep` for the loop of the scheduler, `HandlerMove` for the timer handler,
`RunStep` for a process that goes on running in the kernel, perhaps taking or releasing a lock or waking others,
`ProcessStep` for one that goes to sleep or yields, and `SlotStep` for one that writes a slot nobody executes (the
child of a fork, the zombie that `wait` frees). Frame lemmas (`CpuInvFrame`, ...) say on which variables each conjunct
depends. From `Invariance` follow `TypeCorrect`, `StackExclusive` (`OneCpuPerStack`), `WakeupNotLost`
(`NoLostWakeup`), and `MemorySafe`, `NothingLeaks`, `Forest` and `PidUniqueness`, which together are `SlotsSoundness`
(`SlotsSound`). `PanicFree` states `NoPanic`, with no assumption on what programs do; it needs a second invariant,
`InitReason`, relative to `IInv`: init is in `exit`, in its panic, or in a timer interrupt on the way there, only if
it is marked as killed or a `fork` or `exec` of its own has failed.

**Pipes** (`PipeProofs`). For any processes, ring size and counter width (`PipeAssumption`: the width is a multiple of
the size): a writer is never asleep while there is room or no reader (`NoLostWakeup`), and the page is freed only when
no process can reach the pipe (`FreedIsUnused`); together `PipeSoundness` (`PipeSound`). The invariant relates the spin
lock, the ends that processes have and the two flags: an end is open as long as somebody has it or is about to close it,
and only the last one closes it.

`PipeIsFifo` (`ImplementsFifo`) is the refinement of `Fifo`. `Ring` is the window of the array that starts at `nread`;
the invariant (`RingInv`) is only that the distance of the two counters, taken modulo `WRAP`, never exceeds
`PIPESIZE`. The work is in the arithmetic: two counters that are less than `PIPESIZE` apart never meet in one cell,
also across the point at which they wrap (`Window`, `Wrap`, `Distance`). This is where `WRAP % PIPESIZE = 0` is used;
with a size that does not divide 2^32 the cells would shift when a counter wraps. A byte put changes the window at its
end (`PutStep`), a byte taken at its front (`GetStep`), all other steps not at all. `EndOfFile` (`ShortRead`) needs to
know of a reader past its wait that it found data, or no writer (`ReadInv`; also one that asks for 0 bytes has waited
for that), and that nobody but itself takes bytes while it holds the lock.

**Console** (`ConsoleProofs`). For any readers, characters, ring size and range of the indices (`ConsoleAssumption`:
the range is a multiple of the size, and larger). `ConsoleIsLineInput` (`ImplementsLines`) is the refinement of
`LineInput`: the finished lines are the cells from `r` to `w`, the line being typed those from `w` to `e`. The
invariant is

- `OrderInv`: going round from `r` one meets `w` before `e`, and `e` within `INPUT_BUF` characters, so the two stretches
  never overlap, and a key stored at `e` overwrites neither;
- `TypedInv`: between `w` and `e` there is no newline. It is needed for ^U, which goes back as far as `w` *or a
  newline* (console.c:194): only because there is none does it kill the whole line and nothing else;
- `CountInv`: a reader has asked for at least what it still wants. So the ^D that `consoleread` puts back by `input.r--`
  (console.c:246) is the one it has just taken, before which bytes were delivered, and the next `read` gets it.

As for pipes the work is in stretches of a ring across the point where indices wrap (`Apart`, `Ahead`, `Distances`): a key
extends a stretch at its end (`KeyStep`), ^H and ^U shorten it (`EraseStep`, `KillLineStep`), a newline moves `w`, which
joins the two (`Joined`), a byte read shortens the other stretch at its front (`TakeStep`). `ReadersWoken`: no reader is
asleep while there is a finished line, or once it is killed.

**Buffer cache and disk driver** (`BufCacheProofs`). For any processes, buffers, blocks and values, any
initial disk and any number of spurious interrupts, under one assumption: the drive reports no read errors (after one,
`ideintr` marks the buffer valid all the same, and `bread` returns whatever it held). `BuffersStaySound`
(`BuffersSound`): a block has one buffer, a busy buffer one owner, a queued request somebody who waits for it.
`CacheIsStore` (`ImplementsStore`): cache, queue, drive and handler refine `BlockStore`. The invariant adds to
`BuffersSound`

- `CallInv`, `OwnInv`: what a process brings to `iderw` is its own and has something to do; a buffer that `bread` has
  returned is valid;
- `DirtyInv`: a dirty buffer is in `iderw` with its owner, so `bget` never recycles data that is not on the disk, although
  it looks at B_BUSY only (bio.c:84);
- `DriveInv`, `IntrInv`: command and data in the drive are those of the first request, and the interrupt line means
  that this one is finished, unless there was a spurious interrupt;
- `ValueInv`: a clean buffer has the value that the disk has, or will have once the drive is done.

The value of a block in the store is then the same before and after every step but a `bwrite` by the owner
(`SameStore`, `SameOwner`); blocks are acquired at the last step of `bread`, be it in `bget`'s caller or after the
sleep in `iderw` (`Gets`), and released by `brelse`.

**Network card** (`Ne2000Proofs`). For any number of send buffers, page size, place and size of the ring, packets and
buffers of readers (`NeAssumption`: a header fits into a page, the ring has two pages or more). `SendQueue`
(`SendQueueSound`) and `ReceiveRing` (`ReadsArrived`) hold until the driver has gone astray; `IInv` says nothing
beyond that point. Packets are numbered, and packet i has buffer i modulo `SENDQ_LEN`. For sending the invariant is

- `CountInv`: packets are written, handed over, sent unless they are lost, and reported, with at most `SENDQ_LEN` handed
  over and not reported. `sendq_head` itself lags: the packet it stands for may be sent and even reported before
  `ne_pio_write` counts it (ne.c:236), which is why it is `Started` that is compared;
- `ReportInv`: ISR_PTX, in the register or read by the handler and not yet acted upon, stands for a packet that was sent
  and not reported. The acknowledgement between (ne.c:295) is what makes one bit not count twice;
- `MarkInv`: the buffers marked are those of the last packets written, as many as were not reported;
- `BytesInv`, with `OnAir`: with a prompt card the packet being transmitted comes after all that were sent and is still in
  its buffer, whatever was lost before it, since a buffer that is written is fewer than `SENDQ_LEN` packets away from it
  (`Buffers`);
- `LossInv`: as long as no transmission has been started during another, all that was handed over is sent or being sent.

For receiving, pages and bytes are named by positions that are counted on where the ring wraps (`Page`, `Addr`).

- `WindowInv`: what is unread begins behind DP_BNRY, ends before DP_CURR, and leaves a page free besides that of DP_BNRY;
- `ChainInv`, `DataInv`: the unread packets lie one behind the other, with headers that name the next and their bytes;
- `ReadInv`: the DP_CURR that `ne_pio_read` has read on page 1 may be old when it is compared, but if it was not the front
  of the ring then, there is a packet at the front now: only the reader takes packets away.

A packet that arrives overwrites nothing unread, since less than a whole ring lies between (`PutBytes`, `Space`); the
reader's own way round the end of the ring agrees with the card's up to the end (`CopyBytes`), and the boundary it
sets is the page before the next packet (`BnryRecv`), also when that is the first page of the ring.

**Spin locks** (`SpinlockProofs`). For any CPUs and locks: no two CPUs are inside one lock (`MutualExclusion`), and
interrupts are on exactly when they were on before the outermost `pushcli` and all of them are undone
(`FlagDiscipline`); together `CriticalSections` (`CriticalSection`). The invariant counts: `ncli` is the number of
locks held plus the `pushcli`s, plus one for the lock that is just being taken or given back; so it is 0 exactly when
interrupts may be taken, and the code that a handler interrupts holds nothing.

**Only model-checked**: all liveness (fairness and ENABLED are outside the prover's reach); everything that rests on
recursive definitions (parser, matcher, checksums, numbers), where proofs need induction over data; and the safety of the
file system, memory and screen. That the
buffer cache panics only when all buffers are in use, or returns, is liveness (`CallsReturn`).

## Where code and comments disagree, and limits of the promises

Two runs exhibit behaviour that contradicts what the repository says.

- `proc_born`: `kill` looks at the pid of every slot, in use or not (proc.c:394). The pid of an unused slot is 0, or
  that of a fork that failed, and `allocproc` does not reset `killed`. So `kill(0)` succeeds, and the next child
  forked into that slot is born killed. "Kill the process with the given pid." (proc.c:385)
- `ne_rdc`: `ISR_RDC` is not cleared before the transfer, and the dummy read of `ne_rdma_setup` has just set it. The
  loop that waits for it (ne.c:231) ends at once, and a packet can be transmitted before its bytes are on the card;
  PROJECT_STATUS.md:37 says that the loop prevents this.

Other behaviours of the code are in the models and delimit the properties:

- Processes: `kill(1)` ends in "init exiting", and so does a `fork` or `exec` of init that fails (init.c:31-39,
  initcode.S:15-19), for instance because the process table is full when a shell has ended. `fork` writes the child's name after making it RUNNABLE, over one that an
  `exec` of the child may have saved; `name` and `image` are kept apart for that reason, and no property equates them.
- Disk: when all buffers are in use `bget` panics, although a buffer would be released later. An interrupt of the
  drive without a command finishes the request that still waits for the drive; `WriteThrough` holds as long as there
  was none. Read errors leave a buffer marked valid; `ReadErrors` is off in the run.
- File system: the kernel panics when it has no free inode, block or cache entry (`ialloc`, `balloc`, `iget`), which
  is named in the properties where the bounds allow it. `unlink` allows removing a directory that a process is in;
  what is created there has no name from the root, and `LinksExact` speaks of inodes that have one. The ".." of a
  directory that is removed while a process is in it stays, and is not counted as a link: when the parent is removed
  as well, a lookup of ".." finds a free inode, and `ilock` panics ("ilock: no type"), or, if the number was given
  away again, another file (`strayed`). `NoPanic` says that this is the only panic, the other properties hold
  throughout. `balloc` looks at all bits of the last bitmap block, also beyond the size of the file system when that
  is not a multiple; the instances have sizes that are.
- Pipes: a writer that finds the pipe full and itself killed leaves without waking the reader, which may then sleep on
  beside data until the ends are closed; `ReaderNotStuckUnlessKilled` says so.
- Console: the echo of the keyboard handler does not take `cons.lock`; when it overlaps with other output, cursor and
  screen may be wrong from then on (`mixed` in `Cga`). After a panic `consolewrite` still waits for `cons.lock`, whose
  holder may be frozen; only `cprintf` does without.
- Memory: `setupkvm` drops the directory and tables it has when it runs out of memory; they are in `lost`. `sbrk` to
  the size 0 frees all pages of a process and reports a failure (proc.c:114), because `deallocuvm` returns the new
  size and 0 means an error to `growproc`. The size stays, the TLB is not flushed, and the process goes on with
  whatever translations the CPU still has, until it faults. If it gets as far as `fork`, `copyuvm` panics ("copyuvm:
  page not present"); `MemorySound` says that apart from this no page is lost or has two owners because of it. What
  such a process reads and writes through stale translations is contents of pages, which `Vm` has not.
- Boot: `mpinit` loops for ever at an entry of a kind it does not know; tables with more than NCPU processors run over the
  array; `bootothers` does not test what `kalloc` returns. Tables are as the MP specification has them, and memory
  is not short at boot.
- Keyboard: with two shift (or two control) keys held, releasing one ends the effect of both (`twins`); a lock key that
  repeats toggles each time.
- Network card, registers: the handler may find register page 1 selected by `ne_pio_read` on another CPU, and then
  reads and writes other registers than it means to. On a 16-bit card `insw` and `outsw` are given the number of bytes
  as the number of words: four bytes too many are stored behind `dummy` and behind `header`, and as many again as the
  packet has behind the packet in the buffer. Whether the former hit anything in use depends on the layout of the
  stack. Either is `astray`.
- Network card, sending: `ne_pio_write` starts a transmission whether or not one is under way, and one of the two
  packets is lost. Every packet lost in this way, and every two that are reported by one ISR_PTX because the handler
  was late, leave one more buffer marked for good; after `SENDQ_LEN` of them `ne_pio_write` returns 0 for ever. No
  property promises that a packet is sent.
- Network card, waiting: the handler acknowledges all bits it has read (ne.c:295), ISR_RDC among them. If it does so
  after the end of a transfer and before the loop at ne.c:231 has looked, that loop spins for ever; in the model
  `poll` is then never enabled. `ne_rdma_setup` waits until DP_CRDA differs from what it was; after an empty packet
  through the first send buffer it does not, and that loop spins as well (`rdma_wait`). No liveness is claimed of
  `ne_pio_write`. A packet longer than the pages of its send buffer, which nobody checks, runs into the next one;
  packets of the model fit.
- Network card, receiving: of a packet longer than what remains of the ring, the end is read from the wrong place,
  because the header is not counted in what remains; `ReadsArrived` says which bytes come instead. An 8-bit card whose
  PROM consists of pairs is taken for a 16-bit card.
- User level: `>>` opens a file like `>`. When `fork` or `exec` fails, the shell goes on with what comes after ";" before
  everything in front of it has ended; `InOrder` is for lines in which no call failed. `memmove` of ulib.c copies upwards
  only; `Overlaps` is about that of string.c. `atoi` knows no sign, and wraps.

## Not modelled

What the modelled functions do besides, and the modules leave out:

- `exec` reads the program from a file and checks its header; `Vm` has the allocations of `exec` and the exits on
  failure, not the reads of the file that lead to them. `trap` for devices is in the modules of the devices.
- `ide.c`: the search for a second disk. `iderw`'s panics on buffers that are not busy or need nothing are excluded by
  `CallInv` (see [Proofs](#proofs)).
- `fs.c`, `sysfile.c`: names longer than DIRSIZ, the place of an entry in its directory and the growth of a directory
  (a lookup, and the write of an entry, is one step on a function from names to inodes), and `fstat`.
- `console.c`: ^P, and the formats of `cprintf`. `kbd.c`: keys other than the few of every kind.
- `ne.c`: packets with a bad status arrive from no card of the model; `buf == 0` is a buffer of length 0; sizes of packets
  written matter only in being 0 or not.
- `sh.c`: `getcmd`'s reading of characters, and the message of a `cd` that fails. `grep.c`: `match` on one line; the
  loop of `grep` that finds lines in a buffer is not modelled.

Whole parts:

- **Interrupt controllers and timer** (picirq.c, ioapic.c, timer.c): port writes at boot that nothing reads again. That
  interrupts are delivered is an assumption of the other modules.
- **Boot loader, entry code** (bootasm.S, bootmain.c, multiboot.S, initcode.S, trapasm.S, vectors.pl): straight-line
  code with no state beyond the CPU's registers.
- **Serial port** (uart.c): single port accesses; its input is a source of characters in `Console`.
- **System call entry** (syscall.c, usys.S): a table of the functions modelled elsewhere, and pointer arithmetic on an
  image that no module represents.
- **Contents of pages** (`loaduvm`, `copyout`, `inituvm`, the arguments on the stack that `exec` builds) and `switchuvm`:
  `Vm` is about which pages there are, not about what is in them.
- **Output functions and formats** of net.c, `procdump`, `getcallerpcs`: they only print.
- **Register values** of the network card that only configure it.
- **Other user programs and tests**: short sequences of system calls. The loop of init.c is a fairness assumption.
- **Device errors**: drives that never interrupt, or fail; memory that is not what the BIOS says.
