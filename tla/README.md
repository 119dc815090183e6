# A TLA+ development of resume_pointers

The repository collects course projects. The one with most to verify is
`src/os/memory-assignment`: a complete xv6 kernel (a small Unix for multiprocessor
x86) whose `fork` was changed to share pages copy-on-write. Others with state
and concurrency of their own are ChampSim's cache, core, memory controller and
page walker, a shell, reader-writer locks and a link over sound. This directory
holds TLA+ modules translated from that code, the TLC configurations that check
them, and proofs checked by TLAPS. Line numbers below are those of the repository;
file names without a directory are in `src/os/memory-assignment`.

## 1. Inventory

| component | state | operations | modules |
|---|---|---|---|
| page allocator (`kalloc.c`) | `kmem.freelist`, `refcount.count[]` | `kalloc`, `kfree`, `incrementRefCount` | Cow |
| virtual memory (`vm.c`) | page directories and tables, the CPUs' TLBs | `setupkvm`, `allocuvm`, `deallocuvm`, `freevm`, `copyuvm`, `handle_pgflt_helper`, `switchuvm` | Cow, PrivateMem |
| processes (`proc.c`, `exec.c`, `sysproc.c`) | `ptable.proc[]`: state, parent, sz, pgdir, kstack, chan, killed | `fork`, `exit`, `wait`, `growproc`, `exec`, `sleep`, `wakeup`, `kill`, `scheduler` | Cow (their memory), Proc, Sleep |
| locks (`spinlock.c`, `sleeplock.c`) | holder, interrupt nesting | acquire, release, pushcli, popcli | Spinlock, Bcache |
| pipes (`pipe.c`) | ring buffer, read and write counts, open flags | read, write, close | Pipe, ByteQueue, Sleep |
| log (`log.c`) | header in memory and on disk, log blocks, `outstanding`, `committing` | `begin_op`, `log_write`, `end_op`, commit, recovery | Log, AtomicDisk |
| buffer cache and disk (`bio.c`, `ide.c`) | LRU list, reference counts, flags, request queue | `bread`, `bwrite`, `brelse`, `iderw`, `ideintr` | Bcache, BlockStore |
| files and inodes (`file.c`, `fs.c`, `sysfile.c`) | file table, inode cache, directories, link counts, bitmap, indirect blocks | open, close, dup, link, unlink, create, mkdir, chdir, read, write, truncate | Files, Blocks |
| console (`console.c`, `kbd.c`, `uart.c`) | input ring with indices r, w, e | interrupt, read | Console, Tty |
| xv6 user programs (`sh.c`, `umalloc.c`, ...) | parsed command, descriptors; circular free list | parse and run; malloc, free | Sh, Malloc |
| boot and interrupt hardware (`main.c`, `lapic.c`, `mp.c`, ...) | device registers | initialisation | - |
| mmap variant (`src/os/proc.c`, `vm.c`, `trap.c`, `sysproc.c`) | lazily allocated pages | mmap, page fault | - |
| `src/os/rwlock-*-pref.cpp`, `zemaphore.c` | counters, mutexes | reader/writer lock and unlock; down, up | RWLock |
| `src/os/allocation-assignment` | bitmap or page list, sizes | alloc, dealloc | - |
| `src/os/my_shell.c` | job table, foreground group | run, wait, cd, exit, SIGINT | Shell |
| `src/networks/networks_lab3` | send queue, carrier state | sense, send, acknowledge, retry | Csma |
| `src/ChampSim` (cache, core, memory controller, page walker) | queues, MSHRs, reorder buffer, load and store queues, banks, page tables | the stages of `operate()` | ChampCache, Cpu, Dram, Ptw, Lru |
| `src/game_theory_algos` | - | alpha-beta search, equilibria | Notakto, NormalForm |
| `src/spreadsheet-interface/backend/app.js` | one in-memory database per name, table `temp` | HTTP handlers that await queries | - |
| exercises (`src/dsa`, `src/DAA`, `src/ml_algos`, ...) | - | sequential algorithms, notebooks | - |

How the kernel's parts interact: every page belongs to the allocator, a page
table, a kernel stack or a kernel path on its way; system calls of the file
system run inside `begin_op`/`end_op` and read and write through the buffer
cache, whose dirty buffers the log keeps from being recycled; everything that
waits does so through `sleep` and `wakeup`, under a lock that it hands over to
`ptable.lock`, which in turn is passed from thread to thread by `sched`.

What makes this code hard: several CPUs run kernel paths at the same time and
share pages by reference count; the TLB of a running process keeps translations
that the page tables no longer have; memory can run out in the middle of every
path; locks are dropped between steps; the file system must survive a crash at
any moment; processes sleep and are woken through a condition held by another
lock; inodes and buffers are recycled while others look for them; a simulator's
queues fill up, merge requests and answer them late. `PROJECT.json` lists each
such hazard at the line where it bites and the properties that would notice it
going wrong.

What makes each component correct: for memory, that no page is used after it is
freed, none is lost, sharing is invisible to user programs and every call ends;
for processes, that no wakeup is lost and each zombie is reaped once; for locks,
exclusion, interrupts on again, and no deadlock; for pipes and the console, that
bytes come out once, in order, and whoever waits for them is woken; for the log,
that after a crash the disk is as before or after each transaction; for the
cache, one buffer per block; for inodes, that an inode or block is freed exactly
when nothing names it; for the simulator, that every request is answered once and
with what program order says.

## 2. Plan

Done, in this order: the kernel's memory (**Cow** with **PrivateMem**), its **Log**,
**Pipe** and **Sleep**, **RWLock**, **Proc**; then **Bcache**, **Files**, **Blocks**,
**Spinlock**, **Console**, and the parts outside of the kernel.

Proved so far (section 6): everything that Log, Proc, Bcache, Pipe and Cow promise
as safety properties, refinements included, except what is false of the code; the
counts of Files, those of names for calls whose paths do not contain `..`; the locks
of RWLock, the console and the shell's job table; Blocks; Spinlock; the cache of the
simulator; and the link over sound.

Theorems still worth proving: those about the simulator's pipeline, whose order of
dependences is an invariant of about the length of the cache's.

Worth modelling next: the mmap variant, zemaphore and the allocators of the
assignments (small and sequential but for the first), and the branch predictors
and replacement policies of ChampSim.

## 3. The modules

### Cow

State. `freelist` and `rc` are `kmem.freelist` and `refcount.count`. Every place
where the kernel keeps the address of a page is a *slot*: `p->kstack`, a page
directory, a directory entry, a page table entry, and the local variable (`mem`,
`pa`) of a kernel path that owns a page for a while. `ref` maps a slot to the
page it names or `None`; `perm` holds the flags `PTE_W`, `PTE_U` and `PTE_COW_W`
of each page table entry; `data` what each page contains. A process has two
spaces, `<<p, 0>>` and `<<p, 1>>`: the one it runs on (`side[p]`) and the one that
`exec` builds. `state`, `parent`, `sz` are those of `struct proc`; RUNNABLE,
RUNNING and SLEEPING are one value, `"LIVE"`, because memory does not depend on
which. `tlb[p]` is what the CPU that runs `p` has cached. `pc[p]` is `"user"`,
`"idle"` or the label that `p`'s kernel thread has reached, and `tgt`, `cur`,
`lo`, `hi`, `ret` are that path's local variables.

Steps. One action is one critical section (`kalloc`, `kfree`,
`incrementRefCount`) or one store that another process can notice; everything
between two actions of one process is local to it. So `deallocuvm` is a loop of
"give the page back" (`DeallocStep`) and "clear the entry" (`DeallocClear`), and
the page fault handler is `PageFault`, `FaultAlloc`, `FaultCopy`, `FaultFree`,
`FaultMap`, in the order of vm.c:405-447. `ptable.lock` is held across steps only
by `wait`, which calls `freevm` under it; where other paths hold it for one step,
the step is guarded by `ptlock = None`.

| code | actions |
|---|---|
| `setupkvm` vm.c:118 | `SetupPgdir`, `SetupKpde` |
| `userinit`, `inituvm` | `BootKstack`, `BootUvm`, `BootMap` |
| `allocproc`, `fork`, `copyuvm` | `ForkStart`, `ForkKstack`, `ForkCopy`, `ForkMap`, `ForkUnref`, `ForkFail`, `ForkDone` |
| `deallocuvm`, `freevm` | `DeallocStep`, `DeallocClear`, `DeallocDone`, `FreeTab` |
| `allocuvm` | `AllocPage`, `AllocMap`, `AllocFree`, `AllocDone` |
| `growproc` | `SbrkGrow`, `SbrkShrink`, `SbrkAll`, `GrowDone` |
| `exec` | `ExecStart`, `ExecLoad`, `ExecStack`, `ExecBad` |
| `exit`, `wait` | `Exit`, `Wait`, `WaitKstack`, `WaitDone` |
| `handle_pgflt_helper` | `PageFault`, `FaultAlloc`, `FaultCopy`, `FaultFree`, `FaultMap` |
| `yield`, `scheduler` | `Yield` |
| the MMU (external) | `TlbFill`, `UserWrite` |

Failures of `kalloc`, of reading a program file and of the argument copy are
alternatives of the actions where they happen. `panic` is an absorbing state
(`Halted`), and its message is in `panicked`. Alternatives that end in the panics
of `kfree`, `incrementRefCount` and `mappages` are in the model because they are
in the code; `AssertionsHold` says that they are never taken.

Left out: the files, working directory and name of a process; interrupts; the
several program segments of `exec` (one of any length stands for them); the part
of a page that is not a whole page (sizes are counted in pages); boot before
`userinit`; cached translations made while the CPU runs in the kernel.

### PrivateMem

What user programs rely on: a memory of its own for every process, copied by
fork. `ImplementsPrivateMem` maps Cow to it (`View`): the memory of `p` is the
contents of the pages its table names, up to `sz`. Two places need care: while a
shrinking `sbrk` is under way the pages to go are not part of the view, and
between `kfree` and the rewrite of the entry the handler's copy counts.

### MCCow, CowProofs, CowAccessProofs

`MCCow` gives `Pick`, the page `kalloc` returns, as the lowest free page: pages
are interchangeable (none of the actions looks at a page's address), so this is a
symmetry reduction of the LIFO free list. The proofs make no such choice.

### Log, AtomicDisk

State. The disk is `home` (the blocks at their places), `logb` (the blocks of the
log) and `hdr` (the header block of the log); it survives a crash. `lh`,
`outstanding` and `committing` are the fields of `struct log`; `cache`, `dirty`
and `holder` say of each block what its buffer holds, whether it carries
`B_DIRTY` and who has it locked. `pc`, `cur`, `wrote`, `left` and `tail` are what a
process knows in its system call.

Steps. One critical section of `log.lock`, one disk write, or the use of one
buffer between `bread` and `brelse`. `begin_op` is `BeginSleep` or `BeginOp`;
`log_write` is `LogWriteCheck` (its panics, tested before the lock is taken) and
`LogWrite`; `end_op` is `EndOp` and, for the last operation, `Commit`, `WriteLog`
(per block), `WriteHead`, `InstallTrans` (per block), `Erase` and `CommitDone`.
`Crash` may come between any two steps, also of recovery, which is `ReadHead`,
`RecoverInstall` and `RecoverClear`. A block is one sector and is written whole or
not at all. `bread` returns the cached data, or, when the buffer may have been
recycled, what the disk holds (`Bread`).

`AtomicDisk` is what callers rely on: a group of operations becomes durable in
one step, and a crash loses exactly the groups that did not. `ImplementsAtomicDisk`
maps the disk to what recovery would make of it (`Recovered`).

### Sleep, Pipe, ByteQueue

`Sleep` has the state that `sleep`, `wakeup` and `kill` share: who holds
`ptable.lock` across steps, what each process sleeps on, and who is killed. Going
to sleep takes two steps (`TakePtlock`, `FallAsleep`), because `kill` and a
`wakeup` of another process may come before `ptable.lock` is taken.

`Pipe` keeps the fields of `struct pipe`, who holds the pipe's lock, which
processes hold which end (the reference counts of the two files), and per process
its position, arguments, loop index and bytes read.

| code | actions |
|---|---|
| `piperead` | `Call`, `Acquire`, `ReadTest`, `ReadCopy`, `Finish` |
| `pipewrite` | `Call`, `Acquire`, `WriteFull`, `WakeReader`, `WritePut`, `WriteEnough`, `Finish` |
| `sleep` | `SleepHandoff`, `SleepSched`, `Resume` |
| `fileclose`, `pipeclose` | `Close`, `PipeClose`, `Free` |
| `fork`, `exit`, `wait`, `kill` | `Fork`, `Exit`, `Gone`, `KillProc` |

The counters count modulo `WORD`, which divides by `PIPESIZE` as 2^32 does by 512.
`ByteQueue` is a bounded queue that hands each byte out once and in order, and
reports the end of file only when the queue is empty and nobody can write.
`ImplementsByteQueue` maps it to the bytes between `nread` and `nwrite`.

### RWLock

Both files of the reader-writer lock; they have the same `WriterLock` and
`WriterUnlock`, and `pref`, which never changes, says which of them a behaviour is
about. One step is a lock or unlock of the
mutex with the code up to the next one, or one access to a counter outside the
mutex: `rw->numRead++` without the mutex is a load and a store, so updates get
lost, and `Drift` bounds how far. `rwlock.h` is not in the repository: its mutex
is taken to be a pthread mutex and its counters plain integers, and the loops
that spin on a counter are taken as written (a compiler that hoists the load
spins for ever, which the safety properties allow for).

### Proc

State. `state`, `parent`, `killed` and `chan` are the fields of `struct proc`;
`unnamed` are the slots with pid 0, which `kill(0)` finds. `cpu[c]` is `c->proc`
and `pos[c]` the loop variable of `c`'s scheduler. `ptlock` and `tickslock` say who
holds the two locks: `ptable.lock` is taken by a process that calls `sched` and
released by the scheduler, or by the process that runs next, so its holder may
be a CPU or a process. `pc`, `child` and `left` are where the kernel thread of a
process is, the slot its `fork` fills, and how long its `sys_sleep` has to go.

A step of a process needs a CPU that runs it (`At`). One step is one critical
section of `ptable.lock`; the lock is held over several steps by the scheduler
(`SchedulerLock`, `SchedulerRun`, `SchedulerUnlock`), by the process that was just
switched to (`Resume`) and by `wait` (`WaitCall`, then `Reap`, `WaitFail` or
`WaitSleep`). `fork` sets up its child without the lock (`ForkAlloc`, `ForkParent`,
`ForkRun`, `ForkFail`). `exit` is one step, `Exit`: its files are closed before
(module File). `sys_sleep` is `SleepCall`, `SleepTest`, `SleepHandoff`, `SleepWoken`,
and the clock `Tick` and `TickWakeup`. A process that was killed makes no more
system calls and exits when its CPU leaves the kernel.

### Bcache, BlockStore

State: the fields of `struct buf` as functions of the buffer, the order of the LRU
list (not shown: any unused clean buffer may be the one that is recycled), `idequeue`
with the request at its head under way, and who holds each buffer's sleep lock.
One step is one critical section of `bcache.lock`, of a sleep lock's spin lock or
of `idelock`.

| code | actions |
|---|---|
| `bget` | `BgetHit`, `BgetMiss`, `AcquireSleep` |
| `bread`, `bwrite`, `brelse` | `Iderw`, `IderwWait`; `Bwrite`; `ReleaseSleep`, `Brelse` |
| `log_write` as far as it pins a buffer | `LogWrite` |
| `idestart`, the disk, `ideintr` | `Idestart` (a helper), `DiskDone`, `Ideintr` |

`BlockStore` is what the callers see: a block is in the hands of one process at a
time, who reads what the last one left. `ImplementsBlockStore` maps a block to
its valid buffer or else to the disk (`Speaks`). What Log assumes of the cache, that
a block whose buffer is dirty stays cached, is the guard `Unused` of `BgetMiss`.

### Files, Blocks

`Files` has the disk's inodes (`type`, `nlink`, directory entries), the inode cache
(`ref`, lock holder), the file table, descriptors and working directories, and per
process a record of where its system call is: `pc`, the path it walks, the inodes
`at`, `dp`, `ip` that it holds. One step is what a process does between two waits
for an inode's lock, or one critical section of `icache.lock` that others can notice:
`iput` is `Iput` (the test of `ref` and `nlink`, and freeing) and `Unref` (the
decrement), as in fs.c:331-352. `Walk` is one element of `namex`; `Open`, `Create`,
`Unlink`, `Link` with their error exits, `Chdir`, `Dup`, `Close`, `Fork`, `Exit` are the
system calls. Transactions are not shown (module Log).

`Blocks` is what is below: `balloc`, `bfree`, `bmap`, `itrunc`, and `readi`, `writei` and
`filewrite` with their chunks. A data block carries what would be read if it were
taken for an indirect one, so that a block reused without `bzero` is noticed.

### Spinlock, Console, Tty

`Spinlock`: what each thread has still to do in the kernel (`todo`, a sequence of
calls such as acquire, release, sched, iret) against each CPU's `ncli`, `intena` and
interrupt flag, with `ptable.lock` passed on by `sched` and `scheduler`. `Console`:
one step is a character of `consoleintr` (typed, erase, kill line, end of file), or
what `consoleread` does up to its sleep or its return, or the sleep itself, before
which a `kill` may come; `Tty` is the line discipline that it implements.

### Shell, Sh, Malloc

`Shell` is the loop of my_shell.c over parsed commands: foreground, `&&`, `&&&`, `&`,
the table of pids, SIGINT, `exit`. Lines come when they come, also with a full table:
`Record` then overwrites a local variable, with one of three effects (the job is
lost, the rest of the line is skipped too, or the shell crashes). `Sh` parses a line with the functions of sh.c
(`parseline`, `parsepipe`, `parseexec`, `parseredirs`, `parseblock`) and runs the tree
with the descriptors that each process has, against the meaning of the line.
`Malloc` is the circular free list of umalloc.c in units of a header.

### ChampCache, Cpu, Dram, Ptw, Lru

The core of the simulator, each as what one stage of `operate()` does with one
request. `ChampCache`: `handle_miss`, `try_hit`, `handle_fill`, the queues of
channel.cc, with merging in the MSHRs. `Cpu`: fetch, decode, dispatch, schedule,
execute, the load and store queues with forwarding, and retirement. `Dram`: one
channel, a whole cycle of it as the composition of what `operate()` calls. `Ptw`: the
walker with its MSHRs and PSCLs (`Lru`) over the tables that vmem.cc makes on demand.

### Notakto, NormalForm, Csma

`Notakto` compares the pruned search of q2.py with the plain one on every reachable
board; `NormalForm` the recursive search for dominant strategies, and the search for
pure equilibria, of q1.py with their definitions on every small game. `Csma` is the
loop of networks_lab3/main.py at each node, with sounds that overlap or are heard
in part. Those are noise, and any bits may be heard in noise: those of an
acknowledgement, which then counts although nobody sent it, or of a whole frame;
`mistaken` records that this has happened.

## 4. The runs

| run | instance | states | what it shows |
|---|---|---|---|
| `cow_calls` | 2 processes, 4 pages, 11 pages, fork, exit, exec | 406,706 | counts, exclusive writable pages, coherent TLBs, the kernel's assertions, refinement of PrivateMem, with every failure of exec |
| `cow_any` | 2 processes, 4 pages, 9 pages, every call and every argument, fair scheduler | 206,633 | no leak when memory is so short that every failure path is taken, also after `sbrk(-sz)` and stray accesses; every kernel path ends |
| `cow_sbrk_all` | 2 processes | 255 | finding 1 |
| `log_crash` | 2 processes, 2 blocks, 2 values, `LOGSIZE` 5, 2 blocks reserved, crashes anywhere, fair | 320,912 | durability, pinned buffers, refinement of AtomicDisk, sleepers woken, commits end |
| `log_full` | 3 processes that write one block each, `LOGSIZE` = `NLOG` = 3, 1 block reserved | 436 | finding 3 |
| `pipe_kill` | 2 processes that may be killed, buffer of 2, 4 calls, fair | 474,688 | FIFO order, writers woken, calls end when the other end is closed |
| `proc_life` | 4 slots, 2 CPUs, kill of 1 and 3 | 4,232,712 | one CPU per process, living parents, no zombie and no tick overlooked by a sleeper |
| `proc_kill` | 3 slots, 1 CPU, kill of 2, fair | 10,138 | killed processes exit, `wait` returns |
| `files` | 2 processes, 3 inodes, a file name and a directory name, 1 open file, 2 descriptors | 4,042,553 | counts of inodes, nothing freed in use, link counts of directories, no panic but that of ialloc |
| `files_leak` | the same | 32,564 | finding 2 |
| `bcache` | 2 processes, 3 buffers, 4 blocks, 2 values, 1 block pinned | 554,285 | counts, nobody sleeps in vain, refinement of BlockStore |
| `parts` | sixteen small instances side by side (MCParts) | 1,112,166 | one property for each of the smaller modules, listed in MCParts; counts and exclusive pages when a grandchild shares a page with two others |

Bounds. Two processes are the smallest number that shares a page; three make a
page with two other owners, which is where a count of 2 must go down to 1 and not
to 0; that is the part `memory` of `parts`, with one page each and stores whose
values are of no matter. Four virtual pages with two or four entries per page table
give an address space with a missing page table, a full one and a partly filled one. The number
of physical pages decides which allocation fails; `cow_any` has two pages fewer
than `cow_calls`, too few for an exec beside another process. One kernel page
table (`NKPDE`) is enough to make `setupkvm` fail half way. One cached translation
(`NTLB`) is enough for a stale one: a translation is stale on its own. One value to
write differs from the initial contents. Nothing else is bounded, and for counts,
exclusive writers and leaks the proofs of section 6 have no bound at all.

For the log, two operations make a group whose members interleave; two blocks make
a group that can be half written, and absorption happens because an operation may
log a block twice. Crashes are not bounded. In `log_crash`
`LOGSIZE` is one more than two reservations, so that the log has room for its header
and the properties are of groups that do not overflow; `log_full` has the code's
ratio, a `LOGSIZE` of three reservations of which the header takes a block, and shows
what then happens (finding 3). For the pipe, writes of three bytes into a buffer of two block half
way, and a `WORD` of twice the buffer makes the counters wrap in every other write.
The run ends when the calls are used up or all processes are gone, so it does not
check for deadlock. In Proc, `MaxTicks` of 1 is a sleep that a tick ends, and four
slots are the smallest table in which a process dies after its parent's parent has
gone to sleep and leaves it a zombie; pids are not counted, a slot stands for its pid.

For files, three inodes are the root, a directory and a file; two processes with one
name of each kind meet in every order of create, link, unlink and lookup; deadlock
is not checked because of finding 10. For the cache, three buffers for two
processes and a pinned block are as many as it needs (the kernel has 30 for up to
three operations), and four blocks make it recycle. In `parts`, two processes and two
CPUs, inodes or blocks each; the pipe has three threads and no kills, which is
where `NoLostWakeup` holds; a file has one direct and three indirect blocks; a shell
line has up to five tokens; the job table of
my_shell.c has two slots, so that a background job may find it full; the core runs three instructions; a cache has one way,
so that a fill evicts; the link over sound is followed up to the first noise that is
taken for something (`Unmistaken`), after which its property says nothing; deadlock is not checked because several parts come to an end.

Fairness. Cow's `FairSpec` has weak fairness of each process's kernel thread. The
scheduler (proc.c:322) serves the process table round and round and interrupts
take the CPU away from a process that runs long (trap.c:113), so a thread that
can go on does so. User code is not assumed to do anything. `ForkDone` waits for
`ptable.lock`, whose other holder (`wait`) always gives it back.

For the log and the pipe the same weak fairness of every kernel thread is
assumed; the pipe's number of calls is bounded, so nobody waits for a lock that
others take for ever. Recovery goes on, and liveness of the log is up to the next
crash. Proc has the scheduler itself in it: weak fairness of each CPU's scheduler,
and strong fairness of a kernel thread, because its steps are enabled only while
it has a CPU and the lock is free, again and again. The clock is strongly fair
too: a timer interrupt that is pending is taken as soon as interrupts are on.
`xchg` of spinlock.c:32 gives no bound on how often a CPU loses a race for a lock;
strong fairness says that it does not lose always.

Inputs of Cow. User code calls fork, exec, sbrk with any number of pages, exit and wait,
and loads and stores anywhere below `sz`, in any order; `"sbrk_all"` and
`"stray"` add the two inputs after which the kernel panics (findings 1 and 4).
`cow_any` has them, and shows what holds up to the panic and in spite of
`sbrk(-sz)`; the other runs leave them out and show what holds of all other inputs,
`AssertionsHold` among it.

## 5. Findings

Three have a run of their own:

1. `sbrk(-sz)`: `deallocuvm` returns the new size, 0, which `growproc`
   (proc.c:169) takes for an error. Every page is gone, `sz` is not updated and
   the TLB is not flushed; the next `fork` of the process hits the assertion
   `copyuvm: page not present` (vm.c:330). Run `cow_sbrk_all`.
2. `iput` reads `ref` in one critical section and decrements it in another
   (fs.c:337-352): two processes that drop the last two references of an unlinked
   inode can both see a count of 2, and nobody frees it. Run `files_leak`.
3. `begin_op` reserves `MAXOPBLOCKS` blocks for each operation out of `LOGSIZE`
   (log.c:132), which param.h:10-11 call the "max # of blocks any FS op writes" and
   the "max data blocks in on-disk log". But the log on the disk has `LOGSIZE` blocks
   with its header (mkfs.c:25), and the test of log.c:218 comes before a block that
   is logged already is looked for: three operations that use all they reserve make
   `log_write` panic. Run `log_full`. This kernel's own operations write fewer blocks;
   the theorem `ReservationWithSlack` says that two blocks less are enough.

No run repeats the following. Where a property is named it was seen as a
counterexample to it on the instance named; the others were seen on reading the
code for the models.

4. A page fault that is not a copy-on-write fault panics in
   `handle_pgflt_helper` (vm.c:412-431). trap.c:97 says "In user space, assume
   process misbehaved" and kills the process, but page faults no longer get
   there; `sbrktest` in usertests.c:1496 relies on it. (Cow with `"stray"` in
   `Calls`: `panicked = "pagefault handler"` is reached.)
5. A killed writer leaves `pipewrite` at pipe.c:88 without waking the readers
   for the bytes it has written. (Pipe with `Killable = Proc`: `ReadersAwaited`
   fails.)
6. `kill` between the test of `killed` (pipe.c:107, 86, console.c:246) and the sleep
   is lost: `kill` takes `ptable.lock` only. The process sleeps although it is killed,
   until the other end is used or closed, or a line is typed. (Pipe and Console have
   the two steps and the kill between them; no property denies it.)
7. A reader of rwlock-writer-pref.cpp counts itself after it has released the
   mutex (line 22, and line 28 without it): it can be in together with a writer.
   (`ReadersExcluded` without its condition on `pref`.)
8. `kill` marks slots without a process (proc.c:486): `kill(0)`, or the pid of a
   failed `fork`, makes the next process of the slot exit at once. (Proc with
   `Strays = TRUE`: `BornUnmarked` fails.)
9. `kill(1)` makes init exit: `panic("init exiting")` (proc.c:235). It is the
   action `InitExit`, which `proc_life` takes.
10. `iput` takes the inode's sleep lock on entry (fs.c:334). A process that drops a
   directory while it holds an entry of it (`iunlockput(dp)` with `ip` locked) and
   one that holds the directory and waits for the entry wait for each other,
   which fs.c:146-151 means to avoid. `link(f, ".")` waits for itself. (Files with
   deadlock checked.)
11. `create` or `link` into a directory that was removed after it was looked up
   makes a name that nobody can reach; `rmdir` of a working directory and then of
   its parent leaves its `..` naming a free inode.
12. A disk error still sets `B_VALID` (ide.c:118). With 30 buffers and a log of 30
   blocks, committing groups can pin so many buffers that `bget` panics with "no
   buffers" although no process holds one. (Bcache with two buffers for two processes
   and a pinned block: `panicked` is reached. What the theorem `BuffersCounted` says
   holds all the same.)
13. `filewrite`'s chunks assume one bitmap block for each transaction. With two, a
   chunk could log 11 blocks; FSSIZE (1000) is below the 4096 bits of one.
14. cache.cc: `try_hit` clears the dirty bit on a hit that is not a write (line 203),
   so a stored value is dropped without a write-back; a store that merges with a
   later load loses its type. The hit test ignores `valid`, and a write and a miss
   of the same block can fill two ways. dram_controller.cc: a later write to a block
   that waits in the write queue is dropped as a duplicate. ptw.cc: `MSHR_SIZE` is
   never enforced. ooo_cpu.cc: an instruction that comes from the decoded-instruction
   buffer can leave the fetch buffer while a request of the instruction cache still
   refers to it.
15. sh.c: of several redirections of one command the first wins, `>>` does not
   append, and `a & b` is a syntax error. umalloc.c: sizes near 2^32 wrap.
16. networks_lab3: a broadcast is delivered by one node only; a node that hears an
   acknowledgement without the message before it raises IndexError; a lost
   acknowledgement makes the receiver print the message twice; the address range
   grows and messages of more than 16 bits do not fit the length field.
17. networks_lab3: an acknowledgement is four bits without a checksum
   (recording.py:96-105), and the MACs of a frame are outside of its CRC: noise, such
   as the tail of a frame that collided, may be taken for either, and a message that
   nobody received is then reported as `[SENT]`. The real acknowledgement may come
   later and count for the next message. (Csma: `SentIsReceived` fails once
   `mistaken`.)
18. my_shell.c: with 64 background jobs `findFreeIndex` returns -1 (line 48), and
   lines 348 and 429 write to `waitKiskeLiyeKarRhe[-1]`, another local variable of
   `main`; the job's pid is not recorded. (`Record` of Shell has both cases.)

Seen on reading, in code that is not modelled: a free run that is too small is not
forgotten before the search goes on (alloc.cpp:56); the wait of zemaphore.c:19 is
under an `if`; `run-query` drops and creates one shared table across awaits
(app.js:53); q1.py's mixed equilibria use `util_matrix[0][1][1]` where
`util_matrix[1][0][1]` is needed; rb.cpp does not compile.

## 6. Proofs

`CowProofs` proves, for every value of the constants that satisfies the five
assumptions of `Cow` (sizes are positive, `Page` is finite, `None` is neither a
page nor a process, nor the contents of a memory, `Pick` picks from the free pages):

* `TypeCorrect`: `Spec => []TypeOK`. Not only a matter of types: `rc` stays
  natural although `kfree` subtracts, and the cursors and bounds of every kernel
  path stay in the address space.
* `ThreadSeparation`: `Spec => []ThreadsApart`. No two kernel threads work on the
  same address space, a thread that works on an embryo or a zombie has it to
  itself, and zombies are torn down only under `ptable.lock`.

Neither is inductive alone. `IInv` adds what a thread knows at each label
(`Label`: at `f_map` the target is not the own process, at `dv` the place to
return to is one of five, ...) and the pages it holds there (`Hold`: at `pf_copy`
both the entry and `mem` name a page). That these survive the steps of other
threads is the content of `ThreadsApart`: a step of `p` changes only slots of
its own and of the process it works on (`RefLocal`), which are not the slots that
another thread's `Hold` speaks of (`RefLocalOthers`). One lemma per action then
remains; most go through `JumpLocal` or `CursorStep` (steps that stay with the
same process), `SettlesStep` (steps that end the work on another process),
`OwnStep` and `EnterStep`.

`LogProofs` proves all of Log's safety properties for every number of processes,
blocks and values, every log size, and any number of crashes: `TypeCorrect`,
`CommitsRunAlone`, `SleepersAwaited`, `QuietDurable`, `Pinned`, and `Refinement`,
that every step of Log is a step of AtomicDisk or a stutter. The inductive
invariant says what is where at each stage of a commit: how much of the log has
been written, that the header on disk is empty or equal to the one in memory,
that the blocks already installed equal their logged copies, and that every
block in the header has a dirty buffer. `ReservationSuffices` is
false for the reservation the code makes (finding 3); `ReservationWithSlack` proves it
when each operation leaves two of its blocks unused and the log on the disk has
`LOGSIZE` blocks, header included. What is logged and what is still to be written then
stay below the reservations, which `begin_op` keeps within `LOGSIZE`.

For RWLock, `PartsProofs` proves `TypeCorrect` and `OneWriter` for both files and any number of
threads, and `ReaderPrefExcludes` and `ReaderPrefCounts` for
rwlock-reader-pref.cpp. The invariant: whoever is past the mutex holds it, a
writer that is in holds it, and `numWrit` is the number of writers that have been
counted, so that the loop of `WriterLock` is left only through its inner check;
for the reader-preferring lock also that `numRead` is the number of readers.

`ProcProofs` proves all of Proc's safety properties for any number of slots and
CPUs: `TypeCorrect`, `OneCpu`, `ParentsLive`, `ZombiesHeard`, `TicksHeard`,
`KilledAwake`, and, if `kill` is called with pids of processes only,
`FreshUnmarked`. The invariant adds who may hold `ptable.lock` (`LockHeld`), that
each embryo is the child of one `fork` and has the parent that the fork gave it
(`Forking`), that whoever is inside the kernel is alive, that init lives and
nobody is its own parent (`Family`), and that `tickslock` is held from the test in
`sys_sleep` to the sleep (`ClockHeld`). One lemma per action, with one step per
conjunct; `Switch`, `Woken` and `Abandoned` say once what `sched`, `wakeup1` and
`exit` do.

`BcacheProofs` proves Bcache's safety properties for any number of processes,
buffers and blocks: `NoSleepInVain`, `BuffersCounted` and `Refinement`. The invariant
says what a process knows of its buffer at each label, that each buffer in use
has a block of its own, and that a request in the disk's queue belongs to the
process that sleeps on it. No
theorem assumes how many buffers there are: `bget` panics when it finds none, which
the kernel's 30 buffers do not rule out (finding 12), and what has been counted until
then is right. That `bget` finds a buffer if there is one for each process and each
pinned block (`UnusedExists`, under `EnoughBuffers`) is a lemma of its own.

`RingProofs` proves the safety properties of the two ring buffers, Pipe and Console.
For Pipe, with any number of processes, any size of the buffer and of a read or write, and any `WORD` that is a multiple of
`PIPESIZE`:

* `PipeIsQueue`: `Spec => ImplementsByteQueue`. The bytes between the counters are at
  the places `Place(1)`, ..., `Place(Used)` of the buffer. `PlaceNext` says that these
  move up by one when a byte is read, also when `nread` wraps around, which is
  where `WORD % PIPESIZE = 0` is needed; `PlaceWrite` and `PlacesApart` that a byte is
  written behind the others and over none of them. From these `GetBytes` and
  `PutBytes`, and one lemma for each kind of step of the queue.
* `WritersHeard`: `Spec => []WritersAwaited`. The invariant is `Heard("nwrite")`: if
  somebody sleeps on the channel, *or is about to* (it holds `ptable.lock`, so
  nobody can call `wakeup` before it sleeps), and what it waits for is there, then
  somebody is about to wake it.
* `NobodyForgotten`: `Spec => []NoLostWakeup` if `Killable = {}`. The hypothesis is
  needed (finding 5); it is used at the one step where a writer returns without
  waking the readers.
* `PageUnused`: `Spec => []FreedIsUnused`.

They rest on `PipeInvariance` (`Spec => []Base`): who holds which lock at which
label, that an end is open as long as somebody has it or is about to close it, that
at most one process closes each end and frees the page (`EndsOK`), and what a
process still knows of the counters it has tested (`Knows`).

For Console, with any number of readers, any size of the buffer and any multiple of
it as the number of values of an index (`ConsoleSizes`: 128 and 2^32 in the code):

* `ConsoleReadersAwake`: `C!Spec => []C!ReadersAwake`, where `C` is the instance of
  Console that RingProofs makes. The invariant `ConsoleInv` says that what is entered
  and what is typed fit into the buffer together, and that all of it is entered when
  it is full; so a reader never sleeps on a full buffer. A reader keeps `cons.lock`
  from its test to its sleep, which shuts out interrupts and other readers but not
  `kill`: that a sleeper is not killed is not claimed, as it does not hold (finding 6).
* `ConsoleIsTty`: `C!Spec => C!ImplementsTty`. `Text(cells, a, b)` is what the buffer
  holds from one index up to another. `TextFront` (erasing), `TextBack` (reading),
  `TextPut` (storing) and `TextJoin` (entering) say how it changes, also across the end
  of the buffer and when an index wraps around, and one lemma per action follows.
  How far C('U') erases and how far a read goes is a largest element; that there
  is one (`LargestExists`) needs induction, which `UpTo` provides: a set of numbers
  up to n with 0 and the successor of each of its members has n, or the successor would
  map it one to one to itself without 0 (`FS_PigeonHole`).

For the shell, `PartsProofs` proves `ShellKillsItsOwn`: `S!Spec => []S!KillsOwnOnly`, for
any number of pids and slots. When a line is read the table names children only
(`ShellInv`), since `Top` has polled each slot that is not empty; that holds until
`exit` because only the shell itself waits for children. In a full table nothing is
recorded (`Record`), which leaves jobs that `exit` does not kill but adds none to kill.

`PartsProofs` also proves what Blocks promises, for any number of processes, inodes and
blocks, any sizes of a block, an inode and an indirect block, any lengths of writes,
and any `MAXOPBLOCKS` from 6 (10 in the code; with fewer, `filewrite`'s chunk is empty):

* `BlocksNamedOnce`: `B!Spec => []B!BlocksApart`. `Named(i, k)` is the block that a place of
  an inode names, be it a direct block, the indirect one or one that this names, and
  0 for what `itrunc` has already gone through. The invariant (`NamedOnce`) says that no
  block has two names and that the used blocks are those with a name; every step
  gives a name to one block that was free, takes one away, or leaves them alone.
* `WritesFitTheLog`: `B!Spec => []B!TransactionFits`. What a `writei` has logged is the
  bitmap, the inode, the indirect block, and the blocks that it has come to
  (`Touched`), which are numbered in a row. A chunk is as long as
  `(MAXOPBLOCKS - 4) / 2` blocks, and a write that is not aligned comes to one more.
  The bitmap is one block, as it is with the code's constants; `filewrite` itself
  reckons with one for each data block.

They rest on `BlocksInvariance`: whoever is inside a call has the lock of its inode
(`LocksHeld`), so a step changes what one inode names; a file that nobody has locked
is on the disk as in memory and is mapped exactly as far as its size (`Settled`); in
`writei` it is mapped as far as its size or the offset reached, and maybe at the next
block, which `bmap` has found but nothing was copied to yet (`InWritei`); and in `itrunc`
what is behind the cursor is empty (`InItrunc`).

The last part of `PartsProofs` is about Spinlock: `SpinInterrupts`,
`L!Spec => []L!InterruptsRestored`, for any number of CPUs, processes and locks; its one
hypothesis, `SpinSizes`, says that their names are told apart. The difficulty is that
a process goes on, on another CPU, with what `sched` kept of `intena`, in the middle
of calls that some interrupt may have cut in two. `SpinInv` therefore looks ahead:

* `Fits(t, s, h)` says that the calls `s` which a thread has still to make take a CPU
  that has `h` (the locks held and `ncli`) through a mode for each call (`Takes`) to one
  without locks. What a CPU has fits the thread that it runs (`WellRun`); a process
  that waits fits the mode in which `swtch` finds it (`Under`: `ptable.lock` alone).
* While a lock is held or an `iret` is still to come, interrupts are off; outside of
  all locks they are on for a thread that is neither in an interrupt nor on its way
  to `forkret` (`Steady`). `intena` is what the last release has to restore, for who runs
  (`WellRun`) as for who waits (`Right`).
* Who runs is on one CPU, whose scheduler is in its loop (`Placed`), and in what is
  still to do nothing comes behind a return but what an interrupt has cut
  (`Ordered`).

One lemma (`LocalStep`) serves every action by which a CPU goes on with its thread;
`SchedStep` and `SchedulerStep` are the two switches.

Of the simulator `PartsProofs` proves `CacheAnswersLoads`,
`H!Spec => []H!EveryLoadIsAnswered`, for any number of instructions, blocks and ways and
any sizes of the queues. `Stand` says that the requests in the queue of reads, in the
tag check and among the misses divide the waiting instructions among themselves, so
a step hands over, merges or answers those of one request; one lemma each says what
adding, removing, merging and reordering requests does to them (`AppendedDeps`,
`DroppedDeps`, `MergedDeps`, `MovedDeps`). `Misses` says that a block has one entry, which
is owed a response until it is done, and that what is done comes first; `finish_packet`
keeps that order as it exchanges the entry with the first one that is not done.

Of Csma `PartsProofs` proves `CsmaAnswered`, `Z!Spec => []Z!AnsweredMeansReceived`, for any
number of nodes with MACs above 0, any messages and any length of the windows: what is
reported as `[SENT]` has been received, as long as no node has taken noise for an
acknowledgement or for a frame (`mistaken`), of which finding 17 says what then happens.
Acknowledgements carry no number, so the proof is about time: a frame that was
heard, an acknowledgement that is to be sent or under way, and one that was heard
and not yet looked at are all of the message at the head of the sender's queue
(`Answer`), and when the sender has heard one, no other can come. This holds because
the receiver's window is closed before it replies, and because a sender that gives
up waiting keeps the message.

`CowProofs` and `CowAccessProofs`, which extends it, prove what the kernel's memory
is for, for every number of processes and pages, every size of the address space and every failure:

* `NothingIsLost`: `Spec => []NothingLeaks`. The invariant `Struct` says which slots
  hold a page at which label of each kernel path: a slot that kalloc fills was
  empty, or a page would be lost, and a slot that a path leaves is empty, or a
  page would leak. Its parts are what a process owns when no path works on it
  (`ProcSlots`), what the space that a path works on may contain (`Target`, ...),
  and that no leaf entry exists without its page table (`Tabled`).
* `CountsAreRight`: `Spec => []RefCounted`. The count of a page is the number of
  slots that name it, except for the dangling entry between `kfree` and the store
  that rewrites it, and for the reference that fork has stored and not yet
  counted. `Eff` is the map from slots to pages with these corrected, and `Counts`
  says of it what `RefCounted` says; a step changes `Eff` at one slot and `rc` at one
  page, so one lemma each for taking, giving back, moving and leaving references
  serves all actions.
* `WritersAreAlone`: `Spec => []WritableIsExclusive`. A page with a writable entry
  has that one reference (`Sole`); between the copy of an entry and the clearing of
  the parent's `PTE_W`, fork knows that its entry is the only other one (`Shared`).
* `CountsNeverFail`: the panics of `kfree`, `incrementRefCount` and `mappages` are
  never reached. The invariant `SInv` adds to the above that kernel stacks and page
  directories are there when they are used; then each `kfree` and each
  `incrementRefCount` is of a page that a slot names, so its count is positive, and
  each entry that is to be mapped is empty. This holds of every input, `sbrk(-sz)`
  and stray accesses among them.
* `KernelAssertionsHold` and `CachesAreTrue`: `Spec => []AssertionsHold` and
  `Spec => []TlbCoherent`, if `"sbrk_all"` is not in `Calls`. The assumption is needed:
  `cow_sbrk_all` shows that `copyuvm`'s assertion fails without it (finding 1); no
  other call is excluded. The invariant `FInv` says that a live process has every
  page below the size that it sees (`Viewed`), and what a path that fills a space
  has filled so far (`Filling`); `TInv` that a cached translation is below `sz` and
  equal to the table's entry, unless it is of a page that a shrinking `sbrk` is about
  to remove and flush (`Cached`). A step of one process leaves the space of another
  alone, by `ThreadsApart`; one lemma for each action says what it does to its own.
* `SharingIsInvisible`: `Spec => ImplementsPrivateMem`, under the same assumption.
  `DInv` (`DraftsAreTrue`) says what a path that is still running has written: that
  the child's entries below `copyuvm`'s cursor name the parent's pages (`Copied`),
  that the page fault handler's copy has the contents of the page, that pages which
  `allocuvm` has mapped are zero (`Written`), and that a new image is the program's
  and all of it may be stored to (`Built`). A step then changes either no process's
  view (`Unseen`) or exactly one, as PrivateMem allows. That a store changes one
  view only is where the counts are needed: the entry is the only reference
  (`WritersAreAlone`) and the translation that the CPU used is the table's
  (`CachesAreTrue`).

`FilesProofs` proves Files' safety properties, for any number of processes, inodes,
open files and names, and any set of calls with their paths:

* `ReferencesCounted`: `Spec => []RefsCountPointers`, for all paths. `RefInv` says at
  each label which of `at`, `dp`, `ip` and `put` a kernel thread has set, and that `ref`
  counts what points to an inode. The places that can point are a finite set
  `Ptr` that does not depend on the state, `Target` says where each points, and
  `Counts` that `ref[i]` is the number of places with the value `i`. A step moves,
  sets or clears few places, so `WhereMore` and `WhereLess` (one more, one less) and
  what follows from them serve every action but `fork`, which copies a whole row of
  descriptors: the child's descriptors of a file are as many as the parent's
  (`FdsOf`), and none of them was open before.
* `NothingFreedInUse`, `NamesKept` and `AssertionsKept`: `Spec => []NotFreedInUse`,
  `Spec => []NamesCounted` and `Spec => []AssertionsHold`, if no path contains `..`
  (`NoAscent`). The hypothesis is needed: the `..` of a directory that was removed may
  name a free inode (finding 11), and `open("..")` then panics in `ilock`. `.` may
  occur everywhere, and the calls of the run `files` satisfy it. `NameInv` counts in
  the same way: `Claim` is the set of all reasons for an inode to have a link (a
  name, the `..` of a subdirectory, a link that `sys_link` has counted and not made
  or that `sys_unlink` has unmade and still counts, and the root's own), and
  `Covers` says that `nlink` is at least the number of claims. That an inode with a
  claim is not freed needs this and that whoever frees it has tested `nlink` and
  `ref` in the same step; that a removal finds its entry unchanged needs the lock on
  the directory (`LocksOK`, `Knows`); that a walk meets no free inode needs the count
  of references (`RefInv`), as every variable that is set holds one (`Live`).

TLC checked each of these invariants before it was proved: those of Cow on the
configuration of `cow_any` and on three processes that fork and store,
`DInv` on three configurations of two processes with 8 to
10 pages that allow fork, exec and sbrk, one of them exit too; that of Pipe with
three processes, with and without `kill`; `NameInv` on the instance of `files`; that of
Spinlock with two CPUs, two processes and one lock besides `ptable.lock`; those of
ChampCache and Csma on instances of up to 500,754 states.

Only model-checked: the modules of the run `parts`, but for RWLock, Console, Shell,
Blocks, Spinlock, ChampCache and Csma; and every liveness property (fairness and ENABLED are out of the prover's reach). What the
recursive functions of Sh, Notakto and NormalForm compute is checked on bounded
inputs: induction over data is out of reach too (`UpTo` is for sets of numbers, and
says nothing of a definition), and so are Malloc, which declares RECURSIVE
operators, and the folds of Dram and Ptw.

## 7. Not modelled

Boot code and interrupt controllers (hardware programming that runs once),
argument decoding, the screen and the serial line, `usertests` and the small user
programs (they only make system calls that the models take as inputs), errors of
the disk, the mmap variant of the kernel (four files of a tree that is not in the
repository), zemaphore, the allocators and the quiz programs of the assignments,
error correction over sound, the spreadsheet (its state is in a database server
outside of the repository), ChampSim's predictors, prefetchers, replacement
policies and trace converters, mixed equilibria and voting rules (floating
point), and the sequential exercises and notebooks.
