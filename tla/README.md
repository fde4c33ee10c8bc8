# A TLA+ verification of the OS/161 kernel (polito-os161 v2.0.0)

The repository is a teaching kernel for System/161, a MIPS multiprocessor:
`src/os161/src/kern`, about 26,000 lines of C and assembly (no userland is
included).  This directory models the parts that carry its concurrent logic,
checks them with TLC on small instances, and proves the most important results
with TLAPS for every value of the constants.  Paths below are relative to
`src/os161/src/kern`.

## 1. Inventory

### Components, their state and their operations

| Component | State | Operations | Interacts with |
|---|---|---|---|
| Spinlocks, `thread/spinlock.c` | `splk_lock`, `splk_holder` | `spinlock_acquire`, `_release`, `_do_i_hold` | raises the level by `splraise`; everything below uses it |
| Interrupt levels, `thread/spl.c`, `locore/trap.c`, `cpu_idle` | `t_iplhigh_count`, `t_curspl`, the CPU's interrupt mask | `splraise`, `spllower`, `splx`, interrupt entry and return | handlers borrow `curthread` and its counters |
| Thread system, `thread/thread.c`, `clock.c` | per CPU: run queue, zombies, `c_isidle`, `c_curthread`; per thread: `t_state`, `t_cpu`; wait channels | fork, switch, yield, exit, `exorcise`, `wchan_sleep/wakeone/wakeall`, migration, `hardclock`, `clocksleep` | CPUs touch each other's run queues and send IPIs |
| IPIs, `thread/thread.c`, `lamebus_machdep.c` | `c_ipi_pending`, `c_shootdown`, `c_numshootdown`, the interrupt line | `ipi_send`, `ipi_broadcast`, `ipi_tlbshootdown`, `interprocessor_interrupt` | wakes idle CPUs; shutdown and panic |
| Semaphores, `thread/synch.c` | `sem_count`, `sem_lock`, `sem_wchan` | `P`, `V`, create, destroy | interrupt handlers call `V`; `waitpid` sleeps on one |
| Sleep locks and condition variables, `thread/synch.c` | `lk_holder`, `lk_lock`, two wait channels | `lock_acquire/release/do_i_hold`, `cv_wait/signal/broadcast` | all of proc, VFS and the file systems |
| Processes, `proc/proc.c`, `syscall/fork.c`, `main/menu.c` | `p_table`, `next_pid`, `struct proc` on the heap, `td_proc` | `sys_fork`, `sys_exit`, `___waitpid`, `proc_get`, `proc_destroy`, `common_prog` | locks, semaphores, the heap, open files, address spaces |
| Open files, `io/`, `syscall/file_syscall.c` | table per process, `f_refcount`, `f_offset` | open, read, write, close, dup2, lseek, copy at fork | VFS, processes |
| VFS, `vfs/` | `vn_refcount`, mount table, big lock | incref/decref/reclaim, lookup, mount, unmount, chdir | file systems, devices |
| semfs, `fs/semfs/` | counts, names, vnode table | read = P, write = V, truncate, create, remove, reclaim | locks, condition variables, VFS |
| SFS, `fs/sfs/` | free map, inodes, block maps, directories | block allocation, I/O, truncate, link, remove, sync | VFS, disk |
| Kernel heap, `vm/kmalloc.c` | page references, free lists | `kmalloc`, `kfree` | `alloc_kpages`; drops its spinlock around it |
| dumbvm, `arch/mips/vm/` | first free page, address spaces, TLB | `alloc_kpages`, `as_*`, `vm_fault` | traps, fork, exec |
| Program loading and user memory, `loadelf.c`, `fork.c`, `copyinout.c`, `uio.c` | address spaces of a thread, `kargbuf`, `lk_exec` | `runprogram`, `sys_fork`, `sys_execv`, `copyin/out`, `uiomove` | dumbvm, processes, files |
| LAMEbus, `dev/lamebus/lamebus.c`, `autoconf.c` | slots in use, handlers, count of duds | probe, attach, `lamebus_interrupt` | every driver |
| Disk, `dev/lamebus/lhd.c` | `lh_clear`, `lh_done`, `lh_result` | I/O from threads, completion from interrupts | semaphores, SFS |
| Console, `dev/generic/console.c`, `lser.c` | ring buffer, two semaphores, delay buffer, the line's two interrupts | `putch`, `getch`, `con_io`, polled writes | `kprintf`, the menu, con: |
| emufs, `dev/lamebus/emu.c` | handles, vnodes, the register protocol's lock | open, close with retries, read, write | the host, VFS |
| Timer, `dev/lamebus/ltimer.c` | - | interrupts, `gettime` | time system calls |
| Boot, menu, tests, library, system call dispatch, other devices | - | - | sequential, see section 7 |

### What is hard here

* *Concurrency.*  CPUs share run queues, wait channels and lock words; an
  interrupt handler runs on the stack and counters of the thread it interrupts;
  an idle CPU runs on the stack of a thread that may already be ready elsewhere.
* *Atomicity.*  `P`, `lock_acquire` and `cv_wait` let go of one lock before they
  sleep on another; migration counts under one lock at a time; `proc_create`
  takes a pid long before it fills its slot; `waitpid` sleeps on a struct it has
  unlocked.
* *Lost events.*  An IPI is a bit under a lock and a line that is taken down
  without it; a wakeup may come before the sleep.
* *Limits.*  `c_numshootdown` is a count with a marker inside its type; the
  process table, the shootdown queue, the TLB, the volume, the console's ring
  and the memory, of which no page ever comes back, fill up.
* *Partial failure.*  An allocation may fail between taking a pid and using it;
  a program may fail to load with its parent already waiting; an exec fails with
  the new address space in place, a rename with the new name made, a device's
  driver with the device attached.
* *Crashes and retries.*  SFS writes directories and tables at once, inodes and
  the free map later; a block write that fails is tried again with nothing left
  in the `uio`; `emu_close` tries ten times.
* *Lifetimes.*  Vnodes, struct files, semaphores of semfs, struct procs and
  emulator handles are counted by hand, over paths that fail half way.
* *Liveness.*  Every sleeper must be woken, every ready thread must run.

`PROJECT.json` lists the most important of these as hazards, each at its line,
with the properties that would catch it; section 4 lists what the code does
about them today.

### What makes each component correct

* Spinlocks: one owner; `splk_holder` right when it matters; interrupts off
  exactly while a lock is owned or awaited.
* Threads: a thread is in one place, on one stack, the stack is alive; none is
  lost, and a ready one runs.
* IPIs: an idle CPU with work is woken; what was requested stays pending until
  it is performed.
* Semaphores, locks, condition variables: they implement their atomic
  specifications; no wakeup is lost; callers return.
* Processes: a pid leads to the child it was given for; a struct is not freed
  under a waiter; `waitpid` reports the child's code and returns.
* Open files, vnodes: a counted object lives as long as it is referenced and no
  longer, whichever step of a call fails; calls return with nothing locked.
* semfs: a semaphore counts what was put and got, wakes its sleepers, and keeps
  its name and number while it is open.
* SFS: every block is in one place; links are counted; a synced file survives a
  power failure; what is seen is an abstract file system.
* Memory: a page and a block have one owner; a process finds its own memory
  wherever it runs; copies touch the user's part only.
* Devices: each call gets the answer to its own request, and gets it; characters
  are neither lost nor doubled.

## 2. Modules

| Module | Models | Extended or used by |
|---|---|---|
| `Allcpus` | the CPUs there are, and what is none | `Spinlock`, `Ipi` |
| `Spinlock` | spinlocks, levels, interrupt entry, idle | `MCSpinlock`, `Synch_proofs` |
| `Thread` | the thread system | `MCThread`, `Thread_proofs` |
| `Ipi` | inter-processor interrupts | `MCIpi`, `Synch_proofs` |
| `Synch` | the threads that call both | `Semaphore`, `Monitor` |
| `AtomicSemaphore` | what `include/synch.h` promises of P and V | `Semaphore` (refinement) |
| `Semaphore` | P, V over two spinlocks | `MCSemaphore`, `Synch_proofs` |
| `AtomicMonitor` | what `include/synch.h` promises of a lock and its CV | `Monitor` (refinement) |
| `Monitor` | locks and condition variables over three spinlocks | `Monitor.cfg`, `Synch_proofs` |
| `Proc` | processes | `MCProc`, `Proc_proofs` |
| `FileTable` | descriptor tables and struct files | `MCFileTable`, `FileTable_proofs` |
| `Semfs` | semfs | `MCSemfs`, `Semfs_proofs` |
| `FileSystem` | what a volume promises | `Sfs` (refinement) |
| `Sfs` | SFS on a disk that may fail | `MCSfs` |
| `VnodeOps` | the function tables of the kinds of vnodes | `Vfs` |
| `Vfs` | the VFS and emufs | `MCVfs`, `Vfs_proofs` |
| `Ram` | pages before and under dumbvm | `Kmalloc`, `AddrSpace` |
| `Kmalloc` | the kernel heap | `Vm` |
| `AddrSpace` | address spaces, TLBs, faults, exec, exit | `Vm` |
| `Copyinout` | the arithmetic of copies and of argv | `Vm` |
| `Vm` | the three on one memory | `MCVm`, `Vm_proofs` |
| `Lamebus` | probing, attaching, interrupt dispatch | the four below |
| `Lhd`, `Emu`, `Console`, `Ltimer` | a driver and its device each | `Devices` |
| `Devices` | the devices on one bus | `MCDevices`, `Devices_proofs` |

The modules form layers.  Each takes from the one below what that one shows of
it: `Thread` takes a spinlock in one step (`Spinlock` shows they exclude),
`Semaphore` and `Monitor` take a spinlock in one step and assume that a thread
which is not asleep runs (`Thread`'s `ReadyRuns`), and `Proc`, `FileTable`,
`Semfs`, `Vfs` and the drivers take sleep locks and semaphores as atomic
(`Monitor` and `Semaphore` refine the atomic ones).  `Vfs` and `FileTable` take
the file systems' calls as steps that succeed or fail, which `Sfs`, `Emu` and
`Semfs` model; `Sfs` takes the disk as blocks that are read and written, or fail,
which `Lhd` shows of it.  `Vm` and `Devices` compose modules that share state:
one memory, one bus.

### Grain and correspondence

Variables have the names of the fields they stand for (`splk_holder`,
`c_ipi_pending` as `ipi_pending`, `lk_holder`, `p_table`); `pc` says where in
the code a CPU or thread is.  Actions have the names of the functions, or of
the part of the function that is one step.  `PROJECT.json` ("map") gives the
source lines of every definition.

* **Spinlock.**  One step is one access to memory another CPU sees or one
  change of this CPU's interrupt state.  `splraise` is two steps
  (`SplraiseIrqoff`, `SplraiseCount`); `spinlock_acquire` is the level, the
  check for a lock this CPU holds, the plain read (`SpinlockGet`), the
  test-and-set that may fail for no reason (`TestAndSetWins`/`Fails`) and the
  store of the holder; release undoes them in order.  Every CPU has a thread
  and an interrupt context on the same counters.  Clients take locks in the order of their numbers.
* **Thread.**  One step is what a CPU does between two points where another
  can interfere: while it holds the lock that protects what it touches it is not
  disturbed.  `thread_switch` is split at the run queue lock, the idle loop and
  the switch itself; `thread_consider_migration` at each lock it takes, with the
  counts and victims in `mig`; a wakeup at the gap between leaving the channel
  (`list`) and entering a run queue.  `Queues` are all the lists a thread may
  be on, `Places` are these and the CPUs: a thread is in exactly one (`OnePlace`).  IPIs are one flag per CPU, which `Ipi`
  refines.  `clocksleep` is left out: it calls `wchan_sleep` without locking
  its channel, and its first use fails an assertion of `spinlock_release`.
* **Ipi.**  The bit, the line and the two locks are apart.  Run queues are
  their lengths (`work`).  What a handler has still to invalidate is a set of
  mappings (`todo`), and `asked` counts the shootdowns requested of a CPU since
  its handler last ran; `MaxShootdowns` bounds it, and `RequestsFit` says that
  the bound is one the queue and its marker cover.
* **Semaphore, Monitor.**  A step ends where a spinlock is taken while another
  is held, where one is released, or where the thread sleeps.  A wait channel is
  the sequence of its threads.
* **Proc.**  A `struct proc` is a heap address that `kmalloc` may hand out
  again; `forker`, `kids`, `exitcode` and `status` record history for the
  properties.  What is done under `lk_allproc` is one step, except `proc_get`,
  which waits for `p->lock` with it.  The exit status goes through
  `_MKWAIT_EXIT` and `WEXITSTATUS` as `include/kern/wait.h` computes them, in an
  int: a code that 30 bits do not hold loses its top bits.
  `StructOf` is the struct a child was given at its fork; that its pid leads to
  it is stated for programs that race no forks and wait only for their own
  children (`Orderly`).
* **FileTable.**  A step ends where another process can come in between: at
  `f_lk`, around the VOP of a read or write, between a change of `f_refcount`
  and its test.  The counts of descriptors wrap as the `uint16_t` they are.  A
  parent that copies its table names the `child` it fills.  A file's flags are an
  access mode and a set of further flags, of which only O_APPEND matters to the
  code; `f_oflags` keeps all of them, and is compared as a whole.  `moved`
  records where a file's offset should be.
* **Semfs.**  What is done under `sems_lock` is one step; the directory's, the
  table's and the VFS's big lock are variables, because they are held while
  another is waited for.  `due` and `opened` record history.
* **Sfs.**  Every call holds the big lock, so a call is one step, built from
  functions on the state of the volume in the order of the code: every block it
  reads or writes goes through `sfs_rwblock`, where the disk may fail once or
  lose its power.  Blocks hold cells; sizes are in cells.  `FileSystem` is the
  volume as its users see it: names, and bytes, each call at once.  `safe` is
  the contents of a file that was synced and not touched since.
* **Vfs.**  A function of `vfslist.c` or `vfslookup.c` and a VOP are a step each,
  under the big lock; the calls of `vfspath.c`, `vfscwd.c` and of the file system
  calls are the sequences of them the code makes, with their ways out.
* **Kmalloc.**  A step is what is done under `kmalloc_spinlock`, which is dropped
  around `alloc_kpages`.  **AddrSpace.**  A page's contents are one value.
  `vm_fault` is two steps (the entry is computed, then written), and between any
  two steps the thread may be switched away and go on elsewhere; `view` is what
  the process wrote or was loaded with.  A segment is an address and two sizes
  in bytes, which `as_define_region` and `load_segment` turn into pages.
  **Copyinout** is functions on machine
  words of `WORD` values, compared with what they should give for all of them.
* **Lamebus, Lhd, Emu, Console, Ltimer.**  The boot processor runs autoconf,
  then one handler at a time to its end; the threads' steps, the devices' and
  the handlers' interleave.  A device's registers are written and read one by
  one where an interrupt can come between.  Devices are external: they assert
  their line when they are done and answer with what they were asked for, so
  that a mixed-up answer shows.

### Environments

Where the code cannot cope with something that programs or devices may do, the
module has an *event* for it.  `Init` chooses a set of events out of
`Environments` (or a record out of `Settings`), and it stays chosen: the empty
set is a system in which none of them happens, the others let the one event
happen at any time.  `NoPanic` says that no assertion fails and no freed or null
object is used but those that `Breaks` lists for the events at hand: the run
shows both that the quiet system is right and how far the damage of each event
goes.  Properties that an event breaks say so in their conditions.

Where the code has parts that do not meet, or only by waiting for each other, a
setting also gives each part a budget of calls, so that a run has all parts
alone at full size and together at a smaller one.

The definitions with a `\* mutant` comment are plausible slips in the same
code.  They are not part of any specification; each shows that some
property would notice.

## 3. What TLC checks

Bounds are the constants marked `bound` in the modules and the sizes below.  A
run checks few named properties; most are conjunctions of invariants that each
have a name and a comment of their own in the module, the type invariant among
them.

| Run | Instance | Shows |
|---|---|---|
| `spinlock` | 3 CPUs, each a thread and a handler, 2 locks | `MutualExclusion`; holder and interrupt state are right (`CpuStateRight`); `NoPanic` |
| `thread` | 2 CPUs, 3 threads, 2 wait channels, all calls | no thread is lost or in two places, no idle CPU with work and no IPI (`NoThreadLost`); no shared or freed stack (`StacksSafe`); `NoPanic`; a thread made ready runs (`ReadyRuns`) |
| `ipi` | 2 CPUs, queue of 2, up to 3 requests between handlers | idle CPUs are woken, shootdowns stay in the queue until they are performed (`IpisArrive`) |
| `semaphore` | 2 threads that P, 2 that V, count 1, one of them then destroys it | `SemIsAtomic`; no lost wakeup and no V inside at the destruction (`VWakesThenLeaves`); all return; the count's type |
| `monitor` | 3 threads, 2 acquisitions each, any waits and signals | `LockExcludes`; nobody sleeps for a lock that nobody will release or hand on (`NobodyStranded`); `RefinesAtomic`; every `lock_acquire` returns |
| `proc` | the menu and 3 processes, 3 slots, 3 addresses; with 2 processes exit codes that fit and one that does not, and each event and all of them | pids, status, structs (`WaitsForItsChild`), `NoPanic`, every `waitpid` returns |
| `files` | 2 processes, 2 files of one vnode, 2 descriptors; each event | counts, offsets, modes (`FilesRight`), `NoPanic`, exit returns |
| `semfs` | 3 threads, 1 name, 3 semaphores, counts to 2; events | `SemaphoresRight`, `NoPanic`, opening returns |
| `sfs` | 8 blocks, 2 names, files of one direct and two indirect blocks, 4 calls; power failure or one I/O error | `Consistent`, `SyncedSurvives`, `NoPanic`, and that it is a file system (`Refines`) |
| `vfs` | 2 threads, a disk with a volume, emufs with 3 handles, null:, 3 calls; each event | `RefsRight`, `HandlesRight`, `NoPanic`, calls return |
| `vm` | 9 pages of memory, heap pages of 8 bytes in 2 sizes, 2 callers; 2 processes on 1 or 2 CPUs, TLB of 3; 16 settings | `HeapSound`, `MemoryApart`, `UserDataRight`, `NoPanic` |
| `devices` | 5 slots (one without a driver), 2 threads, a ring of 3, 14 settings | `IoRight`, `NoPanic`, calls return |

Why these sizes suffice for the interesting cases: three CPUs let two lose a
race for a lock the third releases; with two CPUs and three threads a run queue
is too long while the other is empty, so migration has victims, and an idle
CPU's thread can be woken, queued and migrated; the shootdown bound is one past
the size of the queue, so the overflow marker is set; two sleepers and two wakers
let a second `V` come before the first sleeper runs; three threads give a lock a
holder, a sleeper and a thief; three slots and three processes make pids wrap and
structs be reused.  Two descriptors fill a table, and two processes share a file
over a fork.  A count that ends at 2 overflows, and two V of one come before the
reader of the first.  Eight blocks, of which five are free and the directory takes one, are
used up in the middle of an indirect write; four calls make, sync, change and remove a file.
Three calls of two threads put one call inside another and use what it left.  A
page of heap holds four blocks of one size or two of the other, so both callers
fill pages; the memory is used up; a TLB of three entries is full with the pages
of a program that has four.  A ring of three keeps two characters, so the third
is dropped and the indices wrap.

`spinlock` and `thread` check for deadlock.  The others may stop (calls used up,
threads that wait on a condition variable nobody signals, a menu whose program
did not load, a kernel that stopped on an assertion, a halted machine) and
disable that check.  Symmetry is used only in runs without liveness.

### Fairness

* `Thread`: a CPU gets on with its code though its timer interrupts it and
  another CPU has the run queue lock it spins for, and its timer interrupt is
  taken (both strong: interrupts go off and on, the lock is free for most of
  every tick, and test-and-set picks no favourite).  The code has no queue for
  spinlocks, so this is an assumption on the hardware.
* `Semaphore`, `Monitor`: strong fairness of each thread's steps; runnable
  threads run (`ReadyRuns`) and spinlocks are won.  `Monitor` also assumes
  that a holder releases the lock, and bounds the acquisitions: with no bound a
  thread may be overtaken for ever, which `lock_release` permits.
* `Proc`, `FileTable`, `Semfs`: threads run and sleep locks are obtained
  (`AcquireReturns`: strong where a lock is waited for that others take again
  and again); every program calls `_exit` in the end.
* `Vfs`: threads run; a call under the big lock is one step, so weak fairness is
  enough, and there are finitely many calls.
* `Devices`: autoconf and handlers get on, a device ends what it was given (the
  disk, the host, the serial line), and threads run.  Nobody has to type, so a
  read of the console need not return.

## 4. What the code does not survive

These were met while modelling.  Each is reachable in the run named; the event
in parentheses lets it happen, and `Breaks` says what fails.

* Processes (`proc`): two forks racing for a slot get one pid (`concurrent`);
  `proc_create` out of memory frees a pid whose slot is empty (`nomem`);
  `sys_fork` with a full table follows a null pointer (`full`); `waitpid` for
  somebody else's child takes the lock of a struct its parent is freeing
  (`foreign`).  Two forks with one pid go on to share a slot: one child's struct
  is freed by the other's parent, so that a lock is taken that was freed, or
  destroyed while held, and a `waitpid` may report another child's code.  A
  `foreign` waiter may also destroy the struct and free the pid that the parent
  still waits for, which the next fork then gives to another child.  A program that cannot be loaded leaves the menu waiting for ever
  (`loadfail`).  Orphans keep their slots for good.
* Files (`files`): closing the last reference to a file destroys the lock of the
  table and does not uncount the descriptor (`close`); dup2 onto an open
  descriptor gives up the wrong file (`dup2`), after which a count may be
  anything, 0 included; open closes the vnode twice when
  the table is full or VOP_STAT fails (`full`, `stat`), or leaves a freed file in
  the table (`nomem`); descriptors between MAX_OPEN_FILES and OPEN_MAX are read
  past the table, and dup2 writes there (`badfd`; file_syscall.c:118, 130); of two
  overlapping reads of a shared file one does not move the offset (`overlap`).
  `k_open` stores all the flags of open (file_syscall.c:76) and `sys_read` and
  `sys_write` compare them with O_WRONLY and O_RDONLY alone (157, 182): a file
  opened O_WRONLY|O_CREAT can be read, one opened O_RDONLY|O_CREAT written
  (`flags`).  `ModeKept` is stated of files opened with their mode alone.
* semfs (`semfs`): a V before the reader woken by the last one has run wakes
  nobody (`later_v`); creat of an open semaphore takes the big lock with the
  directory's held and may wait for ever (`creat_open`); the last close fails an
  assertion (`reclaim`); creat out of memory returns 0 and no vnode (`nomem`);
  getdirentry meets a removed entry (`readdir`).
* SFS (`sfs`): the second try of a failed block write writes nothing and
  succeeds (`eio`).  `sfs_itrunc` spares the first block past the end when it is
  an indirect one; `NothingPastEnd` admits it.  A write allocates its block
  before `uiomove` finds the user's buffer bad (sfs_io.c:179 and 205, 244 and
  276): the block stays, past the end too, where the size is as before (`badbuf`).
* VFS and emufs (`vfs`): emufs out of memory returns with the big lock held
  (`nomem`); `emufs_creat` may find its handle closed where the emulator gives
  a file that is open the same one (`shared`); lseek on anything but an emulator
  file calls a null function (`seek`); swap's references are never given back.
  `emufs_reclaim` takes the vnode's spinlock (emu.c:483), which `vnode_init` does
  not set up (vnode.c:25): in a block that `kfree` has filled with 0xdeadbeef
  (kmalloc.c:1109) it looks held, and who gives up the last reference spins for
  ever with the big lock and `e_lock` held (`reused`).
* Memory (`vm`): sums of addresses wrap in `ram_stealmem` (`huge`); a program of
  one segment panics the kernel at its first fault (`one segment`), one of more
  pages than the TLB has entries (`many pages`) or with a bad access (`bad
  access`) too.  `as_define_region` rounds sizes in 32 bits (dumbvm.c:250-257), so
  that a segment of no bytes, or of nearly 2^32, has no pages, and takes a
  region at page 0 for one not set up, so that another is put in its place, a
  third accepted: `load_elf` refuses neither, and `vm_fault`'s assertions fail
  (`empty segment`, `page 0`).  `copy_args` never compares the sum of the
  arguments with `kargbuf` (fork.c:255-321): two of 40K each overrun it at the
  memcpy in line 306 (`long arguments`).  `align_arg` also pads one byte behind an
  argument that fills `karg`, which is left out.  `sys_read` prints the user's
  buffer (`read`); getcwd names an
  address space nobody set (`getcwd`).
* Devices (`devices`): a slot with no handler that keeps its line up ends in a
  panic (`stuck`); a key typed before the console is set up is put through
  pointers not yet set (`typed_early`); a driver that fails leaves its device
  attached, and without a console the delay buffer fills (`no_memory`); `getch`
  takes no lock, so two readers take one character twice (`two_readers`).
  `c_spinlocks` is never counted (spinlock.c:86, 128), so `kprintf` and `putch` do
  not see that their caller holds a spinlock (kprintf.c:102-105,
  console.c:208-215): `kheap_printstats` (kmalloc.c:801-817) sleeps with
  `kmalloc_spinlock` (`spinlock_held`).  Who wants the lock meanwhile panics on
  that processor and spins on another; when that is the boot processor, no serial
  interrupt wakes the sleeper and the call never returns.  A sleeper that goes on
  on another processor cannot release the lock.
* IPIs: one sent between the handler's last look at its bits and
  `lamebus_clear_ipi` is recorded and raises no line.  For `IPI_UNIDLE` this is
  harmless (`IdleWakes`); an `IPI_OFFLINE`, an `IPI_PANIC` or a shootdown waits for
  the next IPI (lamebus_machdep.c:304), the shootdown in the queue, with the CPU's
  TLB as it was.
  The shootdown request after the one that sets `TLBSHOOTDOWN_ALL` uses the
  marker as an index (`MCIpi.cfg`, `MaxShootdowns = 4`); nothing calls
  `ipi_tlbshootdown` in this version.
* `clocksleep` calls `wchan_sleep` without locking its channel and fails an
  assertion at its first use; it is left out of `Thread`.

## 5. What is proved

The theorems hold for all constants that satisfy the named assumptions of the
modules, which TLC evaluates on every run.  They say that sets named apart are
apart (`NoneAssumption`, `NoCPUAssumption`), that counts are natural numbers,
that locks are ordered (`LocksAssumption`), that the threads of `Semaphore` are
finitely many, the descriptors of `FileTable` fewer than their counts hold
(`CountsFit`), and the threads of `Semfs` finitely many, with counts to at least
the 2 that a call asks for at most (`SemfsAssumptions`), the threads of `Vfs`
finitely many, its volumes and names apart from each other and from `NULL`
(`VfsAssumptions`, `NullAssumption`).  A board has one device of a kind, a
console among them, and no more stray interrupts than `lamebus_interrupt` puts
up with before it panics (`LamebusAssumptions`); the ring has a slot and a line
has a character (`ConsoleAssumptions`).  In `Vm`, pages are numbered from 1 and
memory ends below the top of the address space (`RamAssumptions`); block sizes
are positive, ascend and fit a page (`KmallocAssumptions`); the user stack, which
`as_define_stack` puts below USERSTACK, has room there (`AsAssumptions`); and a
program has at most as many segments as `as_define_region` takes, of any size,
empty or in page 0 too, whose file contents lie below USERSTACK, or `load_elf`
and `copyout` refuse it, which is an event of its own (`ProgramAssumptions`).
Half of an int's values are negative, and exit codes are ints
(`ProcAssumptions`).  Each proof is of an inductive
invariant, one step per action, and what several actions do to one kind of
state (a queue, a table, a place) is a lemma.

**Spinlock** (`Synch_proofs`).

* `SpinlockMutualExclusion`: exclusion alone is not inductive: nothing would stop
  a second test-and-set.  `ExclusionInv` adds that the word of an owned lock is
  1, and that a context about to clear it no longer counts the lock among its own.
* `SpinlockCpuStateRight`: `CpuInv` makes `t_iplhigh_count` a sum: the locks held
  by both contexts of the CPU, `t_curspl`, and one for every acquisition or
  release in progress (`Owed`).  `ThreadRuns` and `HandlerRuns` say which of the
  two is stopped and with what level it is resumed.
* `SpinlockNoPanic`: from these and `HolderAgrees`; a context that takes locks
  in order never finds itself their holder.

**Semaphore** (`Synch_proofs`).

* `SemaphoreTypeOK`: that `P` never takes the count below zero needs `SemInv`: a
  thread in a call still has it to complete, the channel holds sleeping threads,
  each once, and a spinlock's holder is where the code holds it.
* `SemaphoreRefines`: `SemSpec => SemIsAtomic`.  Under `SemInv` every step is an
  atomic P, an atomic V or a stutter.
* `SemaphoreNoLostWakeup`: for any calls of any threads, a step that lets a thread
  sleep or takes a unit keeps as many woken or waking threads as the count needs.
* `SemaphoreWakesThenLeaves`: if the initial count and all V are no more than the
  P (`EveryVForAP`), the count, the P and the V left balance (`Balance`), so that
  after the last P every V has been made, and `DoneInv` that none is inside at the destruction.

**Monitor** (`Synch_proofs`).

* `MonitorExcludes`: `MonitorInv` needs both channels to hold only
  sleeping threads, each once, since a wakeup changes the state of whoever it
  takes off.  `Joins` and `Leaves` are the facts on queues behind it.
* `MonitorNobodyStranded`: `StrandInv` adds that whoever found the lock held has the
  channel locked until it is on it, and stays on it while it sleeps, so that the
  `wchan_wakeone` of the next release finds it.
* `MonitorRefines`: `Spec => RefinesAtomic`.  `WaitInv` adds that a thread which
  has put itself on a channel and not yet let go of the lock holds what the
  code says, so that `cv_wait` appears to release and wait at once.

**Ipi** (`Synch_proofs`).

* `IpiWakes`: a CPU that idles with work has its line up, however many shootdowns
  are asked for.  `WakeInv` says who may hold a run queue between two steps.
* `IpiArrive`: with `RequestsFit`, no shootdown leaves the queue before it is
  performed: `ShootdownInv` makes
  `c_numshootdown` the number of requests since the handler ran, with the
  marker for one more than fit.

**Thread** (`Thread_proofs`).

* `ThreadNoThreadLost`, `ThreadStacksSafe`, `ThreadNoPanic`, from `ThreadInvariant`.
  `PlacesRight` says that a thread is in exactly one place, once, and one that
  does not exist is in none; `CpuRight` where `t_cpu` points, for zombies, victims
  and the threads of run queues; `CodeRight` what a CPU holds and has counted
  where it is in the code.  Every step is a *move*: some threads go from one place
  to another, and all else stands.  `Moves` shows once that a move keeps
  `PlacesRight` and `CpuRight`; `Stands`, `Shuffles`, `Comes` and `Goes` are its cases.
  What a CPU has read of another's run queue stays valid because others only
  append to it while it is looked at (`Spares`): migration counts under one lock
  at a time and still never takes a victim from an empty queue.  The assumptions
  say that the boot threads are different threads, and `lbolt` a channel; the set
  `Calls` of what threads do is any.

**Proc** (`Proc_proofs`).

* `ProcWaitedStaysLive`: for *any* environment, racing forks, foreign waits and
  failed allocations included, nobody frees the struct a `waitpid` sleeps on.
  `StructsRight` says who owns a struct that is being made, waited for or freed, and
  what is true of its lock, its semaphore and `p_is_dead` at each point.
* `ProcWaitsForItsChild`: without `concurrent`, a slot taken by `proc_alloc_pid` stays
  that thread's until it is filled or given back (`SlotInv`); then, for programs
  that are `Orderly`, a child not waited for has one struct, in the slot of its
  pid, that carries its exit code once it is dead (`KidInv`).  `StatusOfExit` is the
  arithmetic of the status.
* `ProcNoPanic`: every assertion, null pointer and freed lock is reached only with
  an event that `Breaks` lists for it.  The attempt to prove a shorter `Breaks`,
  in which racing forks only meet an empty slot, failed for the reason given in
  section 4, and a simulation of six threads then showed it.

**FileTable** (`FileTable_proofs`).

* `FileTableNoPanic`, `FileTableFilesRight`, from `FileTableInvariant`: for *any* set
  of events, each claim under those it tolerates.  `TablesInv` says that the
  table of a process that does not exist is empty, that a child has exactly the
  entries its parent has copied so far, that a call works on the file its
  descriptor leads to, and that `fd_nfiles` counts the entries in use; this is
  why `file_copy`'s and `fd_destroy`'s assertions hold.  `CountsInv` relates the
  counts to sets: `f_refcount` to the descriptors of all processes that lead to
  the file (`Slots`), the count of a vnode to the references to it
  (`References`).  Since close and dup2 break the first and k_open's failures the
  second, it also keeps what survives them: `RefsFit`, no more references than
  descriptors, and `VnodeEnough`, no fewer than will be given back; without these
  `close` alone could not be shown to spare the vnodes.  `CalmInv` says who has a
  table and who has locked what, while nobody calls close or dup2.
* A step changes one entry and one struct file.  What that does to `Slots`, `Used`
  and `References`, and to their numbers, is shown once of sets (`FillSets`,
  `ClearSets`, `ReferencesOpen`, ...); then each action is shown to be such a change,
  and each kind of change to keep the three parts.
* `CountsFit` assumes that there are fewer descriptors than a `uint16_t` counts:
  the code has 32 processes with 8 each.
* The attempt failed twice for good reasons.  The count of a file that dup2 has
  left behind may be 0 when the file is closed, so `Breaks` gained that
  assertion; and a file freed under a call by `close` may be another's when it
  is used, so `ModeKept` is stated of programs that do not close.

**Semfs** (`Semfs_proofs`).

* `SemfsNoPanic`, `SemfsSemaphoresRight`, from `SemfsInvariant`, for *any* set of
  events.  A number leads to a semaphore of its own, which has a vnode just while
  the vnode is referenced (`TableRight`); the references are the threads that have
  the number open (`CountsRight`); entries have different names and different
  numbers (`NamesRight`); a call between finding a number and getting its vnode
  has the directory locked (`CallOf`).  From these together: `semfs_remove` frees a
  semaphore only when nobody has it open, `semfs_creat` gives out no number that
  somebody has, and `OpenStays` and `NamesOnce` hold.
* That no reader is stranded rests on `WakesRight`: while readers sleep, a positive
  count is exactly 1, since any other would have woken them all, and one woken
  reader is on its way, which takes it whole; and on `SleepRight`, that who is on a
  channel sleeps, once, on the semaphore it has open.
* The arithmetic of `semfs_write`'s overflow test is `SumIs`: a sum of at most 2 more
  that is not below the old count did not wrap.

**Vfs** (`Vfs_proofs`).

* `VfsRefsRight`, `VfsHandlesRight`, `VfsNoPanic`, from `VfsInvariant`, for *any* sets of
  paths, calls and events.  `CallsRight` says which references a thread has at each
  point of a call, and `GoneHaveNothing` that one which has exited, or was not made
  yet, has none.  `Counted` relates the count of a vnode to the sets of threads
  that have it open, as current directory or in a local (`Refcount`): equal, but
  that a vnode of the emulator keeps a count for each handle the emulator failed
  to close (`media`).  `Fresh` says that nothing is called before the last device is added.
* A step takes a reference, passes it on or gives it up.  What that does to the
  counts is shown once of the sets (`OneDiffers`, `MoveCounts`), with `Gain`
  the difference; `TakesKept` and `DropToKept` then serve all the calls, and each
  action is shown to be one of these steps at each of its exits.
* `FsStays` needs more than the counts: that what a step takes is `Takable`, on a
  volume that is mounted.  It is, because the path begins at a mounted volume
  or at a vnode somebody has (`HeldTakable`), and `vfs_unmount` refuses while a
  vnode of the volume is loaded.
* That no handle is left open rests on `HandlesUsed` with `Reserved`: between
  `emu_open` and the vnode the handle belongs to one call, which closes it if the
  vnode cannot be made.

**Devices** (`Devices_proofs`).

* `DevicesNoPanic`, `DevicesIoRight`, from `DevicesInvariant`, for *any* board, number
  of threads and of calls, sizes of the buffers and set of events.  For the disk
  and the emulator the invariant says where a request is: with its caller, the
  device, the handler, or reported by the semaphore and not yet taken
  (`LhdPhase`, `EmuPhase`), and what the registers and the buffer hold at each
  of these points.  That one thread at a time has a request is the semaphore
  `lh_clear` and the lock `e_lock` (`LhdInv`, `EmuInv`).
* `lser_write`'s assertion rests on `ClearRight`: leave to write is in one place, the
  semaphore, a thread that has waited for it, the device, or the handler that
  gives it back.  `PortRight` adds what the polled code finds and must leave in
  the interrupt register when it comes in the middle of this.
* `InputRight` rests on `RingRight`: what is between tail and head is what was kept
  and not yet taken, in order, and `cs_rsem` counts it, short of the reader
  that has waited and the character whose V is still to come.  `ModIs`, `TailMoves`
  and `HeadMoves` are the arithmetic of a ring of any size.
* `LtimerRight` needs that a reading began a bounded time ago (`TimeInv`) and the
  assumption on `GAP` and `SMALL`: a reading takes no longer than the first part of
  a second, the code's 5 ms, in which the second value of the seconds counts.
* A step of one driver's code is seen by the others as `Away`: the bus is theirs
  as before, and no call of theirs has changed.  This keeps each driver's part,
  so that the steps of each are proved with its own alone.
* `BusRight` covers autoconf: between probing, marking and attaching a slot nobody
  else takes it, and who is ready has a slot whose interrupts lead to it, which
  is why `lamebus_interrupt` counts only stray interrupts as duds.
* The attempt showed that the model let a request of no sectors in, which `lhd_io`
  answers without waiting for `lh_clear`; `LhdIo` now does too.

**Vm** (`Vm_proofs`).

* `VmMemoryApart`, for *any* number of processes, processors, pages, programs, block
  sizes and events: a page has one owner (`PagesOnce`), an address space one
  process (`AsOwned`), and every TLB entry of a processor is what `vm_fault` makes
  of the address space that runs there (`TlbRight`).  The first and the last
  are claimed unless a size wraps around (`huge`).
* None of the three is inductive.  `CallRight` adds what a thread has at each point
  of fork, execv, load_elf and exit: which address space is current, which is
  kept as `old`, which is made as `new`.  `OwnRight` says that an address space
  exists just while one of these leads to it, and that only one does.
  `FaultRight` says that an address which faulted is of the address space that
  is current and has no entry yet; without it `vm_fault` could make a second
  entry for a page.  `SizesRight` keeps regions short of a wrap-around, so
  that what `ram_stealmem` hands out for them is above all it has handed out.
* For `AsOwned` and `TlbRight` a step of a process is one of `Acts`: the calls of all
  others stand, and at most one address space comes, goes or changes.  `OwnKept`
  and `EntriesKept` show once what such a step keeps.
* For `PagesOnce` a step of a process is one of `Moves`: regions are forgotten or
  passed on, or one region of one address space takes pages that
  `ram_stealmem` has just handed out.  A step of `kmalloc` or `kfree` does the same
  between the lists of the heap.  `OnceMoved` shows it of both: if every page of the
  kernel was there before under one owner, or is new, no page has two.
* `VmHeapSound`, for *any* number of callers, sizes of blocks and of requests, whatever
  calls of `kmalloc` and `kfree` meet while one has dropped `kmalloc_spinlock`.  It
  needs `HeapInv` beside what the first theorem has.  `RefsInv` says that the entry a
  call has marked for a page to come is nobody else's (`KcallRight`), that roots
  get their pages in order (`RootsRight`), and that, while there is memory, each
  marked entry is a record or such a call's (`CountRight`).  `Lists` says that the
  list of all pages has each record once, and the list of a size just the
  records of that size; `BlocksRight` that a page's free list and the blocks
  callers have of it are apart and are all its blocks.
* What a list is after a record was put first, removed or looked for, and what
  a block more or less does to a page, is shown once of sequences and sets
  (`Once`, `Elements`, `TakeIs`, `PutIs`, ...).  Each call then leaves the records alone,
  takes a block (`BlocksTake`), adds a page (`BlocksAdd`), gives a block back
  (`BlocksPut`) or gives up its page with it (`BlocksGo`).  That `kfree` finds the right
  page rests on `PagesOnce`: pages of two records differ.  It also follows that
  `kmalloc` and `kfree` meet none of the assertions modelled, without `huge` (`Kept`).
* `VmNoPanic`, from `PanicInv` beside all of these.  Each address space is as
  `as_define_region` leaves it for a program that may run (`BuiltRight`), it has its
  pages unless the thread that prepares it is under way (`BasedRight`), and
  TLB entries, faults and the pages still to be copied are pages its program uses
  (`UseRight`).  Then `vm_fault` finds the TLB full only with `many pages`, by
  counting entries against pages in use (`NoRoom`), an address space without its
  second region only with `one segment`, `empty segment` or `page 0`
  (`NotSetUp`), and no RAM behind an
  entry only with `huge` (`RamThere`, from `PagesOnce`).  Each panic is so traced to
  the event of the setting that `Breaks` names, and to no other.
* The attempts showed what the model had wrong or left unsaid: the stack pages a
  program may touch are in use too; when a size wraps depends on the end of
  memory (`Wraps`); and the lists of the heap match only without `huge`, when
  `getppages` may hand out page frames twice.

Model-checked only:

* All liveness (`ReadyRuns`, `AllReturn`, `AcquireReturns`, `WaitReturns`,
  `ExitReturns`, `OpenReturns`, `CallsReturn`): fairness and `ENABLED` are outside what the
  prover treats.
* The invariants of `Sfs`, and that it refines `FileSystem`.  Its state is records of
  many fields, and a whole call is one step, computed by folds over the
  volume, of which the prover knows nothing without induction.
* Of `Vm`: `UserDataRight`, whose contents are copied by folds.

## 6. Plan

What section 7 does not list is modelled.  What is left is proof, in this order:

* `Vm`: `UserDataRight`, with the copies of pages as functions on sets of pages.
* `Copyinout`: `CopyStaysInUser` and `UiomoveMovesN` for every word size.
* `Sfs`: `Consistent`, with the folds of `FileSystem` as functions on sets of blocks.

No module declares a RECURSIVE operator, so that all can be proved about.

## 7. Not modelled, and why

* `hangman.c`, which no configuration compiles in; `schedule()`, which is empty.
* Start-up order before autoconf, the rest of the menu, and the tests: sequential
  drivers of what is modelled.
* The table of `syscall()`, the assembly that saves registers, ELF headers:
  layout and registers of one thread.
* Devices that are single register accesses (random, trace, beep, the clock's
  wrapper); the screen, which every configuration comments out as not
  supported; the network card, whose driver refuses to attach.
* `array.c`, `bswap.c`, `misc.c`, `time.c`: sequential helpers.  Formatting in
  `kprintf` and line editing in `kgets`.
* Calls that change nothing (stat, gettype, namefile), and those no file system
  here implements (mkdir, rmdir, symlink, readlink).
* `lamebus_find_cpus` and `lamebus_start_cpus`, which run once before the rest;
  masking and detaching of slots, which nothing calls.
* Memory is sequentially consistent: System/161 is, and the barriers in the
  code are not modelled.

## 8. Running it

    tlc -config MCThread.cfg MCThread      # any run of PROJECT.json
    tlapm Synch_proofs.tla               # any *_proofs module
