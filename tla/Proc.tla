-------------------------------- MODULE Proc --------------------------------
(***************************************************************************)
(* Processes: the process table of kern/proc/proc.c, sys_fork, sys_exit    *)
(* and ___waitpid of kern/syscall/fork.c, and the menu's common_prog.      *)
(*                                                                         *)
(* A process has one thread and a struct proc, which is a heap address:    *)
(* kfree gives it back and a later kmalloc may return it again.  A thread  *)
(* is forked once, so it stands for the process itself in the properties.  *)
(* The sleep locks and the semaphore are taken as what Monitor and         *)
(* Semaphore show of them.  Everything done while lk_allproc is held is    *)
(* one step, except proc_get, which waits for p->lock with it.             *)
(*                                                                         *)
(* Open files, address spaces and trapframes are left out, but for the     *)
(* failures of making them: all of sys_fork after proc_copy may fail.      *)
(***************************************************************************)
EXTENDS Integers, FiniteSets, FiniteSetsExt

CONSTANTS
    Threads,        \* bound: the menu's thread and every thread ever forked
    Menu,           \* the thread that runs menu(), in process p0
    Structs,        \* heap addresses kmalloc may return for a struct proc;
                    \* bound: enough that it fails only in ProcNoMem
    MAX_PROCESSES,
    INT_LIMIT,      \* an int is one of Ints (2^31)
    Codes,          \* exit codes
    Environments,   \* what the environment may be, one of them for good: the
                    \* events of EnvEvents it produces, threads and codes
    NULL

\* "concurrent": a thread calls fork while another is inside proc_create.
\* "full": fork is called with no free slot.  "nomem": an allocation of
\* proc_create fails.  "foreign": waitpid for the pid of another's child.
\* "loadfail": runprogram returns an error to cmd_progthread.
EnvEvents == {"concurrent", "full", "nomem", "foreign", "loadfail"}

Ints == -INT_LIMIT .. (INT_LIMIT - 1)

ASSUME ProcAssumptions ==
    /\ Menu \in Threads
    /\ Structs # {}
    /\ MAX_PROCESSES \in Nat \ {0}
    /\ INT_LIMIT \in Nat \ {0} /\ Codes \subseteq Ints
    /\ \A e \in Environments : /\ e.events \subseteq EnvEvents
                               /\ e.threads \subseteq Threads
                               /\ e.codes \subseteq Codes
    /\ NULL \notin Threads \union Structs \union Int

Pids == 0 .. MAX_PROCESSES - 1

VARIABLES
    p_table, next_pid,
    lk_allproc,     \* the thread holding it, or NULL
    proc,           \* what is at each heap address
    td_proc,        \* curthread->td_proc
    pc,
    arg,            \* locals of the call a thread is in: p, pid, nohang
    kids,           \* the pid and thread of each child not yet waited for
    exitcode,       \* what each process passed to _exit, NULL before
    status,         \* what waitpid told the parent of each process
    panic,
    env             \* the environment, which never changes

vars == <<p_table, next_pid, lk_allproc, proc, td_proc, pc, arg, kids,
          exitcode, status, panic, env>>

FreeStruct == [live |-> FALSE]
NewStruct(t, pid) ==
    [live |-> TRUE, p_pid |-> pid, p_proc |-> NULL, p_is_dead |-> FALSE,
     p_retval |-> 0, p_sem |-> 0, lock |-> NULL,
     forker |-> t]  \* not in the code: who called proc_create

NoArg == [p |-> NULL, pid |-> 0, nohang |-> FALSE]

\* menu: proc_system_init, then proc0 makes p0, with pid 0.
Init ==
    LET p0 == CHOOSE s \in Structs : TRUE IN
    /\ p_table = [i \in Pids |-> IF i = 0 THEN p0 ELSE NULL]
    /\ next_pid = 1
    /\ lk_allproc = NULL
    /\ proc = [s \in Structs |->
                 IF s = p0 THEN NewStruct(Menu, 0) ELSE FreeStruct]
    /\ td_proc = [t \in Threads |-> IF t = Menu THEN p0 ELSE NULL]
    /\ pc = [t \in Threads |-> IF t = Menu THEN "run" ELSE "none"]
    /\ arg = [t \in Threads |-> NoArg]
    /\ kids = [t \in Threads |-> {}]
    /\ exitcode = [t \in Threads |-> NULL]
    /\ status = [t \in Threads |-> NULL]
    /\ panic = "none"
    /\ env \in Environments

At(t, label) == panic = "none" /\ pc[t] = label /\ UNCHANGED env
Goto(t, label) == pc' = [pc EXCEPT ![t] = label]
Return(t, label) == Goto(t, label) /\ arg' = [arg EXCEPT ![t] = NoArg]
SetPanic(why) == panic' = why
Check(ok, why) == panic' = IF ok THEN panic ELSE why

(***************************************************************************)
(* proc_create, called by sys_fork (through proc_copy) and by common_prog. *)
(***************************************************************************)
\* proc_alloc_pid: the first free slot from next_pid on, then from 0.
FreeSlots == {i \in Pids : p_table[i] = NULL}
FirstSlot_unchecked ==  \* mutant
    IF next_pid >= MAX_PROCESSES THEN 0 ELSE next_pid
FirstSlot ==
    LET from == IF next_pid >= MAX_PROCESSES THEN 0 ELSE next_pid
        later == {i \in FreeSlots : i >= from}
    IN  IF later # {} THEN Min(later) ELSE Min(FreeSlots)

NextPid(spot) == spot + 1

InCreate(t) == pc[t] \in {"kmalloc", "add", "undo"}

\* The slot is not marked: it stays NULL until proc_add_to_allproc.
ProcAllocPid(t) ==
    /\ At(t, "run")
    /\ lk_allproc = NULL
    /\ FreeSlots # {}
    /\ "concurrent" \in env.events \/ ~ \E u \in Threads : InCreate(u)
    /\ arg' = [arg EXCEPT ![t].pid = FirstSlot]
    /\ next_pid' = NextPid(FirstSlot)
    /\ Goto(t, "kmalloc")
    /\ UNCHANGED <<p_table, lk_allproc, proc, td_proc, kids, exitcode, status,
                   panic>>

\* ENPROC.  common_prog returns it to the menu; sys_fork does not look at the
\* error of proc_copy and reads p_new->p_pid through a NULL pointer.
ProcAllocPidFull(t) ==
    /\ At(t, "run")
    /\ lk_allproc = NULL
    /\ FreeSlots = {}
    /\ t = Menu \/ "full" \in env.events
    /\ next_pid' = IF next_pid >= MAX_PROCESSES THEN 0 ELSE next_pid
    /\ Check(t = Menu, "null p_new")
    /\ UNCHANGED <<p_table, lk_allproc, proc, td_proc, pc, arg, kids, exitcode,
                   status>>

\* kmalloc, fd_create, lock_create and sem_create, and the fields.
ProcKmalloc(t) ==
    /\ At(t, "kmalloc")
    /\ \E s \in Structs :
         /\ ~proc[s].live
         /\ proc' = [proc EXCEPT ![s] = NewStruct(t, arg[t].pid)]
         /\ arg' = [arg EXCEPT ![t].p = s]
    /\ Goto(t, "add")
    /\ UNCHANGED <<p_table, next_pid, lk_allproc, td_proc, kids, exitcode,
                   status, panic>>

\* One of them fails; what was allocated is freed, and then the pid.
ProcNoMem(t) ==
    /\ At(t, "kmalloc")
    /\ "nomem" \in env.events
    /\ Goto(t, "undo")
    /\ UNCHANGED <<p_table, next_pid, lk_allproc, proc, td_proc, arg, kids,
                   exitcode, status, panic>>

ProcAddToAllproc(t) ==
    /\ At(t, "add")
    /\ lk_allproc = NULL
    /\ p_table' = [p_table EXCEPT ![arg[t].pid] = arg[t].p]
    /\ Goto(t, "adopt")
    /\ UNCHANGED <<next_pid, lk_allproc, proc, td_proc, arg, kids, exitcode,
                   status, panic>>

(***************************************************************************)
(* The rest of sys_fork and of common_prog.                                *)
(***************************************************************************)
Adopt(t) == proc' = [proc EXCEPT ![arg[t].p].p_proc = td_proc[t]]

\* p_new->p_proc is set, everything else succeeds and thread_fork makes u.
\* sys_fork returns the pid; common_prog goes on to ___waitpid.
SysFork(t, u) ==
    /\ At(t, "adopt")
    /\ pc[u] = "none" /\ u \in env.threads
    /\ Adopt(t)
    /\ arg' = [arg EXCEPT
                 ![u].p = arg[t].p,
                 ![t] = IF t = Menu THEN [@ EXCEPT !.p = NULL] ELSE NoArg]
    /\ kids' = [kids EXCEPT ![t] = @ \union {<<arg[t].pid, u>>}]
    /\ pc' = [pc EXCEPT ![u] = "born",
                        ![t] = IF t = Menu THEN "get" ELSE "run"]
    /\ UNCHANGED <<p_table, next_pid, lk_allproc, td_proc, exitcode, status,
                   panic>>

\* trapframe_copy, kmalloc, as_copy or thread_fork fails: close_all_f and
\* proc_destroy(p_new).
SysForkFails(t) ==
    /\ At(t, "adopt")
    /\ Adopt(t)
    /\ Goto(t, "destroy")
    /\ UNCHANGED <<p_table, next_pid, lk_allproc, td_proc, arg, kids, exitcode,
                   status, panic>>

\* fork_child_return, and cmd_progthread when runprogram succeeds.
ForkChildReturn(u) ==
    /\ At(u, "born")
    /\ td_proc' = [td_proc EXCEPT ![u] = arg[u].p]
    /\ Return(u, "run")
    /\ UNCHANGED <<p_table, next_pid, lk_allproc, proc, kids, exitcode,
                   status, panic>>

\* cmd_progthread when runprogram returns an error: the thread returns to
\* thread_startup, which calls thread_exit and not sys_exit.
RunprogramFails(u) ==
    /\ At(u, "born")
    /\ "loadfail" \in env.events
    /\ \E k \in kids[Menu] : k[2] = u
    /\ td_proc' = [td_proc EXCEPT ![u] = arg[u].p]
    /\ Return(u, "gone")
    /\ UNCHANGED <<p_table, next_pid, lk_allproc, proc, kids, exitcode,
                   status, panic>>

(***************************************************************************)
(* ___waitpid, and proc_get at its start.                                  *)
(***************************************************************************)
\* The pid is not 0, which proc_get refuses.
Waitpid(t, pid, nohang) ==
    /\ At(t, "run")
    /\ t # Menu
    /\ pid \in Pids \ {0}
    /\ "foreign" \in env.events \/ \E k \in kids[t] : k[1] = pid
    /\ arg' = [arg EXCEPT ![t].pid = pid, ![t].nohang = nohang]
    /\ Goto(t, "get")
    /\ UNCHANGED <<p_table, next_pid, lk_allproc, proc, td_proc, kids,
                   exitcode, status, panic>>

\* No such process: ESRCH.
ProcGetFails(t) ==
    /\ At(t, "get")
    /\ lk_allproc = NULL
    /\ p_table[arg[t].pid] = NULL
    /\ Return(t, "run")
    /\ UNCHANGED <<p_table, next_pid, lk_allproc, proc, td_proc, kids,
                   exitcode, status, panic>>

ProcGet(t) ==
    /\ At(t, "get")
    /\ lk_allproc = NULL
    /\ p_table[arg[t].pid] # NULL
    /\ lk_allproc' = t
    /\ arg' = [arg EXCEPT ![t].p = p_table[arg[t].pid]]
    /\ Goto(t, "getlock")
    /\ UNCHANGED <<p_table, next_pid, proc, td_proc, kids, exitcode, status,
                   panic>>

\* lock_acquire(p->lock) with lk_allproc held; then lk_allproc is released.
\* The struct may have been freed, and its slot not yet cleared.
ProcGetLock(t) ==
    LET p == arg[t].p IN
    /\ At(t, "getlock")
    /\ IF proc[p].live
       THEN /\ proc[p].lock = NULL
            /\ proc' = [proc EXCEPT ![p].lock = t]
            /\ UNCHANGED panic
       ELSE SetPanic("freed lock") /\ UNCHANGED proc
    /\ lk_allproc' = NULL
    /\ Goto(t, "check")
    /\ UNCHANGED <<p_table, next_pid, td_proc, arg, kids, exitcode, status>>

\* ECHILD, or 0 from WNOHANG for a process that is alive, or go on to wait.
WaitpidCheck(t) ==
    LET p == arg[t].p
        back == \/ proc[p].p_proc # td_proc[t]
                \/ ~proc[p].p_is_dead /\ arg[t].nohang
    IN  /\ At(t, "check")
        /\ proc' = [proc EXCEPT ![p].lock = NULL]
        /\ IF back THEN Return(t, "run") ELSE Goto(t, "P") /\ UNCHANGED arg
        /\ UNCHANGED <<p_table, next_pid, lk_allproc, td_proc, kids, exitcode,
                       status, panic>>

SemP_nowait(p) == UNCHANGED proc  \* mutant
SemP(p) ==
    /\ proc[p].p_sem > 0
    /\ proc' = [proc EXCEPT ![p].p_sem = @ - 1]

WaitpidP(t) ==
    /\ At(t, "P")
    /\ SemP(arg[t].p)
    /\ Goto(t, "reap")
    /\ UNCHANGED <<p_table, next_pid, lk_allproc, td_proc, arg, kids,
                   exitcode, status, panic>>

\* _MKWAIT_EXIT, which loses the top two bits of the code, and WEXITSTATUS
\* as the program applies it.
WEXITED == 0
ToInt(n) == ((n + INT_LIMIT) % (2 * INT_LIMIT)) - INT_LIMIT
MkwaitExit(code) == ToInt(code * 4) + WEXITED
WExitStatus(word) == word \div 4

\* The status is read under p->lock, and the child is no longer waited for.
WaitpidReap(t) ==
    LET p == arg[t].p
        mine == {k \in kids[t] : k[1] = arg[t].pid}
    IN  /\ At(t, "reap")
        /\ proc[p].lock = NULL
        /\ Check(proc[p].p_is_dead, "not dead")
        /\ kids' = [kids EXCEPT ![t] = @ \ mine]
        /\ status' = [u \in Threads |->
                        IF \E k \in mine : k[2] = u
                        THEN MkwaitExit(proc[p].p_retval) ELSE status[u]]
        /\ Goto(t, "destroy")
        /\ UNCHANGED <<p_table, next_pid, lk_allproc, proc, td_proc, arg,
                       exitcode>>

(***************************************************************************)
(* proc_destroy, at the end of ___waitpid, of a fork that failed, and of   *)
(* sys_exit: the struct is freed first and its slot cleared after that.    *)
(***************************************************************************)
ProcDestroy(t) ==
    LET p == arg[t].p IN
    /\ At(t, "destroy")
    /\ Check(proc[p].lock = NULL, "lock destroyed while held")
    /\ proc' = [proc EXCEPT ![p] = FreeStruct]
    /\ arg' = [arg EXCEPT ![t].p = NULL, ![t].pid = proc[p].p_pid]
    /\ Goto(t, "dealloc")
    /\ UNCHANGED <<p_table, next_pid, lk_allproc, td_proc, kids, exitcode,
                   status>>

ClearSlot(pid) == p_table' = [p_table EXCEPT ![pid] = NULL]

\* After a proc_create that failed common_prog returns, and sys_fork reads
\* p_new->p_pid, as in ProcAllocPidFull.
ProcDeallocPid(t) ==
    /\ \E label \in {"dealloc", "undo"} : At(t, label)
    /\ lk_allproc = NULL
    /\ panic' = IF p_table[arg[t].pid] = NULL THEN "slot empty"
                ELSE IF pc[t] = "undo" /\ t # Menu THEN "null p_new"
                ELSE panic
    /\ ClearSlot(arg[t].pid)
    /\ Return(t, IF exitcode[t] = NULL THEN "run" ELSE "gone")
    /\ UNCHANGED <<next_pid, lk_allproc, proc, td_proc, kids, exitcode,
                   status>>

(***************************************************************************)
(* sys_exit.  A process may leave children behind: their p_proc is not     *)
(* touched, so the branch for p_proc = NULL is never taken after adoption. *)
(***************************************************************************)
SysExit(t, code) ==
    /\ At(t, "run")
    /\ t # Menu
    /\ exitcode' = [exitcode EXCEPT ![t] = code]
    /\ Goto(t, "exit")
    /\ UNCHANGED <<p_table, next_pid, lk_allproc, proc, td_proc, arg, kids,
                   status, panic>>

\* lock_acquire(p->lock), the status, and with no parent the release.
Retval(t) == exitcode[t]

ExitLock(t) ==
    LET p == td_proc[t]
        orphan == proc[p].p_proc = NULL
    IN  /\ At(t, "exit")
        /\ proc[p].lock = NULL
        /\ proc' = [proc EXCEPT ![p].p_retval = Retval(t),
                                ![p].p_is_dead = TRUE,
                                ![p].lock = IF orphan THEN NULL ELSE t]
        /\ arg' = [arg EXCEPT ![t].p = p]
        /\ Goto(t, IF orphan THEN "destroy" ELSE "V")
        /\ UNCHANGED <<p_table, next_pid, lk_allproc, td_proc, kids, exitcode,
                       status, panic>>

Waited(p) == \E t \in Threads : pc[t] = "P" /\ arg[t].p = p
SemV_ifwaited(p) ==  \* mutant
    proc' = [proc EXCEPT ![p].p_sem = IF Waited(p) THEN @ + 1 ELSE @]
SemV(p) == proc' = [proc EXCEPT ![p].p_sem = @ + 1]

ExitV(t) ==
    /\ At(t, "V")
    /\ SemV(td_proc[t])
    /\ Goto(t, "unlock")
    /\ UNCHANGED <<p_table, next_pid, lk_allproc, td_proc, arg, kids, exitcode,
                   status, panic>>

\* lock_release(p->lock), and thread_exit.
ExitUnlock(t) ==
    LET p == td_proc[t] IN
    /\ At(t, "unlock")
    /\ IF proc[p].live
       THEN proc' = [proc EXCEPT ![p].lock = NULL] /\ UNCHANGED panic
       ELSE SetPanic("freed lock") /\ UNCHANGED proc
    /\ Return(t, "gone")
    /\ UNCHANGED <<p_table, next_pid, lk_allproc, td_proc, kids, exitcode,
                   status>>

-----------------------------------------------------------------------------
\* What a thread does inside the kernel.
Step(t) ==
    \/ ProcKmalloc(t) \/ ProcNoMem(t) \/ ProcAddToAllproc(t)
    \/ SysForkFails(t) \/ (\E u \in Threads : SysFork(t, u))
    \/ ForkChildReturn(t) \/ RunprogramFails(t)
    \/ ProcGetFails(t) \/ ProcGet(t) \/ ProcGetLock(t) \/ WaitpidCheck(t)
    \/ WaitpidP(t) \/ WaitpidReap(t) \/ ProcDestroy(t) \/ ProcDeallocPid(t)
    \/ ExitLock(t) \/ ExitV(t) \/ ExitUnlock(t)

Exits(t) == \E code \in env.codes : SysExit(t, code)

Next ==
    \E t \in Threads :
        \/ Step(t) \/ Exits(t)
        \/ ProcAllocPid(t) \/ ProcAllocPidFull(t)
        \/ \E pid \in Pids, nohang \in BOOLEAN : Waitpid(t, pid, nohang)

Spec == Init /\ [][Next]_vars

(***************************************************************************)
(* Fairness: a thread that can go on does, and every program calls _exit   *)
(* in the end, however often it forks and waits before.                    *)
(***************************************************************************)
LiveSpec == Spec /\ \A t \in Threads : WF_vars(Step(t)) /\ SF_vars(Exits(t))

-----------------------------------------------------------------------------
Labels == {"none", "born", "run", "kmalloc", "undo", "add", "adopt", "get",
           "getlock", "check", "P", "reap", "destroy", "dealloc", "exit", "V",
           "unlock", "gone"}

LiveStruct ==
    [live : {TRUE}, p_pid : Pids, p_proc : Structs \union {NULL},
     p_is_dead : BOOLEAN, p_retval : Codes \union {0}, p_sem : 0 .. 1,
     lock : Threads \union {NULL}, forker : Threads]

\* The table, next_pid and the fields of struct proc keep their ranges; p_sem
\* counts at most the one _exit of the process.
TypeOK ==
    /\ p_table \in [Pids -> Structs \union {NULL}]
    /\ next_pid \in 0 .. MAX_PROCESSES
    /\ lk_allproc \in Threads \union {NULL}
    /\ proc \in [Structs -> LiveStruct \union {FreeStruct}]
    /\ td_proc \in [Threads -> Structs \union {NULL}]
    /\ pc \in [Threads -> Labels]
    /\ arg \in [Threads -> [p : Structs \union {NULL}, pid : Pids,
                            nohang : BOOLEAN]]
    /\ kids \in [Threads -> SUBSET (Pids \X Threads)]
    /\ panic \in {"none", "null p_new", "freed lock", "not dead",
                  "lock destroyed while held", "slot empty"}

\* Forks do not race, and a program waits only for pids fork gave it.  With
\* either event a pid may lead to a struct that is being freed, or has been
\* reused for another child, and waitpid reports that one.
Orderly == env.events \intersect {"concurrent", "foreign"} = {}

\* The struct of the process that thread u runs, from SysFork on.
StructOf(u) == IF pc[u] = "born" THEN arg[u].p ELSE td_proc[u]

\* From fork to wait a child keeps its struct and its pid: the pid that fork
\* returned leads proc_get to the child's own struct, whatever other
\* processes did since with the table and the heap.
PidFindsChild ==
    \A t \in Threads : Orderly /\ pc[t] # "gone" =>
        \A k \in kids[t] :
            LET s == StructOf(k[2])
            IN  /\ p_table[k[1]] = s
                /\ proc[s].live /\ proc[s].p_pid = k[1]
                /\ proc[s].forker = t

\* waitpid reports of a child what the child passed to _exit, if two bits
\* less hold it, and only after it did.
Fits(code) == 4 * code \in Ints
StatusIsExitCode ==
    \A u \in Threads : Orderly /\ status[u] # NULL =>
        /\ exitcode[u] # NULL
        /\ Fits(exitcode[u]) => WExitStatus(status[u]) = exitcode[u]

\* The assertions and pointers that each event can make fail.  "null p_new"
\* after "nomem" takes a second fork that filled the slot meanwhile.
StaleStruct == {"freed lock", "lock destroyed while held"}
Breaks ==
    [concurrent |-> {"slot empty"} \union StaleStruct,
     full |-> {"null p_new"}, nomem |-> {"slot empty", "null p_new"},
     foreign |-> StaleStruct, loadfail |-> {}]

\* No KASSERT, NULL pointer or freed lock is met by programs that wait only
\* for their own children and race no forks, even if they leave orphans; and
\* each event outside that breaks only what its own path through
\* proc_create, proc_get or sys_fork touches.
NoPanic ==
    panic \in {"none"} \union UNION {Breaks[e] : e \in env.events}

\* Nobody frees the struct that waitpid is waiting on, and it is dead when P
\* returns, whatever programs do.
WaitedStaysLive ==
    \A t \in Threads :
        /\ pc[t] \in {"P", "reap"} => proc[arg[t].p].live
        /\ pc[t] = "reap" => proc[arg[t].p].p_is_dead

\* waitpid returns: whoever waits for a child is in the end back in its
\* program or has exited, if programs load and nothing panics.
WaitReturns ==
    \A t \in Threads : (env.events = {} /\ pc[t] = "P") ~> pc[t] # "P"

\* A parent gets what it waits for: the pid leads to its child, whose struct
\* stays until it has been asked, and the status is the child's exit code.
WaitsForItsChild ==
    TypeOK /\ PidFindsChild /\ StatusIsExitCode /\ WaitedStaysLive

=============================================================================
