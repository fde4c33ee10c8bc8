-------------------------------- MODULE Ipi --------------------------------
(***************************************************************************)
(* Inter-processor interrupts: ipi_send, ipi_broadcast, ipi_tlbshootdown   *)
(* and interprocessor_interrupt (kern/thread/thread.c), the IPI branch of  *)
(* mainbus_interrupt (kern/arch/sys161/dev/lamebus_machdep.c), and their   *)
(* users: waking an idle CPU, thread_shutdown and thread_panic.            *)
(*                                                                         *)
(* An IPI is a bit in c_ipi_pending, under c_ipi_lock, and a level on the  *)
(* interrupt line of the target, which lamebus_clear_ipi takes down after  *)
(* the handler has returned, with no lock held.  Module Thread abstracts   *)
(* the pair to one flag.                                                   *)
(***************************************************************************)
EXTENDS Allcpus, Integers, Sequences, FiniteSets

CONSTANTS
    Mappings,          \* what a TLB shootdown is about
    TLBSHOOTDOWN_MAX,  \* the size of c_shootdown
    MaxWork,           \* bound: threads queued on a CPU at a time
    MaxShootdowns,     \* bound: shootdowns requested between two handlers
    StopCodes          \* which of IPI_PANIC and IPI_OFFLINE are broadcast

ASSUME MaxAssumption == TLBSHOOTDOWN_MAX \in Nat \ {0}
ASSUME StopAssumption == StopCodes \subseteq {"panic", "offline"}

TLBSHOOTDOWN_ALL == -1

VARIABLES
    ipi_pending,   \* c_ipi_pending, as the set of its bits
    line,          \* the IPI line of each CPU is asserted
    ipi_lock, rq_lock,  \* the holders of c_ipi_lock and c_runqueue_lock
    shootdown, numshootdown,
    work,          \* the length of c_runqueue
    isidle,
    ipc, target, code,   \* what each CPU does, to whom it sends, and what
    rest,          \* CPUs ipi_broadcast has yet to reach
    todo,          \* mappings to shoot down on each CPU, not yet performed
    asked          \* shootdowns requested since the handler last ran

ipivars == <<ipi_pending, line, ipi_lock, rq_lock, shootdown, numshootdown,
          work, isidle, ipc, target, code, rest, todo, asked>>

IpiInit ==
    /\ ipi_pending = [c \in CPUs |-> {}]
    /\ line = [c \in CPUs |-> FALSE]
    /\ ipi_lock = [c \in CPUs |-> NoCPU]
    /\ rq_lock = [c \in CPUs |-> NoCPU]
    /\ shootdown = [c \in CPUs |-> <<>>]
    /\ numshootdown = [c \in CPUs |-> 0]
    /\ work = [c \in CPUs |-> 0]
    /\ isidle = [c \in CPUs |-> FALSE]
    /\ ipc = [c \in CPUs |-> "run"]
    /\ target = [c \in CPUs |-> NoCPU]
    /\ code = [c \in CPUs |-> "unidle"]
    /\ rest = [c \in CPUs |-> {}]
    /\ todo = [c \in CPUs |-> {}]
    /\ asked = [c \in CPUs |-> 0]

IpiGoto(c, label) == ipc' = [ipc EXCEPT ![c] = label]

(***************************************************************************)
(* Sending.                                                                *)
(***************************************************************************)

\* thread_make_runnable on CPU d's queue; an idle d is sent an IPI_UNIDLE
\* with the run queue locked.
Wake(c, d) ==
    /\ ipc[c] = "run" /\ c # d
    /\ rq_lock[d] = NoCPU
    /\ work[d] < MaxWork
    /\ work' = [work EXCEPT ![d] = @ + 1]
    /\ \/ /\ isidle[d]
          /\ rq_lock' = [rq_lock EXCEPT ![d] = c]
          /\ target' = [target EXCEPT ![c] = d]
          /\ code' = [code EXCEPT ![c] = "unidle"]
          /\ IpiGoto(c, "send")
       \/ /\ ~isidle[d]
          /\ UNCHANGED <<rq_lock, target, code, ipc>>
    /\ UNCHANGED <<ipi_pending, line, ipi_lock, shootdown, numshootdown,
                   isidle, rest, todo, asked>>

Unlock(c) == [d \in CPUs |-> IF rq_lock[d] = c THEN NoCPU ELSE rq_lock[d]]

\* ipi_send, back in thread_make_runnable or in the loop of ipi_broadcast.
IpiSend(c) ==
    LET d == target[c] IN
    /\ ipc[c] = "send"
    /\ ipi_lock[d] = NoCPU
    /\ ipi_pending' = [ipi_pending EXCEPT ![d] = @ \union {code[c]}]
    /\ line' = [line EXCEPT ![d] = TRUE]
    /\ rq_lock' = Unlock(c)
    /\ IpiGoto(c, IF code[c] = "unidle" THEN "run" ELSE "broadcast")
    /\ UNCHANGED <<ipi_lock, shootdown, numshootdown, work, isidle, target,
                   code, rest, todo, asked>>

\* thread_shutdown and thread_panic; only one CPU calls one of them.
Stop(c, k) ==
    /\ ipc[c] = "run"
    /\ \A d \in CPUs : ipc[d] \notin {"broadcast", "stopped"}
                       /\ (ipc[d] = "send" => code[d] = "unidle")
    /\ code' = [code EXCEPT ![c] = k]
    /\ rest' = [rest EXCEPT ![c] = CPUs \ {c}]
    /\ IpiGoto(c, "broadcast")
    /\ UNCHANGED <<ipi_pending, line, ipi_lock, rq_lock, shootdown,
                   numshootdown, work, isidle, target, todo, asked>>

\* ipi_broadcast: the next CPU, or, after the last, the sender stops.
Broadcast(c) ==
    /\ ipc[c] = "broadcast"
    /\ \/ \E d \in rest[c] :
             /\ target' = [target EXCEPT ![c] = d]
             /\ rest' = [rest EXCEPT ![c] = @ \ {d}]
             /\ IpiGoto(c, "send")
       \/ /\ rest[c] = {}
          /\ IpiGoto(c, "stopped")
          /\ UNCHANGED <<target, rest>>
    /\ UNCHANGED <<ipi_pending, line, ipi_lock, rq_lock, shootdown,
                   numshootdown, work, isidle, code, todo, asked>>

\* c_numshootdown after one more request; n = TLBSHOOTDOWN_ALL is not told
\* from a number of requests.
NumAfter(n) == IF n = TLBSHOOTDOWN_MAX THEN TLBSHOOTDOWN_ALL ELSE n + 1

\* ipi_tlbshootdown.  The store at index n = TLBSHOOTDOWN_ALL goes to memory
\* outside the array.
IpiTlbshootdown(c, d, m) ==
    LET n == numshootdown[d] IN
    /\ ipc[c] = "run" /\ c # d
    /\ ipi_lock[d] = NoCPU
    /\ asked[d] < MaxShootdowns
    /\ asked' = [asked EXCEPT ![d] = @ + 1]
    /\ todo' = [todo EXCEPT ![d] = @ \union {m}]
    /\ shootdown' = [shootdown EXCEPT
                       ![d] = IF n \in 0 .. TLBSHOOTDOWN_MAX - 1
                              THEN Append(SubSeq(@, 1, n), m) ELSE @]
    /\ numshootdown' = [numshootdown EXCEPT ![d] = NumAfter(n)]
    /\ ipi_pending' = [ipi_pending EXCEPT ![d] = @ \union {"tlb"}]
    /\ line' = [line EXCEPT ![d] = TRUE]
    /\ UNCHANGED <<ipi_lock, rq_lock, work, isidle, ipc, target, code, rest>>

(***************************************************************************)
(* Receiving: mainbus_interrupt, on a CPU that runs or waits in cpu_idle.  *)
(***************************************************************************)
Interrupt(c) ==
    /\ ipc[c] \in {"run", "wait"}
    /\ line[c]
    /\ IpiGoto(c, "ipi")
    /\ UNCHANGED <<ipi_pending, line, ipi_lock, rq_lock, shootdown,
                   numshootdown, work, isidle, target, code, rest, todo,
                   asked>>

\* interprocessor_interrupt: on IPI_PANIC cpu_halt, with c_ipi_lock held ...
IpiPanic(c) ==
    /\ ipc[c] = "ipi"
    /\ ipi_lock[c] = NoCPU
    /\ "panic" \in ipi_pending[c]
    /\ ipi_lock' = [ipi_lock EXCEPT ![c] = c]
    /\ IpiGoto(c, "halted")
    /\ UNCHANGED <<ipi_pending, line, rq_lock, shootdown, numshootdown, work,
                   isidle, target, code, rest, todo, asked>>

\* ... on IPI_OFFLINE first lock the run queue, c_ipi_lock held too ...
IpiOffline(c) ==
    /\ ipc[c] = "ipi"
    /\ ipi_lock[c] = NoCPU
    /\ "offline" \in ipi_pending[c] /\ "panic" \notin ipi_pending[c]
    /\ ipi_lock' = [ipi_lock EXCEPT ![c] = c]
    /\ IpiGoto(c, "offline")
    /\ UNCHANGED <<ipi_pending, line, rq_lock, shootdown, numshootdown, work,
                   isidle, target, code, rest, todo, asked>>

IpiHalt(c) ==
    /\ ipc[c] = "offline"
    /\ rq_lock[c] = NoCPU
    /\ IpiGoto(c, "halted")
    /\ UNCHANGED <<ipi_pending, line, ipi_lock, rq_lock, shootdown,
                   numshootdown, work, isidle, target, code, rest, todo,
                   asked>>

\* The requests the handler performs: all, or those it finds in the queue.
Performed(c) ==
    IF numshootdown[c] = TLBSHOOTDOWN_ALL
    THEN Mappings
    ELSE {shootdown[c][i] : i \in 1 .. numshootdown[c]}

\* ... otherwise perform the shootdowns, if any, and clear every bit.
IpiHandle(c) ==
    /\ ipc[c] = "ipi"
    /\ ipi_lock[c] = NoCPU
    /\ ipi_pending[c] \intersect {"panic", "offline"} = {}
    /\ todo' = [todo EXCEPT
                  ![c] = IF "tlb" \in ipi_pending[c]
                         THEN @ \ Performed(c) ELSE @]
    /\ asked' = [asked EXCEPT
                   ![c] = IF "tlb" \in ipi_pending[c] THEN 0 ELSE @]
    /\ numshootdown' = [numshootdown EXCEPT
                          ![c] = IF "tlb" \in ipi_pending[c] THEN 0 ELSE @]
    /\ ipi_pending' = [ipi_pending EXCEPT ![c] = {}]
    /\ IpiGoto(c, "clear")
    /\ UNCHANGED <<line, ipi_lock, rq_lock, shootdown, work, isidle, target,
                   code, rest>>

\* Where the handler's CPU continues: an idle one looks for a thread.
AfterInterrupt_wait(c) == IF isidle[c] THEN "wait" ELSE "run"  \* mutant
AfterInterrupt(c) == IF isidle[c] THEN "reacquire" ELSE "run"

\* lamebus_clear_ipi, after interprocessor_interrupt has returned.
ClearIpi(c) ==
    /\ ipc[c] = "clear"
    /\ line' = [line EXCEPT ![c] = FALSE]
    /\ IpiGoto(c, AfterInterrupt(c))
    /\ UNCHANGED <<ipi_pending, ipi_lock, rq_lock, shootdown, numshootdown,
                   work, isidle, target, code, rest, todo, asked>>

(***************************************************************************)
(* The idle loop of thread_switch: take a thread from the run queue, or    *)
(* wait for an interrupt, an IPI or the timer's, and look again.           *)
(***************************************************************************)
Look(c) == ipc[c] \in {"run", "reacquire"}

Idle(c) ==
    /\ Look(c)
    /\ rq_lock[c] = NoCPU
    /\ work[c] = 0
    /\ isidle' = [isidle EXCEPT ![c] = TRUE]
    /\ IpiGoto(c, "wait")
    /\ UNCHANGED <<ipi_pending, line, ipi_lock, rq_lock, shootdown,
                   numshootdown, work, target, code, rest, todo, asked>>

Take(c) ==
    /\ Look(c)
    /\ rq_lock[c] = NoCPU
    /\ work[c] > 0
    /\ work' = [work EXCEPT ![c] = @ - 1]
    /\ isidle' = [isidle EXCEPT ![c] = FALSE]
    /\ IpiGoto(c, "run")
    /\ UNCHANGED <<ipi_pending, line, ipi_lock, rq_lock, shootdown,
                   numshootdown, target, code, rest, todo, asked>>

Timer(c) ==
    /\ ipc[c] = "wait"
    /\ IpiGoto(c, "reacquire")
    /\ UNCHANGED <<ipi_pending, line, ipi_lock, rq_lock, shootdown,
                   numshootdown, work, isidle, target, code, rest, todo,
                   asked>>

\* What a CPU does on its own account; Wake, Stop and IpiTlbshootdown are
\* calls a thread makes or does not make.
Step(c) ==
    \/ IpiSend(c) \/ Broadcast(c) \/ IpiPanic(c) \/ IpiOffline(c)
    \/ IpiHalt(c) \/ IpiHandle(c) \/ ClearIpi(c) \/ Interrupt(c)

IpiNext ==
    \E c \in CPUs :
        \/ Step(c)
        \/ Idle(c) \/ Take(c) \/ Timer(c)
        \/ \E d \in CPUs : Wake(c, d)
        \/ \E k \in StopCodes : Stop(c, k)
        \/ \E d \in CPUs : \E m \in Mappings : IpiTlbshootdown(c, d, m)

IpiSpec == IpiInit /\ [][IpiNext]_ipivars

-----------------------------------------------------------------------------
\* The fields of struct cpu that concern IPIs keep their types:
\* c_numshootdown is TLBSHOOTDOWN_ALL or a number of queued requests.
IpiTypeOK ==
    /\ ipi_pending \in [CPUs -> SUBSET {"panic", "offline", "unidle", "tlb"}]
    /\ line \in [CPUs -> BOOLEAN]
    /\ ipi_lock \in [CPUs -> CPUs \union {NoCPU}]
    /\ rq_lock \in [CPUs -> CPUs \union {NoCPU}]
    /\ numshootdown \in
         [CPUs -> {TLBSHOOTDOWN_ALL} \union (0 .. TLBSHOOTDOWN_MAX)]
    /\ \A c \in CPUs : shootdown[c] \in Seq(Mappings)
    /\ \A c \in CPUs : numshootdown[c] <= Len(shootdown[c])

\* No IPI_UNIDLE that matters is lost, though lamebus_clear_ipi may take down
\* the line of one sent after the handler read the bits: a CPU that waits in
\* cpu_idle with threads queued has its line up, or the sender is about to
\* raise it with the run queue locked.
IdleWakes ==
    \A c \in CPUs :
        ipc[c] = "wait" /\ work[c] > 0 => line[c] \/ rq_lock[c] # NoCPU

\* cpu.h: TLB shootdown requests are queued in c_shootdown, c_numshootdown
\* being their number: whatever was requested and not yet performed, the next
\* run of the handler performs.  When that is, it does not say: the line of a
\* request made after the handler read the bits is taken down with the rest,
\* and the request waits for the next IPI to this CPU.
ShootdownsQueued ==
    \A c \in CPUs : todo[c] \subseteq Performed(c)

\* As many requests between two runs of the handler as the array and the
\* marker can stand for.
RequestsFit == MaxShootdowns \in 0 .. TLBSHOOTDOWN_MAX + 1

\* No wakeup that matters is lost, although the line goes down after the bits
\* are read, and no shootdown requested is forgotten, although their queue is
\* short and one may wait for the next IPI.
IpisArrive == IpiTypeOK /\ IdleWakes /\ ShootdownsQueued

=============================================================================
