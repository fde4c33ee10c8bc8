----------------------------- MODULE Semaphore -----------------------------
(***************************************************************************)
(* Semaphores: P, V, sem_create and sem_destroy of kern/thread/synch.c,    *)
(* with the wait channel operations they call (kern/thread/thread.c).      *)
(*                                                                         *)
(* One semaphore, used by threads that call P and V a given number of      *)
(* times in any order; a thread with no P to do may be an interrupt        *)
(* handler.  A step ends where a spinlock is taken while another is held,  *)
(* where one is released, or where the thread sleeps.  When every P has    *)
(* returned the owner destroys the semaphore, as thread_start_cpus does    *)
(* with cpu_startup_sem and waitpid with p_sem.                            *)
(***************************************************************************)
EXTENDS Synch, Integers, Sequences, FiniteSets

CONSTANTS
    InitialCount,
    Ps, Vs,     \* how often each thread calls P and V
    Owner       \* the thread that destroys the semaphore, or None

ASSUME ThreadsAssumption == IsFiniteSet(Threads)
ASSUME CountAssumption == InitialCount \in Nat
ASSUME CallsAssumption == Ps \in [Threads -> Nat] /\ Vs \in [Threads -> Nat]

VARIABLES
    sem_count,
    sem_lock,          \* the thread holding the spinlock sem_lock, or None
    wc_lock,           \* the same for the lock of sem_wchan
    wc_threads,        \* the threads asleep on sem_wchan
    spc,
    psleft, vsleft,    \* calls still to be completed
    destroyed          \* "no", "yes", or the KASSERT that failed

semvars == <<sem_count, sem_lock, wc_lock, wc_threads, spc, psleft, vsleft,
             destroyed>>

SemInit ==
    /\ sem_count = InitialCount
    /\ sem_lock = None
    /\ wc_lock = None
    /\ wc_threads = <<>>
    /\ spc = [t \in Threads |-> "out"]
    /\ psleft = Ps
    /\ vsleft = Vs
    /\ destroyed = "no"

SemGoto(t, label) == spc' = [spc EXCEPT ![t] = label]

\* A thread enters P or V by spinning on sem_lock; from then on it is inside.
PCall(t) ==
    /\ spc[t] = "out" /\ destroyed = "no"
    /\ psleft[t] > 0
    /\ SemGoto(t, "p")
    /\ UNCHANGED <<sem_count, sem_lock, wc_lock, wc_threads, psleft, vsleft,
                   destroyed>>

VCall(t) ==
    /\ spc[t] = "out" /\ destroyed = "no"
    /\ vsleft[t] > 0
    /\ SemGoto(t, "v")
    /\ UNCHANGED <<sem_count, sem_lock, wc_lock, wc_threads, psleft, vsleft,
                   destroyed>>

MayPass_woken(t) == sem_count > 0 \/ spc[t] = "woken"  \* mutant
MayPass(t) == sem_count > 0

\* P, with sem_lock, finds a count above zero, on the first try or woken.
PDecrement(t) ==
    /\ spc[t] \in {"p", "woken"}
    /\ sem_lock = None
    /\ MayPass(t)
    /\ sem_count' = sem_count - 1
    /\ psleft' = [psleft EXCEPT ![t] = @ - 1]
    /\ SemGoto(t, "out")
    /\ UNCHANGED <<sem_lock, wc_lock, wc_threads, vsleft, destroyed>>

\* The count is zero: with sem_lock held, lock the wait channel.
PBlock(t) ==
    /\ spc[t] \in {"p", "woken"}
    /\ sem_lock = None
    /\ ~MayPass(t)
    /\ sem_lock' = t
    /\ SemGoto(t, "wchan")
    /\ UNCHANGED <<sem_count, wc_lock, wc_threads, psleft, vsleft, destroyed>>

PWchanLock(t) ==
    /\ spc[t] = "wchan"
    /\ wc_lock = None
    /\ wc_lock' = t
    /\ sem_lock' = None
    /\ SemGoto(t, "sleep")
    /\ UNCHANGED <<sem_count, wc_threads, psleft, vsleft, destroyed>>

\* wchan_sleep: thread_switch queues the thread and unlocks the channel.
PSleep(t) ==
    /\ spc[t] = "sleep"
    /\ wc_threads' = Append(wc_threads, t)
    /\ wc_lock' = None
    /\ SemGoto(t, "asleep")
    /\ UNCHANGED <<sem_count, sem_lock, psleft, vsleft, destroyed>>

VKeeps_nothing(t) == None  \* mutant: V unlocks before it wakes
VKeeps(t) == t

\* V increments the count with sem_lock, and keeps it for wchan_wakeone.
VIncrement(t) ==
    /\ spc[t] = "v"
    /\ sem_lock = None
    /\ sem_lock' = VKeeps(t)
    /\ sem_count' = sem_count + 1
    /\ vsleft' = [vsleft EXCEPT ![t] = @ - 1]
    /\ SemGoto(t, "wake")
    /\ UNCHANGED <<wc_lock, wc_threads, psleft, destroyed>>

VWake_onlyfromzero(t) ==  \* mutant: a sleeper is woken when the count was 0
    /\ spc[t] = "wake"
    /\ wc_lock = None
    /\ sem_lock' = None
    /\ IF wc_threads = <<>> \/ sem_count # 1
       THEN SemGoto(t, "out") /\ UNCHANGED wc_threads
       ELSE /\ wc_threads' = Tail(wc_threads)
            /\ spc' = [spc EXCEPT ![t] = "out", ![Head(wc_threads)] = "woken"]
    /\ UNCHANGED <<sem_count, wc_lock, psleft, vsleft, destroyed>>

\* wchan_wakeone, and the release of sem_lock.
VWake(t) ==
    /\ spc[t] = "wake"
    /\ wc_lock = None
    /\ sem_lock' = None
    /\ IF wc_threads = <<>>
       THEN SemGoto(t, "out") /\ UNCHANGED wc_threads
       ELSE /\ wc_threads' = Tail(wc_threads)
            /\ spc' = [spc EXCEPT ![t] = "out", ![Head(wc_threads)] = "woken"]
    /\ UNCHANGED <<sem_count, wc_lock, psleft, vsleft, destroyed>>

\* sem_destroy by the owner, after the last P; a V may not have returned yet.
\* spinlock_cleanup and threadlist_cleanup assert that nobody holds or waits
\* for anything.
SemDestroy(t) ==
    /\ t = Owner
    /\ spc[t] = "out" /\ destroyed = "no"
    /\ \A u \in Threads : psleft[u] = 0
    /\ destroyed' = IF sem_lock # None \/ wc_lock # None \/ wc_threads # <<>>
                    THEN "assertion failed" ELSE "yes"
    /\ UNCHANGED <<sem_count, sem_lock, wc_lock, wc_threads, spc, psleft,
                   vsleft>>

SemStep(t) ==
    \/ PCall(t) \/ VCall(t) \/ PDecrement(t) \/ PBlock(t) \/ PWchanLock(t)
    \/ PSleep(t) \/ VIncrement(t) \/ VWake(t)

SemNext == \E t \in Threads : SemStep(t) \/ SemDestroy(t)

SemSpec == SemInit /\ [][SemNext]_semvars

\* The scheduler runs every thread that is not asleep (Thread!ReadyRuns); a
\* spinlock, held for a few instructions, is won in the end.
Fairness == \A t \in Threads : SF_semvars(SemStep(t))

SemLiveSpec == SemSpec /\ Fairness

-----------------------------------------------------------------------------
\* The fields of struct semaphore keep their types; sem_count, unsigned,
\* never passes below zero.
SemTypeOK ==
    /\ sem_count \in Nat
    /\ sem_lock \in Threads \union {None}
    /\ wc_lock \in Threads \union {None}
    /\ wc_threads \in Seq(Threads)
    /\ spc \in [Threads -> {"out", "p", "woken", "wchan", "sleep", "asleep",
                           "v", "wake"}]
    /\ psleft \in [Threads -> Nat]
    /\ vsleft \in [Threads -> Nat]

Inside(label) == {t \in Threads : spc[t] = label}

\* No wakeup is lost: while a thread sleeps, or is past the test and about to
\* sleep, every unit of the count is spoken for by a thread already woken or
\* by a V about to wake one.
NoLostWakeup ==
    Inside("wchan") \union Inside("sleep") \union Inside("asleep") # {} =>
        sem_count <= Cardinality(Inside("woken")) + Cardinality(Inside("wake"))

\* The calls threads have left to make, calls[t] of them each.
Calls(calls) == UNION {{t} \X (1 .. calls[t]) : t \in Threads}

\* Every V is for one of the Ps: none is left over.
EveryVForAP ==
    InitialCount + Cardinality(Calls(Vs)) <= Cardinality(Calls(Ps))

\* Once all Ps are done, if every V was for one of them, the owner may
\* destroy the semaphore: no V is still using it, however late it runs.
SafeDestroy ==
    /\ destroyed # "assertion failed"
    /\ destroyed = "yes" => Inside("out") = Threads

\* P and V are atomic (synch.h).
AtomicSem == INSTANCE AtomicSemaphore WITH count <- sem_count
SemIsAtomic == AtomicSem!Spec

\* If V is called as often as P, every P returns.
AllReturn == <>(\A t \in Threads : psleft[t] = 0 /\ vsleft[t] = 0)

\* V does all it has to and no more: it leaves no sleeper behind that may
\* pass, and nothing of it runs once the one it woke may destroy the struct.
VWakesThenLeaves == NoLostWakeup /\ SafeDestroy

=============================================================================
