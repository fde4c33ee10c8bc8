------------------------------- MODULE Thread -------------------------------
(***************************************************************************)
(* The thread system: kern/thread/thread.c (scheduling, wait channels,     *)
(* migration, thread creation and destruction) and hardclock of            *)
(* kern/thread/clock.c.                                                    *)
(*                                                                         *)
(* A step is what a CPU does between two points at which another CPU can   *)
(* interfere: while it holds the spinlock that protects what it touches,   *)
(* it is not disturbed.  Spinlocks are taken in one step (module Spinlock  *)
(* shows they exclude).  A timer interrupt is code of the thread it        *)
(* interrupts, which may be switched away from inside it; a CPU takes one  *)
(* while it runs a thread at IPL_NONE, or from cpu_idle.  The idle CPU     *)
(* still has a curthread, on whose stack it runs, although that thread     *)
(* sleeps, is ready again or is a zombie.                                  *)
(***************************************************************************)
EXTENDS Integers, Sequences, SequencesExt

CONSTANTS
    NumCPUs,    \* the CPUs are 1 .. NumCPUs, in the order of allcpus
    Threads,    \* struct threads that can exist at a time
    BootThread, \* the thread cpu_create makes for each CPU
    WChans,     \* wait channels, lbolt among them
    lbolt,
    None,       \* NULL
    Calls       \* what threads may call: a subset of AllCalls

CPUs == 1 .. NumCPUs
AllCalls == {"yield", "sleep", "wakeone", "wakeall", "fork", "exit",
             "tick", "migrate"}

ASSUME CPUAssumption == NumCPUs \in Nat \ {0}
ASSUME BootAssumption ==
    /\ BootThread \in [CPUs -> Threads]
    /\ \A c, d \in CPUs : c # d => BootThread[c] # BootThread[d]
ASSUME NoneAssumption == None \notin Threads \union WChans \union CPUs
ASSUME LboltAssumption == lbolt \in WChans
ASSUME CallsAssumption == Calls \subseteq AllCalls

VARIABLES
    \* struct cpu
    runqueue,      \* c_runqueue
    rqlock,        \* c_runqueue_lock: the CPU holding it, or None
    isidle,        \* c_isidle
    curthread,     \* c_curthread
    zombies,       \* c_zombies
    unidle,        \* an IPI_UNIDLE was sent and not yet taken
    \* struct thread
    t_state, t_cpu,
    \* struct wchan
    wc_threads, wc_lock,
    \* the code a CPU executes
    pc, newstate, wc,  \* place, and the arguments of thread_switch
    list,              \* threads a CPU has yet to make runnable
    mig,               \* the locals of thread_consider_migration
    panic

cpuvars == <<runqueue, rqlock, isidle, curthread, zombies, unidle>>
threadvars == <<t_state, t_cpu>>
wchanvars == <<wc_threads, wc_lock>>
codevars == <<pc, newstate, wc, list, mig>>
vars == <<cpuvars, threadvars, wchanvars, codevars, panic>>

\* The locals of a CPU not in thread_consider_migration.
NoMig == [i |-> 1, mine |-> 0, total |-> 0, send |-> 0, share |-> 0,
          victims |-> <<>>]

\* After boot and cpu_hatch: every CPU runs the thread made for it.
Init ==
    /\ runqueue = [c \in CPUs |-> <<>>]
    /\ rqlock = [c \in CPUs |-> None]
    /\ isidle = [c \in CPUs |-> FALSE]
    /\ curthread = BootThread
    /\ zombies = [c \in CPUs |-> <<>>]
    /\ unidle = [c \in CPUs |-> FALSE]
    /\ t_state = [t \in Threads |->
                    IF \E c \in CPUs : BootThread[c] = t
                    THEN "run" ELSE "none"]
    /\ t_cpu = [t \in Threads |->
                  IF \E c \in CPUs : BootThread[c] = t
                  THEN CHOOSE c \in CPUs : BootThread[c] = t ELSE None]
    /\ wc_threads = [w \in WChans |-> <<>>]
    /\ wc_lock = [w \in WChans |-> None]
    /\ pc = [c \in CPUs |-> "run"]
    /\ newstate = [c \in CPUs |-> "ready"]
    /\ wc = [c \in CPUs |-> None]
    /\ list = [c \in CPUs |-> <<>>]
    /\ mig = [c \in CPUs |-> NoMig]
    /\ panic = "none"

At(c, label) == panic = "none" /\ pc[c] = label
Goto(c, label) == pc' = [pc EXCEPT ![c] = label]

\* Code that a thread calls, or that an interrupt runs on the stack of the
\* idle CPU's curthread, returns to the thread or to the idle loop.
Caller(c) == IF isidle[c] THEN "reacquire" ELSE "run"

(***************************************************************************)
(* thread_switch.                                                          *)
(***************************************************************************)
EnterSwitch(c, state, w) ==
    /\ newstate' = [newstate EXCEPT ![c] = state]
    /\ wc' = [wc EXCEPT ![c] = w]
    /\ Goto(c, "switch")

ThreadYield(c) ==
    /\ "yield" \in Calls
    /\ At(c, "run")
    /\ EnterSwitch(c, "ready", None)
    /\ UNCHANGED <<cpuvars, threadvars, wchanvars, list, mig, panic>>

\* thread_exit: the caller never comes back.
ThreadExit(c) ==
    /\ "exit" \in Calls
    /\ At(c, "run")
    /\ EnterSwitch(c, "zombie", None)
    /\ UNCHANGED <<cpuvars, threadvars, wchanvars, list, mig, panic>>

\* wchan_lock followed by wchan_sleep, as the synchronization code does.
WchanSleep(c, w) ==
    /\ "sleep" \in Calls
    /\ At(c, "run")
    /\ wc_lock[w] = None
    /\ wc_lock' = [wc_lock EXCEPT ![w] = c]
    /\ EnterSwitch(c, "sleep", w)
    /\ UNCHANGED <<cpuvars, threadvars, wc_threads, list, mig, panic>>

\* The run queue is locked; a yield with nothing to yield to returns.
SwitchNothing(c) ==
    /\ At(c, "switch")
    /\ rqlock[c] = None
    /\ newstate[c] = "ready" /\ runqueue[c] = <<>>
    /\ Goto(c, "run")
    /\ UNCHANGED <<cpuvars, threadvars, wchanvars, newstate, wc, list, mig,
                   panic>>

\* Where thread_make_runnable puts a thread on a run queue.
Enqueue_head(q, t) == <<t>> \o q  \* mutant
Enqueue(q, t) == Append(q, t)

SetState_not(t, state) == UNCHANGED t_state  \* mutant
SetState(t, state) == t_state' = [t_state EXCEPT ![t] = state]

\* Otherwise the thread goes where it belongs, its wait channel is unlocked,
\* and the CPU is idle until it finds another.
SwitchEnqueue(c) ==
    LET cur == curthread[c]
        w == wc[c]
    IN
    /\ At(c, "switch")
    /\ rqlock[c] = None
    /\ newstate[c] # "ready" \/ runqueue[c] # <<>>
    /\ rqlock' = [rqlock EXCEPT ![c] = c]
    /\ \/ /\ newstate[c] = "ready"
          /\ runqueue' = [runqueue EXCEPT ![c] = Enqueue(@, cur)]
          /\ UNCHANGED <<wchanvars, zombies, panic>>
       \/ /\ newstate[c] = "sleep"
          /\ wc_threads' = [wc_threads EXCEPT ![w] = Append(@, cur)]
          /\ wc_lock' = [wc_lock EXCEPT ![w] = None]
          /\ panic' = IF wc_lock[w] # c THEN "wchan_unlock" ELSE panic
          /\ UNCHANGED <<runqueue, zombies>>
       \/ /\ newstate[c] = "zombie"
          /\ zombies' = [zombies EXCEPT ![c] = Append(@, cur)]
          /\ UNCHANGED <<runqueue, wchanvars, panic>>
    /\ SetState(cur, newstate[c])
    /\ isidle' = [isidle EXCEPT ![c] = TRUE]
    /\ newstate' = [newstate EXCEPT ![c] = "ready"]
    /\ wc' = [wc EXCEPT ![c] = None]
    /\ Goto(c, "pick")
    /\ UNCHANGED <<curthread, t_cpu, unidle, list, mig>>

\* exorcise: destroy this CPU's zombies.
Exorcise(c) ==
    LET dead == Range(zombies[c]) IN
    /\ panic' = IF \E z \in dead : z = curthread[c] \/ t_state[z] # "zombie"
                THEN "exorcise" ELSE panic
    /\ t_state' = [t \in Threads |-> IF t \in dead THEN "none" ELSE t_state[t]]
    /\ t_cpu' = [t \in Threads |-> IF t \in dead THEN None ELSE t_cpu[t]]
    /\ zombies' = [zombies EXCEPT ![c] = <<>>]

\* The idle loop finds nothing, unlocks the run queue and calls cpu_idle.
SwitchIdle(c) ==
    /\ At(c, "pick")
    /\ runqueue[c] = <<>>
    /\ rqlock' = [rqlock EXCEPT ![c] = None]
    /\ Goto(c, "idle")
    /\ UNCHANGED <<runqueue, isidle, curthread, zombies, unidle, threadvars,
                   wchanvars, newstate, wc, list, mig, panic>>

\* It finds a thread and switches to its stack, the run queue still locked.
SwitchTo(c) ==
    /\ At(c, "pick")
    /\ runqueue[c] # <<>>
    /\ runqueue' = [runqueue EXCEPT ![c] = Tail(@)]
    /\ isidle' = [isidle EXCEPT ![c] = FALSE]
    /\ curthread' = [curthread EXCEPT ![c] = Head(runqueue[c])]
    /\ SetState(Head(runqueue[c]), "run")
    /\ Goto(c, "switched")
    /\ UNCHANGED <<rqlock, zombies, unidle, t_cpu, wchanvars, newstate, wc,
                   list, mig, panic>>

\* In the thread switched to, whether thread_switch returns or thread_startup
\* begins: unlock the run queue, exorcise the zombies, and run.
Switched(c) ==
    /\ At(c, "switched")
    /\ rqlock' = [rqlock EXCEPT ![c] = None]
    /\ Exorcise(c)
    /\ Goto(c, "run")
    /\ UNCHANGED <<runqueue, isidle, curthread, unidle, wchanvars, newstate,
                   wc, list, mig>>

\* cpu_idle takes the interrupt of an IPI_UNIDLE, which has nothing to do.
IdleIpi(c) ==
    /\ At(c, "idle")
    /\ unidle[c]
    /\ unidle' = [unidle EXCEPT ![c] = FALSE]
    /\ Goto(c, "reacquire")
    /\ UNCHANGED <<runqueue, rqlock, isidle, curthread, zombies, threadvars,
                   wchanvars, newstate, wc, list, mig, panic>>

\* The same interrupt while a thread runs.
RunIpi(c) ==
    /\ At(c, "run")
    /\ unidle[c]
    /\ unidle' = [unidle EXCEPT ![c] = FALSE]
    /\ UNCHANGED <<runqueue, rqlock, isidle, curthread, zombies, threadvars,
                   wchanvars, codevars, panic>>

\* The idle loop locks the run queue again.
Reacquire(c) ==
    /\ At(c, "reacquire")
    /\ rqlock[c] = None
    /\ rqlock' = [rqlock EXCEPT ![c] = c]
    /\ Goto(c, "pick")
    /\ UNCHANGED <<runqueue, isidle, curthread, zombies, unidle, threadvars,
                   wchanvars, newstate, wc, list, mig, panic>>

(***************************************************************************)
(* thread_make_runnable, once for every thread on the CPU's private list:  *)
(* with the run queue of the thread's CPU locked, queue it, and send an    *)
(* IPI_UNIDLE if that CPU is idle.                                         *)
(***************************************************************************)

IpiIfIdle(tc) == unidle' = [unidle EXCEPT ![tc] = @ \/ isidle[tc]]

MakeRunnable(c) ==
    LET target == Head(list[c])
        tc == t_cpu[target]
    IN
    /\ At(c, "wake")
    /\ rqlock[tc] = None
    /\ runqueue' = [runqueue EXCEPT ![tc] = Enqueue(@, target)]
    /\ IpiIfIdle(tc)
    /\ list' = [list EXCEPT ![c] = Tail(@)]
    /\ Goto(c, IF Len(list[c]) > 1 THEN "wake" ELSE Caller(c))
    /\ UNCHANGED <<rqlock, isidle, curthread, zombies, threadvars, wchanvars,
                   newstate, wc, mig, panic>>

\* thread_fork: a new thread on this CPU; thread_create leaves it ready.
ThreadFork(c, t) ==
    /\ "fork" \in Calls
    /\ At(c, "run")
    /\ t_state[t] = "none"
    /\ t_state' = [t_state EXCEPT ![t] = "ready"]
    /\ t_cpu' = [t_cpu EXCEPT ![t] = t_cpu[curthread[c]]]
    /\ list' = [list EXCEPT ![c] = <<t>>]
    /\ Goto(c, "wake")
    /\ UNCHANGED <<cpuvars, wchanvars, newstate, wc, mig, panic>>

\* wchan_wakeone and wchan_wakeall, called by a thread or by a handler (of a
\* device, or timerclock for lbolt): take sleepers off the channel, then
\* make them runnable.
TakeSleepers(c, w, n) ==
    /\ pc[c] \in {"run", "idle"} /\ panic = "none"
    /\ wc_lock[w] = None
    /\ wc_threads[w] # <<>>
    /\ list' = [list EXCEPT ![c] = SubSeq(wc_threads[w], 1, n)]
    /\ wc_threads' = [wc_threads EXCEPT
                        ![w] = SubSeq(@, n + 1, Len(@))]
    /\ Goto(c, "wake")
    /\ UNCHANGED <<cpuvars, threadvars, wc_lock, newstate, wc, mig, panic>>

WchanWakeone(c, w) == "wakeone" \in Calls /\ TakeSleepers(c, w, 1)

WchanWakeall(c, w) ==
    "wakeall" \in Calls /\ TakeSleepers(c, w, Len(wc_threads[w]))

(***************************************************************************)
(* The timer interrupt: hardclock considers migration (every fourth time;  *)
(* the counter is left out) and then calls thread_yield, which returns at  *)
(* once on an idle CPU.                                                    *)
(***************************************************************************)
HardclockReturn(c) ==
    IF isidle[c]
    THEN /\ Goto(c, "reacquire")
         /\ UNCHANGED <<newstate, wc>>
    ELSE EnterSwitch(c, "ready", None)

Hardclock(c) ==
    /\ "tick" \in Calls
    /\ pc[c] \in {"run", "idle"} /\ panic = "none"
    /\ HardclockReturn(c)
    /\ UNCHANGED <<cpuvars, threadvars, wchanvars, list, mig, panic>>

HardclockMigration(c) ==
    /\ "migrate" \in Calls
    /\ pc[c] \in {"run", "idle"} /\ panic = "none"
    /\ Goto(c, "count")
    /\ UNCHANGED <<cpuvars, threadvars, wchanvars, newstate, wc, list, mig,
                   panic>>

DivRoundUp(a, b) == (a + b - 1) \div b

\* The locals m when a run queue of n threads has been counted, when there
\* are threads to send, when it is the next CPU's turn, and when the victims
\* are v.
Counted(m, n, mine) ==
    [m EXCEPT !.i = @ + 1, !.mine = mine, !.total = @ + n]
Sending(send, share) == [NoMig EXCEPT !.send = send, !.share = share]
NextCPU(m) == [m EXCEPT !.i = @ + 1]
Taking(m, v) == [m EXCEPT !.victims = v]
Giving(m, v) == [m EXCEPT !.victims = v, !.send = @ - 1]

SetMig(c, m) == mig' = [mig EXCEPT ![c] = m]

\* Count the run queues, each under its own lock.
MigrationCount(c) ==
    LET m == mig[c]
        n == Len(runqueue[m.i])
        mine == IF m.i = c THEN n ELSE m.mine
        share == DivRoundUp(m.total + n, NumCPUs)
    IN
    /\ At(c, "count")
    /\ rqlock[m.i] = None
    /\ \/ /\ m.i < NumCPUs
          /\ SetMig(c, Counted(m, n, mine))
          /\ UNCHANGED <<pc, newstate, wc>>
       \/ /\ m.i = NumCPUs
          /\ mine <= share   \* less than a share: return; a share: send none
          /\ SetMig(c, NoMig)
          /\ HardclockReturn(c)
       \/ /\ m.i = NumCPUs
          /\ mine > share
          /\ SetMig(c, Sending(mine - share, share))
          /\ Goto(c, "take")
          /\ UNCHANGED <<newstate, wc>>
    /\ UNCHANGED <<cpuvars, threadvars, wchanvars, list, panic>>

\* Take to_send victims from the tail of this CPU's own run queue; an empty
\* run queue would yield NULL.
MigrationTake(c) ==
    LET rq == runqueue[c]
        left == Len(rq) - mig[c].send
    IN
    /\ At(c, "take")
    /\ rqlock[c] = None
    /\ panic' = IF left < 0 THEN "NULL victim" ELSE panic
    /\ runqueue' = [runqueue EXCEPT ![c] = SubSeq(rq, 1, left)]
    /\ SetMig(c, Taking(mig[c], SubSeq(rq, left + 1, Len(rq))))
    /\ Goto(c, "give")
    /\ UNCHANGED <<rqlock, isidle, curthread, zombies, unidle, threadvars,
                   wchanvars, newstate, wc, list>>

\* The loop over the other CPUs locks the run queue of the next one.
MigrationNext(c) ==
    LET i == mig[c].i IN
    /\ At(c, "give")
    /\ i <= NumCPUs /\ mig[c].send > 0
    /\ \/ /\ i = c
          /\ SetMig(c, NextCPU(mig[c]))
          /\ UNCHANGED <<rqlock, pc>>
       \/ /\ i # c
          /\ rqlock[i] = None
          /\ rqlock' = [rqlock EXCEPT ![i] = c]
          /\ Goto(c, "giving")
          /\ UNCHANGED mig
    /\ UNCHANGED <<runqueue, isidle, curthread, zombies, unidle, threadvars,
                   wchanvars, newstate, wc, list, panic>>

\* curthread, on whose stack this CPU idles, stays.
Stays_never(c, t) == FALSE  \* mutant
Stays(c, t) == t = curthread[c]

MoveThread(t, i) == t_cpu' = [t_cpu EXCEPT ![t] = i]

\* While that CPU has less than a share, give it a victim; one that stays
\* goes to the end of the list.
MigrationGive(c) ==
    LET m == mig[c]
        t == Head(m.victims)
    IN
    /\ At(c, "giving")
    /\ Len(runqueue[m.i]) < m.share /\ m.send > 0
    /\ \/ /\ Stays(c, t)
          /\ SetMig(c, Giving(m, Append(Tail(m.victims), t)))
          /\ UNCHANGED <<t_cpu, runqueue, unidle>>
       \/ /\ ~Stays(c, t)
          /\ MoveThread(t, m.i)
          /\ runqueue' = [runqueue EXCEPT ![m.i] = Append(@, t)]
          /\ IpiIfIdle(m.i)
          /\ SetMig(c, Giving(m, Tail(m.victims)))
    /\ UNCHANGED <<rqlock, isidle, curthread, zombies, t_state, wchanvars, pc,
                   newstate, wc, list, panic>>

\* It has its share, or there is no more to send: unlock its run queue.
MigrationGiven(c) ==
    LET m == mig[c] IN
    /\ At(c, "giving")
    /\ ~(Len(runqueue[m.i]) < m.share /\ m.send > 0)
    /\ rqlock' = [rqlock EXCEPT ![m.i] = None]
    /\ SetMig(c, NextCPU(m))
    /\ Goto(c, "give")
    /\ UNCHANGED <<runqueue, isidle, curthread, zombies, unidle, threadvars,
                   wchanvars, newstate, wc, list, panic>>

Leftovers_lost(c) == <<>>  \* mutant
Leftovers(c) == mig[c].victims

\* The leftovers go back on this CPU's run queue.
MigrationBack(c) ==
    /\ At(c, "give")
    /\ ~(mig[c].i <= NumCPUs /\ mig[c].send > 0)
    /\ mig[c].victims = <<>> \/ rqlock[c] = None
    /\ runqueue' = [runqueue EXCEPT ![c] = @ \o Leftovers(c)]
    /\ SetMig(c, NoMig)
    /\ HardclockReturn(c)
    /\ UNCHANGED <<rqlock, isidle, curthread, zombies, unidle, threadvars,
                   wchanvars, list, panic>>

-----------------------------------------------------------------------------
Step(c) ==
    \/ SwitchNothing(c) \/ SwitchEnqueue(c) \/ SwitchIdle(c) \/ SwitchTo(c)
    \/ Switched(c) \/ IdleIpi(c) \/ Reacquire(c) \/ MakeRunnable(c)
    \/ MigrationCount(c) \/ MigrationTake(c) \/ MigrationNext(c)
    \/ MigrationGive(c) \/ MigrationGiven(c) \/ MigrationBack(c)

Next ==
    \E c \in CPUs :
        \/ Step(c)
        \/ RunIpi(c)
        \/ ThreadYield(c)
        \/ ThreadExit(c)
        \/ \E w \in WChans : WchanSleep(c, w)
        \/ \E t \in Threads : ThreadFork(c, t)
        \/ \E w \in WChans : WchanWakeone(c, w)
        \/ \E w \in WChans : WchanWakeall(c, w)
        \/ Hardclock(c)
        \/ HardclockMigration(c)

Spec == Init /\ [][Next]_vars

(***************************************************************************)
(* Fairness: a CPU executes its code, and gets a run queue lock it spins   *)
(* on that is free again and again, as each is for most of every 1/HZ      *)
(* second; its timer, whose interrupt stays pending until it is taken,     *)
(* keeps interrupting it.                                                  *)
(***************************************************************************)
Fairness ==
    \A c \in CPUs : /\ SF_vars(Step(c))
                    /\ SF_vars(Hardclock(c))

LiveSpec == Spec /\ Fairness

-----------------------------------------------------------------------------
ThreadStates == {"run", "ready", "sleep", "zombie", "none"}

\* Every field of struct cpu, struct thread and struct wchan keeps its type.
TypeOK ==
    /\ runqueue \in [CPUs -> Seq(Threads)]
    /\ rqlock \in [CPUs -> CPUs \union {None}]
    /\ isidle \in [CPUs -> BOOLEAN]
    /\ curthread \in [CPUs -> Threads]
    /\ zombies \in [CPUs -> Seq(Threads)]
    /\ unidle \in [CPUs -> BOOLEAN]
    /\ t_state \in [Threads -> ThreadStates]
    /\ t_cpu \in [Threads -> CPUs \union {None}]
    /\ wc_threads \in [WChans -> Seq(Threads)]
    /\ wc_lock \in [WChans -> CPUs \union {None}]
    /\ list \in [CPUs -> Seq(Threads)]

\* Where a thread can be: with the CPU that executes it, rather than idling
\* on its stack, or on a queue.
Queues == ({"runqueue", "zombies", "list", "victims"} \X CPUs)
            \union ({"wchan"} \X WChans)
Places == Queues \union ({"cpu"} \X CPUs)

queue == [runqueue |-> runqueue, zombies |-> zombies, list |-> list,
          victims |-> [c \in CPUs |-> mig[c].victims], wchan |-> wc_threads]

Queue(p) == queue[p[1]][p[2]]

Executes(c, t) == curthread[c] = t /\ ~isidle[c]

Holds(p) ==
    IF p[1] = "cpu" THEN {t \in Threads : Executes(p[2], t)}
                    ELSE Range(Queue(p))

\* No thread is lost or duplicated: a thread that exists is executed by one
\* CPU or is on one queue, there once, and never both.
OnePlace ==
    /\ \A q \in Queues : IsInjective(Queue(q))
    /\ \A t \in Threads :
           LET at == {p \in Places : t \in Holds(p)}
           IN  IF t_state[t] = "none" THEN at = {}
                                      ELSE \E p \in Places : at = {p}

\* No stack is used by two CPUs: a thread is curthread of at most one CPU,
\* even of an idle one whose curthread was woken and may be migrated (the
\* exercise in the comment of thread_consider_migration).
OneStack ==
    \A c, d \in CPUs : curthread[c] = curthread[d] => c = d

\* No CPU runs or idles on the stack of a thread exorcise has freed.
StackAlive == \A c \in CPUs : t_state[curthread[c]] # "none"

\* Whoever makes a thread runnable locks the run queue it is put on: t_cpu,
\* read without a lock, names the CPU of curthread and of queued threads.
CpuOfThread ==
    /\ \A c \in CPUs : t_cpu[curthread[c]] = c
    /\ \A c \in CPUs : \A i \in DOMAIN runqueue[c] : t_cpu[runqueue[c][i]] = c

\* A CPU waiting for an interrupt in cpu_idle with a thread on its run queue
\* has an IPI coming: queueing and the idle test cannot miss each other.
NoLostUnidle ==
    \A c \in CPUs : pc[c] = "idle" /\ runqueue[c] # <<>> => unidle[c]

\* No KASSERT of exorcise or spinlock_release fails and migration, although
\* it counted before it took, never takes from an empty run queue.
NoPanic == panic = "none"

\* A thread that is ready, or has been taken off a wait channel to be woken,
\* is executed in the end: no wakeup and no turn is lost.
ReadyRuns ==
    \A t \in Threads :
        (\E c \in CPUs : Contains(runqueue[c] \o list[c], t))
            ~> (\E c \in CPUs : Executes(c, t))

\* No thread is lost: each is in one place, on the queue of the CPU it says,
\* and that CPU does not sleep while it waits there.
NoThreadLost == TypeOK /\ OnePlace /\ CpuOfThread /\ NoLostUnidle

\* Every CPU has a stack to itself, and one that has not been freed.
StacksSafe == OneStack /\ StackAlive

=============================================================================
