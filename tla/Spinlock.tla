------------------------------ MODULE Spinlock ------------------------------
(***************************************************************************)
(* Spinlocks and interrupt priority levels: kern/thread/spinlock.c,        *)
(* kern/thread/spl.c, the interrupt path of mips_trap                      *)
(* (kern/arch/mips/locore/trap.c) and cpu_idle                             *)
(* (kern/arch/mips/thread/cpu.c).                                          *)
(*                                                                         *)
(* Every CPU runs one thread, which an interrupt handler may interrupt     *)
(* while the CPU's interrupts are on.  Both run the same spinlock code, on *)
(* the same t_iplhigh_count and t_curspl (an interrupt borrows curthread). *)
(* A step is one access to memory another CPU can see, or one change of    *)
(* this CPU's interrupt state.  CURCPU_EXISTS() is true: boot, before      *)
(* curcpu exists, is single-threaded with interrupts off.                  *)
(***************************************************************************)
EXTENDS Allcpus, Integers, FiniteSets

CONSTANT Locks  \* numbered in the order their clients take them

ASSUME LocksAssumption == Locks \subseteq Nat

\* The two execution contexts of a CPU.
Ctx == {"thread", "intr"}
IPL_NONE == 0
IPL_HIGH == 1

\* No lock is being acquired or released.
NoLock == -1

\* Where a context is inside the code; "run" is outside all of it.
Labels == {"run", "raise", "spin", "tas", "own", "clear", "lower",
           "splup", "irqonoff"}

VARIABLES
    splk_lock,    \* the lock words
    splk_holder,  \* the CPU recorded as holding each lock
    iplhigh,      \* curthread->t_iplhigh_count of each CPU
    curspl,       \* curthread->t_curspl of each CPU
    irq,          \* CST_IEc of each CPU: TRUE when interrupts are on
    act,          \* the context each CPU executes
    doadjust,     \* mips_trap's local, of the interrupt being handled
    pc, want,     \* per context: place in the code, and the lock it is about
    held,         \* per context: the locks its client holds
    panic         \* "none", or the panic or KASSERT that stopped the kernel

vars == <<splk_lock, splk_holder, iplhigh, curspl, irq, act, doadjust,
          pc, want, held, panic>>

Init ==
    /\ splk_lock = [l \in Locks |-> 0]
    /\ splk_holder = [l \in Locks |-> NoCPU]
    /\ iplhigh = [c \in CPUs |-> 0]
    /\ curspl = [c \in CPUs |-> IPL_NONE]
    /\ irq = [c \in CPUs |-> TRUE]
    /\ act = [c \in CPUs |-> "thread"]
    /\ doadjust = [c \in CPUs |-> FALSE]
    /\ pc = [c \in CPUs |-> [x \in Ctx |-> "run"]]
    /\ want = [c \in CPUs |-> [x \in Ctx |-> NoLock]]
    /\ held = [c \in CPUs |-> [x \in Ctx |-> {}]]
    /\ panic = "none"

At(c, x, label) == panic = "none" /\ act[c] = x /\ pc[c][x] = label
Goto(c, x, label) == pc' = [pc EXCEPT ![c][x] = label]

(***************************************************************************)
(* splraise and spllower.  The test of the count and cpu_irqoff come       *)
(* first, the increment later: an interrupt can only come before the       *)
(* former.                                                                 *)
(***************************************************************************)
\* Mutant: interrupts stay on while a lock is taken.
SplraiseIrqoff_keepson(c) == irq' = irq

SplraiseIrqoff(c) == irq' = [irq EXCEPT ![c] = @ /\ iplhigh[c] # 0]

SplraiseCount(c) == iplhigh' = [iplhigh EXCEPT ![c] = @ + 1]

\* Mutants: interrupts come back with every release; with none, because the
\* count is tested before it is decremented.

Spllower_early(c) ==
    /\ iplhigh' = [iplhigh EXCEPT ![c] = @ - 1]
    /\ irq' = [irq EXCEPT ![c] = @ \/ iplhigh[c] = 0]

Spllower(c) ==
    /\ iplhigh' = [iplhigh EXCEPT ![c] = @ - 1]
    /\ irq' = [irq EXCEPT ![c] = @ \/ iplhigh[c] - 1 = 0]

(***************************************************************************)
(* spinlock_acquire.  Clients take locks in increasing order, in any       *)
(* context; a handler's order is its own, because it interrupts a thread   *)
(* that holds none.                                                        *)
(***************************************************************************)
SpinlockAcquire(c, x, l) ==
    /\ At(c, x, "run")
    /\ \A k \in held[c][x] : k < l
    /\ want' = [want EXCEPT ![c][x] = l]
    /\ SplraiseIrqoff(c)
    /\ Goto(c, x, "raise")
    /\ UNCHANGED <<splk_lock, splk_holder, iplhigh, curspl, act, doadjust,
                   held, panic>>

\* The rest of splraise, and the check for acquiring a lock twice.
SpinlockCheck(c, x) ==
    /\ At(c, x, "raise")
    /\ SplraiseCount(c)
    /\ panic' = IF splk_holder[want[c][x]] = c THEN "deadlock" ELSE panic
    /\ Goto(c, x, "spin")
    /\ UNCHANGED <<splk_lock, splk_holder, curspl, irq, act, doadjust,
                   want, held>>

\* spinlock_data_get returned 0 (any other value is read again).
SpinlockGet(c, x) ==
    /\ At(c, x, "spin")
    /\ splk_lock[want[c][x]] = 0
    /\ Goto(c, x, "tas")
    /\ UNCHANGED <<splk_lock, splk_holder, iplhigh, curspl, irq, act,
                   doadjust, want, held, panic>>

\* Mutant: the store does not depend on what was loaded.
TestAndSetWins_blind(c, x) ==
    /\ At(c, x, "tas")
    /\ splk_lock' = [splk_lock EXCEPT ![want[c][x]] = 1]
    /\ Goto(c, x, "own")
    /\ UNCHANGED <<splk_holder, iplhigh, curspl, irq, act, doadjust, want,
                   held, panic>>

\* spinlock_data_testandset stored 1 over 0.
TestAndSetWins(c, x) ==
    /\ At(c, x, "tas")
    /\ splk_lock[want[c][x]] = 0
    /\ splk_lock' = [splk_lock EXCEPT ![want[c][x]] = 1]
    /\ Goto(c, x, "own")
    /\ UNCHANGED <<splk_holder, iplhigh, curspl, irq, act, doadjust, want,
                   held, panic>>

\* It read 1, or the store-conditional failed, for whatever reason.
TestAndSetFails(c, x) ==
    /\ At(c, x, "tas")
    /\ Goto(c, x, "spin")
    /\ UNCHANGED <<splk_lock, splk_holder, iplhigh, curspl, irq, act,
                   doadjust, want, held, panic>>

\* splk_holder = mycpu, and spinlock_acquire returns.
SpinlockOwn(c, x) ==
    /\ At(c, x, "own")
    /\ splk_holder' = [splk_holder EXCEPT ![want[c][x]] = c]
    /\ held' = [held EXCEPT ![c][x] = @ \union {want[c][x]}]
    /\ want' = [want EXCEPT ![c][x] = NoLock]
    /\ Goto(c, x, "run")
    /\ UNCHANGED <<splk_lock, iplhigh, curspl, irq, act, doadjust, panic>>

(***************************************************************************)
(* spinlock_release, of any lock held: releases need not nest.             *)
(***************************************************************************)

SpinlockRelease(c, x, l) ==
    /\ At(c, x, "run")
    /\ l \in held[c][x]
    /\ panic' = IF splk_holder[l] # c THEN "release" ELSE panic
    /\ splk_holder' = [splk_holder EXCEPT ![l] = NoCPU]
    /\ held' = [held EXCEPT ![c][x] = @ \ {l}]
    /\ want' = [want EXCEPT ![c][x] = l]
    /\ Goto(c, x, "clear")
    /\ UNCHANGED <<splk_lock, iplhigh, curspl, irq, act, doadjust>>

SpinlockClear(c, x) ==
    /\ At(c, x, "clear")
    /\ splk_lock' = [splk_lock EXCEPT ![want[c][x]] = 0]
    /\ want' = [want EXCEPT ![c][x] = NoLock]
    /\ Goto(c, x, "lower")
    /\ UNCHANGED <<splk_holder, iplhigh, curspl, irq, act, doadjust, held,
                   panic>>

\* The spllower at the end of spinlock_release and of a lowering splx.
LowerIpl(c, x) ==
    /\ At(c, x, "lower")
    /\ Spllower(c)
    /\ Goto(c, x, "run")
    /\ UNCHANGED <<splk_lock, splk_holder, curspl, act, doadjust, want, held,
                   panic>>

(***************************************************************************)
(* splx.  A thread raises from IPL_NONE and later goes back, whatever      *)
(* locks it took or released in between; in a handler the level is already *)
(* IPL_HIGH, so every splhigh, and the splx that undoes it, does nothing.  *)
(***************************************************************************)
SplxRaise(c) ==
    /\ At(c, "thread", "run")
    /\ curspl[c] < IPL_HIGH
    /\ SplraiseIrqoff(c)
    /\ Goto(c, "thread", "splup")
    /\ UNCHANGED <<splk_lock, splk_holder, iplhigh, curspl, act, doadjust,
                   want, held, panic>>

SplxRaised(c) ==
    /\ At(c, "thread", "splup")
    /\ SplraiseCount(c)
    /\ curspl' = [curspl EXCEPT ![c] = IPL_HIGH]
    /\ Goto(c, "thread", "run")
    /\ UNCHANGED <<splk_lock, splk_holder, irq, act, doadjust, want, held,
                   panic>>

SplxLower(c) ==
    /\ At(c, "thread", "run")
    /\ curspl[c] > IPL_NONE
    /\ curspl' = [curspl EXCEPT ![c] = IPL_NONE]
    /\ Goto(c, "thread", "lower")
    /\ UNCHANGED <<splk_lock, splk_holder, iplhigh, irq, act, doadjust, want,
                   held, panic>>

(***************************************************************************)
(* cpu_idle, called by thread_switch at IPL_HIGH with no spinlock held:    *)
(* cpu_irqonoff flips interrupts on, so that one can be taken, and off.    *)
(***************************************************************************)
CpuIdle(c) ==
    /\ At(c, "thread", "run")
    /\ curspl[c] = IPL_HIGH
    /\ held[c]["thread"] = {}
    /\ irq' = [irq EXCEPT ![c] = TRUE]
    /\ Goto(c, "thread", "irqonoff")
    /\ UNCHANGED <<splk_lock, splk_holder, iplhigh, curspl, act, doadjust,
                   want, held, panic>>

CpuIdleDone(c) ==
    /\ At(c, "thread", "irqonoff")
    /\ irq' = [irq EXCEPT ![c] = FALSE]
    /\ Goto(c, "thread", "run")
    /\ UNCHANGED <<splk_lock, splk_holder, iplhigh, curspl, act, doadjust,
                   want, held, panic>>

(***************************************************************************)
(* An interrupt: the processor turns interrupts off, mips_trap brings the  *)
(* recorded level into line, and mainbus_interrupt runs as the "intr"      *)
(* context, which takes and releases locks.                                *)
(***************************************************************************)
TrapIrq(c) ==
    /\ panic = "none"
    /\ irq[c]
    /\ act[c] = "thread"
    /\ irq' = [irq EXCEPT ![c] = FALSE]
    /\ act' = [act EXCEPT ![c] = "intr"]
    /\ \/ /\ curspl[c] = IPL_NONE
          /\ doadjust' = [doadjust EXCEPT ![c] = TRUE]
          /\ panic' = IF iplhigh[c] # 0 THEN "irq entry" ELSE panic
          /\ curspl' = [curspl EXCEPT ![c] = IPL_HIGH]
          /\ iplhigh' = [iplhigh EXCEPT ![c] = @ + 1]
       \/ /\ curspl[c] # IPL_NONE
          /\ doadjust' = [doadjust EXCEPT ![c] = FALSE]
          /\ UNCHANGED <<panic, curspl, iplhigh>>
    /\ UNCHANGED <<splk_lock, splk_holder, pc, want, held>>

\* mainbus_interrupt is back, having leaked no lock: the level is restored
\* and the return from exception turns interrupts on again.
TrapIrqReturn(c) ==
    /\ At(c, "intr", "run")
    /\ held[c]["intr"] = {}
    /\ irq' = [irq EXCEPT ![c] = TRUE]
    /\ act' = [act EXCEPT ![c] = "thread"]
    /\ doadjust' = [doadjust EXCEPT ![c] = FALSE]
    /\ \/ /\ doadjust[c]
          /\ panic' = IF curspl[c] # IPL_HIGH \/ iplhigh[c] # 1
                      THEN "irq exit" ELSE panic
          /\ iplhigh' = [iplhigh EXCEPT ![c] = @ - 1]
          /\ curspl' = [curspl EXCEPT ![c] = IPL_NONE]
       \/ /\ ~doadjust[c]
          /\ UNCHANGED <<panic, curspl, iplhigh>>
    /\ UNCHANGED <<splk_lock, splk_holder, pc, want, held>>

Next ==
    \E c \in CPUs :
        \/ \E x \in Ctx :
              \/ \E l \in Locks : SpinlockAcquire(c, x, l)
              \/ SpinlockCheck(c, x)
              \/ SpinlockGet(c, x)
              \/ TestAndSetWins(c, x)
              \/ TestAndSetFails(c, x)
              \/ SpinlockOwn(c, x)
              \/ \E l \in Locks : SpinlockRelease(c, x, l)
              \/ SpinlockClear(c, x)
              \/ LowerIpl(c, x)
        \/ SplxRaise(c)
        \/ SplxRaised(c)
        \/ SplxLower(c)
        \/ CpuIdle(c)
        \/ CpuIdleDone(c)
        \/ TrapIrq(c)
        \/ TrapIrqReturn(c)

Spec == Init /\ [][Next]_vars

-----------------------------------------------------------------------------
Types ==
    /\ splk_lock \in [Locks -> {0, 1}]
    /\ splk_holder \in [Locks -> CPUs \union {NoCPU}]
    /\ iplhigh \in [CPUs -> Int]
    /\ curspl \in [CPUs -> {IPL_NONE, IPL_HIGH}]
    /\ irq \in [CPUs -> BOOLEAN]
    /\ act \in [CPUs -> Ctx]
    /\ doadjust \in [CPUs -> BOOLEAN]
    /\ pc \in [CPUs -> [Ctx -> Labels]]
    /\ want \in [CPUs -> [Ctx -> Locks \union {NoLock}]]
    /\ held \in [CPUs -> [Ctx -> SUBSET Locks]]
    /\ panic \in {"none", "deadlock", "release", "irq entry", "irq exit"}
    /\ \A c \in CPUs : \A x \in Ctx :
          pc[c][x] \in {"raise", "spin", "tas", "own", "clear"} =>
              want[c][x] \in Locks

\* Every variable of spinlock.c, spl.c and mips_trap stays within its type,
\* and t_iplhigh_count never goes below zero: no spllower without its splraise.
TypeOK == Types /\ \A c \in CPUs : iplhigh[c] >= 0

\* A context is between the test-and-set that won a lock and the store that
\* frees it.
Owns(c, x, l) ==
    \/ l \in held[c][x]
    \/ pc[c][x] \in {"own", "clear"} /\ want[c][x] = l

\* spinlock_acquire/spinlock_release: no two contexts, on two CPUs or on one
\* (a handler and the thread it interrupted), own a lock at the same time.
MutualExclusion ==
    \A c, d \in CPUs : \A x, y \in Ctx : \A l \in Locks :
        Owns(c, x, l) /\ Owns(d, y, l) => c = d /\ x = y

\* spinlock_do_i_hold, which reads splk_holder without the lock, is right
\* when it matters: a CPU reads its own name there exactly while one of its
\* contexts holds the lock, and the name is gone before another can set it.
HolderAgrees ==
    \A c \in CPUs : \A l \in Locks :
        splk_holder[l] = c <=> \E x \in Ctx : l \in held[c][x]

\* A CPU that owns or waits for a spinlock takes no interrupt until it has
\* released its last one, in whatever order locks and splx calls mix, and a
\* handler is never interrupted.
IrqsOffWhileLocking ==
    \A c \in CPUs : irq[c] =>
        /\ act[c] = "thread"
        /\ \A x \in Ctx : /\ held[c][x] = {}
                          /\ pc[c][x] \in {"run", "irqonoff"}

\* No raise is left behind: a thread back outside the code with no lock and
\* at IPL_NONE has its interrupts on.
IrqsBackOn ==
    \A c \in CPUs :
        (/\ At(c, "thread", "run")
         /\ held[c]["thread"] = {}
         /\ curspl[c] = IPL_NONE) => irq[c] /\ iplhigh[c] = 0

\* The panic of spinlock_acquire and the KASSERTs of spinlock_release and
\* mips_trap are never reached: no handler spins on a lock its own CPU
\* holds, and no interrupt finds or leaves the level inconsistent.
NoPanic == panic = "none"

\* What a CPU relies on about itself: splk_holder, which spinlock_do_i_hold
\* reads without the lock, and the interrupt state are right in every mix of
\* locks, splx, idling and interrupts.
CpuStateRight ==
    TypeOK /\ HolderAgrees /\ IrqsOffWhileLocking /\ IrqsBackOn

=============================================================================
