---------------------------- MODULE Synch_proofs ----------------------------
(***************************************************************************)
(* Proofs about what threads and processors use to wait for each other:    *)
(* Spinlock and Ipi, for any number of CPUs, then Semaphore and Monitor,   *)
(* for any number of threads.                                              *)
(*                                                                         *)
(* Spinlock: the locks exclude, each records its holder, and the priority  *)
(* level, the interrupt enable bit and the count of spinlocks agree.       *)
(*                                                                         *)
(* Ipi: no wakeup of an idle CPU is lost, and while no more than           *)
(* TLBSHOOTDOWN_MAX + 1 TLB shootdowns are requested of a CPU between two  *)
(* runs of its handler, none of them is.  The invariant adds who may hold  *)
(* a run queue (SendersHold), where a CPU is idle (WaitersIdle) and what   *)
(* c_numshootdown counts (ShootdownsCounted).                              *)
(*                                                                         *)
(* Semaphore: P and V keep their types, implement the atomic operations of *)
(* AtomicSemaphore and lose no wakeup; and if every V is for one of the    *)
(* Ps, the semaphore may be destroyed after the last P.  The invariant     *)
(* adds that a thread inside P or V still has that call to complete, that  *)
(* the wait channel holds the sleeping threads, each once, and where in    *)
(* the code a thread holds which spinlock.                                 *)
(*                                                                         *)
(* Monitor: the sleep lock excludes and strands no sleeper, no KASSERT     *)
(* fails, and with its condition variable it implements AtomicMonitor.     *)
(***************************************************************************)
EXTENDS Spinlock, Ipi, Semaphore, Monitor, FiniteSetTheorems, SequenceTheorems,
        TLAPS

\* Every variable keeps its type (the count as an integer).
LEMMA TypesInit == Init => Types
BY NoCPUAssumption DEF Init, Types, Labels, Ctx, NoLock, IPL_NONE, IPL_HIGH

\* A step of any action keeps the types.
LEMMA TypesNext == Types /\ [Next]_vars => Types'
<1> SUFFICES ASSUME Types, [Next]_vars PROVE Types'
  OBVIOUS
<1> USE DEF Types, Labels, Ctx, NoLock, IPL_NONE, IPL_HIGH, At, Goto
<1>1. ASSUME NEW c \in CPUs, NEW x \in Ctx, NEW l \in Locks,
             SpinlockAcquire(c, x, l)
      PROVE  Types'
  BY <1>1 DEF SpinlockAcquire, SplraiseIrqoff
<1>2. ASSUME NEW c \in CPUs, NEW x \in Ctx, SpinlockCheck(c, x) PROVE Types'
  BY <1>2 DEF SpinlockCheck, SplraiseCount
<1>3. ASSUME NEW c \in CPUs, NEW x \in Ctx, SpinlockGet(c, x) PROVE Types'
  BY <1>3 DEF SpinlockGet
<1>4. ASSUME NEW c \in CPUs, NEW x \in Ctx, TestAndSetWins(c, x) PROVE Types'
  BY <1>4 DEF TestAndSetWins
<1>5. ASSUME NEW c \in CPUs, NEW x \in Ctx, TestAndSetFails(c, x) PROVE Types'
  BY <1>5 DEF TestAndSetFails
<1>6. ASSUME NEW c \in CPUs, NEW x \in Ctx, SpinlockOwn(c, x) PROVE Types'
  BY <1>6 DEF SpinlockOwn
<1>7. ASSUME NEW c \in CPUs, NEW x \in Ctx, NEW l \in Locks,
             SpinlockRelease(c, x, l)
      PROVE  Types'
  BY <1>7 DEF SpinlockRelease
<1>8. ASSUME NEW c \in CPUs, NEW x \in Ctx, SpinlockClear(c, x) PROVE Types'
  BY <1>8 DEF SpinlockClear
<1>9. ASSUME NEW c \in CPUs, NEW x \in Ctx, LowerIpl(c, x) PROVE Types'
  BY <1>9 DEF LowerIpl, Spllower
<1>10. ASSUME NEW c \in CPUs, SplxRaise(c) PROVE Types'
  BY <1>10 DEF SplxRaise, SplraiseIrqoff
<1>11. ASSUME NEW c \in CPUs, SplxRaised(c) PROVE Types'
  BY <1>11 DEF SplxRaised, SplraiseCount
<1>12. ASSUME NEW c \in CPUs, SplxLower(c) PROVE Types'
  BY <1>12 DEF SplxLower
<1>13. ASSUME NEW c \in CPUs, CpuIdle(c) PROVE Types'
  BY <1>13 DEF CpuIdle
<1>14. ASSUME NEW c \in CPUs, CpuIdleDone(c) PROVE Types'
  BY <1>14 DEF CpuIdleDone
<1>15. ASSUME NEW c \in CPUs, TrapIrq(c) PROVE Types'
  <2>1. CASE curspl[c] = IPL_NONE
    <3>1. panic' \in {"none", "deadlock", "release", "irq entry", "irq exit"}
      BY <1>15, <2>1 DEF TrapIrq
    <3>2. /\ curspl' = [curspl EXCEPT ![c] = IPL_HIGH]
          /\ iplhigh' = [iplhigh EXCEPT ![c] = @ + 1]
      BY <1>15, <2>1 DEF TrapIrq
    <3>6. curspl' \in [CPUs -> {IPL_NONE, IPL_HIGH}]
      BY <3>2
    <3>7. iplhigh' \in [CPUs -> Int]
      <4>1. iplhigh \in [CPUs -> Int]
        OBVIOUS
      <4> HIDE DEF Types
      <4> QED
        BY <3>2, <4>1
    <3>3. irq' \in [CPUs -> BOOLEAN]
      BY <1>15, <2>1 DEF TrapIrq
    <3>4. doadjust' \in [CPUs -> BOOLEAN]
      BY <1>15, <2>1 DEF TrapIrq
    <3>5. act' \in [CPUs -> Ctx]
      BY <1>15, <2>1 DEF TrapIrq
    <3>8. UNCHANGED <<splk_lock, splk_holder, pc, want, held>>
      BY <1>15 DEF TrapIrq
    <3> QED
      BY <3>1, <3>3, <3>4, <3>5, <3>6, <3>7, <3>8
  <2>2. CASE curspl[c] # IPL_NONE
    BY <1>15, <2>2 DEF TrapIrq
  <2> QED
    BY <2>1, <2>2
<1>16. ASSUME NEW c \in CPUs, TrapIrqReturn(c) PROVE Types'
  <2>1. CASE doadjust[c]
    <3>1. panic' \in {"none", "deadlock", "release", "irq entry", "irq exit"}
      BY <1>16, <2>1 DEF TrapIrqReturn
    <3>2. /\ curspl' = [curspl EXCEPT ![c] = IPL_NONE]
          /\ iplhigh' = [iplhigh EXCEPT ![c] = @ - 1]
      BY <1>16, <2>1 DEF TrapIrqReturn
    <3>6. curspl' \in [CPUs -> {IPL_NONE, IPL_HIGH}]
      BY <3>2
    <3>7. iplhigh' \in [CPUs -> Int]
      <4>1. iplhigh \in [CPUs -> Int]
        OBVIOUS
      <4> HIDE DEF Types
      <4> QED
        BY <3>2, <4>1
    <3>3. irq' \in [CPUs -> BOOLEAN]
      BY <1>16, <2>1 DEF TrapIrqReturn
    <3>4. doadjust' \in [CPUs -> BOOLEAN]
      BY <1>16, <2>1 DEF TrapIrqReturn
    <3>5. act' \in [CPUs -> Ctx]
      BY <1>16, <2>1 DEF TrapIrqReturn
    <3>8. UNCHANGED <<splk_lock, splk_holder, pc, want, held>>
      BY <1>16 DEF TrapIrqReturn
    <3> QED
      BY <3>1, <3>3, <3>4, <3>5, <3>6, <3>7, <3>8
  <2>2. CASE ~doadjust[c]
    BY <1>16, <2>2 DEF TrapIrqReturn
  <2> QED
    BY <2>1, <2>2
<1>17. CASE UNCHANGED vars
  BY <1>17 DEF vars
<1> HIDE DEF Types, Labels, Ctx, NoLock, IPL_NONE, IPL_HIGH, At, Goto
<1> QED
  BY <1>1, <1>2, <1>3, <1>4, <1>5, <1>6, <1>7, <1>8, <1>9, <1>10, <1>11,
     <1>12, <1>13, <1>14, <1>15, <1>16, <1>17 DEF Next

-----------------------------------------------------------------------------
(***************************************************************************)
(* Mutual exclusion.                                                       *)
(***************************************************************************)

\* An owned lock's word is 1, no lock has two owners, and a context that is
\* about to free a lock has given it up.
ExclusionInv ==
    /\ \A c \in CPUs : \A x \in Ctx : \A l \in Locks :
          Owns(c, x, l) => splk_lock[l] = 1
    /\ MutualExclusion
    /\ \A c \in CPUs : \A x \in Ctx :
          pc[c][x] = "clear" => want[c][x] \notin held[c][x]

\* A step that leaves the lock words and the locks held alone, and neither
\* enters nor leaves "own" and "clear", keeps ExclusionInv.
LEMMA ExclusionFrame ==
    ASSUME Types, ExclusionInv,
           UNCHANGED <<splk_lock, held>>,
           \A d \in CPUs : \A y \in Ctx :
               \/ pc'[d][y] = pc[d][y] /\ want'[d][y] = want[d][y]
               \/ pc'[d][y] \notin {"own", "clear"}
    PROVE  ExclusionInv'
BY DEF ExclusionInv, MutualExclusion, Owns

\* A step of any action keeps ExclusionInv.
LEMMA ExclusionNext == Types /\ ExclusionInv /\ [Next]_vars => ExclusionInv'
<1> SUFFICES ASSUME Types, ExclusionInv, [Next]_vars PROVE ExclusionInv'
  OBVIOUS
<1> USE DEF At, Goto
<1>t. /\ pc \in [CPUs -> [Ctx -> Labels]]
      /\ want \in [CPUs -> [Ctx -> Locks \union {NoLock}]]
      /\ held \in [CPUs -> [Ctx -> SUBSET Locks]]
      /\ splk_lock \in [Locks -> {0, 1}]
  BY DEF Types
<1>1. ASSUME NEW c \in CPUs, NEW x \in Ctx, NEW l \in Locks,
             SpinlockAcquire(c, x, l)
      PROVE  ExclusionInv'
  BY <1>1, <1>t, ExclusionFrame DEF SpinlockAcquire
<1>2. ASSUME NEW c \in CPUs, NEW x \in Ctx, SpinlockCheck(c, x)
      PROVE  ExclusionInv'
  BY <1>2, <1>t, ExclusionFrame DEF SpinlockCheck
<1>3. ASSUME NEW c \in CPUs, NEW x \in Ctx, SpinlockGet(c, x)
      PROVE  ExclusionInv'
  BY <1>3, <1>t, ExclusionFrame DEF SpinlockGet
<1>4. ASSUME NEW c \in CPUs, NEW x \in Ctx, TestAndSetWins(c, x)
      PROVE  ExclusionInv'
  <2>1. want[c][x] \in Locks
    BY <1>4 DEF TestAndSetWins, Types
  <2>2. \A d \in CPUs : \A y \in Ctx : ~Owns(d, y, want[c][x])
    BY <1>4, <2>1 DEF TestAndSetWins, ExclusionInv
  <2>3. \A d \in CPUs : \A y \in Ctx : \A l \in Locks :
           Owns(d, y, l)' <=>
               Owns(d, y, l) \/ (d = c /\ y = x /\ l = want[c][x])
    BY <1>4, <1>t DEF TestAndSetWins, Owns
  <2>4. \A l \in Locks :
          splk_lock'[l] = 1 <=> splk_lock[l] = 1 \/ l = want[c][x]
    BY <1>4, <1>t DEF TestAndSetWins
  <2>5. \A d \in CPUs : \A y \in Ctx :
           pc'[d][y] = "clear" => want'[d][y] \notin held'[d][y]
    BY <1>4, <1>t DEF TestAndSetWins, ExclusionInv
  <2> QED
    BY <2>1, <2>2, <2>3, <2>4, <2>5 DEF ExclusionInv, MutualExclusion
<1>5. ASSUME NEW c \in CPUs, NEW x \in Ctx, TestAndSetFails(c, x)
      PROVE  ExclusionInv'
  BY <1>5, <1>t, ExclusionFrame DEF TestAndSetFails
<1>6. ASSUME NEW c \in CPUs, NEW x \in Ctx, SpinlockOwn(c, x)
      PROVE  ExclusionInv'
  <2>1. \A d \in CPUs : \A y \in Ctx : \A l \in Locks :
           Owns(d, y, l)' <=> Owns(d, y, l)
    BY <1>6, <1>t DEF SpinlockOwn, Owns, NoLock
  <2>2. \A d \in CPUs : \A y \in Ctx :
           pc'[d][y] = "clear" => want'[d][y] \notin held'[d][y]
    BY <1>6, <1>t DEF SpinlockOwn, ExclusionInv
  <2> QED
    BY <1>6, <2>1, <2>2 DEF ExclusionInv, MutualExclusion, SpinlockOwn
<1>7. ASSUME NEW c \in CPUs, NEW x \in Ctx, NEW l \in Locks,
             SpinlockRelease(c, x, l)
      PROVE  ExclusionInv'
  <2>1. \A d \in CPUs : \A y \in Ctx : \A k \in Locks :
           Owns(d, y, k)' <=> Owns(d, y, k)
    BY <1>7, <1>t DEF SpinlockRelease, Owns
  <2>2. \A d \in CPUs : \A y \in Ctx :
           pc'[d][y] = "clear" => want'[d][y] \notin held'[d][y]
    BY <1>7, <1>t DEF SpinlockRelease, ExclusionInv
  <2> QED
    BY <1>7, <2>1, <2>2 DEF ExclusionInv, MutualExclusion, SpinlockRelease
<1>8. ASSUME NEW c \in CPUs, NEW x \in Ctx, SpinlockClear(c, x)
      PROVE  ExclusionInv'
  <2>1. want[c][x] \in Locks
    BY <1>8 DEF SpinlockClear, Types
  <2>2. Owns(c, x, want[c][x]) /\ want[c][x] \notin held[c][x]
    BY <1>8 DEF SpinlockClear, Owns, ExclusionInv
  <2>3. \A d \in CPUs : \A y \in Ctx :
           Owns(d, y, want[c][x]) => d = c /\ y = x
    BY <2>1, <2>2 DEF ExclusionInv, MutualExclusion
  <2>4. \A d \in CPUs : \A y \in Ctx : \A k \in Locks :
           Owns(d, y, k)' => Owns(d, y, k) /\ k # want[c][x]
    BY <1>8, <1>t, <2>2, <2>3 DEF SpinlockClear, Owns
  <2>5. \A k \in Locks : k # want[c][x] => splk_lock'[k] = splk_lock[k]
    BY <1>8, <1>t DEF SpinlockClear
  <2>6. \A d \in CPUs : \A y \in Ctx :
           pc'[d][y] = "clear" => want'[d][y] \notin held'[d][y]
    BY <1>8, <1>t DEF SpinlockClear, ExclusionInv
  <2> QED
    BY <2>4, <2>5, <2>6 DEF ExclusionInv, MutualExclusion
<1>9. ASSUME NEW c \in CPUs, NEW x \in Ctx, LowerIpl(c, x)
      PROVE  ExclusionInv'
  BY <1>9, <1>t, ExclusionFrame DEF LowerIpl
<1>10. ASSUME NEW c \in CPUs, SplxRaise(c) PROVE ExclusionInv'
  BY <1>10, <1>t, ExclusionFrame DEF SplxRaise
<1>11. ASSUME NEW c \in CPUs, SplxRaised(c) PROVE ExclusionInv'
  BY <1>11, <1>t, ExclusionFrame DEF SplxRaised
<1>12. ASSUME NEW c \in CPUs, SplxLower(c) PROVE ExclusionInv'
  BY <1>12, <1>t, ExclusionFrame DEF SplxLower
<1>13. ASSUME NEW c \in CPUs, CpuIdle(c) PROVE ExclusionInv'
  BY <1>13, <1>t, ExclusionFrame DEF CpuIdle
<1>14. ASSUME NEW c \in CPUs, CpuIdleDone(c) PROVE ExclusionInv'
  BY <1>14, <1>t, ExclusionFrame DEF CpuIdleDone
<1>15. ASSUME NEW c \in CPUs, TrapIrq(c) PROVE ExclusionInv'
  BY <1>15, <1>t, ExclusionFrame DEF TrapIrq
<1>16. ASSUME NEW c \in CPUs, TrapIrqReturn(c) PROVE ExclusionInv'
  BY <1>16, <1>t, ExclusionFrame DEF TrapIrqReturn
<1>17. CASE UNCHANGED vars
  BY <1>17, <1>t, ExclusionFrame DEF vars
<1> QED
  BY <1>1, <1>2, <1>3, <1>4, <1>5, <1>6, <1>7, <1>8, <1>9, <1>10, <1>11,
     <1>12, <1>13, <1>14, <1>15, <1>16, <1>17 DEF Next

\* spinlock_acquire and spinlock_release: no two contexts ever own a lock,
\* for any number of CPUs and locks, under every interleaving.
THEOREM SpinlockMutualExclusion == Spec => []MutualExclusion
<1>1. Init => Types /\ ExclusionInv
  <2>1. Init => ExclusionInv
    BY DEF Init, ExclusionInv, MutualExclusion, Owns, Ctx
  <2> QED
    BY <2>1, TypesInit
<1>2. Types /\ ExclusionInv /\ [Next]_vars => (Types /\ ExclusionInv)'
  BY TypesNext, ExclusionNext
<1>3. ExclusionInv => MutualExclusion
  BY DEF ExclusionInv
<1> QED
  BY <1>1, <1>2, <1>3, PTL DEF Spec

-----------------------------------------------------------------------------
(***************************************************************************)
(* splk_holder, and the interrupt state of a CPU.  The invariant says what *)
(* t_iplhigh_count counts: the locks that the running context holds, the   *)
(* spllower it owes for a call it is in, and t_curspl.                     *)
(***************************************************************************)
\* The spllower a context owes for the acquire, release or splx it is in.
Owed(label) == IF label \in {"spin", "tas", "own", "clear", "lower"} THEN 1
                                                                     ELSE 0

\* A thread runs: its interrupts are on while its count is zero, and in
\* cpu_idle; no handler is there.
ThreadRuns(c) ==
    /\ pc[c]["intr"] = "run" /\ held[c]["intr"] = {}
    /\ irq[c] <=> \/ pc[c]["thread"] = "irqonoff"
                  \/ pc[c]["thread"] = "run" /\ iplhigh[c] = 0
    /\ pc[c]["thread"] = "splup" => curspl[c] = IPL_NONE
    /\ pc[c]["thread"] = "irqonoff" =>
          curspl[c] = IPL_HIGH /\ held[c]["thread"] = {}

\* A handler runs: it interrupted a thread without locks, either outside all
\* of the code at IPL_NONE or in cpu_idle.
HandlerRuns(c) ==
    /\ ~irq[c] /\ curspl[c] = IPL_HIGH
    /\ held[c]["thread"] = {}
    /\ \/ pc[c]["thread"] = "run" /\ doadjust[c]
       \/ pc[c]["thread"] = "irqonoff" /\ ~doadjust[c]
    /\ pc[c]["intr"] \notin {"splup", "irqonoff"}

\* The count of the thread's raises is right.
CountRight(c) ==
    iplhigh[c] = Cardinality(held[c][act[c]]) + curspl[c]
                 + Owed(pc[c][act[c]])

\* Between the check of splk_holder and the return of spinlock_acquire.
Acquiring == {"raise", "spin", "tas", "own"}

\* A context holds finitely many locks, and not the one it acquires.
LocksRight(c) ==
    \A x \in Ctx : /\ IsFiniteSet(held[c][x])
                   /\ pc[c][x] \in Acquiring => want[c][x] \notin held[c][x]

CpuInv(c) ==
    /\ LocksRight(c)
    /\ CountRight(c)
    /\ act[c] = "thread" => ThreadRuns(c)
    /\ act[c] = "intr" => HandlerRuns(c)

CpusInv == \A c \in CPUs : CpuInv(c)

\* A step that changes nothing of a CPU keeps what is known of it.
LEMMA CpuFrame ==
    ASSUME NEW d \in CPUs, CpuInv(d),
           iplhigh'[d] = iplhigh[d], curspl'[d] = curspl[d],
           irq'[d] = irq[d], act'[d] = act[d], doadjust'[d] = doadjust[d],
           pc'[d] = pc[d], want'[d] = want[d], held'[d] = held[d]
    PROVE  CpuInv(d)'
BY DEF CpuInv, LocksRight, CountRight, ThreadRuns, HandlerRuns

\* The locks a context holds can be counted.
LEMMA HeldCount ==
    ASSUME NEW c \in CPUs, NEW x \in Ctx, CpuInv(c)
    PROVE  /\ IsFiniteSet(held[c][x])
           /\ Cardinality(held[c][x]) \in Nat
BY FS_CardinalityType DEF CpuInv, LocksRight

\* An interrupt comes when the thread holds no lock and is outside all of
\* the code at IPL_NONE, or in cpu_idle.
LEMMA EntryLevel ==
    ASSUME Types, NEW c \in CPUs, CpuInv(c), irq[c], act[c] = "thread"
    PROVE  /\ held[c]["thread"] = {}
           /\ \/ /\ curspl[c] = IPL_NONE /\ iplhigh[c] = 0
                 /\ pc[c]["thread"] = "run"
              \/ /\ curspl[c] = IPL_HIGH /\ iplhigh[c] = 1
                 /\ pc[c]["thread"] = "irqonoff"
<1>1. /\ Cardinality(held[c]["thread"]) \in Nat
      /\ Cardinality(held[c]["thread"]) = 0 <=> held[c]["thread"] = {}
  BY HeldCount, FS_EmptySet DEF Ctx
<1>2. /\ ThreadRuns(c)
      /\ iplhigh[c] = Cardinality(held[c]["thread"]) + curspl[c]
                      + Owed(pc[c]["thread"])
  BY DEF CpuInv, CountRight
<1>3. curspl[c] \in {0, 1}
  BY DEF Types, IPL_NONE, IPL_HIGH
<1>4. CASE pc[c]["thread"] = "irqonoff"
  BY <1>1, <1>2, <1>4 DEF ThreadRuns, Owed, IPL_HIGH
<1>5. CASE pc[c]["thread"] = "run" /\ iplhigh[c] = 0
  <2>1. Owed(pc[c]["thread"]) = 0
    BY <1>5 DEF Owed
  <2>2. curspl[c] = 0 /\ Cardinality(held[c]["thread"]) = 0
    BY <1>1, <1>2, <1>3, <1>5, <2>1
  <2> QED
    BY <1>1, <1>5, <2>2 DEF IPL_NONE
<1> QED
  BY <1>2, <1>4, <1>5 DEF ThreadRuns

\* A handler that is done leaves the level at which it was entered.
LEMMA ExitLevel ==
    ASSUME NEW c \in CPUs, CpuInv(c), act[c] = "intr",
           pc[c]["intr"] = "run", held[c]["intr"] = {}
    PROVE  HandlerRuns(c) /\ curspl[c] = IPL_HIGH /\ iplhigh[c] = 1
<1>1. HandlerRuns(c) /\ curspl[c] = 1
  BY DEF CpuInv, HandlerRuns, IPL_HIGH
<1>2. iplhigh[c] = Cardinality(held[c]["intr"]) + curspl[c]
                   + Owed(pc[c]["intr"])
  BY DEF CpuInv, CountRight
<1>3. Cardinality({}) = 0
  BY FS_EmptySet
<1> QED
  BY <1>1, <1>2, <1>3 DEF Owed, IPL_HIGH

\* What a step of CPU c leaves alone of the others.
OnlyOf(c) ==
    \A d \in CPUs : d # c =>
        /\ iplhigh'[d] = iplhigh[d] /\ curspl'[d] = curspl[d]
        /\ irq'[d] = irq[d] /\ act'[d] = act[d]
        /\ doadjust'[d] = doadjust[d]
        /\ pc'[d] = pc[d] /\ want'[d] = want[d] /\ held'[d] = held[d]

\* So only the CPU that makes the step is to be considered.
LEMMA CpuStep ==
    ASSUME CpusInv, NEW c \in CPUs, OnlyOf(c), CpuInv(c)'
    PROVE  CpusInv'
<1> SUFFICES ASSUME NEW d \in CPUs PROVE CpuInv(d)'
  BY DEF CpusInv
<1>1. CASE d = c
  BY <1>1
<1>2. CASE d # c
  BY <1>2, CpuFrame DEF CpusInv, OnlyOf
<1> QED
  BY <1>1, <1>2

\* Changing one context of one CPU.
LEMMA ContextExcept ==
    ASSUME NEW S, NEW f \in [CPUs -> [Ctx -> S]], NEW c \in CPUs,
           NEW x \in Ctx, NEW v
    PROVE  /\ [f EXCEPT ![c][x] = v][c][x] = v
           /\ \A y \in Ctx : y # x => [f EXCEPT ![c][x] = v][c][y] = f[c][y]
           /\ \A d \in CPUs : d # c => [f EXCEPT ![c][x] = v][d] = f[d]
OBVIOUS

\* A context moves to another place in the code.
LEMMA GotoMoves ==
    ASSUME Types, NEW c \in CPUs, NEW x \in Ctx, NEW label,
           Goto(c, x, label)
    PROVE  /\ pc'[c][x] = label
           /\ \A y \in Ctx : y # x => pc'[c][y] = pc[c][y]
           /\ \A d \in CPUs : d # c => pc'[d] = pc[d]
BY DEF Types, Goto

\* Every step keeps it, whatever the mix of locks, splx, idling and
\* interrupts.
LEMMA CpusNext ==
    ASSUME Types, CpusInv, [Next]_vars
    PROVE  CpusInv'
<1> USE DEF IPL_NONE, IPL_HIGH, Ctx
<1>t. /\ Types
      /\ iplhigh \in [CPUs -> Int] /\ curspl \in [CPUs -> {0, 1}]
      /\ irq \in [CPUs -> BOOLEAN] /\ act \in [CPUs -> Ctx]
      /\ doadjust \in [CPUs -> BOOLEAN]
      /\ pc \in [CPUs -> [Ctx -> Labels]]
      /\ want \in [CPUs -> [Ctx -> Locks \union {NoLock}]]
      /\ held \in [CPUs -> [Ctx -> SUBSET Locks]]
  BY DEF Types
<1>1. ASSUME NEW c \in CPUs, NEW x \in Ctx, NEW l \in Locks,
             SpinlockAcquire(c, x, l)
      PROVE  CpusInv'
  <2>1. /\ act[c] = x /\ pc[c][x] = "run" /\ Goto(c, x, "raise")
        /\ \A k \in held[c][x] : k < l
        /\ want' = [want EXCEPT ![c][x] = l]
        /\ irq' = [irq EXCEPT ![c] = @ /\ iplhigh[c] # 0]
        /\ UNCHANGED <<iplhigh, curspl, act, doadjust, held>>
    BY <1>1 DEF SpinlockAcquire, SplraiseIrqoff, At
  <2>2. /\ pc'[c][x] = "raise"
        /\ \A y \in Ctx : y # x => pc'[c][y] = pc[c][y]
        /\ \A d \in CPUs : d # c => pc'[d] = pc[d]
    BY <2>1, GotoMoves
  <2>3. /\ want'[c][x] = l
        /\ \A y \in Ctx : y # x => want'[c][y] = want[c][y]
        /\ \A d \in CPUs : d # c => want'[d] = want[d]
    BY <1>t, <2>1
  <2>4. /\ irq'[c] <=> irq[c] /\ iplhigh[c] # 0
        /\ \A d \in CPUs : d # c => irq'[d] = irq[d]
    BY <1>t, <2>1
  <2>5. OnlyOf(c)
    BY <2>1, <2>2 DEF OnlyOf
  <2>6. CpuInv(c)
    BY DEF CpusInv
  <2>7. Cardinality(held[c][x]) \in Nat
    BY <2>6, HeldCount
  <2>8. l \notin held[c][x]
    BY <2>1, LocksAssumption
  <2>9. LocksRight(c)'
    BY <2>1, <2>2, <2>3, <2>6, <2>8 DEF CpuInv, LocksRight
  <2>10. CountRight(c)'
    BY <2>1, <2>2, <2>6 DEF CpuInv, CountRight, Owed
  <2>11. act'[c] = "thread" => ThreadRuns(c)'
    BY <2>1, <2>2, <2>4, <2>6 DEF CpuInv, ThreadRuns
  <2>12. act'[c] = "intr" => HandlerRuns(c)'
    BY <2>1, <2>2, <2>4, <2>6 DEF CpuInv, HandlerRuns
  <2>13. CpuInv(c)'
    BY <2>9, <2>10, <2>11, <2>12 DEF CpuInv
  <2> QED
    BY <2>5, <2>13, CpuStep
<1>2. ASSUME NEW c \in CPUs, NEW x \in Ctx,
             SpinlockCheck(c, x)
      PROVE  CpusInv'
  <2>1. /\ act[c] = x /\ pc[c][x] = "raise" /\ Goto(c, x, "spin")
        /\ iplhigh' = [iplhigh EXCEPT ![c] = @ + 1]
        /\ UNCHANGED <<curspl, irq, act, doadjust, want, held>>
    BY <1>2 DEF SpinlockCheck, SplraiseCount, At
  <2>2. /\ pc'[c][x] = "spin"
        /\ \A y \in Ctx : y # x => pc'[c][y] = pc[c][y]
        /\ \A d \in CPUs : d # c => pc'[d] = pc[d]
    BY <2>1, GotoMoves
  <2>3. /\ iplhigh'[c] = iplhigh[c] + 1
        /\ \A d \in CPUs : d # c => iplhigh'[d] = iplhigh[d]
    BY <1>t, <2>1
  <2>4. OnlyOf(c)
    BY <2>1, <2>2 DEF OnlyOf
  <2>5. CpuInv(c)
    BY DEF CpusInv
  <2>6. Cardinality(held[c][x]) \in Nat
    BY <2>5, HeldCount
  <2>7. LocksRight(c)'
    BY <2>1, <2>2, <2>5 DEF CpuInv, LocksRight, Acquiring
  <2>8. CountRight(c)'
    BY <1>t, <2>1, <2>2, <2>5, <2>6 DEF CpuInv, CountRight, Owed
  <2>9. act'[c] = "thread" => ThreadRuns(c)'
    BY <2>1, <2>2, <2>5 DEF CpuInv, ThreadRuns
  <2>10. act'[c] = "intr" => HandlerRuns(c)'
    BY <2>1, <2>2, <2>5 DEF CpuInv, HandlerRuns
  <2>11. CpuInv(c)'
    BY <2>7, <2>8, <2>9, <2>10 DEF CpuInv
  <2> QED
    BY <2>4, <2>11, CpuStep
<1>3. ASSUME NEW c \in CPUs, NEW x \in Ctx,
             SpinlockGet(c, x)
      PROVE  CpusInv'
  <2>1. /\ act[c] = x /\ pc[c][x] = "spin" /\ Goto(c, x, "tas")
        /\ UNCHANGED <<iplhigh, curspl, irq, act, doadjust, want, held>>
    BY <1>3 DEF SpinlockGet, At
  <2>2. /\ pc'[c][x] = "tas"
        /\ \A y \in Ctx : y # x => pc'[c][y] = pc[c][y]
        /\ \A d \in CPUs : d # c => pc'[d] = pc[d]
    BY <2>1, GotoMoves
  <2>3. OnlyOf(c)
    BY <2>1, <2>2 DEF OnlyOf
  <2>4. CpuInv(c)
    BY DEF CpusInv
  <2>5. Cardinality(held[c][x]) \in Nat
    BY <2>4, HeldCount
  <2>6. LocksRight(c)'
    BY <2>1, <2>2, <2>4 DEF CpuInv, LocksRight, Acquiring
  <2>7. CountRight(c)'
    BY <2>1, <2>2, <2>4 DEF CpuInv, CountRight, Owed
  <2>8. act'[c] = "thread" => ThreadRuns(c)'
    BY <2>1, <2>2, <2>4 DEF CpuInv, ThreadRuns
  <2>9. act'[c] = "intr" => HandlerRuns(c)'
    BY <2>1, <2>2, <2>4 DEF CpuInv, HandlerRuns
  <2>10. CpuInv(c)'
    BY <2>6, <2>7, <2>8, <2>9 DEF CpuInv
  <2> QED
    BY <2>3, <2>10, CpuStep
<1>4. ASSUME NEW c \in CPUs, NEW x \in Ctx,
             TestAndSetWins(c, x)
      PROVE  CpusInv'
  <2>1. /\ act[c] = x /\ pc[c][x] = "tas" /\ Goto(c, x, "own")
        /\ UNCHANGED <<iplhigh, curspl, irq, act, doadjust, want, held>>
    BY <1>4 DEF TestAndSetWins, At
  <2>2. /\ pc'[c][x] = "own"
        /\ \A y \in Ctx : y # x => pc'[c][y] = pc[c][y]
        /\ \A d \in CPUs : d # c => pc'[d] = pc[d]
    BY <2>1, GotoMoves
  <2>3. OnlyOf(c)
    BY <2>1, <2>2 DEF OnlyOf
  <2>4. CpuInv(c)
    BY DEF CpusInv
  <2>5. Cardinality(held[c][x]) \in Nat
    BY <2>4, HeldCount
  <2>6. LocksRight(c)'
    BY <2>1, <2>2, <2>4 DEF CpuInv, LocksRight, Acquiring
  <2>7. CountRight(c)'
    BY <2>1, <2>2, <2>4 DEF CpuInv, CountRight, Owed
  <2>8. act'[c] = "thread" => ThreadRuns(c)'
    BY <2>1, <2>2, <2>4 DEF CpuInv, ThreadRuns
  <2>9. act'[c] = "intr" => HandlerRuns(c)'
    BY <2>1, <2>2, <2>4 DEF CpuInv, HandlerRuns
  <2>10. CpuInv(c)'
    BY <2>6, <2>7, <2>8, <2>9 DEF CpuInv
  <2> QED
    BY <2>3, <2>10, CpuStep
<1>5. ASSUME NEW c \in CPUs, NEW x \in Ctx,
             TestAndSetFails(c, x)
      PROVE  CpusInv'
  <2>1. /\ act[c] = x /\ pc[c][x] = "tas" /\ Goto(c, x, "spin")
        /\ UNCHANGED <<iplhigh, curspl, irq, act, doadjust, want, held>>
    BY <1>5 DEF TestAndSetFails, At
  <2>2. /\ pc'[c][x] = "spin"
        /\ \A y \in Ctx : y # x => pc'[c][y] = pc[c][y]
        /\ \A d \in CPUs : d # c => pc'[d] = pc[d]
    BY <2>1, GotoMoves
  <2>3. OnlyOf(c)
    BY <2>1, <2>2 DEF OnlyOf
  <2>4. CpuInv(c)
    BY DEF CpusInv
  <2>5. Cardinality(held[c][x]) \in Nat
    BY <2>4, HeldCount
  <2>6. LocksRight(c)'
    BY <2>1, <2>2, <2>4 DEF CpuInv, LocksRight, Acquiring
  <2>7. CountRight(c)'
    BY <2>1, <2>2, <2>4 DEF CpuInv, CountRight, Owed
  <2>8. act'[c] = "thread" => ThreadRuns(c)'
    BY <2>1, <2>2, <2>4 DEF CpuInv, ThreadRuns
  <2>9. act'[c] = "intr" => HandlerRuns(c)'
    BY <2>1, <2>2, <2>4 DEF CpuInv, HandlerRuns
  <2>10. CpuInv(c)'
    BY <2>6, <2>7, <2>8, <2>9 DEF CpuInv
  <2> QED
    BY <2>3, <2>10, CpuStep
<1>6. ASSUME NEW c \in CPUs, NEW x \in Ctx,
             SpinlockOwn(c, x)
      PROVE  CpusInv'
  <2>1. /\ act[c] = x /\ pc[c][x] = "own" /\ Goto(c, x, "run")
        /\ held' = [held EXCEPT ![c][x] = @ \union {want[c][x]}]
        /\ want' = [want EXCEPT ![c][x] = NoLock]
        /\ UNCHANGED <<iplhigh, curspl, irq, act, doadjust>>
    BY <1>6 DEF SpinlockOwn, At
  <2>2. /\ pc'[c][x] = "run"
        /\ \A y \in Ctx : y # x => pc'[c][y] = pc[c][y]
        /\ \A d \in CPUs : d # c => pc'[d] = pc[d]
    BY <2>1, GotoMoves
  <2>3. /\ held'[c][x] = held[c][x] \union {want[c][x]}
        /\ \A y \in Ctx : y # x => held'[c][y] = held[c][y]
        /\ \A d \in CPUs : d # c => held'[d] = held[d]
    BY <1>t, <2>1
  <2>4. /\ want'[c][x] = NoLock
        /\ \A y \in Ctx : y # x => want'[c][y] = want[c][y]
        /\ \A d \in CPUs : d # c => want'[d] = want[d]
    BY <1>t, <2>1
  <2>5. OnlyOf(c)
    BY <2>1, <2>2 DEF OnlyOf
  <2>6. CpuInv(c)
    BY DEF CpusInv
  <2>7. want[c][x] \notin held[c][x]
    BY <2>1, <2>6 DEF CpuInv, LocksRight, Acquiring
  <2>8. IsFiniteSet(held[c][x])
    BY <2>6, HeldCount
  <2>9. Cardinality(held[c][x]) \in Nat
    BY <2>6, HeldCount
  <2>10. /\ IsFiniteSet(held[c][x] \union {want[c][x]})
        /\ Cardinality(held[c][x] \union {want[c][x]})
               = Cardinality(held[c][x]) + 1
    BY <2>7, <2>8, FS_AddElement
  <2>11. /\ IsFiniteSet(held'[c][x])
        /\ Cardinality(held'[c][x]) = Cardinality(held[c][x]) + 1
    BY <2>3, <2>10
  <2>12. iplhigh[c] # 0
    BY <1>t, <2>1, <2>6, <2>9 DEF CpuInv, CountRight, Owed
  <2>13. LocksRight(c)'
    BY <2>2, <2>3, <2>4, <2>6, <2>11 DEF CpuInv, LocksRight, Acquiring
  <2>14. CountRight(c)'
    BY <1>t, <2>1, <2>2, <2>6, <2>9, <2>11 DEF CpuInv, CountRight, Owed
  <2>15. act'[c] = "thread" => ThreadRuns(c)'
    BY <2>1, <2>2, <2>6, <2>12 DEF CpuInv, ThreadRuns
  <2>16. act'[c] = "intr" => HandlerRuns(c)'
    BY <2>1, <2>2, <2>6 DEF CpuInv, HandlerRuns
  <2>17. CpuInv(c)'
    BY <2>13, <2>14, <2>15, <2>16 DEF CpuInv
  <2> QED
    BY <2>5, <2>17, CpuStep
<1>7. ASSUME NEW c \in CPUs, NEW x \in Ctx, NEW l \in Locks,
             SpinlockRelease(c, x, l)
      PROVE  CpusInv'
  <2>1. /\ act[c] = x /\ pc[c][x] = "run" /\ Goto(c, x, "clear")
        /\ l \in held[c][x]
        /\ held' = [held EXCEPT ![c][x] = @ \ {l}]
        /\ want' = [want EXCEPT ![c][x] = l]
        /\ UNCHANGED <<iplhigh, curspl, irq, act, doadjust>>
    BY <1>7 DEF SpinlockRelease, At
  <2>2. /\ pc'[c][x] = "clear"
        /\ \A y \in Ctx : y # x => pc'[c][y] = pc[c][y]
        /\ \A d \in CPUs : d # c => pc'[d] = pc[d]
    BY <2>1, GotoMoves
  <2>3. /\ held'[c][x] = held[c][x] \ {l}
        /\ \A y \in Ctx : y # x => held'[c][y] = held[c][y]
        /\ \A d \in CPUs : d # c => held'[d] = held[d]
    BY <1>t, <2>1
  <2>4. /\ want'[c][x] = l
        /\ \A y \in Ctx : y # x => want'[c][y] = want[c][y]
        /\ \A d \in CPUs : d # c => want'[d] = want[d]
    BY <1>t, <2>1
  <2>5. OnlyOf(c)
    BY <2>1, <2>2 DEF OnlyOf
  <2>6. CpuInv(c)
    BY DEF CpusInv
  <2>7. IsFiniteSet(held[c][x])
    BY <2>6, HeldCount
  <2>8. /\ IsFiniteSet(held[c][x] \ {l})
        /\ Cardinality(held[c][x] \ {l}) = Cardinality(held[c][x]) - 1
    BY <2>1, <2>7, FS_RemoveElement
  <2>9. /\ IsFiniteSet(held'[c][x])
        /\ Cardinality(held'[c][x]) = Cardinality(held[c][x]) - 1
    BY <2>3, <2>8
  <2>10. /\ Cardinality(held'[c][x]) \in Nat
        /\ Cardinality(held[c][x]) \in Nat
    BY <2>7, <2>9, FS_CardinalityType
  <2>11. iplhigh[c] # 0
    BY <1>t, <2>1, <2>6, <2>9, <2>10 DEF CpuInv, CountRight, Owed
  <2>12. LocksRight(c)'
    BY <2>2, <2>3, <2>4, <2>6, <2>9 DEF CpuInv, LocksRight
  <2>13. CountRight(c)'
    BY <1>t, <2>1, <2>2, <2>6, <2>9, <2>10 DEF CpuInv, CountRight, Owed
  <2>14. act'[c] = "thread" => ThreadRuns(c)'
    BY <2>1, <2>2, <2>6, <2>11 DEF CpuInv, ThreadRuns
  <2>15. act'[c] = "intr" => HandlerRuns(c)'
    BY <2>1, <2>2, <2>6 DEF CpuInv, HandlerRuns
  <2>16. CpuInv(c)'
    BY <2>12, <2>13, <2>14, <2>15 DEF CpuInv
  <2> QED
    BY <2>5, <2>16, CpuStep
<1>8. ASSUME NEW c \in CPUs, NEW x \in Ctx,
             SpinlockClear(c, x)
      PROVE  CpusInv'
  <2>1. /\ act[c] = x /\ pc[c][x] = "clear" /\ Goto(c, x, "lower")
        /\ want' = [want EXCEPT ![c][x] = NoLock]
        /\ UNCHANGED <<iplhigh, curspl, irq, act, doadjust, held>>
    BY <1>8 DEF SpinlockClear, At
  <2>2. /\ pc'[c][x] = "lower"
        /\ \A y \in Ctx : y # x => pc'[c][y] = pc[c][y]
        /\ \A d \in CPUs : d # c => pc'[d] = pc[d]
    BY <2>1, GotoMoves
  <2>3. /\ want'[c][x] = NoLock
        /\ \A y \in Ctx : y # x => want'[c][y] = want[c][y]
        /\ \A d \in CPUs : d # c => want'[d] = want[d]
    BY <1>t, <2>1
  <2>4. OnlyOf(c)
    BY <2>1, <2>2 DEF OnlyOf
  <2>5. CpuInv(c)
    BY DEF CpusInv
  <2>6. Cardinality(held[c][x]) \in Nat
    BY <2>5, HeldCount
  <2>7. LocksRight(c)'
    BY <2>1, <2>2, <2>5 DEF CpuInv, LocksRight, Acquiring
  <2>8. CountRight(c)'
    BY <2>1, <2>2, <2>5 DEF CpuInv, CountRight, Owed
  <2>9. act'[c] = "thread" => ThreadRuns(c)'
    BY <2>1, <2>2, <2>5 DEF CpuInv, ThreadRuns
  <2>10. act'[c] = "intr" => HandlerRuns(c)'
    BY <2>1, <2>2, <2>5 DEF CpuInv, HandlerRuns
  <2>11. CpuInv(c)'
    BY <2>7, <2>8, <2>9, <2>10 DEF CpuInv
  <2> QED
    BY <2>4, <2>11, CpuStep
<1>9. ASSUME NEW c \in CPUs, NEW x \in Ctx,
             LowerIpl(c, x)
      PROVE  CpusInv'
  <2>1. /\ act[c] = x /\ pc[c][x] = "lower" /\ Goto(c, x, "run")
        /\ iplhigh' = [iplhigh EXCEPT ![c] = @ - 1]
        /\ irq' = [irq EXCEPT ![c] = @ \/ iplhigh[c] - 1 = 0]
        /\ UNCHANGED <<curspl, act, doadjust, want, held>>
    BY <1>9 DEF LowerIpl, Spllower, At
  <2>2. /\ pc'[c][x] = "run"
        /\ \A y \in Ctx : y # x => pc'[c][y] = pc[c][y]
        /\ \A d \in CPUs : d # c => pc'[d] = pc[d]
    BY <2>1, GotoMoves
  <2>3. /\ iplhigh'[c] = iplhigh[c] - 1
        /\ \A d \in CPUs : d # c => iplhigh'[d] = iplhigh[d]
    BY <1>t, <2>1
  <2>4. /\ irq'[c] <=> irq[c] \/ iplhigh[c] - 1 = 0
        /\ \A d \in CPUs : d # c => irq'[d] = irq[d]
    BY <1>t, <2>1
  <2>5. OnlyOf(c)
    BY <2>1, <2>2 DEF OnlyOf
  <2>6. CpuInv(c)
    BY DEF CpusInv
  <2>7. Cardinality(held[c][x]) \in Nat
    BY <2>6, HeldCount
  <2>8. x = "intr" => iplhigh[c] > 1
    BY <2>1, <2>6, <2>7 DEF CpuInv, CountRight, Owed, HandlerRuns
  <2>9. LocksRight(c)'
    BY <2>1, <2>2, <2>6 DEF CpuInv, LocksRight, Acquiring
  <2>10. CountRight(c)'
    BY <1>t, <2>1, <2>2, <2>6, <2>7 DEF CpuInv, CountRight, Owed
  <2>11. act'[c] = "thread" => ThreadRuns(c)'
    BY <2>1, <2>2, <2>3, <2>4, <2>6 DEF CpuInv, ThreadRuns
  <2>12. act'[c] = "intr" => HandlerRuns(c)'
    BY <2>1, <2>2, <2>4, <2>6, <2>8 DEF CpuInv, HandlerRuns
  <2>13. CpuInv(c)'
    BY <2>9, <2>10, <2>11, <2>12 DEF CpuInv
  <2> QED
    BY <2>5, <2>13, CpuStep
<1>10. ASSUME NEW c \in CPUs, SplxRaise(c)
      PROVE  CpusInv'
  <2>1. /\ act[c] = "thread" /\ pc[c]["thread"] = "run"
        /\ Goto(c, "thread", "splup") /\ curspl[c] < IPL_HIGH
        /\ irq' = [irq EXCEPT ![c] = @ /\ iplhigh[c] # 0]
        /\ UNCHANGED <<iplhigh, curspl, act, doadjust, want, held>>
    BY <1>10 DEF SplxRaise, SplraiseIrqoff, At
  <2>2. /\ pc'[c]["thread"] = "splup"
        /\ \A y \in Ctx : y # "thread" => pc'[c][y] = pc[c][y]
        /\ \A d \in CPUs : d # c => pc'[d] = pc[d]
    BY <2>1, GotoMoves
  <2>3. /\ irq'[c] <=> irq[c] /\ iplhigh[c] # 0
        /\ \A d \in CPUs : d # c => irq'[d] = irq[d]
    BY <1>t, <2>1
  <2>4. OnlyOf(c)
    BY <2>1, <2>2 DEF OnlyOf
  <2>5. CpuInv(c)
    BY DEF CpusInv
  <2>6. Cardinality(held[c]["thread"]) \in Nat
    BY <2>5, HeldCount
  <2>7. LocksRight(c)'
    BY <2>1, <2>2, <2>5 DEF CpuInv, LocksRight, Acquiring
  <2>8. CountRight(c)'
    BY <2>1, <2>2, <2>5 DEF CpuInv, CountRight, Owed
  <2>9. act'[c] = "thread" => ThreadRuns(c)'
    BY <1>t, <2>1, <2>2, <2>3, <2>5 DEF CpuInv, ThreadRuns
  <2>10. act'[c] = "intr" => HandlerRuns(c)'
    BY <2>1
  <2>11. CpuInv(c)'
    BY <2>7, <2>8, <2>9, <2>10 DEF CpuInv
  <2> QED
    BY <2>4, <2>11, CpuStep
<1>11. ASSUME NEW c \in CPUs, SplxRaised(c)
      PROVE  CpusInv'
  <2>1. /\ act[c] = "thread" /\ pc[c]["thread"] = "splup"
        /\ Goto(c, "thread", "run")
        /\ iplhigh' = [iplhigh EXCEPT ![c] = @ + 1]
        /\ curspl' = [curspl EXCEPT ![c] = IPL_HIGH]
        /\ UNCHANGED <<irq, act, doadjust, want, held>>
    BY <1>11 DEF SplxRaised, SplraiseCount, At
  <2>2. /\ pc'[c]["thread"] = "run"
        /\ \A y \in Ctx : y # "thread" => pc'[c][y] = pc[c][y]
        /\ \A d \in CPUs : d # c => pc'[d] = pc[d]
    BY <2>1, GotoMoves
  <2>3. /\ iplhigh'[c] = iplhigh[c] + 1
        /\ \A d \in CPUs : d # c => iplhigh'[d] = iplhigh[d]
    BY <1>t, <2>1
  <2>4. /\ curspl'[c] = IPL_HIGH
        /\ \A d \in CPUs : d # c => curspl'[d] = curspl[d]
    BY <1>t, <2>1
  <2>5. OnlyOf(c)
    BY <2>1, <2>2 DEF OnlyOf
  <2>6. CpuInv(c)
    BY DEF CpusInv
  <2>7. Cardinality(held[c]["thread"]) \in Nat
    BY <2>6, HeldCount
  <2>8. curspl[c] = 0 /\ iplhigh'[c] # 0
    BY <2>1, <2>3, <2>6, <2>7 DEF CpuInv, CountRight, Owed, ThreadRuns
  <2>9. LocksRight(c)'
    BY <2>1, <2>2, <2>6 DEF CpuInv, LocksRight, Acquiring
  <2>10. CountRight(c)'
    BY <2>1, <2>2, <2>3, <2>4, <2>6, <2>7, <2>8 DEF CpuInv, CountRight, Owed
  <2>11. act'[c] = "thread" => ThreadRuns(c)'
    BY <2>1, <2>2, <2>6, <2>8 DEF CpuInv, ThreadRuns
  <2>12. act'[c] = "intr" => HandlerRuns(c)'
    BY <2>1
  <2>13. CpuInv(c)'
    BY <2>9, <2>10, <2>11, <2>12 DEF CpuInv
  <2> QED
    BY <2>5, <2>13, CpuStep
<1>12. ASSUME NEW c \in CPUs, SplxLower(c)
      PROVE  CpusInv'
  <2>1. /\ act[c] = "thread" /\ pc[c]["thread"] = "run"
        /\ Goto(c, "thread", "lower") /\ curspl[c] > IPL_NONE
        /\ curspl' = [curspl EXCEPT ![c] = IPL_NONE]
        /\ UNCHANGED <<iplhigh, irq, act, doadjust, want, held>>
    BY <1>12 DEF SplxLower, At
  <2>2. /\ pc'[c]["thread"] = "lower"
        /\ \A y \in Ctx : y # "thread" => pc'[c][y] = pc[c][y]
        /\ \A d \in CPUs : d # c => pc'[d] = pc[d]
    BY <2>1, GotoMoves
  <2>3. /\ curspl'[c] = IPL_NONE
        /\ \A d \in CPUs : d # c => curspl'[d] = curspl[d]
    BY <1>t, <2>1
  <2>4. OnlyOf(c)
    BY <2>1, <2>2 DEF OnlyOf
  <2>5. CpuInv(c)
    BY DEF CpusInv
  <2>6. Cardinality(held[c]["thread"]) \in Nat
    BY <2>5, HeldCount
  <2>7. curspl[c] = 1 /\ iplhigh[c] # 0
    BY <1>t, <2>1, <2>5, <2>6 DEF CpuInv, CountRight, Owed
  <2>8. LocksRight(c)'
    BY <2>1, <2>2, <2>5 DEF CpuInv, LocksRight, Acquiring
  <2>9. CountRight(c)'
    BY <2>1, <2>2, <2>3, <2>5, <2>6, <2>7 DEF CpuInv, CountRight, Owed
  <2>10. act'[c] = "thread" => ThreadRuns(c)'
    BY <2>1, <2>2, <2>5, <2>7 DEF CpuInv, ThreadRuns
  <2>11. act'[c] = "intr" => HandlerRuns(c)'
    BY <2>1
  <2>12. CpuInv(c)'
    BY <2>8, <2>9, <2>10, <2>11 DEF CpuInv
  <2> QED
    BY <2>4, <2>12, CpuStep
<1>13. ASSUME NEW c \in CPUs, CpuIdle(c)
      PROVE  CpusInv'
  <2>1. /\ act[c] = "thread" /\ pc[c]["thread"] = "run"
        /\ Goto(c, "thread", "irqonoff") /\ curspl[c] = IPL_HIGH
        /\ held[c]["thread"] = {}
        /\ irq' = [irq EXCEPT ![c] = TRUE]
        /\ UNCHANGED <<iplhigh, curspl, act, doadjust, want, held>>
    BY <1>13 DEF CpuIdle, At
  <2>2. /\ pc'[c]["thread"] = "irqonoff"
        /\ \A y \in Ctx : y # "thread" => pc'[c][y] = pc[c][y]
        /\ \A d \in CPUs : d # c => pc'[d] = pc[d]
    BY <2>1, GotoMoves
  <2>3. /\ irq'[c]
        /\ \A d \in CPUs : d # c => irq'[d] = irq[d]
    BY <1>t, <2>1
  <2>4. OnlyOf(c)
    BY <2>1, <2>2 DEF OnlyOf
  <2>5. CpuInv(c)
    BY DEF CpusInv
  <2>6. Cardinality(held[c]["thread"]) \in Nat
    BY <2>5, HeldCount
  <2>7. LocksRight(c)'
    BY <2>1, <2>2, <2>5 DEF CpuInv, LocksRight
  <2>8. CountRight(c)'
    BY <2>1, <2>2, <2>5 DEF CpuInv, CountRight, Owed
  <2>9. act'[c] = "thread" => ThreadRuns(c)'
    BY <2>1, <2>2, <2>3, <2>5 DEF CpuInv, ThreadRuns
  <2>10. act'[c] = "intr" => HandlerRuns(c)'
    BY <2>1
  <2>11. CpuInv(c)'
    BY <2>7, <2>8, <2>9, <2>10 DEF CpuInv
  <2> QED
    BY <2>4, <2>11, CpuStep
<1>14. ASSUME NEW c \in CPUs, CpuIdleDone(c)
      PROVE  CpusInv'
  <2>1. /\ act[c] = "thread" /\ pc[c]["thread"] = "irqonoff"
        /\ Goto(c, "thread", "run")
        /\ irq' = [irq EXCEPT ![c] = FALSE]
        /\ UNCHANGED <<iplhigh, curspl, act, doadjust, want, held>>
    BY <1>14 DEF CpuIdleDone, At
  <2>2. /\ pc'[c]["thread"] = "run"
        /\ \A y \in Ctx : y # "thread" => pc'[c][y] = pc[c][y]
        /\ \A d \in CPUs : d # c => pc'[d] = pc[d]
    BY <2>1, GotoMoves
  <2>3. /\ ~irq'[c]
        /\ \A d \in CPUs : d # c => irq'[d] = irq[d]
    BY <1>t, <2>1
  <2>4. OnlyOf(c)
    BY <2>1, <2>2 DEF OnlyOf
  <2>5. CpuInv(c)
    BY DEF CpusInv
  <2>6. Cardinality(held[c]["thread"]) \in Nat
    BY <2>5, HeldCount
  <2>7. iplhigh[c] # 0
    BY <2>1, <2>5, <2>6 DEF CpuInv, CountRight, Owed, ThreadRuns
  <2>8. LocksRight(c)'
    BY <2>1, <2>2, <2>5 DEF CpuInv, LocksRight, Acquiring
  <2>9. CountRight(c)'
    BY <2>1, <2>2, <2>5 DEF CpuInv, CountRight, Owed
  <2>10. act'[c] = "thread" => ThreadRuns(c)'
    BY <2>1, <2>2, <2>3, <2>5, <2>7 DEF CpuInv, ThreadRuns
  <2>11. act'[c] = "intr" => HandlerRuns(c)'
    BY <2>1
  <2>12. CpuInv(c)'
    BY <2>8, <2>9, <2>10, <2>11 DEF CpuInv
  <2> QED
    BY <2>4, <2>12, CpuStep
<1>15. ASSUME NEW c \in CPUs, TrapIrq(c)
      PROVE  CpusInv'
  <2>1. /\ irq[c] /\ act[c] = "thread"
        /\ irq' = [irq EXCEPT ![c] = FALSE]
        /\ act' = [act EXCEPT ![c] = "intr"]
        /\ UNCHANGED <<pc, want, held>>
    BY <1>15 DEF TrapIrq
  <2>2. \/ /\ curspl[c] = 0
           /\ doadjust' = [doadjust EXCEPT ![c] = TRUE]
           /\ curspl' = [curspl EXCEPT ![c] = IPL_HIGH]
           /\ iplhigh' = [iplhigh EXCEPT ![c] = @ + 1]
        \/ /\ curspl[c] = 1
           /\ doadjust' = [doadjust EXCEPT ![c] = FALSE]
           /\ UNCHANGED <<curspl, iplhigh>>
    BY <1>t, <1>15 DEF TrapIrq
  <2>3. /\ ~irq'[c] /\ act'[c] = "intr" /\ curspl'[c] = 1
        /\ \A d \in CPUs : d # c => /\ irq'[d] = irq[d]
                                    /\ act'[d] = act[d]
                                    /\ curspl'[d] = curspl[d]
    BY <1>t, <2>1, <2>2
  <2>4. /\ iplhigh'[c] = iplhigh[c] + 1 - curspl[c]
        /\ doadjust'[c] <=> curspl[c] = 0
        /\ \A d \in CPUs : d # c => /\ iplhigh'[d] = iplhigh[d]
                                    /\ doadjust'[d] = doadjust[d]
    BY <1>t, <2>2
  <2>5. OnlyOf(c)
    BY <2>1, <2>3, <2>4 DEF OnlyOf
  <2>6. CpuInv(c)
    BY DEF CpusInv
  <2>7. /\ held[c]["thread"] = {}
        /\ \/ curspl[c] = 0 /\ iplhigh[c] = 0 /\ pc[c]["thread"] = "run"
           \/ curspl[c] = 1 /\ iplhigh[c] = 1 /\ pc[c]["thread"] = "irqonoff"
    BY <2>1, <2>6, EntryLevel
  <2>8. ThreadRuns(c) /\ Cardinality({}) = 0
    BY <2>1, <2>6, FS_EmptySet DEF CpuInv
  <2>9. CountRight(c)'
    <3>1. iplhigh'[c] = 1 /\ pc'[c]["intr"] = "run" /\ held'[c]["intr"] = {}
      BY <2>1, <2>4, <2>7, <2>8 DEF ThreadRuns
    <3> QED
      BY <2>3, <2>8, <3>1 DEF CountRight, Owed
  <2>10. HandlerRuns(c)'
    BY <2>1, <2>3, <2>4, <2>7, <2>8 DEF HandlerRuns, ThreadRuns
  <2>11. CpuInv(c)'
    BY <2>1, <2>3, <2>6, <2>9, <2>10 DEF CpuInv, LocksRight
  <2> QED
    BY <2>5, <2>11, CpuStep
<1>16. ASSUME NEW c \in CPUs, TrapIrqReturn(c)
      PROVE  CpusInv'
  <2>1. /\ act[c] = "intr" /\ pc[c]["intr"] = "run"
        /\ held[c]["intr"] = {}
        /\ irq' = [irq EXCEPT ![c] = TRUE]
        /\ act' = [act EXCEPT ![c] = "thread"]
        /\ doadjust' = [doadjust EXCEPT ![c] = FALSE]
        /\ UNCHANGED <<pc, want, held>>
    BY <1>16 DEF TrapIrqReturn, At
  <2>2. \/ /\ doadjust[c]
           /\ iplhigh' = [iplhigh EXCEPT ![c] = @ - 1]
           /\ curspl' = [curspl EXCEPT ![c] = IPL_NONE]
        \/ /\ ~doadjust[c]
           /\ UNCHANGED <<curspl, iplhigh>>
    BY <1>16 DEF TrapIrqReturn
  <2>3. /\ irq'[c] /\ act'[c] = "thread"
        /\ \A d \in CPUs : d # c => /\ irq'[d] = irq[d]
                                    /\ act'[d] = act[d]
                                    /\ doadjust'[d] = doadjust[d]
    BY <1>t, <2>1
  <2>4. /\ IF doadjust[c]
           THEN iplhigh'[c] = iplhigh[c] - 1 /\ curspl'[c] = 0
           ELSE iplhigh'[c] = iplhigh[c] /\ curspl'[c] = curspl[c]
        /\ \A d \in CPUs : d # c => /\ iplhigh'[d] = iplhigh[d]
                                    /\ curspl'[d] = curspl[d]
    BY <1>t, <2>2
  <2>5. OnlyOf(c)
    BY <2>1, <2>4 DEF OnlyOf
  <2>6. CpuInv(c)
    BY DEF CpusInv
  <2>7. HandlerRuns(c) /\ curspl[c] = 1 /\ iplhigh[c] = 1
    BY <2>1, <2>6, ExitLevel
  <2>8. Cardinality({}) = 0
    BY FS_EmptySet
  <2>9. CountRight(c)'
    <3>1. /\ held'[c]["thread"] = {} /\ iplhigh'[c] = curspl'[c]
          /\ curspl'[c] \in Int /\ pc'[c]["thread"] \in {"run", "irqonoff"}
      BY <2>1, <2>4, <2>7 DEF HandlerRuns
    <3> QED
      BY <2>3, <2>8, <3>1 DEF CountRight, Owed
  <2>10. ThreadRuns(c)'
    BY <2>1, <2>3, <2>4, <2>7 DEF ThreadRuns, HandlerRuns
  <2>11. CpuInv(c)'
    BY <2>1, <2>3, <2>6, <2>9, <2>10 DEF CpuInv, LocksRight
  <2> QED
    BY <2>5, <2>11, CpuStep
<1>17. CASE UNCHANGED vars
  BY <1>17, CpuFrame DEF vars, CpusInv
<1> HIDE DEF IPL_NONE, IPL_HIGH, Ctx
<1> QED
  BY <1>1, <1>2, <1>3, <1>4, <1>5, <1>6, <1>7, <1>8, <1>9, <1>10, <1>11,
     <1>12, <1>13, <1>14, <1>15, <1>16, <1>17 DEF Next

\* splk_holder names the CPU of the context that holds the lock: it is set
\* by the one owner of the lock, and cleared before there can be another.
LEMMA HolderNext ==
    ASSUME Types, ExclusionInv, HolderAgrees, [Next]_vars
    PROVE  HolderAgrees'
<1>t. /\ held \in [CPUs -> [Ctx -> SUBSET Locks]]
      /\ splk_holder \in [Locks -> CPUs \union {NoCPU}]
      /\ want \in [CPUs -> [Ctx -> Locks \union {NoLock}]]
  BY DEF Types
<1>1. ASSUME NEW c \in CPUs, NEW x \in Ctx, SpinlockOwn(c, x)
      PROVE  HolderAgrees'
  <2> DEFINE w == want[c][x]
  <2>1. /\ pc[c][x] = "own"
        /\ splk_holder' = [splk_holder EXCEPT ![w] = c]
        /\ held' = [held EXCEPT ![c][x] = @ \union {w}]
    BY <1>1 DEF SpinlockOwn, At
  <2>2. w \in Locks
    BY <2>1 DEF Types
  <2>3. \A d \in CPUs : \A y \in Ctx : w \in held[d][y] => d = c
    BY <2>1, <2>2 DEF ExclusionInv, MutualExclusion, Owns
  <2>4. /\ held'[c][x] = held[c][x] \union {w}
        /\ \A y \in Ctx : y # x => held'[c][y] = held[c][y]
        /\ \A d \in CPUs : d # c => held'[d] = held[d]
    BY <1>t, <2>1
  <2>5. /\ splk_holder'[w] = c
        /\ \A l \in Locks : l # w => splk_holder'[l] = splk_holder[l]
    BY <1>t, <2>1, <2>2
  <2> HIDE DEF w
  <2>6. \A d \in CPUs : \A y \in Ctx : \A l \in Locks :
           l \in held'[d][y] <=>
              l \in held[d][y] \/ (d = c /\ y = x /\ l = w)
    BY <2>4
  <2> QED
    BY <2>3, <2>5, <2>6 DEF HolderAgrees
<1>2. ASSUME NEW c \in CPUs, NEW x \in Ctx, NEW l \in Locks,
             SpinlockRelease(c, x, l)
      PROVE  HolderAgrees'
  <2>1. /\ l \in held[c][x]
        /\ splk_holder' = [splk_holder EXCEPT ![l] = NoCPU]
        /\ held' = [held EXCEPT ![c][x] = @ \ {l}]
    BY <1>2 DEF SpinlockRelease
  <2>2. \A d \in CPUs : \A y \in Ctx : l \in held[d][y] => d = c /\ y = x
    BY <2>1 DEF ExclusionInv, MutualExclusion, Owns
  <2>3. /\ held'[c][x] = held[c][x] \ {l}
        /\ \A y \in Ctx : y # x => held'[c][y] = held[c][y]
        /\ \A d \in CPUs : d # c => held'[d] = held[d]
    BY <1>t, <2>1
  <2>4. /\ splk_holder'[l] = NoCPU
        /\ \A k \in Locks : k # l => splk_holder'[k] = splk_holder[k]
    BY <1>t, <2>1
  <2>5. \A d \in CPUs : \A y \in Ctx : \A k \in Locks :
           k \in held'[d][y] <=> k \in held[d][y] /\ k # l
    BY <2>2, <2>3
  <2> QED
    BY <2>4, <2>5, NoCPUAssumption DEF HolderAgrees
<1>3. ASSUME UNCHANGED <<splk_holder, held>>
      PROVE  HolderAgrees'
  BY <1>3 DEF HolderAgrees
<1>4. ASSUME NEW c \in CPUs, NEW x \in Ctx,
             \/ \E l \in Locks : SpinlockAcquire(c, x, l)
             \/ SpinlockCheck(c, x) \/ SpinlockGet(c, x)
             \/ TestAndSetWins(c, x) \/ TestAndSetFails(c, x)
             \/ SpinlockClear(c, x) \/ LowerIpl(c, x)
      PROVE  UNCHANGED <<splk_holder, held>>
  BY <1>4
     DEF SpinlockAcquire, SpinlockCheck, SpinlockGet, TestAndSetWins,
         TestAndSetFails, SpinlockClear, LowerIpl
<1>5. ASSUME NEW c \in CPUs,
             \/ SplxRaise(c) \/ SplxRaised(c) \/ SplxLower(c) \/ CpuIdle(c)
             \/ CpuIdleDone(c) \/ TrapIrq(c) \/ TrapIrqReturn(c)
      PROVE  UNCHANGED <<splk_holder, held>>
  BY <1>5 DEF SplxRaise, SplxRaised, SplxLower, CpuIdle, CpuIdleDone, TrapIrq,
              TrapIrqReturn
<1>6. CASE UNCHANGED vars
  BY <1>3, <1>6 DEF vars
<1> QED
  BY <1>1, <1>2, <1>3, <1>4, <1>5, <1>6 DEF Next

\* None of the assertions fails: a CPU acquires no lock it holds, releases
\* only locks it holds, and an interrupt finds and leaves the level right.
LEMMA NoPanicNext ==
    ASSUME Types, CpusInv, HolderAgrees, NoPanic, [Next]_vars
    PROVE  NoPanic'
<1>1. ASSUME NEW c \in CPUs, NEW x \in Ctx, SpinlockCheck(c, x)
      PROVE  NoPanic'
  <2>1. act[c] = x /\ pc[c][x] = "raise"
    BY <1>1 DEF SpinlockCheck, At
  <2>2. want[c][x] \in Locks
    BY <2>1 DEF Types
  <2>3. CpuInv(c)
    BY DEF CpusInv
  <2>4. want[c][x] \notin held[c][x]
    BY <2>1, <2>3 DEF CpuInv, LocksRight, Acquiring
  <2>5. \A y \in Ctx : y # x => held[c][y] = {}
    BY <2>1, <2>3 DEF CpuInv, ThreadRuns, HandlerRuns, Ctx
  <2>6. splk_holder[want[c][x]] # c
    BY <2>2, <2>4, <2>5 DEF HolderAgrees
  <2> QED
    BY <1>1, <2>6 DEF SpinlockCheck, NoPanic
<1>2. ASSUME NEW c \in CPUs, NEW x \in Ctx, NEW l \in Locks,
             SpinlockRelease(c, x, l)
      PROVE  NoPanic'
  <2>1. splk_holder[l] = c
    BY <1>2 DEF SpinlockRelease, HolderAgrees
  <2> QED
    BY <1>2, <2>1 DEF SpinlockRelease, NoPanic
<1>3. ASSUME NEW c \in CPUs, TrapIrq(c)
      PROVE  NoPanic'
  <2>1. CpuInv(c) /\ irq[c] /\ act[c] = "thread"
    BY <1>3 DEF TrapIrq, CpusInv
  <2>2. curspl[c] = IPL_NONE => iplhigh[c] = 0
    BY <2>1, EntryLevel DEF IPL_NONE, IPL_HIGH
  <2> QED
    BY <1>3, <2>2 DEF TrapIrq, NoPanic
<1>4. ASSUME NEW c \in CPUs, TrapIrqReturn(c)
      PROVE  NoPanic'
  <2>1. /\ CpuInv(c) /\ act[c] = "intr"
        /\ pc[c]["intr"] = "run" /\ held[c]["intr"] = {}
    BY <1>4 DEF TrapIrqReturn, At, CpusInv
  <2>2. curspl[c] = IPL_HIGH /\ iplhigh[c] = 1
    BY <2>1, ExitLevel
  <2> QED
    BY <1>4, <2>2 DEF TrapIrqReturn, NoPanic
<1>5. ASSUME NEW c \in CPUs, NEW x \in Ctx,
             \/ \E l \in Locks : SpinlockAcquire(c, x, l)
             \/ SpinlockGet(c, x) \/ TestAndSetWins(c, x)
             \/ TestAndSetFails(c, x) \/ SpinlockOwn(c, x)
             \/ SpinlockClear(c, x) \/ LowerIpl(c, x)
      PROVE  UNCHANGED panic
  BY <1>5
     DEF SpinlockAcquire, SpinlockGet, TestAndSetWins, TestAndSetFails,
         SpinlockOwn, SpinlockClear, LowerIpl
<1>6. ASSUME NEW c \in CPUs,
             \/ SplxRaise(c) \/ SplxRaised(c) \/ SplxLower(c) \/ CpuIdle(c)
             \/ CpuIdleDone(c)
      PROVE  UNCHANGED panic
  BY <1>6 DEF SplxRaise, SplxRaised, SplxLower, CpuIdle, CpuIdleDone
<1>7. CASE UNCHANGED vars
  BY <1>7 DEF vars, NoPanic
<1> QED
  BY <1>1, <1>2, <1>3, <1>4, <1>5, <1>6, <1>7 DEF Next, NoPanic

SpinlockInv == Types /\ ExclusionInv /\ CpusInv /\ HolderAgrees /\ NoPanic

\* All CPUs start at IPL_NONE with interrupts on, holding nothing.
LEMMA SpinlockInvInit == Init => SpinlockInv
<1> SUFFICES ASSUME Init PROVE SpinlockInv
  OBVIOUS
<1>1. ExclusionInv
  BY DEF Init, ExclusionInv, MutualExclusion, Owns
<1>2. ASSUME NEW c \in CPUs
      PROVE  CpuInv(c)
  <2>1. /\ act[c] = "thread" /\ irq[c] /\ iplhigh[c] = 0 /\ curspl[c] = 0
        /\ \A x \in Ctx : pc[c][x] = "run" /\ held[c][x] = {}
    BY DEF Init, IPL_NONE
  <2>2. LocksRight(c)
    BY <2>1, FS_EmptySet DEF LocksRight
  <2>3. CountRight(c)
    <3>1. pc[c]["thread"] = "run" /\ held[c]["thread"] = {}
      BY <2>1 DEF Ctx
    <3>2. Cardinality({}) = 0
      BY FS_EmptySet
    <3> QED
      BY <2>1, <3>1, <3>2 DEF CountRight, Owed
  <2>4. ThreadRuns(c)
    BY <2>1 DEF ThreadRuns, Ctx
  <2> QED
    BY <2>1, <2>2, <2>3, <2>4 DEF CpuInv
<1>3. HolderAgrees
  BY NoCPUAssumption DEF Init, HolderAgrees
<1>4. NoPanic
  BY DEF Init, NoPanic
<1> QED
  BY <1>1, <1>2, <1>3, <1>4, TypesInit DEF SpinlockInv, CpusInv

\* And the five parts together are inductive.
LEMMA SpinlockInvNext == SpinlockInv /\ [Next]_vars => SpinlockInv'
BY TypesNext, ExclusionNext, CpusNext, HolderNext, NoPanicNext DEF SpinlockInv

\* What it says of one CPU: the count is no less than zero, and interrupts
\* are on just when the CPU may be interrupted.
LEMMA CpuStateFollows == SpinlockInv => CpuStateRight
<1> SUFFICES ASSUME SpinlockInv PROVE CpuStateRight
  OBVIOUS
<1>1. Types /\ HolderAgrees
  BY DEF SpinlockInv
<1>2. ASSUME NEW c \in CPUs
      PROVE  /\ CpuInv(c) /\ act[c] \in Ctx
             /\ iplhigh[c] = Cardinality(held[c][act[c]]) + curspl[c]
                             + Owed(pc[c][act[c]])
             /\ Cardinality(held[c][act[c]]) \in Nat
             /\ curspl[c] \in {0, 1}
  <2>1. CpuInv(c) /\ act[c] \in Ctx
    BY DEF SpinlockInv, CpusInv, Types
  <2>2. Cardinality(held[c][act[c]]) \in Nat
    BY <2>1, HeldCount
  <2>3. curspl[c] \in {0, 1}
    BY <1>1 DEF Types, IPL_NONE, IPL_HIGH
  <2>4. CountRight(c)
    BY <2>1 DEF CpuInv
  <2> QED
    BY <2>1, <2>2, <2>3, <2>4 DEF CountRight
<1>3. \A c \in CPUs : iplhigh[c] >= 0
  <2> SUFFICES ASSUME NEW c \in CPUs PROVE iplhigh[c] >= 0
    OBVIOUS
  <2>1. Owed(pc[c][act[c]]) \in {0, 1}
    BY DEF Owed
  <2>2. /\ iplhigh[c] = Cardinality(held[c][act[c]]) + curspl[c]
                         + Owed(pc[c][act[c]])
        /\ Cardinality(held[c][act[c]]) \in Nat
        /\ curspl[c] \in {0, 1}
    BY <1>2
  <2> QED
    BY <2>1, <2>2
<1>4. IrqsOffWhileLocking
  <2> SUFFICES ASSUME NEW c \in CPUs, irq[c]
               PROVE  /\ act[c] = "thread"
                      /\ \A x \in Ctx : /\ held[c][x] = {}
                                        /\ pc[c][x] \in {"run", "irqonoff"}
    BY DEF IrqsOffWhileLocking
  <2>1. act[c] = "thread"
    BY <1>2 DEF CpuInv, HandlerRuns, Ctx
  <2>2. held[c]["intr"] = {} /\ pc[c]["intr"] = "run"
    BY <1>2, <2>1 DEF CpuInv, ThreadRuns
  <2>3. held[c]["thread"] = {} /\ pc[c]["thread"] \in {"run", "irqonoff"}
    BY <1>1, <1>2, <2>1, EntryLevel
  <2> QED
    BY <2>1, <2>2, <2>3 DEF Ctx
<1>5. IrqsBackOn
  <2> SUFFICES ASSUME NEW c \in CPUs, act[c] = "thread",
                      pc[c]["thread"] = "run", held[c]["thread"] = {},
                      curspl[c] = IPL_NONE
               PROVE  irq[c] /\ iplhigh[c] = 0
    BY DEF IrqsBackOn, At
  <2>1. iplhigh[c] = 0
    <3>1. Cardinality({}) = 0
      BY FS_EmptySet
    <3>2. iplhigh[c] = Cardinality(held[c]["thread"]) + curspl[c]
                       + Owed(pc[c]["thread"])
      BY <1>2
    <3> QED
      BY <3>1, <3>2 DEF Owed, IPL_NONE
  <2> QED
    BY <1>2, <2>1 DEF CpuInv, ThreadRuns
<1> QED
  BY <1>1, <1>3, <1>4, <1>5 DEF CpuStateRight, TypeOK

\* What a CPU relies on about itself is right in every mix of locks, splx,
\* idling and interrupts: t_iplhigh_count, splk_holder, and interrupts off
\* while locking and on again after.
THEOREM SpinlockCpuStateRight == Spec => []CpuStateRight
BY SpinlockInvInit, SpinlockInvNext, CpuStateFollows, PTL DEF Spec

\* The panic of spinlock_acquire and the assertions of spinlock_release and
\* of the interrupt path of mips_trap are never reached.
THEOREM SpinlockNoPanic == Spec => []NoPanic
<1>1. SpinlockInv => NoPanic
  BY DEF SpinlockInv
<1> QED
  BY <1>1, SpinlockInvInit, SpinlockInvNext, PTL DEF Spec

-----------------------------------------------------------------------------
IpiPlaces == {"run", "send", "broadcast", "stopped", "wait", "ipi", "halted",
           "offline", "clear", "reacquire"}

IpiTypes ==
    /\ ipc \in [CPUs -> IpiPlaces]
    /\ target \in [CPUs -> CPUs \union {NoCPU}]
    /\ code \in [CPUs -> {"panic", "offline", "unidle"}]
    /\ rest \in [CPUs -> SUBSET CPUs]
    /\ work \in [CPUs -> Nat]
    /\ isidle \in [CPUs -> BOOLEAN]
    /\ shootdown \in [CPUs -> Seq(Mappings)]
    /\ todo \in [CPUs -> SUBSET Mappings]
    /\ asked \in [CPUs -> Nat]

\* A run queue is held between two steps only by the CPU that is about to
\* send its owner an IPI_UNIDLE.
SendersHold ==
    \A d \in CPUs : rq_lock[d] # NoCPU =>
        ipc[rq_lock[d]] = "send" /\ target[rq_lock[d]] = d

\* A CPU that waits in cpu_idle has set c_isidle.
WaitersIdle == \A c \in CPUs : ipc[c] = "wait" => isidle[c]

WakeInv == IpiTypeOK /\ IpiTypes /\ SendersHold /\ WaitersIdle /\ IdleWakes

\* c_numshootdown counts the requests since the handler last ran, the array
\* holds their mappings, and the marker stands for one more than fit; the bit
\* of the IPI is set while there are any.
ShootdownsCounted ==
    \A c \in CPUs :
        /\ asked[c] > 0 => "tlb" \in ipi_pending[c]
        /\ asked[c] = 0 => todo[c] = {}
        /\ numshootdown[c] = IF asked[c] > TLBSHOOTDOWN_MAX
                             THEN TLBSHOOTDOWN_ALL ELSE asked[c]

AsFew == \A c \in CPUs : asked[c] <= TLBSHOOTDOWN_MAX + 1

ShootdownInv == ShootdownsCounted /\ AsFew /\ ShootdownsQueued

\* A step of one CPU changes no other CPU's place in the code.
LEMMA IpiGotoMoves ==
  ASSUME IpiTypes, NEW c \in CPUs, NEW label \in IpiPlaces, IpiGoto(c, label)
  PROVE  /\ ipc'[c] = label
         /\ \A d \in CPUs : d # c => ipc'[d] = ipc[d]
         /\ ipc' \in [CPUs -> IpiPlaces]
BY DEF IpiTypes, IpiGoto

\* start_cpus: nobody is idle and nothing is pending.
LEMMA IpiStarts == IpiInit => WakeInv /\ ShootdownInv
<1> SUFFICES ASSUME IpiInit
             PROVE  WakeInv /\ ShootdownInv
  OBVIOUS
<1>1. IpiTypeOK
  BY MaxAssumption DEF IpiInit, IpiTypeOK
<1>2. IpiTypes
  BY DEF IpiInit, IpiTypes, IpiPlaces
<1>3. SendersHold /\ WaitersIdle /\ IdleWakes
  BY DEF IpiInit, SendersHold, WaitersIdle, IdleWakes
<1>4. ShootdownsCounted /\ AsFew
  BY MaxAssumption DEF IpiInit, ShootdownsCounted, AsFew
<1>5. ShootdownsQueued
  BY DEF IpiInit, ShootdownsQueued
<1> QED
  BY <1>1, <1>2, <1>3, <1>4, <1>5 DEF WakeInv, ShootdownInv

\* A step of a CPU that holds no run queue, goes anywhere but to cpu_idle, and
\* leaves the run queues and, but for its own, the lines up.
LEMMA WakeFrame ==
  ASSUME WakeInv, NEW c \in CPUs, NEW label \in IpiPlaces, IpiGoto(c, label),
         label # "wait", ipc[c] # "send",
         UNCHANGED <<rq_lock, work, isidle>>,
         \A d \in CPUs : d # c => target'[d] = target[d],
         \A d \in CPUs : d # c /\ line[d] => line'[d]
  PROVE  SendersHold' /\ WaitersIdle' /\ IdleWakes'
<1>1. /\ ipc'[c] = label
      /\ \A d \in CPUs : d # c => ipc'[d] = ipc[d]
  BY IpiGotoMoves DEF WakeInv
<1>2. \A d \in CPUs : rq_lock[d] \in CPUs \union {NoCPU}
  BY DEF WakeInv, IpiTypeOK
<1>3. SendersHold'
  BY <1>1, <1>2 DEF WakeInv, SendersHold
<1>4. WaitersIdle'
  BY <1>1 DEF WakeInv, WaitersIdle
<1>5. IdleWakes'
  BY <1>1 DEF WakeInv, IdleWakes
<1> QED
  BY <1>3, <1>4, <1>5

\* The steps that WakeFrame is about, and a request for a TLB shootdown.
LEMMA WakeKept ==
  ASSUME WakeInv, NEW c \in CPUs,
         \/ Broadcast(c) \/ IpiPanic(c) \/ IpiOffline(c) \/ IpiHalt(c)
         \/ IpiHandle(c) \/ ClearIpi(c) \/ Interrupt(c) \/ Timer(c)
         \/ \E k \in StopCodes : Stop(c, k)
  PROVE  SendersHold' /\ WaitersIdle' /\ IdleWakes'
<1>1. \E label \in IpiPlaces \ {"wait"} : IpiGoto(c, label)
  BY DEF Broadcast, IpiPanic, IpiOffline, IpiHalt, IpiHandle, ClearIpi,
         AfterInterrupt, Interrupt, Timer, Stop, IpiPlaces
<1>2. ipc[c] # "send" /\ UNCHANGED <<rq_lock, work, isidle>>
  BY DEF Broadcast, IpiPanic, IpiOffline, IpiHalt, IpiHandle, ClearIpi,
         Interrupt, Timer, Stop
<1>3. \A d \in CPUs : d # c => target'[d] = target[d] /\ line'[d] = line[d]
  <2>1. CASE Broadcast(c)
    BY <2>1 DEF Broadcast, WakeInv, IpiTypes
  <2>2. CASE ClearIpi(c)
    BY <2>2 DEF ClearIpi, WakeInv, IpiTypeOK
  <2>3. CASE ~Broadcast(c) /\ ~ClearIpi(c)
    BY <2>3 DEF IpiPanic, IpiOffline, IpiHalt, IpiHandle, Interrupt, Timer,
                Stop
  <2> QED
    BY <2>1, <2>2, <2>3
<1> QED
  BY <1>1, <1>2, <1>3, WakeFrame

\* thread_make_runnable: an idle CPU is sent an IPI, or the sender holds its
\* run queue until it does.
LEMMA WakeMakes ==
  ASSUME WakeInv, NEW c \in CPUs, NEW d \in CPUs, Wake(c, d)
  PROVE  SendersHold' /\ WaitersIdle' /\ IdleWakes'
<1>1. /\ ipc[c] = "run" /\ c # d /\ rq_lock[d] = NoCPU
      /\ \A e \in CPUs : e # d => work'[e] = work[e]
      /\ UNCHANGED <<line, isidle>>
  BY DEF Wake, WakeInv, IpiTypes
<1>2. CASE ~isidle[d]
  <2>1. UNCHANGED <<rq_lock, target, ipc>>
    BY <1>2 DEF Wake
  <2> QED
    BY <1>1, <1>2, <2>1 DEF WakeInv, SendersHold, WaitersIdle, IdleWakes
<1>3. CASE isidle[d]
  <2>1. /\ rq_lock' = [rq_lock EXCEPT ![d] = c]
        /\ target' = [target EXCEPT ![c] = d]
        /\ IpiGoto(c, "send")
    BY <1>3 DEF Wake
  <2>2. /\ ipc'[c] = "send"
        /\ \A e \in CPUs : e # c => ipc'[e] = ipc[e]
    BY <2>1, IpiGotoMoves DEF WakeInv, IpiPlaces
  <2>3. /\ rq_lock'[d] = c /\ target'[c] = d
        /\ \A e \in CPUs : e # d => rq_lock'[e] = rq_lock[e]
        /\ \A e \in CPUs : e # c => target'[e] = target[e]
        /\ \A e \in CPUs : rq_lock[e] \in CPUs \union {NoCPU}
    BY <2>1 DEF WakeInv, IpiTypeOK, IpiTypes
  <2>4. SendersHold'
    BY <1>1, <2>2, <2>3 DEF WakeInv, SendersHold
  <2>5. WaitersIdle'
    BY <1>1, <2>2 DEF WakeInv, WaitersIdle
  <2>6. IdleWakes'
    BY <1>1, <2>2, <2>3, NoCPUAssumption DEF WakeInv, IdleWakes
  <2> QED
    BY <2>4, <2>5, <2>6
<1> QED
  BY <1>2, <1>3

\* ipi_send raises the line before the run queue is unlocked.
LEMMA WakeSends ==
  ASSUME WakeInv, NEW c \in CPUs, IpiSend(c)
  PROVE  SendersHold' /\ WaitersIdle' /\ IdleWakes'
<1>1. /\ ipc[c] = "send" /\ UNCHANGED <<target, work, isidle>>
      /\ line' = [line EXCEPT ![target[c]] = TRUE]
      /\ rq_lock' = Unlock(c)
      /\ IpiGoto(c, IF code[c] = "unidle" THEN "run" ELSE "broadcast")
  BY DEF IpiSend
<1>2. /\ ipc'[c] \in {"run", "broadcast"}
      /\ \A e \in CPUs : e # c => ipc'[e] = ipc[e]
  BY <1>1, IpiGotoMoves DEF WakeInv, IpiPlaces
<1>3. \A d \in CPUs : line'[d] = IF d = target[c] THEN TRUE ELSE line[d]
  BY <1>1 DEF WakeInv, IpiTypeOK
<1>4. \A d \in CPUs :
         /\ rq_lock[d] \in CPUs \union {NoCPU}
         /\ rq_lock'[d] = IF rq_lock[d] = c THEN NoCPU ELSE rq_lock[d]
  BY <1>1 DEF WakeInv, IpiTypeOK, Unlock
<1>5. SendersHold'
  BY <1>1, <1>2, <1>4 DEF WakeInv, SendersHold
<1>6. WaitersIdle'
  BY <1>1, <1>2 DEF WakeInv, WaitersIdle
<1>7. \A d \in CPUs : rq_lock[d] = c => target[c] = d
  BY NoCPUAssumption DEF WakeInv, SendersHold
<1>8. IdleWakes'
  BY <1>1, <1>2, <1>3, <1>4, <1>7 DEF WakeInv, IdleWakes
<1> QED
  BY <1>5, <1>6, <1>8

\* thread_switch: a CPU waits only after it found its run queue empty.
LEMMA WakeLooks ==
  ASSUME WakeInv, NEW c \in CPUs, Idle(c) \/ Take(c)
  PROVE  SendersHold' /\ WaitersIdle' /\ IdleWakes'
<1>1. /\ ipc[c] # "send" /\ UNCHANGED <<rq_lock, line, target>>
      /\ \A d \in CPUs : d # c => work'[d] = work[d] /\ isidle'[d] = isidle[d]
  BY DEF Idle, Take, Look, WakeInv, IpiTypes
<1>2. /\ \A d \in CPUs : d # c => ipc'[d] = ipc[d]
      /\ \/ ipc'[c] = "wait" /\ work'[c] = 0 /\ isidle'[c]
         \/ ipc'[c] = "run"
  <2>1. CASE Idle(c)
    <3>1. /\ IpiGoto(c, "wait") /\ UNCHANGED work /\ work[c] = 0
          /\ isidle' = [isidle EXCEPT ![c] = TRUE]
      BY <2>1 DEF Idle
    <3> QED
      BY <3>1, IpiGotoMoves DEF WakeInv, IpiPlaces, IpiTypes
  <2>2. CASE Take(c)
    <3>1. IpiGoto(c, "run")
      BY <2>2 DEF Take
    <3> QED
      BY <3>1, IpiGotoMoves DEF WakeInv, IpiPlaces
  <2> QED
    BY <2>1, <2>2
<1>3. \A d \in CPUs : rq_lock[d] \in CPUs \union {NoCPU}
  BY DEF WakeInv, IpiTypeOK
<1>4. SendersHold'
  BY <1>1, <1>2, <1>3 DEF WakeInv, SendersHold
<1>5. WaitersIdle'
  BY <1>1, <1>2 DEF WakeInv, WaitersIdle
<1>6. IdleWakes'
  BY <1>1, <1>2 DEF WakeInv, IdleWakes
<1> QED
  BY <1>4, <1>5, <1>6

\* Every step keeps the types of what WakeInv reads.
LEMMA PlacesNext ==
  ASSUME WakeInv, NEW c \in CPUs,
         \/ Step(c) \/ Idle(c) \/ Take(c) \/ Timer(c)
         \/ \E d \in CPUs : Wake(c, d)
         \/ \E k \in StopCodes : Stop(c, k)
         \/ \E d \in CPUs : \E m \in Mappings : IpiTlbshootdown(c, d, m)
  PROVE  /\ ipc' \in [CPUs -> IpiPlaces]
         /\ rest' \in [CPUs -> SUBSET CPUs]
         /\ target' \in [CPUs -> CPUs \union {NoCPU}]
         /\ code' \in [CPUs -> {"panic", "offline", "unidle"}]
<1>1. ipc' = ipc \/ \E label \in IpiPlaces : IpiGoto(c, label)
  BY DEF Step, IpiSend, Broadcast, IpiPanic, IpiOffline, IpiHalt, IpiHandle,
         ClearIpi, AfterInterrupt, Interrupt, Idle, Take, Timer, Wake, Stop,
         IpiTlbshootdown, IpiPlaces
<1>2. \/ target' = target
      \/ \E d \in CPUs \union {NoCPU} : target' = [target EXCEPT ![c] = d]
  <2>1. CASE Broadcast(c)
    <3>1. rest[c] \subseteq CPUs \union {NoCPU}
      BY DEF WakeInv, IpiTypes
    <3> QED
      BY <2>1, <3>1 DEF Broadcast
  <2>2. CASE ~Broadcast(c)
    BY <2>2 DEF Step, IpiSend, IpiPanic, IpiOffline, IpiHalt, IpiHandle,
         ClearIpi, Interrupt, Idle, Take, Timer, Wake, Stop, IpiTlbshootdown
  <2> QED
    BY <2>1, <2>2
<1>3. \/ code' = code
      \/ \E k \in {"panic", "offline", "unidle"} :
           code' = [code EXCEPT ![c] = k]
  BY StopAssumption
     DEF Step, IpiSend, Broadcast, IpiPanic, IpiOffline, IpiHalt, IpiHandle,
         ClearIpi, Interrupt, Idle, Take, Timer, Wake, Stop, IpiTlbshootdown
<1>4. \/ rest' = rest
      \/ \E S \in SUBSET CPUs : rest' = [rest EXCEPT ![c] = S]
  <2>1. CASE Broadcast(c)
    <3>1. rest[c] \subseteq CPUs
      BY DEF WakeInv, IpiTypes
    <3>2. \/ rest' = rest
          \/ \E d \in rest[c] : rest' = [rest EXCEPT ![c] = @ \ {d}]
      BY <2>1 DEF Broadcast
    <3>3. \A d \in rest[c] : rest[c] \ {d} \in SUBSET CPUs
      BY <3>1
    <3> QED
      BY <3>2, <3>3
  <2>2. CASE \E k \in StopCodes : Stop(c, k)
    <3>1. rest' = [rest EXCEPT ![c] = CPUs \ {c}]
      BY <2>2 DEF Stop
    <3>2. CPUs \ {c} \in SUBSET CPUs
      OBVIOUS
    <3> QED
      BY <3>1, <3>2
  <2>3. CASE ~Broadcast(c) /\ ~\E k \in StopCodes : Stop(c, k)
    BY <2>3
       DEF Step, IpiSend, IpiPanic, IpiOffline, IpiHalt, IpiHandle, ClearIpi,
           Interrupt, Idle, Take, Timer, Wake, IpiTlbshootdown
  <2> QED
    BY <2>1, <2>2, <2>3
<1>5. ipc' \in [CPUs -> IpiPlaces]
  BY <1>1, IpiGotoMoves DEF WakeInv, IpiTypes
<1>6. target' \in [CPUs -> CPUs \union {NoCPU}]
  BY <1>2 DEF WakeInv, IpiTypes
<1>7. code' \in [CPUs -> {"panic", "offline", "unidle"}]
  BY <1>3 DEF WakeInv, IpiTypes
<1>8. rest' \in [CPUs -> SUBSET CPUs]
  BY <1>4 DEF WakeInv, IpiTypes
<1> QED
  BY <1>5, <1>6, <1>7, <1>8

\* Every step keeps the types of the counters and the requests.
LEMMA CountsNext ==
  ASSUME WakeInv, NEW c \in CPUs,
         \/ Step(c) \/ Idle(c) \/ Take(c) \/ Timer(c)
         \/ \E d \in CPUs : Wake(c, d)
         \/ \E k \in StopCodes : Stop(c, k)
         \/ \E d \in CPUs : \E m \in Mappings : IpiTlbshootdown(c, d, m)
  PROVE  /\ work' \in [CPUs -> Nat]
         /\ isidle' \in [CPUs -> BOOLEAN]
         /\ todo' \in [CPUs -> SUBSET Mappings]
         /\ asked' \in [CPUs -> Nat]
<1>1. \/ work' = work
      \/ \E d \in CPUs : work' = [work EXCEPT ![d] = @ + 1]
      \/ work[c] > 0 /\ work' = [work EXCEPT ![c] = @ - 1]
  BY DEF Step, IpiSend, Broadcast, IpiPanic, IpiOffline, IpiHalt, IpiHandle,
         ClearIpi, Interrupt, Idle, Take, Timer, Wake, Stop, IpiTlbshootdown
<1>2. \/ isidle' = isidle
      \/ \E b \in BOOLEAN : isidle' = [isidle EXCEPT ![c] = b]
  BY DEF Step, IpiSend, Broadcast, IpiPanic, IpiOffline, IpiHalt, IpiHandle,
         ClearIpi, Interrupt, Idle, Take, Timer, Wake, Stop, IpiTlbshootdown
<1>w. work' \in [CPUs -> Nat]
  <2>1. work \in [CPUs -> Nat]
    BY DEF WakeInv, IpiTypes
  <2>2. CASE \E d \in CPUs : work' = [work EXCEPT ![d] = @ + 1]
    BY <2>1, <2>2
  <2>3. CASE work[c] > 0 /\ work' = [work EXCEPT ![c] = @ - 1]
    BY <2>1, <2>3
  <2> QED
    BY <1>1, <2>1, <2>2, <2>3
<1>i. isidle' \in [CPUs -> BOOLEAN]
  BY <1>2 DEF WakeInv, IpiTypes
<1>3. CASE IpiHandle(c)
  <2>1. /\ \E S \in SUBSET Mappings : todo' = [todo EXCEPT ![c] = S]
        /\ \E n \in Nat : asked' = [asked EXCEPT ![c] = n]
    <3>1. todo[c] \subseteq Mappings /\ asked[c] \in Nat
      BY DEF WakeInv, IpiTypes
    <3>2. CASE "tlb" \in ipi_pending[c]
      BY <1>3, <3>1, <3>2 DEF IpiHandle
    <3>3. CASE "tlb" \notin ipi_pending[c]
      BY <1>3, <3>1, <3>3 DEF IpiHandle
    <3> QED
      BY <3>2, <3>3
  <2> QED
    BY <1>w, <1>i, <2>1 DEF WakeInv, IpiTypes
<1>4. ASSUME NEW d \in CPUs, NEW m \in Mappings, IpiTlbshootdown(c, d, m)
      PROVE  /\ todo' \in [CPUs -> SUBSET Mappings]
             /\ asked' \in [CPUs -> Nat]
  <2>1. /\ todo' = [todo EXCEPT ![d] = @ \union {m}]
        /\ asked' = [asked EXCEPT ![d] = @ + 1]
    BY <1>4 DEF IpiTlbshootdown
  <2>2. todo[d] \union {m} \in SUBSET Mappings
    BY DEF WakeInv, IpiTypes
  <2> QED
    BY <2>1, <2>2 DEF WakeInv, IpiTypes
<1>5. CASE ~IpiHandle(c) /\ ~\E d \in CPUs, m \in Mappings :
                                IpiTlbshootdown(c, d, m)
  <2>1. UNCHANGED <<todo, asked>>
    BY <1>5 DEF Step, IpiSend, Broadcast, IpiPanic, IpiOffline, IpiHalt,
                ClearIpi, Interrupt, Idle, Take, Timer, Wake, Stop
  <2> QED
    BY <1>w, <1>i, <2>1 DEF WakeInv, IpiTypes
<1> QED
  BY <1>w, <1>i, <1>3, <1>4, <1>5

\* A request for a TLB shootdown: its mapping goes behind those in the array
\* while it has room.
LEMMA RequestFits ==
  ASSUME WakeInv, NEW c \in CPUs, NEW d \in CPUs, NEW m \in Mappings,
         IpiTlbshootdown(c, d, m)
  PROVE  /\ IpiTypeOK'
         /\ shootdown' \in [CPUs -> Seq(Mappings)]
         /\ numshootdown'[d] = NumAfter(numshootdown[d])
         /\ numshootdown[d] \in 0 .. TLBSHOOTDOWN_MAX - 1 =>
              /\ shootdown'[d][numshootdown[d] + 1] = m
              /\ \A i \in 1 .. numshootdown[d] :
                   shootdown'[d][i] = shootdown[d][i]
<1> DEFINE n == numshootdown[d]
           s == shootdown[d]
           r == IF n \in 0 .. TLBSHOOTDOWN_MAX - 1
                THEN Append(SubSeq(s, 1, n), m) ELSE s
<1>1. /\ shootdown' = [shootdown EXCEPT ![d] = r]
      /\ numshootdown' = [numshootdown EXCEPT ![d] = NumAfter(n)]
      /\ ipi_pending' = [ipi_pending EXCEPT ![d] = @ \union {"tlb"}]
      /\ line' = [line EXCEPT ![d] = TRUE]
      /\ UNCHANGED <<ipi_lock, rq_lock>>
  BY DEF IpiTlbshootdown
<1>2. /\ s \in Seq(Mappings) /\ Len(s) \in Nat
      /\ n \in {TLBSHOOTDOWN_ALL} \union (0 .. TLBSHOOTDOWN_MAX)
      /\ n <= Len(s)
  BY DEF WakeInv, IpiTypeOK, IpiTypes
<1>3. TLBSHOOTDOWN_MAX \in Nat /\ TLBSHOOTDOWN_MAX > 0
  BY MaxAssumption
<1>4. /\ NumAfter(n) \in {TLBSHOOTDOWN_ALL} \union (0 .. TLBSHOOTDOWN_MAX)
      /\ NumAfter(n) = IF n = TLBSHOOTDOWN_MAX THEN -1 ELSE n + 1
  BY <1>2, <1>3 DEF NumAfter, TLBSHOOTDOWN_ALL
<1>5. ASSUME n \in 0 .. TLBSHOOTDOWN_MAX - 1
      PROVE  /\ r \in Seq(Mappings) /\ Len(r) = n + 1 /\ r[n + 1] = m
             /\ \A i \in 1 .. n : r[i] = s[i]
  <2>1. /\ SubSeq(s, 1, n) \in Seq(Mappings)
        /\ Len(SubSeq(s, 1, n)) = n
        /\ \A i \in 1 .. n : SubSeq(s, 1, n)[i] = s[i]
    BY <1>2, <1>3, <1>5
  <2> DEFINE q == SubSeq(s, 1, n)
  <2> HIDE DEF q
  <2>2. /\ Append(q, m) \in Seq(Mappings) /\ Len(Append(q, m)) = n + 1
        /\ Append(q, m)[n + 1] = m
        /\ \A i \in 1 .. n : Append(q, m)[i] = s[i]
    BY <1>3, <1>5, <2>1 DEF q
  <2> QED
    BY <1>5, <2>2 DEF q
<1>6. /\ r \in Seq(Mappings) /\ Len(r) \in Nat
      /\ NumAfter(n) <= Len(r)
  <2>1. CASE n \in 0 .. TLBSHOOTDOWN_MAX - 1
    <3>1. n + 1 <= Len(r) /\ NumAfter(n) = n + 1 /\ Len(r) = n + 1
      BY <1>3, <1>4, <1>5, <2>1
    <3> QED
      BY <1>5, <2>1, <3>1
  <2>2. CASE n \notin 0 .. TLBSHOOTDOWN_MAX - 1
    <3>1. r = s
      BY <2>2
    <3>2. n = TLBSHOOTDOWN_MAX \/ n = -1
      BY <1>2, <1>3, <2>2 DEF TLBSHOOTDOWN_ALL
    <3> QED
      BY <1>2, <1>3, <1>4, <3>1, <3>2
  <2> QED
    BY <2>1, <2>2
<1>7. /\ shootdown' \in [CPUs -> Seq(Mappings)]
      /\ shootdown'[d] = r
      /\ \A e \in CPUs : e # d => shootdown'[e] = shootdown[e]
  <2> HIDE DEF r
  <2> QED
    BY <1>1, <1>6 DEF WakeInv, IpiTypes
<1>8. /\ numshootdown' \in
           [CPUs -> {TLBSHOOTDOWN_ALL} \union (0 .. TLBSHOOTDOWN_MAX)]
      /\ numshootdown'[d] = NumAfter(n)
      /\ \A e \in CPUs : e # d => numshootdown'[e] = numshootdown[e]
  BY <1>1, <1>4 DEF WakeInv, IpiTypeOK
<1>9. IpiTypeOK'
  <2>1. /\ ipi_pending' \in
              [CPUs -> SUBSET {"panic", "offline", "unidle", "tlb"}]
        /\ line' \in [CPUs -> BOOLEAN]
        /\ ipi_lock' \in [CPUs -> CPUs \union {NoCPU}]
        /\ rq_lock' \in [CPUs -> CPUs \union {NoCPU}]
    BY <1>1 DEF WakeInv, IpiTypeOK
  <2> HIDE DEF r, n
  <2>2. \A e \in CPUs : numshootdown'[e] <= Len(shootdown'[e])
    BY <1>6, <1>7, <1>8 DEF WakeInv, IpiTypeOK
  <2> QED
    BY <1>7, <1>8, <2>1, <2>2 DEF IpiTypeOK
<1> HIDE DEF r
<1> QED
  BY <1>5, <1>7, <1>8, <1>9

\* Every other step keeps the types of the fields of struct cpu.
LEMMA FieldsNext ==
  ASSUME WakeInv, NEW c \in CPUs,
         \/ Step(c) \/ Idle(c) \/ Take(c) \/ Timer(c)
         \/ \E d \in CPUs : Wake(c, d)
         \/ \E k \in StopCodes : Stop(c, k)
  PROVE  IpiTypeOK' /\ UNCHANGED shootdown
<1>1. UNCHANGED shootdown
  BY DEF Step, IpiSend, Broadcast, IpiPanic, IpiOffline, IpiHalt, IpiHandle,
         ClearIpi, Interrupt, Idle, Take, Timer, Wake, Stop
<1>2. ipi_pending' \in [CPUs -> SUBSET {"panic", "offline", "unidle", "tlb"}]
  <2>1. CASE IpiSend(c)
    <3>1. code[c] \in {"panic", "offline", "unidle"}
      BY DEF WakeInv, IpiTypes
    <3> QED
      BY <2>1, <3>1 DEF IpiSend, WakeInv, IpiTypeOK
  <2>2. CASE IpiHandle(c)
    BY <2>2 DEF IpiHandle, WakeInv, IpiTypeOK
  <2>3. CASE ~IpiSend(c) /\ ~IpiHandle(c)
    <3>1. UNCHANGED ipi_pending
      BY <2>3 DEF Step, Broadcast, IpiPanic, IpiOffline, IpiHalt, ClearIpi,
                  Interrupt, Idle, Take, Timer, Wake, Stop
    <3> QED
      BY <3>1 DEF WakeInv, IpiTypeOK
  <2> QED
    BY <2>1, <2>2, <2>3
<1>3. line' \in [CPUs -> BOOLEAN]
  <2>1. \/ line' = line
        \/ \E d \in CPUs \union {NoCPU}, b \in BOOLEAN :
             line' = [line EXCEPT ![d] = b]
    <3>1. target[c] \in CPUs \union {NoCPU}
      BY DEF WakeInv, IpiTypes
    <3> QED
      BY <3>1
         DEF Step, IpiSend, Broadcast, IpiPanic, IpiOffline, IpiHalt,
             IpiHandle, ClearIpi, Interrupt, Idle, Take, Timer, Wake, Stop
  <2> QED
    BY <2>1 DEF WakeInv, IpiTypeOK
<1>4. ipi_lock' \in [CPUs -> CPUs \union {NoCPU}]
  <2>1. ipi_lock' = ipi_lock \/ ipi_lock' = [ipi_lock EXCEPT ![c] = c]
    BY DEF Step, IpiSend, Broadcast, IpiPanic, IpiOffline, IpiHalt, IpiHandle,
           ClearIpi, Interrupt, Idle, Take, Timer, Wake, Stop
  <2> QED
    BY <2>1 DEF WakeInv, IpiTypeOK
<1>5. rq_lock' \in [CPUs -> CPUs \union {NoCPU}]
  <2>1. CASE IpiSend(c)
    BY <2>1 DEF IpiSend, Unlock, WakeInv, IpiTypeOK
  <2>2. CASE ~IpiSend(c)
    <3>1. \/ rq_lock' = rq_lock
          \/ \E d \in CPUs : rq_lock' = [rq_lock EXCEPT ![d] = c]
      BY <2>2
         DEF Step, Broadcast, IpiPanic, IpiOffline, IpiHalt, IpiHandle,
             ClearIpi, Interrupt, Idle, Take, Timer, Wake, Stop
    <3> QED
      BY <3>1 DEF WakeInv, IpiTypeOK
  <2> QED
    BY <2>1, <2>2
<1>6. /\ numshootdown' \in
            [CPUs -> {TLBSHOOTDOWN_ALL} \union (0 .. TLBSHOOTDOWN_MAX)]
      /\ \A d \in CPUs : numshootdown'[d] = numshootdown[d]
                          \/ numshootdown'[d] = 0
  <2>1. CASE IpiHandle(c)
    <3>1. \E n \in {0, numshootdown[c]} :
             numshootdown' = [numshootdown EXCEPT ![c] = n]
      BY <2>1 DEF IpiHandle
    <3> QED
      BY <3>1, MaxAssumption DEF WakeInv, IpiTypeOK
  <2>2. CASE ~IpiHandle(c)
    <3>1. UNCHANGED numshootdown
      BY <2>2
         DEF Step, IpiSend, Broadcast, IpiPanic, IpiOffline, IpiHalt,
             ClearIpi, Interrupt, Idle, Take, Timer, Wake, Stop
    <3> QED
      BY <3>1 DEF WakeInv, IpiTypeOK
  <2> QED
    BY <2>1, <2>2
<1>7. \A d \in CPUs : /\ shootdown'[d] \in Seq(Mappings)
                      /\ Len(shootdown'[d]) \in Nat
                      /\ numshootdown'[d] <= Len(shootdown'[d])
  BY <1>1, <1>6 DEF WakeInv, IpiTypeOK
<1> QED
  BY <1>1, <1>2, <1>3, <1>4, <1>5, <1>6, <1>7 DEF IpiTypeOK

\* Every step keeps what the theorem about wakeups needs.
LEMMA WakeNext == WakeInv /\ [IpiNext]_ipivars => WakeInv'
<1> SUFFICES ASSUME WakeInv, [IpiNext]_ipivars
             PROVE  WakeInv'
  OBVIOUS
<1>1. CASE UNCHANGED ipivars
  <2>1. IpiTypeOK' /\ IpiTypes'
    BY <1>1 DEF WakeInv, IpiTypeOK, IpiTypes, ipivars
  <2>2. SendersHold' /\ WaitersIdle' /\ IdleWakes'
    BY <1>1 DEF WakeInv, SendersHold, WaitersIdle, IdleWakes, ipivars
  <2> QED
    BY <2>1, <2>2 DEF WakeInv
<1>2. ASSUME NEW c \in CPUs,
             \/ Step(c) \/ Idle(c) \/ Take(c) \/ Timer(c)
             \/ \E d \in CPUs : Wake(c, d)
             \/ \E k \in StopCodes : Stop(c, k)
      PROVE  WakeInv'
  <2>1. IpiTypeOK' /\ IpiTypes'
    <3>1. shootdown' \in [CPUs -> Seq(Mappings)]
      BY <1>2, FieldsNext DEF WakeInv, IpiTypes
    <3> QED
      BY <1>2, <3>1, PlacesNext, CountsNext, FieldsNext DEF IpiTypes
  <2>2. SendersHold' /\ WaitersIdle' /\ IdleWakes'
    BY <1>2, WakeKept, WakeMakes, WakeSends, WakeLooks DEF Step
  <2> QED
    BY <2>1, <2>2 DEF WakeInv
<1>3. ASSUME NEW c \in CPUs, NEW d \in CPUs, NEW m \in Mappings,
             IpiTlbshootdown(c, d, m)
      PROVE  WakeInv'
  <2>1. IpiTypeOK' /\ shootdown' \in [CPUs -> Seq(Mappings)]
    BY <1>3, RequestFits
  <2>2. IpiTypes'
    BY <1>3, <2>1, PlacesNext, CountsNext DEF IpiTypes
  <2>3. /\ UNCHANGED <<rq_lock, ipc, target, work, isidle>>
        /\ \A e \in CPUs : line[e] => line'[e]
    BY <1>3 DEF IpiTlbshootdown, WakeInv, IpiTypeOK
  <2>4. SendersHold' /\ WaitersIdle' /\ IdleWakes'
    BY <2>3 DEF WakeInv, SendersHold, WaitersIdle, IdleWakes
  <2> QED
    BY <2>1, <2>2, <2>4 DEF WakeInv
<1> QED
  BY <1>1, <1>2, <1>3 DEF IpiNext

\* While the array and the marker can hold what is requested, the handler
\* performs all of it.
LEMMA ShootdownNext ==
  ASSUME RequestsFit,
         WakeInv, ShootdownInv, [IpiNext]_ipivars
  PROVE  ShootdownInv'
<1>1. /\ TLBSHOOTDOWN_MAX \in Nat /\ asked \in [CPUs -> Nat]
      /\ todo \in [CPUs -> SUBSET Mappings]
  BY MaxAssumption DEF WakeInv, IpiTypes
<1>2. ASSUME UNCHANGED <<shootdown, numshootdown, todo, asked>>,
             \A d \in CPUs : ipi_pending[d] \subseteq ipi_pending'[d]
      PROVE  ShootdownInv'
  <2>1. ShootdownsCounted' /\ AsFew'
    BY <1>2 DEF ShootdownInv, ShootdownsCounted, AsFew
  <2>2. ShootdownsQueued'
    BY <1>2 DEF ShootdownInv, ShootdownsQueued, Performed
  <2> QED
    BY <2>1, <2>2 DEF ShootdownInv
<1>3. ASSUME NEW c \in CPUs, IpiSend(c)
      PROVE  ShootdownInv'
  <2>1. /\ UNCHANGED <<shootdown, numshootdown, todo, asked>>
        /\ \A d \in CPUs : ipi_pending[d] \subseteq ipi_pending'[d]
    BY <1>3 DEF IpiSend, WakeInv, IpiTypeOK
  <2> QED
    BY <1>2, <2>1
<1>4. ASSUME NEW c \in CPUs, IpiHandle(c)
      PROVE  ShootdownInv'
  <2>1. CASE "tlb" \in ipi_pending[c]
    <3>1. /\ todo'[c] = {} /\ asked'[c] = 0 /\ numshootdown'[c] = 0
          /\ UNCHANGED shootdown
      BY <1>1, <1>4, <2>1
         DEF IpiHandle, ShootdownInv, ShootdownsQueued, WakeInv, IpiTypeOK
    <3>2. \A d \in CPUs : d # c =>
             /\ todo'[d] = todo[d] /\ asked'[d] = asked[d]
             /\ numshootdown'[d] = numshootdown[d]
             /\ ipi_pending'[d] = ipi_pending[d]
      BY <1>1, <1>4, <2>1 DEF IpiHandle, WakeInv, IpiTypeOK
    <3>3. ShootdownsCounted' /\ AsFew'
      BY <1>1, <3>1, <3>2 DEF ShootdownInv, ShootdownsCounted, AsFew
    <3>4. ShootdownsQueued'
      BY <3>1, <3>2 DEF ShootdownInv, ShootdownsQueued, Performed
    <3> QED
      BY <3>3, <3>4 DEF ShootdownInv
  <2>2. CASE "tlb" \notin ipi_pending[c]
    <3>1. asked[c] = 0
      BY <1>1, <2>2 DEF ShootdownInv, ShootdownsCounted
    <3>2. /\ UNCHANGED shootdown
          /\ \A d \in CPUs :
               /\ todo'[d] = todo[d] /\ asked'[d] = asked[d]
               /\ numshootdown'[d] = numshootdown[d]
               /\ d # c => ipi_pending'[d] = ipi_pending[d]
      BY <1>1, <1>4, <2>2 DEF IpiHandle, WakeInv, IpiTypeOK
    <3>3. ShootdownsCounted' /\ AsFew'
      BY <3>1, <3>2 DEF ShootdownInv, ShootdownsCounted, AsFew
    <3>4. ShootdownsQueued'
      BY <3>2 DEF ShootdownInv, ShootdownsQueued, Performed
    <3> QED
      BY <3>3, <3>4 DEF ShootdownInv
  <2> QED
    BY <2>1, <2>2
<1>5. ASSUME NEW c \in CPUs, NEW d \in CPUs, NEW m \in Mappings,
             IpiTlbshootdown(c, d, m)
      PROVE  ShootdownInv'
  <2> DEFINE n == numshootdown[d]
  <2>1. /\ asked[d] < MaxShootdowns
        /\ asked'[d] = asked[d] + 1 /\ todo'[d] = todo[d] \union {m}
        /\ "tlb" \in ipi_pending'[d]
    BY <1>1, <1>5 DEF IpiTlbshootdown, WakeInv, IpiTypeOK
  <2>2. \A e \in CPUs : e # d =>
           /\ todo'[e] = todo[e] /\ asked'[e] = asked[e]
           /\ numshootdown'[e] = numshootdown[e]
           /\ shootdown'[e] = shootdown[e]
           /\ ipi_pending'[e] = ipi_pending[e]
    BY <1>1, <1>5 DEF IpiTlbshootdown, WakeInv, IpiTypeOK, IpiTypes
  <2>3. asked[d] <= TLBSHOOTDOWN_MAX /\ n = asked[d] /\ n \in Nat
    BY <1>1, <2>1 DEF RequestsFit, ShootdownInv, ShootdownsCounted
  <2>4. numshootdown'[d] =
           IF n = TLBSHOOTDOWN_MAX THEN TLBSHOOTDOWN_ALL ELSE n + 1
    BY <1>5, RequestFits DEF NumAfter
  <2>5. asked'[d] > 0 /\ asked'[d] <= TLBSHOOTDOWN_MAX + 1
        /\ numshootdown'[d] = IF asked'[d] > TLBSHOOTDOWN_MAX
                              THEN TLBSHOOTDOWN_ALL ELSE asked'[d]
    BY <1>1, <2>1, <2>3, <2>4
  <2>6. ShootdownsCounted' /\ AsFew'
    BY <2>1, <2>2, <2>5 DEF ShootdownInv, ShootdownsCounted, AsFew
  <2>7. todo'[d] \subseteq Performed(d)'
    <3>1. CASE n = TLBSHOOTDOWN_MAX
      BY <1>1, <2>1, <2>4, <3>1 DEF Performed
    <3>2. CASE n # TLBSHOOTDOWN_MAX
      <4>1. n \in 0 .. TLBSHOOTDOWN_MAX - 1 /\ n # TLBSHOOTDOWN_ALL
        BY <1>1, <2>3, <3>2 DEF TLBSHOOTDOWN_ALL
      <4>2. /\ shootdown'[d][n + 1] = m
            /\ \A i \in 1 .. n : shootdown'[d][i] = shootdown[d][i]
        BY <1>5, <4>1, RequestFits
      <4>3. todo[d] \subseteq {shootdown[d][i] : i \in 1 .. n}
        BY <4>1 DEF ShootdownInv, ShootdownsQueued, Performed
      <4>4. Performed(d)' = {shootdown'[d][i] : i \in 1 .. n + 1}
        BY <2>3, <2>4, <3>2 DEF Performed, TLBSHOOTDOWN_ALL
      <4>5. \A i \in 1 .. n : i \in 1 .. n + 1
        BY <2>3
      <4>6. n + 1 \in 1 .. n + 1
        BY <2>3
      <4> HIDE DEF n
      <4> QED
        BY <2>1, <4>2, <4>3, <4>4, <4>5, <4>6
    <3> QED
      BY <3>1, <3>2
  <2>8. ShootdownsQueued'
    BY <2>2, <2>7 DEF ShootdownInv, ShootdownsQueued, Performed
  <2> QED
    BY <2>6, <2>8 DEF ShootdownInv
<1>6. ASSUME NEW c \in CPUs,
             \/ Broadcast(c) \/ IpiPanic(c) \/ IpiOffline(c) \/ IpiHalt(c)
             \/ ClearIpi(c) \/ Interrupt(c)
             \/ Idle(c) \/ Take(c) \/ Timer(c)
             \/ \E d \in CPUs : Wake(c, d)
             \/ \E k \in StopCodes : Stop(c, k)
      PROVE  ShootdownInv'
  <2>1. UNCHANGED <<ipi_pending, shootdown, numshootdown, todo, asked>>
    BY <1>6 DEF Broadcast, IpiPanic, IpiOffline, IpiHalt, ClearIpi, Interrupt,
                Idle, Take, Timer, Wake, Stop
  <2> QED
    BY <1>2, <2>1
<1>7. CASE UNCHANGED ipivars
  BY <1>2, <1>7 DEF ipivars
<1> QED
  BY <1>3, <1>4, <1>5, <1>6, <1>7 DEF IpiNext, Step

\* No IPI_UNIDLE that matters is lost, however many CPUs wake each other,
\* although lamebus_clear_ipi may take down the line of a later one.
THEOREM IpiWakes == IpiSpec => []IdleWakes
<1>1. WakeInv => IdleWakes
  BY DEF WakeInv
<1> QED
  BY <1>1, IpiStarts, WakeNext, PTL DEF IpiSpec

\* Every wakeup arrives, and every TLB shootdown too while at most one more
\* than TLBSHOOTDOWN_MAX is requested of a CPU between two runs of its
\* handler, the request that sets the marker.
THEOREM IpiArrive ==
  ASSUME RequestsFit
  PROVE  IpiSpec => []IpisArrive
<1>1. WakeInv /\ ShootdownInv => IpisArrive
  BY DEF WakeInv, ShootdownInv, IpisArrive
<1>2. WakeInv /\ ShootdownInv /\ [IpiNext]_ipivars => ShootdownInv'
  BY ShootdownNext
<1> QED
  BY <1>1, <1>2, IpiStarts, WakeNext, PTL DEF IpiSpec

-----------------------------------------------------------------------------
\* Semaphores.

InP == {"p", "woken", "wchan", "sleep", "asleep"}

CallsLeft ==
    \A t \in Threads : /\ spc[t] \in InP => psleft[t] > 0
                       /\ spc[t] = "v" => vsleft[t] > 0

QueueAsleep == \A i \in 1 .. Len(wc_threads) : spc[wc_threads[i]] = "asleep"

QueueDistinct ==
    \A i, j \in 1 .. Len(wc_threads) : wc_threads[i] = wc_threads[j] => i = j

AsleepQueued ==
    \A t \in Threads : spc[t] = "asleep" =>
        \E i \in 1 .. Len(wc_threads) : wc_threads[i] = t

QueueInv == QueueAsleep /\ QueueDistinct /\ AsleepQueued

\* Who holds which spinlock: P before it locks the channel and V before it
\* wakes hold sem_lock, P before it sleeps holds the lock of the channel.
OwnersInv ==
    /\ \A t \in Threads : spc[t] \in {"wchan", "wake"} <=> sem_lock = t
    /\ \A t \in Threads : spc[t] = "sleep" <=> wc_lock = t

SemInv == SemTypeOK /\ CallsLeft /\ QueueInv /\ OwnersInv

-----------------------------------------------------------------------------
\* sem_create establishes the invariant.
LEMMA SemInvInit == SemInit => SemInv
<1> SUFFICES ASSUME SemInit PROVE SemInv
  OBVIOUS
<1>1. SemTypeOK
  BY CountAssumption, CallsAssumption DEF SemInit, SemTypeOK
<1>2. CallsLeft
  BY DEF SemInit, CallsLeft, InP
<1>3. QueueInv
  BY DEF SemInit, QueueInv, QueueAsleep, QueueDistinct, AsleepQueued
<1>4. OwnersInv
  BY NoneAssumption DEF SemInit, OwnersInv
<1> QED
  BY <1>1, <1>2, <1>3, <1>4 DEF SemInv

\* A step of one thread changes no other thread's place in the code.
LEMMA SemGotoMoves ==
  ASSUME SemTypeOK, NEW t \in Threads, NEW label, SemGoto(t, label)
  PROVE  /\ spc'[t] = label
         /\ \A u \in Threads : u # t => spc'[u] = spc[u]
BY DEF SemTypeOK, SemGoto

\* A label of the code keeps spc well typed.
LEMMA GotoTypes ==
  ASSUME NEW L, NEW t \in Threads, NEW label \in L, SemGoto(t, label),
         spc \in [Threads -> L]
  PROVE  spc' \in [Threads -> L]
BY DEF SemGoto

\* A step that leaves the channel alone, and wakes nobody and puts nobody to
\* sleep, keeps what is known of the channel.
LEMMA QueueKept ==
  ASSUME wc_threads \in Seq(Threads), QueueInv, wc_threads' = wc_threads,
         \A u \in Threads : spc[u] = "asleep" <=> spc'[u] = "asleep"
  PROVE  QueueInv'
<1>1. \A i \in 1 .. Len(wc_threads) : wc_threads[i] \in Threads
  OBVIOUS
<1>2. QueueAsleep'
  BY <1>1 DEF QueueInv, QueueAsleep
<1>3. QueueDistinct'
  BY DEF QueueInv, QueueDistinct
<1>4. AsleepQueued'
  BY DEF QueueInv, AsleepQueued
<1> QED
  BY <1>2, <1>3, <1>4 DEF QueueInv

\* wchan_wakeone takes the head of the channel: the threads left are those
\* behind it, and the one taken is none of them.
LEMMA WakeHead ==
  ASSUME SemInv, wc_threads # <<>>
  PROVE  /\ Head(wc_threads) \in Threads
         /\ Head(wc_threads) = wc_threads[1]
         /\ spc[Head(wc_threads)] = "asleep"
         /\ Len(wc_threads) \in Nat
         /\ Tail(wc_threads) \in Seq(Threads)
         /\ Len(Tail(wc_threads)) = Len(wc_threads) - 1
         /\ \A i \in 1 .. Len(Tail(wc_threads)) :
              /\ i + 1 \in 1 .. Len(wc_threads)
              /\ Tail(wc_threads)[i] = wc_threads[i + 1]
              /\ Tail(wc_threads)[i] \in Threads
              /\ Tail(wc_threads)[i] # Head(wc_threads)
<1>1. wc_threads \in Seq(Threads)
  BY DEF SemInv, SemTypeOK
<1>2. Len(wc_threads) \in Nat /\ Len(wc_threads) >= 1
  BY <1>1
<1>3. Head(wc_threads) = wc_threads[1] /\ Head(wc_threads) \in Threads
  BY <1>1
<1>4. Tail(wc_threads) \in Seq(Threads)
      /\ Len(Tail(wc_threads)) = Len(wc_threads) - 1
  BY <1>1
<1>5. ASSUME NEW i \in 1 .. Len(Tail(wc_threads))
      PROVE  /\ i + 1 \in 1 .. Len(wc_threads)
             /\ Tail(wc_threads)[i] = wc_threads[i + 1]
             /\ Tail(wc_threads)[i] \in Threads
  BY <1>1, <1>2, <1>4
<1>6. ASSUME NEW i \in 1 .. Len(Tail(wc_threads))
      PROVE  Tail(wc_threads)[i] # Head(wc_threads)
  <2>1. i + 1 # 1 /\ 1 \in 1 .. Len(wc_threads)
    BY <1>2, <1>4
  <2>2. wc_threads[i + 1] # wc_threads[1]
    BY <1>5, <2>1 DEF SemInv, QueueInv, QueueDistinct
  <2>3. QED
    BY <1>3, <1>5, <2>2
<1>7. spc[Head(wc_threads)] = "asleep"
  BY <1>2, <1>3 DEF SemInv, QueueInv, QueueAsleep
<1>8. QED
  BY <1>2, <1>3, <1>4, <1>5, <1>6, <1>7

\* Every step of P, V and sem_destroy keeps the invariant.
LEMMA SemInvNext == SemInv /\ [SemNext]_semvars => SemInv'
<1> SUFFICES ASSUME SemInv, [SemNext]_semvars
             PROVE  SemInv'
  OBVIOUS
<1> DEFINE L == {"out", "p", "woken", "wchan", "sleep", "asleep", "v", "wake"}
<1>t. /\ SemTypeOK /\ CallsLeft /\ QueueInv /\ OwnersInv
      /\ sem_count \in Nat /\ wc_threads \in Seq(Threads)
      /\ spc \in [Threads -> L]
      /\ psleft \in [Threads -> Nat] /\ vsleft \in [Threads -> Nat]
      /\ None \notin Threads
  BY NoneAssumption DEF SemInv, SemTypeOK
<1>1. ASSUME NEW t \in Threads, PCall(t) \/ VCall(t)
      PROVE  SemInv'
  <2>1. /\ spc[t] = "out"
        /\ \/ SemGoto(t, "p") /\ psleft[t] > 0
           \/ SemGoto(t, "v") /\ vsleft[t] > 0
        /\ UNCHANGED <<sem_count, sem_lock, wc_lock, wc_threads, psleft,
                       vsleft>>
    BY <1>1 DEF PCall, VCall
  <2>2. /\ \/ spc'[t] = "p" /\ psleft[t] > 0
           \/ spc'[t] = "v" /\ vsleft[t] > 0
        /\ \A u \in Threads : u # t => spc'[u] = spc[u]
    BY <1>t, <2>1, SemGotoMoves
  <2>3. spc' \in [Threads -> L]
    BY <1>t, <2>1, GotoTypes
  <2>4. SemTypeOK'
    BY <1>t, <2>1, <2>3 DEF SemTypeOK
  <2>5. CallsLeft'
    BY <1>t, <2>1, <2>2 DEF CallsLeft, InP
  <2>6. QueueInv'
    BY <1>t, <2>1, <2>2, QueueKept
  <2>7. OwnersInv'
    BY <1>t, <2>1, <2>2 DEF OwnersInv
  <2> QED
    BY <2>4, <2>5, <2>6, <2>7 DEF SemInv
<1>2. ASSUME NEW t \in Threads, PDecrement(t)
      PROVE  SemInv'
  <2>1. /\ spc[t] \in {"p", "woken"} /\ SemGoto(t, "out")
        /\ sem_count > 0 /\ sem_count' = sem_count - 1
        /\ psleft' = [psleft EXCEPT ![t] = @ - 1]
        /\ UNCHANGED <<sem_lock, wc_lock, wc_threads, vsleft>>
    BY <1>2 DEF PDecrement, MayPass
  <2>2. /\ spc'[t] = "out"
        /\ \A u \in Threads : u # t => spc'[u] = spc[u]
    BY <1>t, <2>1, SemGotoMoves
  <2>3. spc' \in [Threads -> L]
    BY <1>t, <2>1, GotoTypes
  <2>4. psleft[t] > 0 /\ \A u \in Threads : u # t => psleft'[u] = psleft[u]
    BY <1>t, <2>1 DEF CallsLeft, InP
  <2>5. psleft' \in [Threads -> Nat]
    BY <1>t, <2>1, <2>4
  <2>6. sem_count' \in Nat
    BY <1>t, <2>1
  <2>7. SemTypeOK'
    BY <1>t, <2>1, <2>3, <2>5, <2>6 DEF SemTypeOK
  <2>8. CallsLeft'
    BY <1>t, <2>1, <2>2, <2>4 DEF CallsLeft, InP
  <2>9. QueueInv'
    BY <1>t, <2>1, <2>2, QueueKept
  <2>10. OwnersInv'
    BY <1>t, <2>1, <2>2 DEF OwnersInv
  <2> QED
    BY <2>7, <2>8, <2>9, <2>10 DEF SemInv
<1>3. ASSUME NEW t \in Threads, PBlock(t)
      PROVE  SemInv'
  <2>1. /\ spc[t] \in {"p", "woken"} /\ SemGoto(t, "wchan")
        /\ sem_lock = None /\ sem_lock' = t
        /\ UNCHANGED <<sem_count, wc_lock, wc_threads, psleft, vsleft>>
    BY <1>3 DEF PBlock
  <2>2. /\ spc'[t] = "wchan"
        /\ \A u \in Threads : u # t => spc'[u] = spc[u]
    BY <1>t, <2>1, SemGotoMoves
  <2>3. spc' \in [Threads -> L]
    BY <1>t, <2>1, GotoTypes
  <2>4. SemTypeOK'
    BY <1>t, <2>1, <2>3 DEF SemTypeOK
  <2>5. CallsLeft'
    BY <1>t, <2>1, <2>2 DEF CallsLeft, InP
  <2>6. QueueInv'
    BY <1>t, <2>1, <2>2, QueueKept
  <2>7. OwnersInv'
    BY <1>t, <2>1, <2>2 DEF OwnersInv
  <2> QED
    BY <2>4, <2>5, <2>6, <2>7 DEF SemInv
<1>4. ASSUME NEW t \in Threads, PWchanLock(t)
      PROVE  SemInv'
  <2>1. /\ spc[t] = "wchan" /\ SemGoto(t, "sleep")
        /\ wc_lock = None /\ wc_lock' = t /\ sem_lock' = None
        /\ UNCHANGED <<sem_count, wc_threads, psleft, vsleft>>
    BY <1>4 DEF PWchanLock
  <2>2. /\ spc'[t] = "sleep"
        /\ \A u \in Threads : u # t => spc'[u] = spc[u]
    BY <1>t, <2>1, SemGotoMoves
  <2>3. spc' \in [Threads -> L]
    BY <1>t, <2>1, GotoTypes
  <2>4. SemTypeOK'
    BY <1>t, <2>1, <2>3 DEF SemTypeOK
  <2>5. CallsLeft'
    BY <1>t, <2>1, <2>2 DEF CallsLeft, InP
  <2>6. QueueInv'
    BY <1>t, <2>1, <2>2, QueueKept
  <2>7. OwnersInv'
    BY <1>t, <2>1, <2>2 DEF OwnersInv
  <2> QED
    BY <2>4, <2>5, <2>6, <2>7 DEF SemInv
<1>5. ASSUME NEW t \in Threads, PSleep(t)
      PROVE  SemInv'
  <2> DEFINE n == Len(wc_threads)
  <2>1. /\ spc[t] = "sleep" /\ SemGoto(t, "asleep")
        /\ wc_threads' = Append(wc_threads, t) /\ wc_lock' = None
        /\ UNCHANGED <<sem_count, sem_lock, psleft, vsleft>>
    BY <1>5 DEF PSleep
  <2>2. /\ spc'[t] = "asleep"
        /\ \A u \in Threads : u # t => spc'[u] = spc[u]
    BY <1>t, <2>1, SemGotoMoves
  <2>3. spc' \in [Threads -> L]
    BY <1>t, <2>1, GotoTypes
  <2>4. /\ wc_threads' \in Seq(Threads) /\ n \in Nat
        /\ Len(wc_threads') = n + 1 /\ wc_threads'[n + 1] = t
        /\ \A i \in 1 .. n : /\ wc_threads'[i] = wc_threads[i]
                             /\ wc_threads[i] \in Threads
    BY <1>t, <2>1
  <2>5. \A i \in 1 .. n : wc_threads[i] # t
    BY <1>t, <2>1 DEF QueueInv, QueueAsleep
  <2> HIDE DEF n
  <2>6. \A i \in 1 .. Len(wc_threads') : i \in 1 .. n \/ i = n + 1
    BY <2>4
  <2>7. SemTypeOK'
    BY <1>t, <2>1, <2>3, <2>4 DEF SemTypeOK
  <2>8. CallsLeft'
    BY <1>t, <2>1, <2>2 DEF CallsLeft, InP
  <2>9. QueueAsleep'
    BY <1>t, <2>2, <2>4, <2>5, <2>6 DEF QueueInv, QueueAsleep, n
  <2>10. QueueDistinct'
    <3> SUFFICES ASSUME NEW i \in 1 .. Len(wc_threads'),
                        NEW j \in 1 .. Len(wc_threads'),
                        wc_threads'[i] = wc_threads'[j]
                 PROVE  i = j
      BY DEF QueueDistinct
    <3>1. CASE i \in 1 .. n /\ j \in 1 .. n
      BY <1>t, <2>4, <3>1 DEF QueueInv, QueueDistinct, n
    <3>2. CASE i = n + 1 /\ j \in 1 .. n
      BY <2>4, <2>5, <3>2
    <3>3. CASE i \in 1 .. n /\ j = n + 1
      BY <2>4, <2>5, <3>3
    <3> QED
      BY <2>6, <3>1, <3>2, <3>3
  <2>11. AsleepQueued'
    <3> SUFFICES ASSUME NEW u \in Threads, spc'[u] = "asleep"
                 PROVE  \E i \in 1 .. Len(wc_threads') : wc_threads'[i] = u
      BY DEF AsleepQueued
    <3>1. CASE u = t
      <4>1. n + 1 \in 1 .. Len(wc_threads')
        BY <2>4
      <4> QED
        BY <2>4, <3>1, <4>1
    <3>2. CASE u # t
      <4>1. PICK i \in 1 .. n : wc_threads[i] = u
        BY <1>t, <2>2, <3>2 DEF QueueInv, AsleepQueued, n
      <4>2. i \in 1 .. Len(wc_threads') /\ wc_threads'[i] = u
        BY <2>4, <4>1
      <4> QED
        BY <4>2
    <3> QED
      BY <3>1, <3>2
  <2>12. OwnersInv'
    BY <1>t, <2>1, <2>2 DEF OwnersInv
  <2> QED
    BY <2>7, <2>8, <2>9, <2>10, <2>11, <2>12 DEF SemInv, QueueInv
<1>6. ASSUME NEW t \in Threads, VIncrement(t)
      PROVE  SemInv'
  <2>1. /\ spc[t] = "v" /\ SemGoto(t, "wake")
        /\ sem_lock = None /\ sem_lock' = t /\ sem_count' = sem_count + 1
        /\ vsleft' = [vsleft EXCEPT ![t] = @ - 1]
        /\ UNCHANGED <<wc_lock, wc_threads, psleft>>
    BY <1>6 DEF VIncrement, VKeeps
  <2>2. /\ spc'[t] = "wake"
        /\ \A u \in Threads : u # t => spc'[u] = spc[u]
    BY <1>t, <2>1, SemGotoMoves
  <2>3. spc' \in [Threads -> L]
    BY <1>t, <2>1, GotoTypes
  <2>4. vsleft[t] > 0 /\ \A u \in Threads : u # t => vsleft'[u] = vsleft[u]
    BY <1>t, <2>1 DEF CallsLeft
  <2>5. vsleft' \in [Threads -> Nat]
    BY <1>t, <2>1, <2>4
  <2>6. sem_count' \in Nat
    BY <1>t, <2>1
  <2>7. SemTypeOK'
    BY <1>t, <2>1, <2>3, <2>5, <2>6 DEF SemTypeOK
  <2>8. CallsLeft'
    BY <1>t, <2>1, <2>2, <2>4 DEF CallsLeft, InP
  <2>9. QueueInv'
    BY <1>t, <2>1, <2>2, QueueKept
  <2>10. OwnersInv'
    BY <1>t, <2>1, <2>2 DEF OwnersInv
  <2> QED
    BY <2>7, <2>8, <2>9, <2>10 DEF SemInv
<1>7. ASSUME NEW t \in Threads, VWake(t)
      PROVE  SemInv'
  <2>0. /\ spc[t] = "wake" /\ wc_lock = None /\ sem_lock' = None
        /\ UNCHANGED <<sem_count, wc_lock, psleft, vsleft>>
    BY <1>7 DEF VWake
  <2>1. CASE wc_threads = <<>>
    <3>1. SemGoto(t, "out") /\ wc_threads' = wc_threads
      BY <1>7, <2>1 DEF VWake
    <3>2. /\ spc'[t] = "out"
          /\ \A u \in Threads : u # t => spc'[u] = spc[u]
      BY <1>t, <3>1, SemGotoMoves
    <3>3. spc' \in [Threads -> L]
      BY <1>t, <3>1, GotoTypes
    <3>4. SemTypeOK'
      BY <1>t, <2>0, <3>1, <3>3 DEF SemTypeOK
    <3>5. CallsLeft'
      BY <1>t, <2>0, <3>2 DEF CallsLeft, InP
    <3>6. QueueInv'
      BY <1>t, <2>0, <3>1, <3>2, QueueKept
    <3>7. OwnersInv'
      BY <1>t, <2>0, <3>2 DEF OwnersInv
    <3> QED
      BY <3>4, <3>5, <3>6, <3>7 DEF SemInv
  <2>2. CASE wc_threads # <<>>
    <3> DEFINE h == Head(wc_threads)
    <3>1. /\ wc_threads' = Tail(wc_threads)
          /\ spc' = [spc EXCEPT ![t] = "out", ![h] = "woken"]
      BY <1>7, <2>2 DEF VWake
    <3>2. h \in Threads /\ spc[h] = "asleep" /\ h = wc_threads[1]
      BY <2>2, WakeHead
    <3>3. /\ wc_threads' \in Seq(Threads)
          /\ \A i \in 1 .. Len(wc_threads') :
               /\ i + 1 \in 1 .. Len(wc_threads)
               /\ wc_threads'[i] = wc_threads[i + 1]
               /\ wc_threads'[i] \in Threads
               /\ wc_threads'[i] # h
          /\ Len(wc_threads) \in Nat
          /\ Len(wc_threads') = Len(wc_threads) - 1
      BY <2>2, <3>1, WakeHead
    <3> HIDE DEF h
    <3>4. t # h /\ spc'[t] = "out" /\ spc'[h] = "woken"
      BY <1>t, <2>0, <3>1, <3>2
    <3>5. \A u \in Threads : u # t /\ u # h => spc'[u] = spc[u]
      BY <1>t, <3>1, <3>2
    <3>6. spc' \in [Threads -> L]
      BY <1>t, <3>1, <3>2
    <3>7. SemTypeOK'
      BY <1>t, <2>0, <3>3, <3>6 DEF SemTypeOK
    <3>8. CallsLeft'
      BY <1>t, <2>0, <3>2, <3>4, <3>5 DEF CallsLeft, InP
    <3>9. QueueAsleep'
      <4> SUFFICES ASSUME NEW i \in 1 .. Len(wc_threads')
                   PROVE  spc'[wc_threads'[i]] = "asleep"
        BY DEF QueueAsleep
      <4>1. i + 1 \in 1 .. Len(wc_threads) /\ wc_threads'[i] \in Threads
            /\ wc_threads'[i] = wc_threads[i + 1]
        BY <3>3
      <4>2. spc[wc_threads[i + 1]] = "asleep"
        BY <1>t, <4>1 DEF QueueInv, QueueAsleep
      <4> QED
        BY <2>0, <3>3, <3>5, <4>1, <4>2
    <3>10. QueueDistinct'
      <4> SUFFICES ASSUME NEW i \in 1 .. Len(wc_threads'),
                          NEW j \in 1 .. Len(wc_threads'),
                          wc_threads'[i] = wc_threads'[j]
                   PROVE  i = j
        BY DEF QueueDistinct
      <4>1. /\ i + 1 \in 1 .. Len(wc_threads)
            /\ j + 1 \in 1 .. Len(wc_threads)
            /\ wc_threads[i + 1] = wc_threads[j + 1]
        BY <3>3
      <4>2. i + 1 = j + 1
        BY <1>t, <4>1 DEF QueueInv, QueueDistinct
      <4> QED
        BY <4>2
    <3>11. AsleepQueued'
      <4> SUFFICES ASSUME NEW u \in Threads, spc'[u] = "asleep"
                   PROVE  \E i \in 1 .. Len(wc_threads') : wc_threads'[i] = u
        BY DEF AsleepQueued
      <4>1. u # t /\ u # h /\ spc[u] = "asleep"
        BY <3>4, <3>5
      <4>2. PICK i \in 1 .. Len(wc_threads) : wc_threads[i] = u
        BY <1>t, <4>1 DEF QueueInv, AsleepQueued
      <4>3. i # 1
        BY <3>2, <4>1, <4>2
      <4>4. i - 1 \in 1 .. Len(wc_threads')
        BY <3>3, <4>3
      <4>5. wc_threads'[i - 1] = wc_threads[(i - 1) + 1] /\ (i - 1) + 1 = i
        BY <3>3, <4>4
      <4> QED
        BY <4>2, <4>4, <4>5
    <3>12. OwnersInv'
      <4>1. \A u \in Threads : spc[u] \in {"wchan", "wake"} => u = t
        BY <1>t, <2>0 DEF OwnersInv
      <4>2. \A u \in Threads : spc'[u] \notin {"wchan", "wake"}
        BY <3>4, <3>5, <4>1
      <4>3. \A u \in Threads : spc[u] # "sleep" /\ spc'[u] # "sleep"
        BY <1>t, <2>0, <3>4, <3>5 DEF OwnersInv
      <4> QED
        BY <1>t, <2>0, <4>2, <4>3 DEF OwnersInv
    <3> QED
      BY <3>7, <3>8, <3>9, <3>10, <3>11, <3>12 DEF SemInv, QueueInv
  <2> QED
    BY <2>1, <2>2
<1>8. ASSUME UNCHANGED <<sem_count, sem_lock, wc_lock, wc_threads, spc, psleft,
                         vsleft>>
      PROVE  SemInv'
  <2>1. SemTypeOK'
    BY <1>t, <1>8 DEF SemTypeOK
  <2>2. CallsLeft'
    BY <1>t, <1>8 DEF CallsLeft
  <2>3. QueueInv'
    BY <1>t, <1>8, QueueKept
  <2>4. OwnersInv'
    BY <1>t, <1>8 DEF OwnersInv
  <2> QED
    BY <2>1, <2>2, <2>3, <2>4 DEF SemInv
<1>9. ASSUME NEW t \in Threads, SemDestroy(t)
      PROVE  SemInv'
  BY <1>8, <1>9 DEF SemDestroy
<1>10. CASE UNCHANGED semvars
  BY <1>8, <1>10 DEF semvars
<1> QED
  BY <1>1, <1>2, <1>3, <1>4, <1>5, <1>6, <1>7, <1>9, <1>10 DEF SemNext, SemStep

\* The fields of the semaphore keep their types; sem_count, which is
\* unsigned, never passes below zero however P and V interleave.
THEOREM SemaphoreTypeOK == SemSpec => []SemTypeOK
<1>1. SemInv => SemTypeOK
  BY DEF SemInv
<1>2. QED
  BY <1>1, SemInvInit, SemInvNext, PTL DEF SemSpec

\* Every step of the code is a step of the atomic semaphore or changes
\* nothing that its users see.
LEMMA StepRefines ==
  ASSUME SemInv, [SemNext]_semvars
  PROVE  [AtomicSem!Next]_<<sem_count, psleft, vsleft>>
<1>1. ASSUME NEW t \in Threads, PDecrement(t)
      PROVE  AtomicSem!Next
  <2>1. psleft[t] > 0
    BY <1>1 DEF PDecrement, SemInv, CallsLeft, InP
  <2>2. AtomicSem!P(t)
    BY <1>1, <2>1 DEF PDecrement, MayPass, AtomicSem!P
  <2>3. QED
    BY <2>2 DEF AtomicSem!Next
<1>2. ASSUME NEW t \in Threads, VIncrement(t)
      PROVE  AtomicSem!Next
  <2>1. vsleft[t] > 0
    BY <1>2 DEF VIncrement, SemInv, CallsLeft
  <2>2. AtomicSem!V(t)
    BY <1>2, <2>1 DEF VIncrement, AtomicSem!V
  <2>3. QED
    BY <2>2 DEF AtomicSem!Next
<1>3. ASSUME NEW t \in Threads,
             \/ PCall(t) \/ VCall(t) \/ PBlock(t) \/ PWchanLock(t)
             \/ PSleep(t) \/ VWake(t) \/ SemDestroy(t)
      PROVE  UNCHANGED <<sem_count, psleft, vsleft>>
  BY <1>3 DEF PCall, VCall, PBlock, PWchanLock, PSleep, VWake, SemDestroy
<1>4. CASE UNCHANGED semvars
  BY <1>4 DEF semvars
<1>5. QED
  BY <1>1, <1>2, <1>3, <1>4 DEF SemNext, SemStep

\* P and V, made of two spinlocks and a wait channel, are the atomic
\* operations synch.h promises.
THEOREM SemaphoreRefines == SemSpec => SemIsAtomic
<1>1. SemInit => AtomicSem!Init
  BY DEF SemInit, AtomicSem!Init
<1>2. SemInv /\ [SemNext]_semvars =>
         [AtomicSem!Next]_<<sem_count, psleft, vsleft>>
  BY StepRefines
<1>3. QED
  BY <1>1, <1>2, SemInvInit, SemInvNext, PTL
     DEF SemSpec, SemIsAtomic, AtomicSem!Spec

-----------------------------------------------------------------------------
(***************************************************************************)
(* No wakeup is lost.  Woken and waking threads are counted as sets, which *)
(* a step changes by the thread it moves.                                  *)
(***************************************************************************)
\* The threads at one place of the code are finitely many.
LEMMA InsideFinite ==
  ASSUME NEW label
  PROVE  /\ IsFiniteSet(Inside(label)) /\ Cardinality(Inside(label)) \in Nat
         /\ IsFiniteSet(Inside(label)')
         /\ Cardinality(Inside(label)') \in Nat
<1>1. Inside(label) \in SUBSET Threads /\ Inside(label)' \in SUBSET Threads
  BY DEF Inside
<1>2. IsFiniteSet(Inside(label)) /\ IsFiniteSet(Inside(label)')
  BY <1>1, ThreadsAssumption, FS_Subset
<1> QED
  BY <1>2, FS_CardinalityType

\* A thread that arrives at a place adds one to those there.
LEMMA InsideEnter ==
  ASSUME NEW t \in Threads, NEW label, spc[t] # label, spc'[t] = label,
         \A u \in Threads : u # t => (spc'[u] = label <=> spc[u] = label)
  PROVE  Cardinality(Inside(label)') = Cardinality(Inside(label)) + 1
<1>1. Inside(label)' = Inside(label) \union {t} /\ t \notin Inside(label)
  BY DEF Inside
<1> QED
  BY <1>1, InsideFinite, FS_AddElement

\* A thread that leaves a place takes one from those there.
LEMMA InsideLeave ==
  ASSUME NEW t \in Threads, NEW label, spc[t] = label, spc'[t] # label,
         \A u \in Threads : u # t => (spc'[u] = label <=> spc[u] = label)
  PROVE  Cardinality(Inside(label)') = Cardinality(Inside(label)) - 1
<1>1. Inside(label)' = Inside(label) \ {t} /\ t \in Inside(label)
  BY DEF Inside
<1> QED
  BY <1>1, InsideFinite, FS_RemoveElement

\* If nobody arrives or leaves, the same threads are there.
LEMMA InsideSame ==
  ASSUME NEW label, \A u \in Threads : spc'[u] = label <=> spc[u] = label
  PROVE  Inside(label)' = Inside(label)
BY DEF Inside

\* A thread sleeps in P, or is past the test and about to sleep.
Blocked(t) == spc[t] \in {"wchan", "sleep", "asleep"}

\* NoLostWakeup, thread by thread.
LEMMA NoLostWakeupIs ==
  NoLostWakeup <=>
    \A t \in Threads : Blocked(t) =>
      sem_count <= Cardinality(Inside("woken")) + Cardinality(Inside("wake"))
BY DEF NoLostWakeup, Blocked, Inside

\* Every step keeps NoLostWakeup: V raises the count only together with the
\* number of those that wake, and moves a waking thread's claim to the
\* sleeper it wakes; P sleeps only at count zero.
LEMMA NoLostWakeupNext ==
  SemInv /\ NoLostWakeup /\ [SemNext]_semvars => NoLostWakeup'
<1> SUFFICES ASSUME SemInv, NoLostWakeup, [SemNext]_semvars
             PROVE  NoLostWakeup'
  OBVIOUS
<1> DEFINE W == Cardinality(Inside("woken"))
           K == Cardinality(Inside("wake"))
           Wn == Cardinality(Inside("woken"))'
           Kn == Cardinality(Inside("wake"))'
<1>t. /\ SemTypeOK /\ QueueInv /\ OwnersInv
      /\ sem_count \in Nat /\ None \notin Threads
  BY NoneAssumption DEF SemInv, SemTypeOK
<1>0. SUFFICES ASSUME NEW b \in Threads, Blocked(b)'
               PROVE  sem_count' <= Wn + Kn
  BY NoLostWakeupIs DEF NoLostWakeup, Blocked, Inside
<1>b. ASSUME NEW u \in Threads, Blocked(u)
      PROVE  sem_count <= W + K
  BY <1>b, NoLostWakeupIs
<1> HIDE DEF W, K, Wn, Kn
<1>f. W \in Nat /\ K \in Nat /\ Wn \in Nat /\ Kn \in Nat
  BY InsideFinite DEF W, K, Wn, Kn
<1>1. ASSUME UNCHANGED sem_count,
             \A u \in Threads : /\ spc'[u] = "woken" <=> spc[u] = "woken"
                                /\ spc'[u] = "wake" <=> spc[u] = "wake"
                                /\ Blocked(u)' => Blocked(u)
      PROVE  sem_count' <= Wn + Kn
  <2>1. Wn = W /\ Kn = K
    BY <1>1, InsideSame DEF W, K, Wn, Kn
  <2> QED
    BY <1>0, <1>1, <1>b, <2>1
<1>2. ASSUME NEW t \in Threads, PCall(t) \/ VCall(t) \/ PWchanLock(t)
                                \/ PSleep(t)
      PROVE  sem_count' <= Wn + Kn
  <2>1. /\ UNCHANGED sem_count
        /\ spc[t] \in {"out", "wchan", "sleep"}
        /\ \/ SemGoto(t, "p") \/ SemGoto(t, "v")
           \/ spc[t] \in {"wchan", "sleep"}
              /\ (SemGoto(t, "sleep") \/ SemGoto(t, "asleep"))
    BY <1>2 DEF PCall, VCall, PWchanLock, PSleep
  <2>2. /\ \/ spc'[t] \in {"p", "v"}
           \/ spc[t] \in {"wchan", "sleep"} /\ spc'[t] \in {"sleep", "asleep"}
        /\ \A u \in Threads : u # t => spc'[u] = spc[u]
    BY <1>t, <2>1, SemGotoMoves
  <2> QED
    BY <1>1, <2>1, <2>2 DEF Blocked
<1>3. ASSUME NEW t \in Threads, PDecrement(t)
      PROVE  sem_count' <= Wn + Kn
  <2>1. /\ spc[t] \in {"p", "woken"} /\ SemGoto(t, "out")
        /\ sem_count' = sem_count - 1
    BY <1>3 DEF PDecrement
  <2>2. /\ spc'[t] = "out"
        /\ \A u \in Threads : u # t => spc'[u] = spc[u]
    BY <1>t, <2>1, SemGotoMoves
  <2>3. Blocked(b) /\ sem_count <= W + K
    BY <1>0, <1>b, <2>2 DEF Blocked
  <2>4. Kn = K
    BY <2>1, <2>2, InsideSame DEF K, Kn
  <2>5. Wn >= W - 1
    <3>1. CASE spc[t] = "p"
      BY <1>f, <2>2, <3>1, InsideSame DEF W, Wn
    <3>2. CASE spc[t] = "woken"
      BY <1>f, <2>2, <3>2, InsideLeave DEF W, Wn
    <3> QED
      BY <2>1, <3>1, <3>2
  <2> QED
    BY <1>t, <1>f, <2>1, <2>3, <2>4, <2>5
<1>4. ASSUME NEW t \in Threads, PBlock(t)
      PROVE  sem_count' <= Wn + Kn
  <2>1. sem_count' = sem_count /\ ~(sem_count > 0)
    BY <1>4 DEF PBlock, MayPass
  <2> QED
    BY <1>t, <1>f, <2>1
<1>5. ASSUME NEW t \in Threads, VIncrement(t)
      PROVE  sem_count' <= Wn + Kn
  <2>1. spc[t] = "v" /\ SemGoto(t, "wake") /\ sem_count' = sem_count + 1
    BY <1>5 DEF VIncrement
  <2>2. /\ spc'[t] = "wake"
        /\ \A u \in Threads : u # t => spc'[u] = spc[u]
    BY <1>t, <2>1, SemGotoMoves
  <2>3. Blocked(b) /\ sem_count <= W + K
    BY <1>0, <1>b, <2>2 DEF Blocked
  <2>4. Wn = W
    BY <2>1, <2>2, InsideSame DEF W, Wn
  <2>5. Kn = K + 1
    BY <2>1, <2>2, InsideEnter DEF K, Kn
  <2> QED
    BY <1>t, <1>f, <2>1, <2>3, <2>4, <2>5
<1>6. ASSUME NEW t \in Threads, VWake(t)
      PROVE  sem_count' <= Wn + Kn
  <2>0. spc[t] = "wake" /\ wc_lock = None /\ sem_count' = sem_count
    BY <1>6 DEF VWake
  <2>1. CASE wc_threads = <<>>
    <3>1. SemGoto(t, "out")
      BY <1>6, <2>1 DEF VWake
    <3>2. /\ spc'[t] = "out"
          /\ \A u \in Threads : u # t => spc'[u] = spc[u]
      BY <1>t, <3>1, SemGotoMoves
    <3>3. b # t /\ Blocked(b)
      BY <1>0, <3>2 DEF Blocked
    <3>4. spc[b] # "wchan" /\ spc[b] # "sleep"
      BY <1>t, <2>0, <3>3 DEF OwnersInv
    <3>5. spc[b] # "asleep"
      BY <1>t, <2>1 DEF QueueInv, AsleepQueued
    <3> QED
      BY <3>3, <3>4, <3>5 DEF Blocked
  <2>2. CASE wc_threads # <<>>
    <3> DEFINE h == Head(wc_threads)
    <3>1. spc' = [spc EXCEPT ![t] = "out", ![h] = "woken"]
      BY <1>6, <2>2 DEF VWake
    <3>2. h \in Threads /\ spc[h] = "asleep"
      BY <2>2, WakeHead
    <3> HIDE DEF h
    <3>3. t # h /\ spc'[t] = "out" /\ spc'[h] = "woken"
      BY <1>t, <2>0, <3>1, <3>2 DEF SemTypeOK
    <3>4. \A u \in Threads : u # t /\ u # h => spc'[u] = spc[u]
      BY <1>t, <3>1, <3>2 DEF SemTypeOK
    <3>5. Blocked(b) /\ sem_count <= W + K
      BY <1>0, <1>b, <3>3, <3>4 DEF Blocked
    <3>6. Wn = W + 1
      BY <2>0, <3>2, <3>3, <3>4, InsideEnter DEF W, Wn
    <3>7. Kn = K - 1
      BY <2>0, <3>2, <3>3, <3>4, InsideLeave DEF K, Kn
    <3> QED
      BY <1>t, <1>f, <2>0, <3>5, <3>6, <3>7
  <2> QED
    BY <2>1, <2>2
<1>7. ASSUME NEW t \in Threads, SemDestroy(t)
      PROVE  sem_count' <= Wn + Kn
  BY <1>1, <1>7 DEF SemDestroy, Blocked
<1>8. CASE UNCHANGED semvars
  BY <1>1, <1>8 DEF semvars, Blocked
<1> QED
  BY <1>2, <1>3, <1>4, <1>5, <1>6, <1>7, <1>8 DEF SemNext, SemStep

\* No interleaving of P and V leaves a thread asleep while a unit of the
\* count is free for it, for any threads and calls.
THEOREM SemaphoreNoLostWakeup == SemSpec => []NoLostWakeup
<1>1. SemInit => NoLostWakeup
  BY DEF SemInit, NoLostWakeup, Inside
<1> QED
  BY <1>1, SemInvInit, SemInvNext, NoLostWakeupNext, PTL DEF SemSpec

-----------------------------------------------------------------------------
(***************************************************************************)
(* The semaphore may be destroyed after the last P, if every V is for one  *)
(* of the Ps.  The calls still to be made are counted as a set, so that a  *)
(* step takes one element from it.                                         *)
(***************************************************************************)
\* The calls left are finitely many.
LEMMA CallsFinite ==
  ASSUME NEW f \in [Threads -> Nat]
  PROVE  IsFiniteSet(Calls(f)) /\ Cardinality(Calls(f)) \in Nat
<1> DEFINE Of(t) == {t} \X (1 .. f[t])
           S == {Of(t) : t \in Threads}
           g == [t \in Threads |-> Of(t)]
<1>1. ASSUME NEW t \in Threads
      PROVE  IsFiniteSet(Of(t))
  <2>1. IsFiniteSet(1 .. f[t])
    BY FS_Interval
  <2>2. IsFiniteSet({t})
    BY FS_Singleton
  <2> QED
    BY <2>1, <2>2, FS_Product
<1>2. IsFiniteSet(S)
  <2> HIDE DEF Of
  <2>1. g \in Surjection(Threads, S)
    BY DEF Surjection
  <2> QED
    BY <2>1, ThreadsAssumption, FS_Surjection
<1>3. \A T \in S : IsFiniteSet(T)
  BY <1>1
<1>4. IsFiniteSet(UNION S)
  BY <1>2, <1>3, FS_UNION
<1>5. Calls(f) = UNION S
  BY DEF Calls
<1>6. IsFiniteSet(Calls(f))
  BY <1>4, <1>5
<1> QED
  BY <1>6, FS_CardinalityType

\* What a call left is: a thread and one of the numbers up to its count.
LEMMA CallsMember ==
  ASSUME NEW f, NEW c
  PROVE  c \in Calls(f) <=>
           \E t \in Threads : \E n \in 1 .. f[t] : c = <<t, n>>
BY DEF Calls

\* A call that completes is one call less.
LEMMA CallsOneLess ==
  ASSUME NEW f \in [Threads -> Nat], NEW t \in Threads, f[t] > 0
  PROVE  Cardinality(Calls([f EXCEPT ![t] = @ - 1]))
             = Cardinality(Calls(f)) - 1
<1> DEFINE g == [f EXCEPT ![t] = @ - 1]
<1>1. g[t] = f[t] - 1 /\ \A u \in Threads : u # t => g[u] = f[u]
  OBVIOUS
<1> HIDE DEF g
<1>2. <<t, f[t]>> \in Calls(f)
  <2>1. f[t] \in 1 .. f[t]
    OBVIOUS
  <2> QED
    BY <2>1, CallsMember
<1>3. ASSUME NEW u \in Threads, NEW n
      PROVE  n \in 1 .. g[u] <=> n \in 1 .. f[u] /\ <<u, n>> # <<t, f[t]>>
  <2>1. CASE u = t
    BY <1>1, <2>1
  <2>2. CASE u # t
    BY <1>1, <2>2
  <2> QED
    BY <2>1, <2>2
<1>4. Calls(g) = Calls(f) \ {<<t, f[t]>>}
  <2>1. ASSUME NEW c
        PROVE  c \in Calls(g) <=> c \in Calls(f) /\ c # <<t, f[t]>>
    <3>1. c \in Calls(g) <=>
            \E u \in Threads : \E n \in 1 .. f[u] :
               c = <<u, n>> /\ <<u, n>> # <<t, f[t]>>
      BY <1>3, CallsMember
    <3> QED
      BY <3>1, CallsMember
  <2> QED
    BY <2>1
<1> QED
  BY <1>2, <1>4, CallsFinite, FS_RemoveElement DEF g

\* No calls are left exactly when no thread has any.
LEMMA CallsNone ==
  ASSUME NEW f \in [Threads -> Nat]
  PROVE  Cardinality(Calls(f)) = 0 <=> \A t \in Threads : f[t] = 0
<1>1. Cardinality(Calls(f)) = 0 <=> Calls(f) = {}
  BY CallsFinite, FS_EmptySet
<1>2. ASSUME \A t \in Threads : f[t] = 0
      PROVE  Calls(f) = {}
  BY <1>2, CallsMember
<1>3. ASSUME NEW t \in Threads, f[t] # 0
      PROVE  Calls(f) # {}
  <2>1. 1 \in 1 .. f[t]
    BY <1>3
  <2>2. <<t, 1>> \in Calls(f)
    BY <2>1, CallsMember
  <2> QED
    BY <2>2
<1> QED
  BY <1>1, <1>2, <1>3

AllPsDone == \A t \in Threads : psleft[t] = 0

\* The count is what the Vs done have added and the Ps done have taken.
Balance ==
    sem_count = InitialCount
                + (Cardinality(Calls(Vs)) - Cardinality(Calls(vsleft)))
                - (Cardinality(Calls(Ps)) - Cardinality(Calls(psleft)))

\* When the last P has returned, every thread is outside the semaphore; it
\* has not been destroyed before, and no assertion failed.
DoneInv ==
    /\ AllPsDone => \A t \in Threads : spc[t] = "out"
    /\ destroyed \in {"no", "yes"}
    /\ destroyed = "yes" => AllPsDone

\* Each P and V keeps the balance.
LEMMA BalanceNext == SemInv /\ Balance /\ [SemNext]_semvars => Balance'
<1> SUFFICES ASSUME SemInv, Balance, [SemNext]_semvars
             PROVE  Balance'
  OBVIOUS
<1> DEFINE PL == Cardinality(Calls(psleft))
           VL == Cardinality(Calls(vsleft))
           PLn == Cardinality(Calls(psleft'))
           VLn == Cardinality(Calls(vsleft'))
           PT == Cardinality(Calls(Ps))
           VT == Cardinality(Calls(Vs))
<1>t. /\ CallsLeft /\ sem_count \in Nat /\ InitialCount \in Nat
      /\ psleft \in [Threads -> Nat] /\ vsleft \in [Threads -> Nat]
  BY CountAssumption DEF SemInv, SemTypeOK
<1>f. PL \in Nat /\ VL \in Nat /\ PT \in Nat /\ VT \in Nat
  BY <1>t, CallsAssumption, CallsFinite
<1>b. sem_count = InitialCount + (VT - VL) - (PT - PL)
  BY DEF Balance
<1>g. SUFFICES sem_count' = InitialCount + (VT - VLn) - (PT - PLn)
  BY DEF Balance
<1>1. ASSUME NEW t \in Threads, PDecrement(t)
      PROVE  sem_count' = InitialCount + (VT - VLn) - (PT - PLn)
  <2>1. /\ spc[t] \in {"p", "woken"} /\ sem_count' = sem_count - 1
        /\ psleft' = [psleft EXCEPT ![t] = @ - 1] /\ vsleft' = vsleft
    BY <1>1 DEF PDecrement
  <2>2. psleft[t] > 0
    BY <1>t, <2>1 DEF CallsLeft, InP
  <2>3. PLn = PL - 1 /\ VLn = VL
    BY <1>t, <2>1, <2>2, CallsOneLess
  <2> HIDE DEF PL, VL, PLn, VLn, PT, VT
  <2> QED
    BY <1>t, <1>f, <1>b, <2>1, <2>3
<1>2. ASSUME NEW t \in Threads, VIncrement(t)
      PROVE  sem_count' = InitialCount + (VT - VLn) - (PT - PLn)
  <2>1. /\ spc[t] = "v" /\ sem_count' = sem_count + 1
        /\ vsleft' = [vsleft EXCEPT ![t] = @ - 1] /\ psleft' = psleft
    BY <1>2 DEF VIncrement
  <2>2. vsleft[t] > 0
    BY <1>t, <2>1 DEF CallsLeft
  <2>3. VLn = VL - 1 /\ PLn = PL
    BY <1>t, <2>1, <2>2, CallsOneLess
  <2> HIDE DEF PL, VL, PLn, VLn, PT, VT
  <2> QED
    BY <1>t, <1>f, <1>b, <2>1, <2>3
<1>3. ASSUME UNCHANGED <<sem_count, psleft, vsleft>>
      PROVE  sem_count' = InitialCount + (VT - VLn) - (PT - PLn)
  BY <1>b, <1>3
<1> HIDE DEF PL, VL, PLn, VLn, PT, VT
<1>4. ASSUME NEW t \in Threads,
             \/ PCall(t) \/ VCall(t) \/ PBlock(t) \/ PWchanLock(t)
             \/ PSleep(t) \/ VWake(t) \/ SemDestroy(t)
      PROVE  UNCHANGED <<sem_count, psleft, vsleft>>
  BY <1>4 DEF PCall, VCall, PBlock, PWchanLock, PSleep, VWake, SemDestroy
<1>5. CASE UNCHANGED semvars
  BY <1>3, <1>5 DEF semvars
<1> QED
  BY <1>1, <1>2, <1>3, <1>4, <1>5 DEF SemNext, SemStep

VsDone == AllPsDone => \A t \in Threads : vsleft[t] = 0

\* When all Ps are done and every V is for one of them, all Vs are done.
LEMMA NoVLeft == EveryVForAP => (SemInv /\ Balance => VsDone)
<1> SUFFICES ASSUME EveryVForAP, SemInv, Balance, AllPsDone
             PROVE  \A t \in Threads : vsleft[t] = 0
  BY DEF VsDone
<1> DEFINE PL == Cardinality(Calls(psleft))
           VL == Cardinality(Calls(vsleft))
           PT == Cardinality(Calls(Ps))
           VT == Cardinality(Calls(Vs))
<1>1. /\ sem_count \in Nat /\ InitialCount \in Nat
      /\ psleft \in [Threads -> Nat] /\ vsleft \in [Threads -> Nat]
  BY CountAssumption DEF SemInv, SemTypeOK
<1>2. PL \in Nat /\ VL \in Nat /\ PT \in Nat /\ VT \in Nat
  BY <1>1, CallsAssumption, CallsFinite
<1>3. sem_count = InitialCount + (VT - VL) - (PT - PL)
  BY DEF Balance
<1>4. PL = 0
  BY <1>1, CallsNone DEF AllPsDone
<1>5. InitialCount + VT <= PT
  BY DEF EveryVForAP
<1> HIDE DEF PL, VL, PT, VT
<1>6. VL = 0
  BY <1>1, <1>2, <1>3, <1>4, <1>5
<1> QED
  BY <1>1, <1>6, CallsNone DEF VL

\* With every thread outside, no spinlock is held and the channel is empty.
LEMMA OutsideIsFree ==
  ASSUME SemInv, \A t \in Threads : spc[t] = "out"
  PROVE  sem_lock = None /\ wc_lock = None /\ wc_threads = <<>>
<1>1. sem_lock = None /\ wc_lock = None
  BY DEF SemInv, SemTypeOK, OwnersInv
<1>2. wc_threads \in Seq(Threads)
  BY DEF SemInv, SemTypeOK
<1>3. ASSUME wc_threads # <<>>
      PROVE  FALSE
  <2>1. Head(wc_threads) \in Threads /\ spc[Head(wc_threads)] = "asleep"
    BY <1>3, WakeHead
  <2> QED
    BY <2>1
<1> QED
  BY <1>1, <1>3

\* The last P needs sem_lock, which a V holds until it has woken someone:
\* when that P is done nobody is inside, and nobody can enter again.
LEMMA DoneNext ==
  SemInv /\ VsDone /\ DoneInv /\ [SemNext]_semvars /\ VsDone' => DoneInv'
<1> SUFFICES ASSUME SemInv, VsDone, DoneInv, [SemNext]_semvars, VsDone'
             PROVE  DoneInv'
  OBVIOUS
<1> DEFINE L == {"out", "p", "woken", "wchan", "sleep", "asleep", "v", "wake"}
<1>t. /\ SemTypeOK /\ CallsLeft /\ OwnersInv /\ None \notin Threads
      /\ psleft \in [Threads -> Nat] /\ vsleft \in [Threads -> Nat]
      /\ spc \in [Threads -> L]
  BY NoneAssumption DEF SemInv, SemTypeOK
<1>v. AllPsDone =>
        \A t \in Threads : spc[t] = "out" /\ vsleft[t] = 0 /\ psleft[t] = 0
  BY DEF DoneInv, VsDone, AllPsDone
<1>1. ASSUME NEW t \in Threads, PDecrement(t)
      PROVE  DoneInv'
  <2>1. /\ spc[t] \in {"p", "woken"} /\ SemGoto(t, "out") /\ sem_lock = None
        /\ psleft' = [psleft EXCEPT ![t] = @ - 1]
        /\ UNCHANGED <<vsleft, destroyed>>
    BY <1>1 DEF PDecrement
  <2>2. /\ spc'[t] = "out"
        /\ \A u \in Threads : u # t => spc'[u] = spc[u]
    BY <1>t, <2>1, SemGotoMoves
  <2>3. \A u \in Threads : u # t => psleft'[u] = psleft[u]
    BY <1>t, <2>1
  <2>4. destroyed = "no" /\ destroyed' = "no"
    BY <1>v, <2>1 DEF DoneInv
  <2>5. ASSUME AllPsDone', NEW u \in Threads, u # t
        PROVE  spc[u] = "out"
    <3>1. psleft[u] = 0 /\ vsleft[u] = 0
      BY <2>1, <2>3, <2>5 DEF AllPsDone, VsDone
    <3>2. spc[u] \notin InP /\ spc[u] # "v"
      BY <1>t, <3>1 DEF CallsLeft
    <3>3. spc[u] # "wake"
      BY <1>t, <2>1 DEF OwnersInv
    <3>4. spc[u] \in L
      BY <1>t
    <3> QED
      BY <3>2, <3>3, <3>4 DEF InP
  <2>6. AllPsDone' => \A u \in Threads : spc'[u] = "out"
    BY <2>2, <2>5
  <2> QED
    BY <2>4, <2>6 DEF DoneInv
<1>2. ASSUME NEW t \in Threads,
             \/ PCall(t) \/ VCall(t) \/ PBlock(t) \/ PWchanLock(t)
             \/ PSleep(t) \/ VIncrement(t) \/ VWake(t)
      PROVE  DoneInv'
  <2>1. /\ spc[t] # "out" \/ psleft[t] > 0 \/ vsleft[t] > 0
        /\ UNCHANGED <<psleft, destroyed>>
    BY <1>2
       DEF PCall, VCall, PBlock, PWchanLock, PSleep, VIncrement, VWake
  <2>2. ~AllPsDone
    BY <1>v, <2>1
  <2> QED
    BY <2>1, <2>2 DEF DoneInv, AllPsDone
<1>3. ASSUME NEW t \in Threads, SemDestroy(t)
      PROVE  DoneInv'
  <2>1. AllPsDone /\ UNCHANGED <<spc, psleft>>
    BY <1>3 DEF SemDestroy, AllPsDone
  <2>2. \A u \in Threads : spc[u] = "out"
    BY <2>1 DEF DoneInv
  <2>3. destroyed' = "yes"
    BY <1>3, <2>2, OutsideIsFree DEF SemDestroy
  <2> QED
    BY <2>1, <2>2, <2>3 DEF DoneInv, AllPsDone
<1>4. CASE UNCHANGED semvars
  BY <1>4 DEF semvars, DoneInv, AllPsDone
<1> QED
  BY <1>1, <1>2, <1>3, <1>4 DEF SemNext, SemStep

\* If every V is for one of the Ps, V does all it has to and no more: no
\* wakeup is lost, and the thread that destroys the semaphore after the last
\* P finds no V still inside, as thread_start_cpus and waitpid rely on.
THEOREM SemaphoreWakesThenLeaves ==
  ASSUME EveryVForAP
  PROVE  SemSpec => []VWakesThenLeaves
<1>1. SemInit => Balance /\ DoneInv
  <2> SUFFICES ASSUME SemInit PROVE Balance /\ DoneInv
    OBVIOUS
  <2>1. DoneInv
    BY DEF SemInit, DoneInv
  <2>2. Cardinality(Calls(Ps)) \in Nat /\ Cardinality(Calls(Vs)) \in Nat
    BY CallsAssumption, CallsFinite
  <2>3. sem_count = InitialCount /\ psleft = Ps /\ vsleft = Vs
    BY DEF SemInit
  <2>4. Balance
    BY <2>2, <2>3, CountAssumption DEF Balance
  <2> QED
    BY <2>1, <2>4
<1>2. SemInv /\ Balance => VsDone
  BY NoVLeft
<1>3. SemInv /\ DoneInv => SafeDestroy
  <2> SUFFICES ASSUME DoneInv PROVE SafeDestroy
    OBVIOUS
  <2>1. destroyed = "yes" => Inside("out") = Threads
    BY DEF DoneInv, Inside
  <2> QED
    BY <2>1 DEF DoneInv, SafeDestroy
<1>4. NoLostWakeup /\ SafeDestroy => VWakesThenLeaves
  BY DEF VWakesThenLeaves
<1> QED
  BY <1>1, <1>2, <1>3, <1>4, SemInvInit, SemInvNext, BalanceNext, DoneNext,
     SemaphoreNoLostWakeup, PTL DEF SemSpec

-----------------------------------------------------------------------------
(***************************************************************************)
(* Proofs about Monitor: for any number of threads, the sleep lock of      *)
(* kern/thread/synch.c excludes and no KASSERT on lock_do_i_hold fails,    *)
(* with cv_wait, cv_signal and cv_broadcast releasing and taking it too.   *)
(*                                                                         *)
(* The invariant adds that both wait channels hold sleeping threads, each  *)
(* once: a wakeup moves a thread that waits, never the one that holds the  *)
(* lock.                                                                   *)
(***************************************************************************)

MonTypes ==
    /\ lk_holder \in Threads \union {None}
    /\ lkwc_threads \in Seq(Threads)
    /\ cvwc_threads \in Seq(Threads)
    /\ mpc \in [Threads -> MonLabels]

Asleep(q, label) == \A i \in 1 .. Len(q) : mpc[q[i]] = label
Distinct(q) == \A i, j \in 1 .. Len(q) : q[i] = q[j] => i = j

Queues ==
    /\ Asleep(lkwc_threads, "asleep") /\ Distinct(lkwc_threads)
    /\ Asleep(cvwc_threads, "cvasleep") /\ Distinct(cvwc_threads)

MonitorInv == MonTypes /\ Queues /\ LockExcludes /\ MonNoPanic

\* A thread added to a channel it was not on: the queue stays without
\* duplicates and gains only that thread.
LEMMA Joins ==
  ASSUME NEW q \in Seq(Threads), NEW t \in Threads, Distinct(q),
         \A i \in 1 .. Len(q) : q[i] # t
  PROVE  /\ Append(q, t) \in Seq(Threads)
         /\ Distinct(Append(q, t))
         /\ \A i \in 1 .. Len(Append(q, t)) :
              \/ Append(q, t)[i] = t
              \/ i \in 1 .. Len(q) /\ Append(q, t)[i] = q[i]
<1> DEFINE r == Append(q, t)
<1>1. r \in Seq(Threads) /\ Len(r) = Len(q) + 1 /\ Len(q) \in Nat
  OBVIOUS
<1>2. \A i \in 1 .. Len(q) : r[i] = q[i]
  OBVIOUS
<1>3. r[Len(q) + 1] = t
  OBVIOUS
<1>4. \A i \in 1 .. Len(r) : i \in 1 .. Len(q) \/ i = Len(q) + 1
  BY <1>1
<1> HIDE DEF r
<1>5. Distinct(r)
  BY <1>2, <1>3, <1>4 DEF Distinct
<1>6. \A i \in 1 .. Len(r) : r[i] = t \/ (i \in 1 .. Len(q) /\ r[i] = q[i])
  BY <1>2, <1>3, <1>4
<1>7. QED
  BY <1>1, <1>5, <1>6 DEF r

\* The first n threads leave a channel: those that stay are the ones behind
\* them, and none of those that left.
LEMMA Leaves ==
  ASSUME NEW q \in Seq(Threads), NEW n \in 0 .. Len(q), Distinct(q)
  PROVE  LET r == SubSeq(q, n + 1, Len(q)) IN
         /\ r \in Seq(Threads)
         /\ Distinct(r)
         /\ \A i \in 1 .. Len(r) :
              /\ \E k \in 1 .. Len(q) : r[i] = q[k]
              /\ \A j \in 1 .. n : r[i] # q[j]
<1> DEFINE r == SubSeq(q, n + 1, Len(q))
<1>1. Len(q) \in Nat /\ n \in Nat /\ n <= Len(q)
  OBVIOUS
<1>2. r \in Seq(Threads)
  BY <1>1
<1>3. Len(r) = Len(q) - n
  BY <1>1
<1>4. \A i \in 1 .. Len(q) - n : r[i] = q[i + n] /\ i + n \in 1 .. Len(q)
  BY <1>1
<1> HIDE DEF r
<1>5. \A i \in 1 .. Len(r) : i \in 1 .. Len(q) - n
  BY <1>3
<1>6. Distinct(r)
  <2> SUFFICES ASSUME NEW i \in 1 .. Len(r), NEW j \in 1 .. Len(r), r[i] = r[j]
               PROVE  i = j
    BY DEF Distinct
  <2>1. i + n = j + n
    BY <1>4, <1>5 DEF Distinct
  <2>2. QED
    BY <1>1, <1>5, <2>1
<1>7. ASSUME NEW i \in 1 .. Len(r)
      PROVE  /\ \E k \in 1 .. Len(q) : r[i] = q[k]
             /\ \A j \in 1 .. n : r[i] # q[j]
  <2>1. r[i] = q[i + n] /\ i + n \in 1 .. Len(q)
    BY <1>4, <1>5
  <2>2. ASSUME NEW j \in 1 .. n
        PROVE  r[i] # q[j]
    <3>1. j \in 1 .. Len(q) /\ j # i + n
      BY <1>1, <1>5
    <3>2. QED
      BY <2>1, <3>1 DEF Distinct
  <2>3. QED
    BY <2>1, <2>2
<1>8. QED
  BY <1>2, <1>6, <1>7 DEF r

\* lock_create and cv_create establish the invariant.
LEMMA MonitorInit == MonInit => MonitorInv
<1> SUFFICES ASSUME MonInit
             PROVE  MonitorInv
  OBVIOUS
<1>1. MonTypes
  BY DEF MonInit, MonTypes, MonLabels
<1>2. Queues
  BY DEF MonInit, Queues, Asleep, Distinct
<1>3. LockExcludes /\ MonNoPanic
  BY NoneAssumption DEF MonInit, LockExcludes, MonNoPanic
<1>4. QED
  BY <1>1, <1>2, <1>3 DEF MonitorInv

\* A step of one thread that leaves both channels as they are, and moves
\* the thread from a place where it was not asleep.
LEMMA QueuesFrame ==
  ASSUME MonitorInv, NEW t \in Threads, NEW label \in MonLabels,
         mpc[t] \notin {"asleep", "cvasleep"},
         MonGoto(t, label), UNCHANGED <<lkwc_threads, cvwc_threads>>
  PROVE  Queues'
  BY DEF MonitorInv, MonTypes, Queues, Asleep, Distinct, MonGoto

\* The steps that change neither channel.
LEMMA NextPlain ==
  ASSUME MonitorInv, NEW t \in Threads,
         \/ LockAcquire(t) \/ LockTake(t) \/ LockBlock(t) \/ LockWchanLock(t)
         \/ LockRelease(t) \/ CvWait(t) \/ CvRelease(t) \/ CvWoken(t)
  PROVE  MonitorInv'
<1>1. CASE LockAcquire(t) \/ CvWoken(t)
  <2>1. MonTypes' /\ LockExcludes'
    BY <1>1 DEF MonitorInv, MonTypes, MonLabels, LockExcludes, LockAcquire,
                CvWoken,
                MonAt, MonGoto
  <2>2. MonNoPanic'
    BY <1>1 DEF MonitorInv, LockExcludes, MonNoPanic, LockAcquire, CvWoken,
                MonAt
  <2>3. Queues'
    BY <1>1, QueuesFrame DEF LockAcquire, CvWoken, MonAt, MonLabels
  <2>4. QED
    BY <2>1, <2>2, <2>3 DEF MonitorInv
<1>2. CASE LockTake(t)
  <2>1. MonTypes' /\ LockExcludes'
    BY <1>2, NoneAssumption
       DEF MonitorInv, MonTypes, MonLabels, LockExcludes, LockTake,
           LockIsFree, MonGoto
  <2>2. MonNoPanic'
    BY <1>2 DEF MonitorInv, MonNoPanic, LockTake
  <2>3. Queues'
    BY <1>2, QueuesFrame DEF LockTake, MonLabels
  <2>4. QED
    BY <2>1, <2>2, <2>3 DEF MonitorInv
<1>3. CASE LockBlock(t) \/ LockWchanLock(t)
  <2>1. MonTypes' /\ LockExcludes'
    BY <1>3 DEF MonitorInv, MonTypes, MonLabels, LockExcludes, LockBlock,
                LockWchanLock, MonAt, MonGoto
  <2>2. MonNoPanic'
    BY <1>3 DEF MonitorInv, MonNoPanic, LockBlock, LockWchanLock
  <2>3. Queues'
    BY <1>3, QueuesFrame DEF LockBlock, LockWchanLock, MonAt, MonLabels
  <2>4. QED
    BY <2>1, <2>2, <2>3 DEF MonitorInv
<1>4. CASE LockRelease(t) \/ CvRelease(t)
  <2>1. MonTypes' /\ LockExcludes'
    BY <1>4, NoneAssumption
       DEF MonitorInv, MonTypes, MonLabels, LockExcludes, LockRelease,
           CvRelease, MonAt,
           MonGoto
  <2>2. MonNoPanic'
    BY <1>4 DEF MonitorInv, LockExcludes, MonNoPanic, LockRelease, CvRelease,
                MonAt,
                AssertHeld
  <2>3. Queues'
    BY <1>4, QueuesFrame DEF LockRelease, CvRelease, MonAt, MonLabels
  <2>4. QED
    BY <2>1, <2>2, <2>3 DEF MonitorInv
<1>5. CASE CvWait(t)
  <2>1. MonTypes' /\ LockExcludes'
    BY <1>5 DEF MonitorInv, MonTypes, MonLabels, LockExcludes, CvWait, MonAt,
                MonGoto
  <2>2. MonNoPanic'
    BY <1>5 DEF MonitorInv, LockExcludes, MonNoPanic, CvWait, MonAt, AssertHeld
  <2>3. Queues'
    BY <1>5, QueuesFrame DEF CvWait, MonAt, MonLabels
  <2>4. QED
    BY <2>1, <2>2, <2>3 DEF MonitorInv
<1>6. QED
  BY <1>1, <1>2, <1>3, <1>4, <1>5

\* wchan_sleep, in lock_acquire and in cv_wait.
LEMMA NextSleep ==
  ASSUME MonitorInv, NEW t \in Threads, LockSleep(t) \/ CvSleep(t)
  PROVE  MonitorInv'
<1>1. MonTypes /\ Queues
  BY DEF MonitorInv
<1>2. CASE LockSleep(t)
  <2>1. /\ mpc[t] = "sleep" /\ mpc' = [mpc EXCEPT ![t] = "asleep"]
        /\ lkwc_threads' = Append(lkwc_threads, t)
        /\ UNCHANGED <<cvwc_threads, lk_holder, mpanic>>
    BY <1>2 DEF LockSleep, MonAt, MonGoto
  <2>2. \A i \in 1 .. Len(lkwc_threads) : lkwc_threads[i] # t
    BY <1>1, <2>1 DEF Queues, Asleep
  <2>3. /\ lkwc_threads' \in Seq(Threads) /\ Distinct(lkwc_threads')
        /\ \A i \in 1 .. Len(lkwc_threads') :
             \/ lkwc_threads'[i] = t
             \/ i \in 1 .. Len(lkwc_threads)
                /\ lkwc_threads'[i] = lkwc_threads[i]
    BY <1>1, <2>1, <2>2, Joins DEF MonTypes, Queues
  <2>4. MonTypes' /\ LockExcludes' /\ MonNoPanic'
    BY <2>1, <2>3 DEF MonitorInv, MonTypes, MonLabels, LockExcludes, MonNoPanic
  <2>5. Asleep(lkwc_threads, "asleep")'
    BY <1>1, <2>1, <2>3 DEF Queues, Asleep, MonTypes
  <2>6. Asleep(cvwc_threads, "cvasleep")' /\ Distinct(cvwc_threads)'
    BY <1>1, <2>1 DEF Queues, Asleep, MonTypes, Distinct
  <2>7. Distinct(lkwc_threads)'
    BY <2>3 DEF Distinct
  <2>8. QED
    BY <2>4, <2>5, <2>6, <2>7 DEF MonitorInv, Queues
<1>3. CASE CvSleep(t)
  <2>1. /\ mpc[t] = "cvsleep" /\ mpc' = [mpc EXCEPT ![t] = "cvasleep"]
        /\ cvwc_threads' = Append(cvwc_threads, t)
        /\ UNCHANGED <<lkwc_threads, lk_holder, mpanic>>
    BY <1>3 DEF CvSleep, MonAt, MonGoto
  <2>2. \A i \in 1 .. Len(cvwc_threads) : cvwc_threads[i] # t
    BY <1>1, <2>1 DEF Queues, Asleep
  <2>3. /\ cvwc_threads' \in Seq(Threads) /\ Distinct(cvwc_threads')
        /\ \A i \in 1 .. Len(cvwc_threads') :
             \/ cvwc_threads'[i] = t
             \/ i \in 1 .. Len(cvwc_threads)
                /\ cvwc_threads'[i] = cvwc_threads[i]
    BY <1>1, <2>1, <2>2, Joins DEF MonTypes, Queues
  <2>4. MonTypes' /\ LockExcludes' /\ MonNoPanic'
    BY <2>1, <2>3 DEF MonitorInv, MonTypes, MonLabels, LockExcludes, MonNoPanic
  <2>5. Asleep(cvwc_threads, "cvasleep")'
    BY <1>1, <2>1, <2>3 DEF Queues, Asleep, MonTypes
  <2>6. Asleep(lkwc_threads, "asleep")' /\ Distinct(lkwc_threads)'
    BY <1>1, <2>1 DEF Queues, Asleep, MonTypes, Distinct
  <2>7. Distinct(cvwc_threads)'
    BY <2>3 DEF Distinct
  <2>8. QED
    BY <2>4, <2>5, <2>6, <2>7 DEF MonitorInv, Queues
<1>4. QED
  BY <1>2, <1>3

\* The wakeups of lock_release, cv_signal and cv_broadcast take the first n
\* threads off a channel, n <= 1 for the first two.
LEMMA NextLockWake ==
  ASSUME MonitorInv, NEW t \in Threads, LockWake(t)
  PROVE  MonitorInv'
<1> DEFINE q == lkwc_threads
           n == IF q = <<>> THEN 0 ELSE 1
<1>1. MonTypes /\ Queues
  BY DEF MonitorInv
<1>2. q \in Seq(Threads) /\ Distinct(q) /\ n \in 0 .. Len(q)
  BY <1>1 DEF MonTypes, Queues
<1>3. q' = SubSeq(q, n + 1, Len(q))
  <2>1. CASE q = <<>>
    BY <1>2, <2>1 DEF LockWake, WakeOne
  <2>2. CASE q # <<>>
    <3>1. q' = Tail(q)
      BY <2>2 DEF LockWake, WakeOne
    <3>2. QED
      BY <1>2, <2>2, <3>1, TailIsSubSeq
  <2>3. QED
    BY <2>1, <2>2
<1>4. WakeOne(q) = {q[j] : j \in 1 .. n}
  BY <1>2 DEF WakeOne
<1>5. \A u \in WakeOne(q) : u \in Threads /\ mpc[u] = "asleep"
  BY <1>1, <1>2, <1>4 DEF Queues, Asleep
<1>6. /\ mpc[t] = "wakeone" /\ UNCHANGED <<cvwc_threads, lk_holder, mpanic>>
      /\ mpc' = [u \in Threads |->
                  IF u \in WakeOne(q) THEN "woken"
                  ELSE IF u # t THEN mpc[u]
                  ELSE IF waits[t] THEN "cvsleep" ELSE "out"]
  BY DEF LockWake, MonAt
<1>7. /\ q' \in Seq(Threads) /\ Distinct(q')
      /\ \A i \in 1 .. Len(q') :
           /\ \E k \in 1 .. Len(q) : q'[i] = q[k]
           /\ \A j \in 1 .. n : q'[i] # q[j]
  BY <1>2, <1>3, Leaves
<1> HIDE DEF n
<1>8. MonTypes' /\ LockExcludes' /\ MonNoPanic'
  <2>1. MonTypes'
    BY <1>1, <1>6, <1>7 DEF MonTypes, MonLabels
  <2>2. LockExcludes'
    BY <1>5, <1>6 DEF MonitorInv, LockExcludes
  <2>3. MonNoPanic'
    BY <1>6 DEF MonitorInv, MonNoPanic
  <2>4. QED
    BY <2>1, <2>2, <2>3
<1>9. Asleep(lkwc_threads, "asleep")'
  <2> SUFFICES ASSUME NEW i \in 1 .. Len(q')
               PROVE  mpc'[q'[i]] = "asleep"
    BY DEF Asleep
  <2>1. PICK k \in 1 .. Len(q) : q'[i] = q[k]
    BY <1>7
  <2>2. q[k] \in Threads /\ mpc[q[k]] = "asleep"
    BY <1>1, <1>2 DEF Queues, Asleep
  <2>3. q'[i] \notin WakeOne(q)
    BY <1>4, <1>7
  <2>4. QED
    BY <1>6, <2>1, <2>2, <2>3
<1>10. Asleep(cvwc_threads, "cvasleep")'
  <2> SUFFICES ASSUME NEW i \in 1 .. Len(cvwc_threads)
               PROVE  mpc'[cvwc_threads[i]] = "cvasleep"
    BY <1>6 DEF Asleep
  <2>1. cvwc_threads[i] \in Threads /\ mpc[cvwc_threads[i]] = "cvasleep"
    BY <1>1 DEF Queues, Asleep, MonTypes
  <2>2. QED
    BY <1>5, <1>6, <2>1
<1>11. Distinct(lkwc_threads)' /\ Distinct(cvwc_threads)'
  BY <1>1, <1>6, <1>7 DEF Queues, Distinct
<1>12. QED
  BY <1>8, <1>9, <1>10, <1>11 DEF MonitorInv, Queues

\* cv_signal and cv_broadcast take the first n threads off the channel of the
\* CV.
LEMMA NextCvWake ==
  ASSUME MonitorInv, NEW t \in Threads, NEW n \in 0 .. Len(cvwc_threads),
         CvWake(t, n)
  PROVE  MonitorInv'
<1> DEFINE q == cvwc_threads
           woken == {q[j] : j \in 1 .. n}
<1>1. MonTypes /\ Queues
  BY DEF MonitorInv
<1>2. q \in Seq(Threads) /\ Distinct(q) /\ n <= Len(q) /\ n \in Nat
      /\ Len(q) \in Nat
  BY <1>1 DEF MonTypes, Queues
<1>3. \A u \in woken : u \in Threads /\ mpc[u] = "cvasleep"
  BY <1>1, <1>2 DEF Queues, Asleep
<1>4. /\ mpc[t] = "in" /\ UNCHANGED <<lkwc_threads, lk_holder>>
      /\ q' = SubSeq(q, n + 1, Len(q))
      /\ mpc' = [u \in Threads |-> IF u \in woken THEN "cvwoken" ELSE mpc[u]]
      /\ AssertHeld(t)
  BY DEF CvWake, MonAt
<1>5. /\ q' \in Seq(Threads) /\ Distinct(q')
      /\ \A i \in 1 .. Len(q') :
           /\ \E k \in 1 .. Len(q) : q'[i] = q[k]
           /\ \A j \in 1 .. n : q'[i] # q[j]
  <2>1. n \in 0 .. Len(q) /\ q' = SubSeq(q, n + 1, Len(q))
    BY <1>4
  <2> HIDE DEF q, woken
  <2>2. LET r == SubSeq(q, n + 1, Len(q)) IN
        /\ r \in Seq(Threads) /\ Distinct(r)
        /\ \A i \in 1 .. Len(r) :
             /\ \E k \in 1 .. Len(q) : r[i] = q[k]
             /\ \A j \in 1 .. n : r[i] # q[j]
    BY <1>2, <2>1, Leaves
  <2>3. QED
    BY <2>1, <2>2
<1>6. MonTypes'
  BY <1>1, <1>4, <1>5 DEF MonTypes, MonLabels
<1>7. LockExcludes'
  BY <1>3, <1>4 DEF MonitorInv, LockExcludes
<1>8. MonNoPanic'
  BY <1>4 DEF MonitorInv, LockExcludes, MonNoPanic, AssertHeld
<1>9. Asleep(cvwc_threads, "cvasleep")'
  <2> SUFFICES ASSUME NEW i \in 1 .. Len(q')
               PROVE  mpc'[q'[i]] = "cvasleep"
    BY DEF Asleep
  <2>1. PICK k \in 1 .. Len(q) : q'[i] = q[k]
    BY <1>5
  <2>2. q[k] \in Threads /\ mpc[q[k]] = "cvasleep"
    BY <1>1, <1>2 DEF Queues, Asleep
  <2>3. q'[i] \notin woken
    BY <1>5
  <2>4. QED
    BY <1>4, <2>1, <2>2, <2>3
<1>10. Asleep(lkwc_threads, "asleep")'
  <2> SUFFICES ASSUME NEW i \in 1 .. Len(lkwc_threads)
               PROVE  mpc'[lkwc_threads[i]] = "asleep"
    BY <1>4 DEF Asleep
  <2>1. lkwc_threads[i] \in Threads /\ mpc[lkwc_threads[i]] = "asleep"
    BY <1>1 DEF Queues, Asleep, MonTypes
  <2>2. QED
    BY <1>3, <1>4, <2>1
<1>11. Distinct(lkwc_threads)' /\ Distinct(cvwc_threads)'
  BY <1>1, <1>4, <1>5 DEF Queues, Distinct
<1>12. QED
  BY <1>6, <1>7, <1>8, <1>9, <1>10, <1>11 DEF MonitorInv, Queues

\* cv_signal wakes one thread if there is one, cv_broadcast all of them: no
\* more than the channel has.
LEMMA WakeCounts ==
  ASSUME MonTypes
  PROVE  /\ (IF cvwc_threads = <<>> THEN 0 ELSE 1) \in 0 .. Len(cvwc_threads)
         /\ Len(cvwc_threads) \in 0 .. Len(cvwc_threads)
<1>1. cvwc_threads \in Seq(Threads)
  BY DEF MonTypes
<1>2. QED
  BY <1>1

\* Every step keeps the invariant.
LEMMA MonitorNext == MonitorInv /\ [MonNext]_monvars => MonitorInv'
<1> SUFFICES ASSUME MonitorInv, [MonNext]_monvars
             PROVE  MonitorInv'
  OBVIOUS
<1>1. ASSUME NEW t \in Threads, CvSignal(t) \/ CvBroadcast(t)
      PROVE  MonitorInv'
  BY <1>1, WakeCounts, NextCvWake
     DEF MonitorInv, CvSignal, CvBroadcast
<1>2. CASE UNCHANGED monvars
  <2>1. UNCHANGED <<lk_holder, lkwc_threads, cvwc_threads, mpc, mpanic>>
    BY <1>2 DEF monvars
  <2>2. MonTypes' /\ LockExcludes' /\ MonNoPanic'
    BY <2>1 DEF MonitorInv, MonTypes, LockExcludes, MonNoPanic
  <2>3. Queues'
    BY <2>1 DEF MonitorInv, Queues, Asleep, Distinct
  <2>4. QED
    BY <2>2, <2>3 DEF MonitorInv
<1>3. QED
  BY <1>1, <1>2, NextPlain, NextSleep, NextLockWake DEF MonNext, MonStep

\* Only one thread at a time is between lock_acquire and lock_release, for
\* any number of threads that also wait, signal and broadcast.
THEOREM MonitorExcludes == MonSpec => []LockExcludes
<1>1. MonitorInv => LockExcludes
  BY DEF MonitorInv
<1>2. QED
  BY <1>1, MonitorInit, MonitorNext, PTL DEF MonSpec

\* No KASSERT on lock_do_i_hold fails.
THEOREM MonitorNoPanic == MonSpec => []MonNoPanic
<1>1. MonitorInv => MonNoPanic
  BY DEF MonitorInv
<1>2. QED
  BY <1>1, MonitorInit, MonitorNext, PTL DEF MonSpec

-----------------------------------------------------------------------------
\* No sleeper is stranded.  From the test of lk_holder to the sleep one of the
\* spinlocks is held that a wakeup takes, and a thread that sleeps is where the
\* wakeup looks for it.
HandsRight ==
    /\ \A t \in Threads : mpc[t] \in {"wchan", "wakeone"} => lk_lock = t
    /\ \A t \in Threads : mpc[t] = "sleep" => lkwc_lock = t

SleepersQueued ==
    \A t \in Threads : mpc[t] = "asleep" =>
        \E i \in 1 .. Len(lkwc_threads) : lkwc_threads[i] = t

StrandInv == HandsRight /\ SleepersQueued /\ NobodyStranded

\* A step of one thread changes no other thread's place in the code.
LEMMA MonitorMoves ==
  ASSUME MonTypes, NEW t \in Threads, NEW label, MonGoto(t, label)
  PROVE  /\ mpc'[t] = label
         /\ \A u \in Threads : u # t => mpc'[u] = mpc[u]
BY DEF MonTypes, MonGoto

\* A step of one thread t that leaves the queue alone and t not asleep.
LEMMA SleepersStay ==
  ASSUME MonitorInv, SleepersQueued, NEW t \in Threads, NEW label,
         MonGoto(t, label), label # "asleep", UNCHANGED lkwc_threads
  PROVE  SleepersQueued'
BY DEF MonitorInv, MonTypes, SleepersQueued, MonGoto

\* The wakeup of lock_release: the first sleeper, if there is any, is woken.
LEMMA LockWakes ==
  ASSUME MonitorInv, StrandInv, NEW t \in Threads, LockWake(t)
  PROVE  StrandInv'
<1>0. /\ mpc[t] = "wakeone" /\ lk_lock = t /\ lkwc_lock = None
      /\ lk_lock' = None /\ lkwc_lock' = None /\ lk_holder' = lk_holder
      /\ None \notin Threads /\ lkwc_threads \in Seq(Threads)
  BY NoneAssumption
     DEF LockWake, MonAt, StrandInv, HandsRight, MonitorInv, MonTypes
<1>1. \A u \in Threads :
         mpc[u] \notin {"wchan", "sleep"} /\ (mpc[u] = "wakeone" => u = t)
  BY <1>0 DEF StrandInv, HandsRight
<1>2. \A u \in Threads : mpc[u] = "asleep" => lkwc_threads # << >>
  BY <1>0 DEF StrandInv, SleepersQueued
<1>3. CASE lkwc_threads = << >>
  <2>1. /\ mpc' = [u \in Threads |->
                     IF u # t THEN mpc[u]
                     ELSE IF waits[t] THEN "cvsleep" ELSE "out"]
        /\ lkwc_threads' = lkwc_threads
    BY <1>3 DEF LockWake, WakeOne
  <2>2. \A u \in Threads :
           mpc'[u] \notin {"wchan", "sleep", "wakeone", "asleep"}
    BY <1>1, <1>2, <1>3, <2>1
  <2> QED
    BY <2>2 DEF StrandInv, HandsRight, SleepersQueued, NobodyStranded
<1>4. CASE lkwc_threads # << >>
  <2> DEFINE h == lkwc_threads[1]
  <2>1. /\ h \in Threads /\ h = Head(lkwc_threads) /\ Len(lkwc_threads) \in Nat
        /\ 1 \in 1 .. Len(lkwc_threads)
    BY <1>0, <1>4
  <2>2. /\ lkwc_threads' = Tail(lkwc_threads)
        /\ mpc' = [u \in Threads |->
                     IF u = h THEN "woken" ELSE IF u # t THEN mpc[u]
                     ELSE IF waits[t] THEN "cvsleep" ELSE "out"]
    BY <1>4, <2>1 DEF LockWake, WakeOne
  <2>3. HandsRight'
    BY <1>1, <2>2 DEF HandsRight
  <2>4. mpc'[h] = "woken"
    BY <2>1, <2>2
  <2>5. SleepersQueued'
    <3> SUFFICES ASSUME NEW u \in Threads, mpc'[u] = "asleep"
                 PROVE  \E i \in 1 .. Len(lkwc_threads') : lkwc_threads'[i] = u
      BY DEF SleepersQueued
    <3>1. u # h /\ mpc[u] = "asleep"
      BY <2>2
    <3>2. PICK i \in 1 .. Len(lkwc_threads) : lkwc_threads[i] = u
      BY <3>1 DEF StrandInv, SleepersQueued
    <3>3. i # 1
      BY <3>1, <3>2
    <3>4. /\ Len(lkwc_threads') = Len(lkwc_threads) - 1
          /\ \A k \in 1 .. Len(lkwc_threads) - 1 :
               lkwc_threads'[k] = lkwc_threads[k + 1]
      BY <1>0, <1>4, <2>2
    <3>5. i - 1 \in 1 .. Len(lkwc_threads) - 1 /\ (i - 1) + 1 = i
      BY <2>1, <3>3
    <3> QED
      BY <3>2, <3>4, <3>5
  <2> QED
    BY <2>1, <2>3, <2>4, <2>5 DEF StrandInv, NobodyStranded
<1> QED
  BY <1>3, <1>4

\* Every step keeps it.
LEMMA StrandNext ==
  MonitorInv /\ StrandInv /\ [MonNext]_monvars => StrandInv'
<1> SUFFICES ASSUME MonitorInv, StrandInv, [MonNext]_monvars
             PROVE  StrandInv'
  OBVIOUS
<1>t. MonTypes /\ None \notin Threads
  BY NoneAssumption DEF MonitorInv
<1>1. ASSUME NEW t \in Threads, LockAcquire(t) \/ CvWoken(t)
      PROVE  StrandInv'
  <2>1. /\ MonGoto(t, "acquire") /\ mpc[t] \in {"out", "cvwoken"}
        /\ UNCHANGED <<lk_holder, lk_lock, lkwc_lock, lkwc_threads>>
    BY <1>1 DEF LockAcquire, CvWoken, MonAt
  <2>2. SleepersQueued'
    BY <2>1, SleepersStay DEF StrandInv
  <2>3. mpc'[t] = "acquire" /\ \A u \in Threads : u # t => mpc'[u] = mpc[u]
    BY <1>t, <2>1, MonitorMoves
  <2>4. HandsRight' /\ NobodyStranded'
    BY <2>1, <2>3 DEF StrandInv, HandsRight, NobodyStranded
  <2> QED
    BY <2>2, <2>4 DEF StrandInv
<1>2. ASSUME NEW t \in Threads, LockTake(t)
      PROVE  StrandInv'
  <2>1. /\ MonGoto(t, "in") /\ lk_holder' = t
        /\ UNCHANGED <<lk_lock, lkwc_lock, lkwc_threads>>
    BY <1>2 DEF LockTake
  <2>2. SleepersQueued'
    BY <2>1, SleepersStay DEF StrandInv
  <2>3. mpc'[t] = "in" /\ \A u \in Threads : u # t => mpc'[u] = mpc[u]
    BY <1>t, <2>1, MonitorMoves
  <2>4. HandsRight' /\ NobodyStranded'
    BY <1>t, <2>1, <2>3 DEF StrandInv, HandsRight, NobodyStranded
  <2> QED
    BY <2>2, <2>4 DEF StrandInv
<1>3. ASSUME NEW t \in Threads, LockBlock(t)
      PROVE  StrandInv'
  <2>1. /\ MonGoto(t, "wchan") /\ lk_lock = None /\ lk_lock' = t
        /\ lk_holder # None
        /\ UNCHANGED <<lk_holder, lkwc_lock, lkwc_threads>>
    BY <1>3 DEF LockBlock, LockBlocked, LockIsFree
  <2>2. SleepersQueued'
    BY <2>1, SleepersStay DEF StrandInv
  <2>3. mpc'[t] = "wchan" /\ \A u \in Threads : u # t => mpc'[u] = mpc[u]
    BY <1>t, <2>1, MonitorMoves
  <2>4. HandsRight' /\ NobodyStranded'
    BY <1>t, <2>1, <2>3 DEF StrandInv, HandsRight, NobodyStranded
  <2> QED
    BY <2>2, <2>4 DEF StrandInv
<1>4. ASSUME NEW t \in Threads, LockWchanLock(t)
      PROVE  StrandInv'
  <2>1. /\ MonGoto(t, "sleep") /\ mpc[t] = "wchan" /\ lkwc_lock = None
        /\ lkwc_lock' = t /\ lk_lock' = None /\ lk_lock = t
        /\ UNCHANGED <<lk_holder, lkwc_threads>>
    BY <1>4 DEF LockWchanLock, MonAt, StrandInv, HandsRight
  <2>2. SleepersQueued'
    BY <2>1, SleepersStay DEF StrandInv
  <2>3. mpc'[t] = "sleep" /\ \A u \in Threads : u # t => mpc'[u] = mpc[u]
    BY <1>t, <2>1, MonitorMoves
  <2>4. HandsRight' /\ NobodyStranded'
    BY <1>t, <2>1, <2>3 DEF StrandInv, HandsRight, NobodyStranded
  <2> QED
    BY <2>2, <2>4 DEF StrandInv
<1>5. ASSUME NEW t \in Threads, LockSleep(t)
      PROVE  StrandInv'
  <2>1. /\ MonGoto(t, "asleep") /\ mpc[t] = "sleep" /\ lkwc_lock = t
        /\ lkwc_lock' = None /\ lkwc_threads' = Append(lkwc_threads, t)
        /\ UNCHANGED <<lk_holder, lk_lock>>
    BY <1>5 DEF LockSleep, MonAt, StrandInv, HandsRight
  <2>2. mpc'[t] = "asleep" /\ \A u \in Threads : u # t => mpc'[u] = mpc[u]
    BY <1>t, <2>1, MonitorMoves
  <2>3. /\ Len(lkwc_threads') = Len(lkwc_threads) + 1
        /\ Len(lkwc_threads) \in Nat
        /\ lkwc_threads'[Len(lkwc_threads) + 1] = t
        /\ \A i \in 1 .. Len(lkwc_threads) :
             lkwc_threads'[i] = lkwc_threads[i]
    BY <1>t, <2>1 DEF MonTypes
  <2>4. SleepersQueued'
    <3> SUFFICES ASSUME NEW u \in Threads, mpc'[u] = "asleep"
                 PROVE  \E i \in 1 .. Len(lkwc_threads') : lkwc_threads'[i] = u
      BY DEF SleepersQueued
    <3>1. CASE u = t
      BY <2>3, <3>1
    <3>2. CASE u # t
      <4>1. PICK i \in 1 .. Len(lkwc_threads) : lkwc_threads[i] = u
        BY <2>2, <3>2 DEF StrandInv, SleepersQueued
      <4>2. i \in 1 .. Len(lkwc_threads')
        BY <2>3
      <4> QED
        BY <2>3, <4>1, <4>2
    <3> QED
      BY <3>1, <3>2
  <2>5. HandsRight' /\ NobodyStranded'
    BY <1>t, <2>1, <2>2 DEF StrandInv, HandsRight, NobodyStranded
  <2> QED
    BY <2>4, <2>5 DEF StrandInv
<1>6. ASSUME NEW t \in Threads, LockRelease(t) \/ CvRelease(t)
      PROVE  StrandInv'
  <2>1. /\ MonGoto(t, "wakeone") /\ mpc[t] \in {"in", "cvrelease"}
        /\ lk_lock = None /\ lk_lock' = t
        /\ UNCHANGED <<lkwc_lock, lkwc_threads>>
    BY <1>6 DEF LockRelease, CvRelease, MonAt
  <2>2. SleepersQueued'
    BY <2>1, SleepersStay DEF StrandInv
  <2>3. mpc'[t] = "wakeone" /\ \A u \in Threads : u # t => mpc'[u] = mpc[u]
    BY <1>t, <2>1, MonitorMoves
  <2>4. HandsRight' /\ NobodyStranded'
    BY <1>t, <2>1, <2>3 DEF StrandInv, HandsRight, NobodyStranded
  <2> QED
    BY <2>2, <2>4 DEF StrandInv
<1>7. ASSUME NEW t \in Threads, CvWait(t) \/ CvSleep(t)
      PROVE  StrandInv'
  <2>1. PICK label \in {"cvrelease", "cvasleep"} :
             /\ MonGoto(t, label) /\ mpc[t] \in {"in", "cvsleep"}
             /\ UNCHANGED <<lk_holder, lk_lock, lkwc_lock, lkwc_threads>>
    BY <1>7 DEF CvWait, CvSleep, MonAt
  <2>2. SleepersQueued'
    BY <2>1, SleepersStay DEF StrandInv
  <2>3. mpc'[t] = label /\ \A u \in Threads : u # t => mpc'[u] = mpc[u]
    BY <1>t, <2>1, MonitorMoves
  <2>4. HandsRight' /\ NobodyStranded'
    BY <2>1, <2>3 DEF StrandInv, HandsRight, NobodyStranded
  <2> QED
    BY <2>2, <2>4 DEF StrandInv
<1>8. ASSUME NEW t \in Threads, NEW n \in 0 .. Len(cvwc_threads), CvWake(t, n)
      PROVE  StrandInv'
  <2>1. /\ lk_holder = t
        /\ UNCHANGED <<lk_holder, lk_lock, lkwc_lock, lkwc_threads>>
        /\ \A u \in Threads : mpc'[u] = mpc[u] \/ mpc'[u] = "cvwoken"
    BY <1>8 DEF CvWake, MonAt, MonitorInv, LockExcludes
  <2> QED
    BY <1>t, <2>1
       DEF StrandInv, HandsRight, SleepersQueued, NobodyStranded
<1>9. ASSUME NEW t \in Threads, CvSignal(t) \/ CvBroadcast(t)
      PROVE  StrandInv'
  BY <1>8, <1>9, <1>t, WakeCounts DEF CvSignal, CvBroadcast
<1>10. CASE UNCHANGED monvars
  BY <1>10 DEF monvars, StrandInv, HandsRight, SleepersQueued, NobodyStranded
<1> QED
  BY <1>1, <1>2, <1>3, <1>4, <1>5, <1>6, <1>7, <1>9, <1>10, LockWakes
     DEF MonNext, MonStep

\* In lock_acquire no thread is left asleep on a free lock: a release that
\* comes between its test of lk_holder and its sleep waits for the spinlock it
\* holds meanwhile, and finds it on the channel.
THEOREM MonitorNobodyStranded == MonSpec => []NobodyStranded
<1>1. MonInit => StrandInv
  BY DEF MonInit, StrandInv, HandsRight, SleepersQueued, NobodyStranded
<1>2. StrandInv => NobodyStranded
  BY DEF StrandInv
<1> QED
  BY <1>1, <1>2, MonitorInit, MonitorNext, StrandNext, PTL DEF MonSpec

-----------------------------------------------------------------------------
(***************************************************************************)
(* The refinement of AtomicMonitor.  cv_wait releases the lock and waits   *)
(* in one step, because it holds the spinlock of the channel from before   *)
(* the release until it sleeps, and a wakeup needs that spinlock.          *)
(***************************************************************************)
\* Where a thread is in cv_wait, and where it is not.
WaitsRight ==
    /\ waits \in [Threads -> BOOLEAN]
    /\ \A t \in Threads :
         /\ mpc[t] \in {"in", "out"} => ~waits[t]
         /\ mpc[t] \in {"cvrelease", "cvsleep", "cvasleep", "cvwoken"} =>
               waits[t]

\* cv_wait holds the spinlock of the channel until it sleeps.
WaiterOwns ==
    \A t \in Threads :
        \/ mpc[t] \in {"cvrelease", "cvsleep"}
        \/ mpc[t] = "wakeone" /\ waits[t]
        => cvwc_lock = t

\* A thread asleep in cv_wait is on the channel.
SleeperQueued ==
    \A t \in Threads : mpc[t] = "cvasleep" =>
        \E i \in 1 .. Len(cvwc_threads) : cvwc_threads[i] = t

WaitInv == WaitsRight /\ WaiterOwns /\ SleeperQueued

Waiting ==
    {t \in Threads : waits[t] /\ mpc[t] \in {"wakeone", "cvsleep", "cvasleep"}}

\* A step that moves one thread between two places at which it is not on
\* the channel, and leaves waits, the spinlock of the channel and the
\* channel alone, keeps WaitInv.
LEMMA WaitKept ==
  ASSUME MonTypes, WaitInv, NEW t \in Threads, NEW label, MonGoto(t, label),
         UNCHANGED <<waits, cvwc_lock, cvwc_threads>>,
         label \notin {"cvrelease", "cvsleep", "cvasleep", "cvwoken"},
         label \in {"in", "out"} => ~waits[t],
         label = "wakeone" => ~waits[t] \/ cvwc_lock = t
  PROVE  WaitInv'
<1>1. /\ mpc'[t] = label
      /\ \A u \in Threads : u # t => mpc'[u] = mpc[u]
  BY MonitorMoves
<1>2. WaitsRight'
  BY <1>1 DEF WaitInv, WaitsRight
<1>3. WaiterOwns'
  BY <1>1 DEF WaitInv, WaiterOwns
<1>4. SleeperQueued'
  BY <1>1 DEF WaitInv, SleeperQueued
<1> QED
  BY <1>2, <1>3, <1>4 DEF WaitInv

\* wchan_wakeone in lock_release moves the thread that releases and one that
\* sleeps on the channel of the lock, if there is one.
LEMMA LockWakeMoves ==
  ASSUME MonitorInv, NEW t \in Threads, LockWake(t)
  PROVE  /\ mpc'[t] = IF waits[t] THEN "cvsleep" ELSE "out"
         /\ \A u \in Threads : u # t =>
              \/ mpc'[u] = mpc[u]
              \/ mpc[u] = "asleep" /\ mpc'[u] = "woken"
<1> DEFINE woken == WakeOne(lkwc_threads)
<1>1. /\ mpc[t] = "wakeone"
      /\ mpc' = [u \in Threads |->
                  IF u \in woken THEN "woken"
                  ELSE IF u # t THEN mpc[u]
                  ELSE IF waits[t] THEN "cvsleep" ELSE "out"]
  BY DEF LockWake, MonAt
<1>2. \A u \in woken : mpc[u] = "asleep"
  <2>1. lkwc_threads \in Seq(Threads)
    BY DEF MonitorInv, MonTypes
  <2>2. CASE lkwc_threads = <<>>
    BY <2>2 DEF WakeOne
  <2>3. CASE lkwc_threads # <<>>
    <3>1. woken = {lkwc_threads[1]} /\ 1 \in 1 .. Len(lkwc_threads)
      BY <2>1, <2>3 DEF WakeOne
    <3> QED
      BY <3>1 DEF MonitorInv, Queues, Asleep
  <2> QED
    BY <2>2, <2>3
<1> HIDE DEF woken
<1> QED
  BY <1>1, <1>2

\* The threads a wakeup takes off a channel, and those that stay on it.
LEMMA CvWakes ==
  ASSUME MonitorInv, WaitInv, NEW t \in Threads,
         NEW n \in 0 .. Len(cvwc_threads), CvWake(t, n)
  PROVE  LET woken == {cvwc_threads[i] : i \in 1 .. n} IN
         /\ \A u \in woken : u \in Threads /\ mpc[u] = "cvasleep"
         /\ \A u \in woken : mpc'[u] = "cvwoken"
         /\ \A u \in Threads : u \notin woken => mpc'[u] = mpc[u]
         /\ \A u \in Threads : u \notin woken /\ mpc[u] = "cvasleep" =>
               \E i \in 1 .. Len(cvwc_threads') : cvwc_threads'[i] = u
         /\ \A u \in Threads : u \in Waiting <=> mpc[u] = "cvasleep"
<1> DEFINE q == cvwc_threads
           woken == {q[i] : i \in 1 .. n}
<1>1. q \in Seq(Threads) /\ n \in Nat /\ n <= Len(q) /\ Len(q) \in Nat
  BY DEF MonitorInv, MonTypes
<1>2. /\ q' = SubSeq(q, n + 1, Len(q)) /\ cvwc_lock = None
      /\ mpc' = [u \in Threads |-> IF u \in woken THEN "cvwoken" ELSE mpc[u]]
  BY DEF CvWake
<1>3. \A u \in woken : u \in Threads /\ mpc[u] = "cvasleep"
  BY <1>1 DEF MonitorInv, Queues, Asleep
<1>4. \A u \in woken : mpc'[u] = "cvwoken"
  BY <1>2, <1>3
<1>5. \A u \in Threads : u \notin woken => mpc'[u] = mpc[u]
  BY <1>2
<1>6. ASSUME NEW u \in Threads, u \notin woken, mpc[u] = "cvasleep"
      PROVE  \E i \in 1 .. Len(q') : q'[i] = u
  <2>1. PICK k \in 1 .. Len(q) : q[k] = u
    BY <1>6 DEF WaitInv, SleeperQueued
  <2>2. k > n
    BY <1>1, <1>6, <2>1
  <2>3. Len(q') = Len(q) - n
    BY <1>1, <1>2
  <2>4. k - n \in 1 .. Len(q')
    BY <1>1, <2>1, <2>2, <2>3
  <2>5. q'[k - n] = q[k]
    BY <1>1, <1>2, <2>3, <2>4
  <2> QED
    BY <2>1, <2>4, <2>5
<1>7. \A u \in Threads : u \in Waiting <=> mpc[u] = "cvasleep"
  BY <1>2, NoneAssumption DEF Waiting, WaitInv, WaitsRight, WaiterOwns
<1> QED
  BY <1>3, <1>4, <1>5, <1>6, <1>7

\* Every step keeps WaitInv.
LEMMA WaitNext == MonitorInv /\ WaitInv /\ [MonNext]_monvars => WaitInv'
<1> SUFFICES ASSUME MonitorInv, WaitInv, [MonNext]_monvars
             PROVE  WaitInv'
  OBVIOUS
<1>t. MonTypes /\ MonNoPanic /\ None \notin Threads
  BY NoneAssumption DEF MonitorInv
<1>1. ASSUME NEW t \in Threads, LockAcquire(t) \/ CvWoken(t)
      PROVE  WaitInv'
  BY <1>1, <1>t, WaitKept DEF LockAcquire, CvWoken
<1>2. ASSUME NEW t \in Threads, LockTake(t)
      PROVE  WaitInv'
  <2>1. /\ MonGoto(t, "in") /\ waits' = [waits EXCEPT ![t] = FALSE]
        /\ UNCHANGED <<cvwc_lock, cvwc_threads>>
    BY <1>2 DEF LockTake
  <2>2. /\ mpc'[t] = "in"
        /\ \A u \in Threads : u # t => mpc'[u] = mpc[u]
    BY <1>t, <2>1, MonitorMoves
  <2>3. WaitsRight'
    BY <2>1, <2>2 DEF WaitInv, WaitsRight
  <2>4. WaiterOwns'
    BY <2>1, <2>2 DEF WaitInv, WaitsRight, WaiterOwns
  <2>5. SleeperQueued'
    BY <2>1, <2>2 DEF WaitInv, SleeperQueued
  <2> QED
    BY <2>3, <2>4, <2>5 DEF WaitInv
<1>3. ASSUME NEW t \in Threads, LockBlock(t) \/ LockWchanLock(t)
      PROVE  WaitInv'
  BY <1>3, <1>t, WaitKept DEF LockBlock, LockWchanLock
<1>4. ASSUME NEW t \in Threads, LockSleep(t)
      PROVE  WaitInv'
  BY <1>4, <1>t, WaitKept DEF LockSleep
<1>5. ASSUME NEW t \in Threads, LockRelease(t)
      PROVE  WaitInv'
  <2>1. /\ MonGoto(t, "wakeone") /\ mpc[t] = "in"
        /\ UNCHANGED <<waits, cvwc_lock, cvwc_threads>>
    BY <1>5 DEF LockRelease, MonAt
  <2>2. ~waits[t]
    BY <2>1 DEF WaitInv, WaitsRight
  <2> QED
    BY <1>t, <2>1, <2>2, WaitKept
<1>6. ASSUME NEW t \in Threads, LockWake(t)
      PROVE  WaitInv'
  <2>1. mpc[t] = "wakeone" /\ UNCHANGED <<waits, cvwc_lock, cvwc_threads>>
    BY <1>6 DEF LockWake, MonAt
  <2>3. /\ mpc'[t] = IF waits[t] THEN "cvsleep" ELSE "out"
        /\ \A u \in Threads : u # t =>
             \/ mpc'[u] = mpc[u]
             \/ mpc[u] = "asleep" /\ mpc'[u] = "woken"
    BY <1>6, LockWakeMoves
  <2>4. WaitsRight'
    BY <2>1, <2>3 DEF WaitInv, WaitsRight
  <2>5. WaiterOwns'
    BY <2>1, <2>3 DEF WaitInv, WaiterOwns
  <2>6. SleeperQueued'
    BY <2>1, <2>3 DEF WaitInv, SleeperQueued
  <2> QED
    BY <2>4, <2>5, <2>6 DEF WaitInv
<1>7. ASSUME NEW t \in Threads, CvWait(t)
      PROVE  WaitInv'
  <2>1. /\ MonGoto(t, "cvrelease") /\ waits' = [waits EXCEPT ![t] = TRUE]
        /\ cvwc_lock = None /\ cvwc_lock' = t /\ cvwc_threads' = cvwc_threads
    BY <1>7 DEF CvWait, CvChannel
  <2>2. /\ mpc'[t] = "cvrelease"
        /\ \A u \in Threads : u # t => mpc'[u] = mpc[u]
    BY <1>t, <2>1, MonitorMoves
  <2>3. WaitsRight'
    BY <2>1, <2>2 DEF WaitInv, WaitsRight
  <2>4. WaiterOwns'
    BY <1>t, <2>1, <2>2 DEF WaitInv, WaitsRight, WaiterOwns
  <2>5. SleeperQueued'
    BY <2>1, <2>2 DEF WaitInv, SleeperQueued
  <2> QED
    BY <2>3, <2>4, <2>5 DEF WaitInv
<1>8. ASSUME NEW t \in Threads, CvRelease(t)
      PROVE  WaitInv'
  <2>1. /\ MonGoto(t, "wakeone") /\ mpc[t] = "cvrelease"
        /\ UNCHANGED <<waits, cvwc_lock, cvwc_threads>>
    BY <1>8 DEF CvRelease, MonAt
  <2>2. cvwc_lock = t
    BY <2>1 DEF WaitInv, WaiterOwns
  <2> QED
    BY <1>t, <2>1, <2>2, WaitKept
<1>9. ASSUME NEW t \in Threads, CvSleep(t)
      PROVE  WaitInv'
  <2>1. /\ MonGoto(t, "cvasleep") /\ mpc[t] = "cvsleep"
        /\ cvwc_lock' = None /\ waits' = waits
        /\ cvwc_threads' = Append(cvwc_threads, t)
    BY <1>9 DEF CvSleep, MonAt
  <2>2. /\ mpc'[t] = "cvasleep"
        /\ \A u \in Threads : u # t => mpc'[u] = mpc[u]
    BY <1>t, <2>1, MonitorMoves
  <2>3. cvwc_lock = t
    BY <2>1 DEF WaitInv, WaiterOwns
  <2>4. cvwc_threads \in Seq(Threads)
    BY <1>t DEF MonTypes
  <2>5. /\ \A i \in 1 .. Len(cvwc_threads) :
             /\ i \in 1 .. Len(cvwc_threads')
             /\ cvwc_threads'[i] = cvwc_threads[i]
        /\ \E i \in 1 .. Len(cvwc_threads') : cvwc_threads'[i] = t
    <3>1. /\ Len(cvwc_threads) \in Nat
          /\ Len(cvwc_threads') = Len(cvwc_threads) + 1
          /\ cvwc_threads'[Len(cvwc_threads) + 1] = t
          /\ \A i \in 1 .. Len(cvwc_threads) :
               cvwc_threads'[i] = cvwc_threads[i]
      BY <2>1, <2>4
    <3>2. Len(cvwc_threads) + 1 \in 1 .. Len(cvwc_threads')
      BY <3>1
    <3> QED
      BY <3>1, <3>2
  <2>6. WaitsRight'
    BY <2>1, <2>2 DEF WaitInv, WaitsRight
  <2>7. WaiterOwns'
    BY <2>1, <2>2, <2>3 DEF WaitInv, WaiterOwns
  <2>8. SleeperQueued'
    BY <2>2, <2>5 DEF WaitInv, SleeperQueued
  <2> QED
    BY <2>6, <2>7, <2>8 DEF WaitInv
<1>10. ASSUME NEW t \in Threads, NEW n \in 0 .. Len(cvwc_threads),
              CvWake(t, n)
       PROVE  WaitInv'
  <2> DEFINE woken == {cvwc_threads[i] : i \in 1 .. n}
  <2>1. UNCHANGED <<waits, cvwc_lock>>
    BY <1>10 DEF CvWake
  <2>2. /\ \A u \in woken : u \in Threads /\ mpc[u] = "cvasleep"
        /\ \A u \in woken : mpc'[u] = "cvwoken"
        /\ \A u \in Threads : u \notin woken => mpc'[u] = mpc[u]
        /\ \A u \in Threads : u \notin woken /\ mpc[u] = "cvasleep" =>
              \E i \in 1 .. Len(cvwc_threads') : cvwc_threads'[i] = u
    BY <1>10, CvWakes
  <2> HIDE DEF woken
  <2>3. WaitsRight'
    BY <2>1, <2>2 DEF WaitInv, WaitsRight
  <2>4. WaiterOwns'
    BY <2>1, <2>2 DEF WaitInv, WaiterOwns
  <2>5. SleeperQueued'
    BY <2>2 DEF WaitInv, SleeperQueued
  <2> QED
    BY <2>3, <2>4, <2>5 DEF WaitInv
<1>11. ASSUME NEW t \in Threads, CvSignal(t) \/ CvBroadcast(t)
       PROVE  WaitInv'
  BY <1>10, <1>11, WakeCounts DEF CvSignal, CvBroadcast
<1>12. CASE UNCHANGED monvars
  BY <1>12
     DEF monvars, WaitInv, WaitsRight, WaiterOwns, SleeperQueued
<1> QED
  BY <1>1, <1>2, <1>3, <1>4, <1>5, <1>6, <1>7, <1>8, <1>9, <1>11, <1>12
     DEF MonNext, MonStep

\* Every step of the code is a step of the atomic lock and condition
\* variable, or changes nothing that their users see.
LEMMA MonitorStepRefines ==
  ASSUME MonitorInv, WaitInv, [MonNext]_monvars
  PROVE  [Abstract!Next]_<<lk_holder, Waiting, signals>>
<1>t. MonTypes /\ LockExcludes /\ None \notin Threads
      /\ waits \in [Threads -> BOOLEAN]
  BY NoneAssumption DEF MonitorInv, WaitInv, WaitsRight
<1>1. ASSUME NEW t \in Threads, LockTake(t)
      PROVE  Abstract!Acquire(t)
  <2>1. /\ MonGoto(t, "in") /\ waits' = [waits EXCEPT ![t] = FALSE]
        /\ mpc[t] \in {"acquire", "woken"}
        /\ lk_holder = None /\ lk_holder' = t /\ UNCHANGED signals
    BY <1>1 DEF LockTake, LockIsFree
  <2>2. /\ mpc'[t] = "in"
        /\ \A u \in Threads : u # t => mpc'[u] = mpc[u]
    BY <1>t, <2>1, MonitorMoves
  <2>3. t \notin Waiting /\ UNCHANGED Waiting
    BY <1>t, <2>1, <2>2 DEF Waiting
  <2> QED
    BY <2>1, <2>3 DEF Abstract!Acquire, Waiting
<1>2. ASSUME NEW t \in Threads, LockRelease(t)
      PROVE  Abstract!Release(t)
  <2>1. /\ MonGoto(t, "wakeone") /\ mpc[t] = "in"
        /\ UNCHANGED <<waits, signals>>
        /\ lk_holder' = None
    BY <1>2 DEF LockRelease, MonAt
  <2>2. /\ mpc'[t] = "wakeone"
        /\ \A u \in Threads : u # t => mpc'[u] = mpc[u]
    BY <1>t, <2>1, MonitorMoves
  <2>3. ~waits[t]
    BY <2>1 DEF WaitInv, WaitsRight
  <2>4. UNCHANGED Waiting
    BY <2>1, <2>2, <2>3 DEF Waiting
  <2>5. lk_holder = t
    BY <1>t, <2>1 DEF LockExcludes
  <2> QED
    BY <2>1, <2>4, <2>5 DEF Abstract!Release, Waiting
<1>3. ASSUME NEW t \in Threads, CvRelease(t)
      PROVE  Abstract!Wait(t)
  <2>1. /\ MonGoto(t, "wakeone") /\ mpc[t] = "cvrelease"
        /\ UNCHANGED <<waits, signals>> /\ lk_holder' = None
    BY <1>3 DEF CvRelease, MonAt
  <2>2. /\ mpc'[t] = "wakeone"
        /\ \A u \in Threads : u # t => mpc'[u] = mpc[u]
    BY <1>t, <2>1, MonitorMoves
  <2>3. waits[t]
    BY <2>1 DEF WaitInv, WaitsRight
  <2>4. Waiting' = Waiting \union {t}
    BY <2>1, <2>2, <2>3 DEF Waiting
  <2>5. lk_holder = t
    BY <1>t, <2>1 DEF LockExcludes
  <2> QED
    BY <2>1, <2>4, <2>5 DEF Abstract!Wait, Waiting
<1>4. ASSUME NEW t \in Threads, NEW n \in 0 .. Len(cvwc_threads),
             CvWake(t, n)
      PROVE  /\ lk_holder = t /\ UNCHANGED lk_holder
             /\ signals' = 1 - signals
             /\ Waiting' = Waiting \ {cvwc_threads[i] : i \in 1 .. n}
             /\ Waiting = {cvwc_threads[i] : i \in 1 .. Len(cvwc_threads)}
  <2> DEFINE woken == {cvwc_threads[i] : i \in 1 .. n}
  <2>1. /\ mpc[t] = "in" /\ UNCHANGED <<waits, lk_holder>>
        /\ signals' = 1 - signals
    BY <1>4 DEF CvWake, MonAt
  <2>2. lk_holder = t
    BY <1>t, <2>1 DEF LockExcludes
  <2>3. /\ \A u \in woken : u \in Threads /\ mpc'[u] = "cvwoken"
        /\ \A u \in Threads : u \notin woken => mpc'[u] = mpc[u]
        /\ \A u \in Threads : u \in Waiting <=> mpc[u] = "cvasleep"
    BY <1>4, CvWakes
  <2>4. Waiting' = Waiting \ woken
    <3> HIDE DEF woken
    <3> QED
      BY <2>1, <2>3 DEF Waiting
  <2>5. Waiting = {cvwc_threads[i] : i \in 1 .. Len(cvwc_threads)}
    <3>1. \A i \in 1 .. Len(cvwc_threads) :
             cvwc_threads[i] \in Threads /\ mpc[cvwc_threads[i]] = "cvasleep"
      BY <1>t DEF MonitorInv, Queues, Asleep, MonTypes
    <3>2. \A u \in Threads : mpc[u] = "cvasleep" =>
             \E i \in 1 .. Len(cvwc_threads) : cvwc_threads[i] = u
      BY DEF WaitInv, SleeperQueued
    <3>3. Waiting \subseteq Threads
      BY DEF Waiting
    <3> QED
      BY <2>3, <3>1, <3>2, <3>3
  <2> QED
    BY <2>1, <2>2, <2>4, <2>5
<1>5. ASSUME NEW t \in Threads, CvSignal(t)
      PROVE  Abstract!Signal(t)
  <2>1. CASE cvwc_threads = <<>>
    <3>1. CvWake(t, 0) /\ 0 \in 0 .. Len(cvwc_threads)
      BY <1>5, <2>1 DEF CvSignal
    <3>2. Waiting = {} /\ Waiting' = {}
      BY <1>4, <2>1, <3>1
    <3> QED
      BY <1>4, <3>1, <3>2 DEF Abstract!Signal, Waiting
  <2>2. CASE cvwc_threads # <<>>
    <3>1. /\ CvWake(t, 1) /\ 1 \in 0 .. Len(cvwc_threads)
          /\ 1 \in 1 .. Len(cvwc_threads)
      BY <1>5, <1>t, <2>2 DEF CvSignal, MonTypes
    <3>2. cvwc_threads[1] \in Waiting
      BY <1>4, <3>1
    <3>3. Waiting' = Waiting \ {cvwc_threads[1]}
      <4>1. {cvwc_threads[i] : i \in 1 .. 1} = {cvwc_threads[1]}
        OBVIOUS
      <4> QED
        BY <1>4, <3>1, <4>1
    <3>4. /\ lk_holder = t /\ UNCHANGED lk_holder /\ signals' = 1 - signals
      BY <1>4, <3>1
    <3> QED
      BY <3>2, <3>3, <3>4 DEF Abstract!Signal, Waiting
  <2> QED
    BY <2>1, <2>2
<1>6. ASSUME NEW t \in Threads, CvBroadcast(t)
      PROVE  Abstract!Broadcast(t)
  <2>1. /\ CvWake(t, Len(cvwc_threads))
        /\ Len(cvwc_threads) \in 0 .. Len(cvwc_threads)
    BY <1>6, <1>t DEF CvBroadcast, MonTypes
  <2>2. Waiting' = {}
    BY <1>4, <2>1
  <2> QED
    BY <1>4, <2>1, <2>2 DEF Abstract!Broadcast, Waiting
<1>7. ASSUME UNCHANGED <<lk_holder, signals>>,
             \A u \in Threads : u \in Waiting <=> (u \in Waiting)'
      PROVE  UNCHANGED <<lk_holder, Waiting, signals>>
  BY <1>7 DEF Waiting
<1>8. ASSUME NEW t \in Threads,
             \/ LockAcquire(t) \/ LockBlock(t) \/ LockWchanLock(t)
             \/ LockSleep(t) \/ CvSleep(t) \/ CvWoken(t)
      PROVE  UNCHANGED <<lk_holder, Waiting, signals>>
  <2>1. /\ UNCHANGED <<lk_holder, signals, waits>>
        /\ \/ /\ mpc[t] \notin {"wakeone", "cvsleep", "cvasleep"}
              /\ \/ MonGoto(t, "acquire") \/ MonGoto(t, "wchan")
                 \/ MonGoto(t, "sleep") \/ MonGoto(t, "asleep")
           \/ mpc[t] = "cvsleep" /\ MonGoto(t, "cvasleep")
    BY <1>8 DEF LockAcquire, LockBlock, LockWchanLock, LockSleep, CvSleep,
                CvWoken, MonAt
  <2>2. /\ \/ /\ mpc[t] \notin {"wakeone", "cvsleep", "cvasleep"}
              /\ mpc'[t] \in {"acquire", "wchan", "sleep", "asleep"}
           \/ mpc[t] = "cvsleep" /\ mpc'[t] = "cvasleep"
        /\ \A u \in Threads : u # t => mpc'[u] = mpc[u]
    BY <1>t, <2>1, MonitorMoves
  <2> QED
    BY <1>7, <2>1, <2>2 DEF Waiting
<1>9. ASSUME NEW t \in Threads, LockWake(t)
      PROVE  UNCHANGED <<lk_holder, Waiting, signals>>
  <2>1. UNCHANGED <<lk_holder, signals, waits>>
    BY <1>9 DEF LockWake
  <2>2. /\ mpc[t] = "wakeone"
        /\ mpc'[t] = IF waits[t] THEN "cvsleep" ELSE "out"
        /\ \A u \in Threads : u # t =>
             \/ mpc'[u] = mpc[u]
             \/ mpc[u] = "asleep" /\ mpc'[u] = "woken"
    BY <1>9, LockWakeMoves DEF LockWake, MonAt
  <2> QED
    BY <1>7, <2>1, <2>2 DEF Waiting
<1>10. ASSUME NEW t \in Threads, CvWait(t)
       PROVE  UNCHANGED <<lk_holder, Waiting, signals>>
  <2>1. /\ UNCHANGED <<lk_holder, signals>> /\ mpc[t] = "in"
        /\ MonGoto(t, "cvrelease") /\ waits' = [waits EXCEPT ![t] = TRUE]
    BY <1>10 DEF CvWait, MonAt
  <2>2. /\ mpc'[t] = "cvrelease"
        /\ \A u \in Threads : u # t => mpc'[u] = mpc[u]
    BY <1>t, <2>1, MonitorMoves
  <2> QED
    BY <1>7, <1>t, <2>1, <2>2 DEF Waiting
<1>11. CASE UNCHANGED monvars
  BY <1>11 DEF monvars, Waiting
<1> QED
  BY <1>1, <1>2, <1>3, <1>5, <1>6, <1>8, <1>9, <1>10, <1>11
     DEF MonNext, MonStep, Abstract!Next

\* The lock and the condition variable, made of three spinlocks and two wait
\* channels, are those that synch.h promises.
THEOREM MonitorRefines == MonSpec => RefinesAtomic
<1>1. MonInit => WaitInv /\ Abstract!Init
  BY DEF MonInit, WaitInv, WaitsRight, WaiterOwns, SleeperQueued, Abstract!Init
<1>2. MonitorInv /\ WaitInv /\ [MonNext]_monvars =>
         [Abstract!Next]_<<lk_holder, Waiting, signals>>
  BY MonitorStepRefines
<1> QED
  BY <1>1, <1>2, MonitorInit, MonitorNext, WaitNext, PTL
     DEF MonSpec, RefinesAtomic, Abstract!Spec, Waiting

=============================================================================
