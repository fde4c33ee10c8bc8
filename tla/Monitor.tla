------------------------------ MODULE Monitor ------------------------------
(***************************************************************************)
(* Sleep locks and condition variables: lock_acquire, lock_release,        *)
(* lock_do_i_hold, cv_wait, cv_signal and cv_broadcast of                  *)
(* kern/thread/synch.c, with the wait channel operations they call.        *)
(*                                                                         *)
(* One lock and one condition variable used with it.  Each has a wait      *)
(* channel with a spinlock of its own, and the lock has the spinlock       *)
(* lk_lock as well.  A step ends where a spinlock is taken while another   *)
(* is held, where one is released, or where the thread sleeps.  lk_holder  *)
(* is only ever set to, or reset from, the calling thread, so the          *)
(* KASSERT(lock_do_i_hold) of a caller is evaluated where it reads it.     *)
(***************************************************************************)
EXTENDS Synch, Integers, Sequences, FiniteSets

CONSTANT MaxCalls   \* bound: lock_acquire calls per thread

VARIABLES
    lk_holder,
    lk_lock,                  \* the thread holding the spinlock, or None
    lkwc_lock, lkwc_threads,  \* lk_wchan
    cvwc_lock, cvwc_threads,  \* cv_wchan
    mpc,
    waits,      \* the thread is inside cv_wait
    calls,      \* lock_acquire calls made so far
    signals,    \* cv_signal and cv_broadcast calls made, modulo 2
    mpanic

monvars == <<lk_holder, lk_lock, lkwc_lock, lkwc_threads, cvwc_lock,
          cvwc_threads, mpc, waits, calls, signals, mpanic>>

MonInit ==
    /\ lk_holder = None
    /\ lk_lock = None
    /\ lkwc_lock = None /\ lkwc_threads = <<>>
    /\ cvwc_lock = None /\ cvwc_threads = <<>>
    /\ mpc = [t \in Threads |-> "out"]
    /\ waits = [t \in Threads |-> FALSE]
    /\ calls = [t \in Threads |-> 0]
    /\ signals = 0
    /\ mpanic = "none"

MonAt(t, label) == mpanic = "none" /\ mpc[t] = label
MonGoto(t, label) == mpc' = [mpc EXCEPT ![t] = label]

\* KASSERT(lock_do_i_hold(lock)), which reads lk_holder under lk_lock.
AssertHeld(t) == mpanic' = IF lk_holder # t THEN "not held" ELSE mpanic

(***************************************************************************)
(* lock_acquire, called by a thread that does not hold the lock, or by     *)
(* cv_wait when it has been woken.                                         *)
(***************************************************************************)
LockAcquire(t) ==
    /\ MonAt(t, "out")
    /\ calls[t] < MaxCalls
    /\ lk_lock = None
    /\ mpanic' = IF lk_holder = t THEN "held" ELSE mpanic
    /\ calls' = [calls EXCEPT ![t] = @ + 1]
    /\ MonGoto(t, "acquire")
    /\ UNCHANGED <<lk_holder, lk_lock, lkwc_lock, lkwc_threads, cvwc_lock,
                   cvwc_threads, waits, signals>>

LockIsFree_woken(t) == lk_holder = None \/ mpc[t] = "woken"  \* mutant
LockIsFree(t) == lk_holder = None

LockTake(t) ==
    /\ mpanic = "none" /\ mpc[t] \in {"acquire", "woken"}
    /\ lk_lock = None
    /\ LockIsFree(t)
    /\ lk_holder' = t
    /\ waits' = [waits EXCEPT ![t] = FALSE]
    /\ MonGoto(t, "in")
    /\ UNCHANGED <<lk_lock, lkwc_lock, lkwc_threads, cvwc_lock, cvwc_threads,
                   calls, mpanic, signals>>

LockBlocked_unlocked(t) == UNCHANGED lk_lock  \* mutant
LockBlocked(t) == lk_lock' = t

LockBlock(t) ==
    /\ mpanic = "none" /\ mpc[t] \in {"acquire", "woken"}
    /\ lk_lock = None
    /\ ~LockIsFree(t)
    /\ LockBlocked(t)
    /\ MonGoto(t, "wchan")
    /\ UNCHANGED <<lk_holder, lkwc_lock, lkwc_threads, cvwc_lock,
                   cvwc_threads, waits, calls, mpanic, signals>>

LockWchanLock(t) ==
    /\ MonAt(t, "wchan")
    /\ lkwc_lock = None
    /\ lkwc_lock' = t
    /\ lk_lock' = None
    /\ MonGoto(t, "sleep")
    /\ UNCHANGED <<lk_holder, lkwc_threads, cvwc_lock, cvwc_threads, waits,
                   calls, mpanic, signals>>

LockSleep(t) ==
    /\ MonAt(t, "sleep")
    /\ lkwc_threads' = Append(lkwc_threads, t)
    /\ lkwc_lock' = None
    /\ MonGoto(t, "asleep")
    /\ UNCHANGED <<lk_holder, lk_lock, cvwc_lock, cvwc_threads, waits, calls,
                   mpanic, signals>>

(***************************************************************************)
(* lock_release, called by the holder or by cv_wait.                       *)
(***************************************************************************)
LockRelease(t) ==
    /\ MonAt(t, "in")
    /\ lk_lock = None
    /\ AssertHeld(t)
    /\ lk_lock' = t
    /\ lk_holder' = None
    /\ MonGoto(t, "wakeone")
    /\ UNCHANGED <<lkwc_lock, lkwc_threads, cvwc_lock, cvwc_threads, waits,
                   calls, signals>>

WakeOne_none(q) == {}  \* mutant: the sleeper is left asleep
WakeOne(q) == IF q = <<>> THEN {} ELSE {Head(q)}

\* wchan_wakeone on lk_wchan, and the release of lk_lock.
LockWake(t) ==
    LET woken == WakeOne(lkwc_threads) IN
    /\ MonAt(t, "wakeone")
    /\ lkwc_lock = None
    /\ lk_lock' = None
    /\ lkwc_threads' = IF woken = {} THEN lkwc_threads ELSE Tail(lkwc_threads)
    /\ mpc' = [u \in Threads |->
                IF u \in woken THEN "woken"
                ELSE IF u # t THEN mpc[u]
                ELSE IF waits[t] THEN "cvsleep" ELSE "out"]
    /\ UNCHANGED <<lk_holder, lkwc_lock, cvwc_lock, cvwc_threads, waits, calls,
                   mpanic, signals>>

(***************************************************************************)
(* cv_wait: lock the channel of the CV, lock_release, wchan_sleep,         *)
(* lock_acquire.                                                           *)
(***************************************************************************)
CvChannel_unlocked(t) == UNCHANGED cvwc_lock  \* mutant
CvChannel(t) == cvwc_lock' = t

CvWait(t) ==
    /\ MonAt(t, "in")
    /\ ~waits[t]
    /\ lk_lock = None
    /\ AssertHeld(t)
    /\ cvwc_lock = None
    /\ CvChannel(t)
    /\ waits' = [waits EXCEPT ![t] = TRUE]
    /\ MonGoto(t, "cvrelease")
    /\ UNCHANGED <<lk_holder, lk_lock, lkwc_lock, lkwc_threads, cvwc_threads,
                   calls, signals>>

CvRelease(t) ==
    /\ MonAt(t, "cvrelease")
    /\ lk_lock = None
    /\ AssertHeld(t)
    /\ lk_lock' = t
    /\ lk_holder' = None
    /\ MonGoto(t, "wakeone")
    /\ UNCHANGED <<lkwc_lock, lkwc_threads, cvwc_lock, cvwc_threads, waits,
                   calls, signals>>

CvSleep(t) ==
    /\ MonAt(t, "cvsleep")
    /\ cvwc_threads' = Append(cvwc_threads, t)
    /\ cvwc_lock' = None
    /\ MonGoto(t, "cvasleep")
    /\ UNCHANGED <<lk_holder, lk_lock, lkwc_lock, lkwc_threads, waits, calls,
                   mpanic, signals>>

\* lock_acquire at the end of cv_wait: KASSERT(!lock_do_i_hold).
CvWoken(t) ==
    /\ MonAt(t, "cvwoken")
    /\ lk_lock = None
    /\ mpanic' = IF lk_holder = t THEN "held" ELSE mpanic
    /\ MonGoto(t, "acquire")
    /\ UNCHANGED <<lk_holder, lk_lock, lkwc_lock, lkwc_threads, cvwc_lock,
                   cvwc_threads, waits, calls, signals>>

\* cv_signal and cv_broadcast by the holder: n sleepers are woken.
CvWake(t, n) ==
    LET woken == {cvwc_threads[i] : i \in 1 .. n} IN
    /\ MonAt(t, "in")
    /\ lk_lock = None
    /\ AssertHeld(t)
    /\ cvwc_lock = None
    /\ cvwc_threads' = SubSeq(cvwc_threads, n + 1, Len(cvwc_threads))
    /\ mpc' = [u \in Threads |-> IF u \in woken THEN "cvwoken" ELSE mpc[u]]
    /\ signals' = 1 - signals
    /\ UNCHANGED <<lk_holder, lk_lock, lkwc_lock, lkwc_threads, cvwc_lock,
                   waits, calls>>

CvSignal(t) == CvWake(t, IF cvwc_threads = <<>> THEN 0 ELSE 1)
CvBroadcast(t) == CvWake(t, Len(cvwc_threads))

\* What a thread does once it is inside an operation.
MonStep(t) ==
    \/ LockTake(t) \/ LockBlock(t) \/ LockWchanLock(t) \/ LockSleep(t)
    \/ LockWake(t) \/ CvRelease(t) \/ CvSleep(t) \/ CvWoken(t)

MonNext ==
    \E t \in Threads :
        \/ MonStep(t) \/ LockAcquire(t) \/ LockRelease(t)
        \/ CvWait(t) \/ CvSignal(t) \/ CvBroadcast(t)

MonSpec == MonInit /\ [][MonNext]_monvars

(***************************************************************************)
(* Fairness: the scheduler runs every thread that is not asleep (ReadyRuns *)
(* of Thread), a spinlock is won in the end, and a thread that holds the   *)
(* lock calls lock_release in the end.                                     *)
(***************************************************************************)
MonLiveSpec ==
    /\ MonSpec
    /\ \A t \in Threads : SF_monvars(MonStep(t))
    /\ \A t \in Threads : SF_monvars(LockRelease(t))

-----------------------------------------------------------------------------
MonLabels == {"out", "acquire", "woken", "wchan", "sleep", "asleep", "in",
           "wakeone", "cvrelease", "cvsleep", "cvasleep", "cvwoken"}

\* The fields of struct lock and struct cv keep their types, and a thread is
\* on a channel's queue exactly while it is asleep there.
MonTypeOK ==
    /\ lk_holder \in Threads \union {None}
    /\ lk_lock \in Threads \union {None}
    /\ lkwc_lock \in Threads \union {None}
    /\ cvwc_lock \in Threads \union {None}
    /\ lkwc_threads \in Seq(Threads)
    /\ cvwc_threads \in Seq(Threads)
    /\ mpc \in [Threads -> MonLabels]
    /\ waits \in [Threads -> BOOLEAN]
    /\ \A t \in Threads :
         /\ mpc[t] = "asleep" <=>
              \E i \in DOMAIN lkwc_threads : lkwc_threads[i] = t
         /\ mpc[t] = "cvasleep" <=>
              \E i \in DOMAIN cvwc_threads : cvwc_threads[i] = t

\* Only one thread is between lock_acquire and lock_release, and it is the
\* one lk_holder names.
LockExcludes ==
    \A t \in Threads : mpc[t] \in {"in", "cvrelease"} <=> lk_holder = t

\* The KASSERTs on lock_do_i_hold never fail when only the holder releases,
\* waits and signals.
MonNoPanic == mpanic = "none"

\* A free lock has no sleepers that nobody will wake: while a thread sleeps
\* for it, or is about to because it found it held, the thread that released
\* it has yet to wake one, or one that was woken has yet to look again.
NobodyStranded ==
    lk_holder = None
      /\ (\E t \in Threads : mpc[t] \in {"wchan", "sleep", "asleep"})
    => \E t \in Threads : mpc[t] \in {"wakeone", "woken"}

\* cv_wait releases the lock and starts to wait in one step as far as
\* cv_signal and cv_broadcast can tell: no signal given after it is lost.
Abstract == INSTANCE AtomicMonitor WITH
    holder <- lk_holder,
    waiting <-
        {t \in Threads :
            waits[t] /\ mpc[t] \in {"wakeone", "cvsleep", "cvasleep"}}
RefinesAtomic == Abstract!Spec

\* A thread that calls lock_acquire gets the lock in the end, when the
\* others call it a bounded number of times each.
AcquireReturns ==
    \A t \in Threads : mpc[t] = "acquire" ~> mpc[t] = "in"

=============================================================================
