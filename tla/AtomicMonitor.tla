--------------------------- MODULE AtomicMonitor ---------------------------
(***************************************************************************)
(* What kern/include/synch.h promises of a lock and a condition variable   *)
(* used with it: only one thread at a time holds the lock; cv_wait         *)
(* releases it and starts waiting in one step, and takes it again before   *)
(* it returns; cv_signal wakes one waiting thread, cv_broadcast all, and   *)
(* only the holder calls them (Mesa semantics).                            *)
(***************************************************************************)
EXTENDS Integers

CONSTANTS Threads, None

VARIABLES
    holder,   \* the thread holding the lock, or None
    waiting,  \* the threads waiting on the condition variable
    signals   \* signals and broadcasts given, modulo 2: they can be seen

Init == holder = None /\ waiting = {} /\ signals = 0

Acquire(t) ==
    /\ holder = None
    /\ t \notin waiting
    /\ holder' = t
    /\ UNCHANGED <<waiting, signals>>

Release(t) ==
    /\ holder = t
    /\ holder' = None
    /\ UNCHANGED <<waiting, signals>>

Wait(t) ==
    /\ holder = t
    /\ holder' = None
    /\ waiting' = waiting \union {t}
    /\ UNCHANGED signals

Signal(t) ==
    /\ holder = t
    /\ signals' = 1 - signals
    /\ \/ waiting = {} /\ UNCHANGED waiting
       \/ \E w \in waiting : waiting' = waiting \ {w}
    /\ UNCHANGED holder

Broadcast(t) ==
    /\ holder = t
    /\ signals' = 1 - signals
    /\ waiting' = {}
    /\ UNCHANGED holder

Next ==
    \E t \in Threads :
        Acquire(t) \/ Release(t) \/ Wait(t) \/ Signal(t) \/ Broadcast(t)

Spec == Init /\ [][Next]_<<holder, waiting, signals>>

=============================================================================
