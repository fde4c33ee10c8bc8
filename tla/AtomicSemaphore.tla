-------------------------- MODULE AtomicSemaphore --------------------------
(***************************************************************************)
(* What kern/include/synch.h promises of a semaphore: P and V are atomic;  *)
(* P waits for a positive count and decrements it, V increments it.        *)
(* A thread calls each a given number of times.                            *)
(***************************************************************************)
EXTENDS Integers

CONSTANTS Threads, InitialCount, Ps, Vs

VARIABLES count, psleft, vsleft

Init ==
    /\ count = InitialCount
    /\ psleft = Ps
    /\ vsleft = Vs

P(t) ==
    /\ psleft[t] > 0
    /\ count > 0
    /\ count' = count - 1
    /\ psleft' = [psleft EXCEPT ![t] = @ - 1]
    /\ UNCHANGED vsleft

V(t) ==
    /\ vsleft[t] > 0
    /\ count' = count + 1
    /\ vsleft' = [vsleft EXCEPT ![t] = @ - 1]
    /\ UNCHANGED psleft

Next == \E t \in Threads : P(t) \/ V(t)

Spec == Init /\ [][Next]_<<count, psleft, vsleft>>

=============================================================================
