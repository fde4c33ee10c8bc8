---------------------------- MODULE MCSemaphore ----------------------------
EXTENDS Semaphore, TLC
CONSTANTS t1, t2, t3, t4

\* Two threads that P three times and twice, and two that V twice each.
TwoAndTwoP == t1 :> 3 @@ t2 :> 2 @@ t3 :> 0 @@ t4 :> 0
TwoAndTwoV == t1 :> 0 @@ t2 :> 0 @@ t3 :> 2 @@ t4 :> 2

ASSUME CallsMatch == EveryVForAP

=============================================================================
