------------------------------- MODULE Synch -------------------------------
(***************************************************************************)
(* What Semaphore and Monitor share: the threads that call the operations  *)
(* of kern/thread/synch.c, and the value of a holder that is nobody.       *)
(***************************************************************************)
CONSTANTS Threads, None

ASSUME NoneAssumption == None \notin Threads

=============================================================================
