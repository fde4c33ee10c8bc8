---- MODULE Allcpus ----
(***************************************************************************)
(* What Spinlock and Ipi share: the processors of a System/161 machine,    *)
(* allcpus of kern/thread/thread.c, and the value of a holder that is none *)
(* of them.                                                                *)
(***************************************************************************)
CONSTANTS CPUs, NoCPU

ASSUME NoCPUAssumption == NoCPU \notin CPUs

====
