-------------------------------- MODULE Ram --------------------------------
(***************************************************************************)
(* Physical memory before there is a VM system: ram.c, and the part of     *)
(* dumbvm.c that hands out pages.  A page is a number; kernel addresses    *)
(* stand for the physical ones they are mapped to.  free_kpages does       *)
(* nothing, so pages never come back.                                      *)
(***************************************************************************)
EXTENDS Integers, FiniteSets

CONSTANTS
    Threads,
    FIRSTPADDR, LASTPADDR,  \* first free page, and the one after the last
    PAGE_SIZE,
    ADDRPAGES,              \* 2^32 / PAGE_SIZE: addresses wrap around here
    Settings,               \* environments, each with the number of calls
                            \* there may be: of kmalloc, of processes to
                            \* start, fork and execute, of others, of errors in
                            \* program files; with the number of processors
                            \* and the pages that programs touch
    NULL

\* So many pages that a sum with an address may wrap around.
Wraps(npages) == npages >= ADDRPAGES - LASTPADDR

ASSUME RamAssumptions ==
    /\ FIRSTPADDR \in Nat \ {0} /\ ADDRPAGES \in Nat
    /\ PAGE_SIZE \in Nat \ {0}
    /\ LASTPADDR \in FIRSTPADDR .. ADDRPAGES /\ ~Wraps(1)
    /\ NULL \notin Threads
    /\ \A s \in Settings :
         s.budget \in [heap : Nat, proc : Nat, copy : Nat, cpus : Nat,
                      errors : Nat, touched : SUBSET Nat]

VARIABLES
    firstpaddr,  \* pages before it have been handed out
    budget, env, panic

ramvars == <<firstpaddr, budget, env, panic>>

\* ram_bootstrap
RamInit ==
    /\ firstpaddr = FIRSTPADDR
    /\ \E s \in Settings : /\ env = s.env
                            /\ budget = s.budget
    /\ panic = "none"

\* The pages that so many bytes take, and how the code counts them: in 32 bits.
WholePages(bytes) == (bytes + PAGE_SIZE - 1) \div PAGE_SIZE
RoundedPages(bytes) ==
    ((bytes + PAGE_SIZE - 1) % (ADDRPAGES * PAGE_SIZE)) \div PAGE_SIZE

\* ram_stealmem, under stealmem_lock: the sum is one of 32-bit addresses.
Sum(npages) == (firstpaddr + npages) % ADDRPAGES
Steals(npages) == Sum(npages) <= LASTPADDR
Getppages(npages) == IF Steals(npages) THEN firstpaddr ELSE 0
Advance(npages) ==
    firstpaddr' = IF Steals(npages) THEN Sum(npages) ELSE firstpaddr

=============================================================================
