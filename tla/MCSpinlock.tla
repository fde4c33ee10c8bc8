----------------------------- MODULE MCSpinlock -----------------------------
\* Three CPUs and two spinlocks, as model values and numbers.
EXTENDS Spinlock, TLC

Symm == Permutations(CPUs)

=============================================================================
