------------------------------- MODULE MCIpi -------------------------------
EXTENDS Ipi, TLC
Symm == Permutations(CPUs) \union Permutations(Mappings)

ASSUME RequestsMatch == RequestsFit

=============================================================================
