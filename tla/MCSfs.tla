------------------------------- MODULE MCSfs -------------------------------
EXTENDS Sfs, TLC

\* Whole blocks, parts of blocks, a gap, and past the greatest size.
SomeWrites == {<<1, 2>>, <<4, 3>>}
EachEvent == {{}} \union {{e} : e \in EnvEvents}
Symmetry == Permutations(Names)

=============================================================================
