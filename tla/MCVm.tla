-------------------------------- MODULE MCVm --------------------------------
(* Two processes on two processors; two callers of kmalloc.              *)
EXTENDS Vm, TLC
Seg(v, m, f) == [vaddr |-> v, memsz |-> m, filesz |-> f]
SomePrograms == {<<Seg(10, 3, 2), Seg(16, 8, 0)>>,
                 <<Seg(8, 8, 8)>>,
                 <<Seg(12, 6, 3), Seg(24, 96, 0)>>,
                 <<Seg(8, 24, 23), Seg(32, 8, 8)>>,
                 <<Seg(8, 24, 24), Seg(40, 7, 0)>>,
                 <<Seg(8, 8, 8), Seg(16, 0, 0)>>,
                 <<Seg(8, 125, 8), Seg(16, 8, 0)>>,
                 <<Seg(4, 3, 3), Seg(8, 8, 0)>>,
                 <<Seg(8, 8, 8), Seg(4, 2, 0)>>,
                 <<Seg(0, 8, 0), Seg(8, 8, 8), Seg(16, 8, 0)>>}
Sizes == <<2, 4>>
With(events, heap, proc, copy, cpus, errors, touched) ==
    [env |-> events,
     budget |-> [heap |-> heap, proc |-> proc, copy |-> copy, cpus |-> cpus,
                 errors |-> errors, touched |-> touched]]
SomeSettings ==
    {With({}, 4, 0, 0, 1, 0, {}), With({}, 0, 4, 0, 1, 0, {}),
     With({}, 0, 3, 0, 1, 1, {}), With({}, 0, 2, 1, 2, 1, {2}),
     With({}, 1, 1, 0, 1, 1, {2}),
     With({"huge"}, 2, 0, 0, 1, 0, {}),
     With({"huge"}, 0, 2, 0, 1, 0, {5})}
    \union {With({e}, 0, 1, 1, 1, 1, {2, 5}) : e \in AsEvents \ {"huge"}}
    \union {With({"page 0"}, 0, 1, 0, 1, 0, {0})}
Symmetry == Permutations(Callers) \union Permutations(Threads)
            \union Permutations(CPUs)

=============================================================================
