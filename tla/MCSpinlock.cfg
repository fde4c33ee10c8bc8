CONSTANTS
    CPUs = {c1, c2, c3}
    Locks = {1, 2}
    NoCPU = NoCPU
SYMMETRY Symm
SPECIFICATION Spec
INVARIANTS MutualExclusion CpuStateRight NoPanic
