----------------------------- MODULE Vfs_proofs -----------------------------
(***************************************************************************)
(* Proofs about Vfs: for any numbers of threads, disks, names, handles and *)
(* calls, and any set of events, a vnode's count is the number of those    *)
(* who have it, its volume and its handle stay while it is counted, and    *)
(* what fails is what Breaks lists.                                        *)
(*                                                                         *)
(* Rest is what every step keeps, with Types.  First what a vnode is and   *)
(* what counting is; then, part by part, what a step has to do to keep the *)
(* part; then the steps.                                                   *)
(***************************************************************************)
EXTENDS Vfs, FiniteSetTheorems, TLAPS

Labels == {"idle", "creat", "load", "closeh", "dropdir", "eachopen", "second",
           "both", "setcurdir", "name", "drop", "spins"}

VnOrNull == Vnodes \union {NULL}
FileOrNull == Seq(Names) \union {NULL}

\* The locals of a call.
Locals ==
    [rename : BOOLEAN, write : BOOLEAN, creat : BOOLEAN, trunc : BOOLEAN,
     path : Names \union {NULL}, dir : VnOrNull, dir2 : VnOrNull,
     vn : VnOrNull, h : Handles \union {NULL}, file : FileOrNull]

Types ==
    /\ kd_fs \in [Disks -> {NULL, "mounted", "swap"}]
    /\ knowndevs \in SUBSET Devices
    /\ vn_refcount \in [Vnodes -> Nat]
    /\ ev_file \in [Handles -> FileOrNull]
    /\ hw \in [Handles -> FileOrNull]
    /\ t_cwd \in [Threads -> VnOrNull]
    /\ open \in [Threads -> VnOrNull]
    /\ bootfs_vnode \in VnOrNull
    /\ swapped \in [Disks -> Nat]
    /\ live \in SUBSET Threads /\ live # {}
    /\ pc \in [Threads -> Labels]
    /\ loc \in [Threads -> Locals]
    /\ env \in Environments

\* What the locals l of a thread at a label are, and its open file o: every
\* label has the references it needs and no others, a handle is reserved from
\* the emulator's open to the vnode, directories of a volume are its root.
CallRight(label, l, o) ==
    /\ label = "idle" => l = NoLoc
    /\ label \in {"creat", "load", "closeh"} =>
          l.dir # NULL /\ l.dir2 = NULL /\ l.vn = NULL /\ l.path # NULL
    /\ label \in {"load", "closeh"} <=> l.h # NULL
    /\ label \in {"load", "closeh"} => l.file # NULL
    /\ label = "dropdir" => l.dir # NULL /\ l.dir2 = NULL /\ l.vn # NULL
    /\ label \in {"eachopen", "setcurdir"} =>
          l.dir = NULL /\ l.dir2 = NULL /\ l.vn # NULL
    /\ label \in {"second", "both"} => l.rename \/ l.vn # NULL
    /\ label \in {"second", "both"} /\ l.rename => l.dir # NULL
    /\ label = "second" => l.dir2 = NULL
    /\ label = "both" => l.dir2 # NULL
    /\ label = "name" => l.vn # NULL /\ l.vn.fs # "none"
    /\ label = "drop" => l.dir # NULL \/ l.dir2 # NULL \/ l.vn # NULL
    /\ label \in {"creat", "load", "closeh", "dropdir", "eachopen"} => o = NULL
    /\ l.dir # NULL /\ l.dir.fs \in Disks => l.dir.obj = "root"
    /\ l.dir2 # NULL /\ l.dir2.fs \in Disks => l.dir2.obj = "root"

CallsRight == \A t \in Threads : CallRight(pc[t], loc[t], open[t])

\* A thread that has exited, or was not yet made, has nothing.
GoneHaveNothing ==
    \A t \in Threads \ live :
        pc[t] = "idle" /\ open[t] = NULL /\ t_cwd[t] = NULL

\* Nothing is called before the last device is there.
Fresh ==
    ~(Devices \subseteq knowndevs) =>
        /\ \A t \in Threads :
              pc[t] = "idle" /\ open[t] = NULL /\ t_cwd[t] = NULL
        /\ bootfs_vnode = NULL /\ swapped = [d \in Disks |-> 0]
        /\ \E t \in Threads : live = {t}
        /\ hw = [h \in Handles |-> IF h = EMU_ROOTHANDLE THEN <<>> ELSE NULL]
        /\ EMU \notin knowndevs => \A h \in Handles : ev_file[h] = NULL

Same(x, y) == IF x = y THEN 1 ELSE 0
In(x, S) == IF x \in S THEN 1 ELSE 0

\* What keeps v without a holder that may go away.
Kept(known, v) ==
    \/ v.fs = "none" /\ v.obj \in known
    \/ v = EmuRoot /\ EMU \in known
Keeps(known, v) == IF Kept(known, v) THEN 1 ELSE 0
SwapsOf(sw, v) == IF v.fs = "none" /\ v.obj \in Disks THEN sw[v.obj] ELSE 0

\* How many have v, in a state with these open files, current directories,
\* locals, boot directory, devices and swap devices.
HoldersOf(op, cw, lo, boot, known, sw, v) ==
    Cardinality({t \in Threads : op[t] = v})
      + Cardinality({t \in Threads : cw[t] = v})
      + Cardinality({t \in Threads : lo[t].dir = v})
      + Cardinality({t \in Threads : lo[t].dir2 = v})
      + Cardinality({t \in Threads : lo[t].vn = v})
      + Same(boot, v) + Keeps(known, v) + SwapsOf(sw, v)
Refcount(v) ==
    HoldersOf(open, t_cwd, loc, bootfs_vnode, knowndevs, swapped, v)

\* The count of a vnode is theirs.  Where the emulator fails to close a handle
\* one more is left, for good.
Counted ==
    \A v \in Vnodes : /\ vn_refcount[v] >= Refcount(v)
                      /\ v.fs # EMU \/ ~Media => vn_refcount[v] = Refcount(v)

\* A vnode of the emulator that is loaded has a file.
Loaded == \A h \in Handles : ev_file[h] # NULL <=> vn_refcount[EmuVn(h)] > 0

DirsRight ==
    \A v \in {t_cwd[t] : t \in Threads} \union {bootfs_vnode} :
        v # NULL => IsDirectory(Kind(v))

\* The handle of a call that is about to load its vnode is nobody else's.
Reserved ==
    "shared" \notin env =>
        \A t \in Threads : loc[t].h # NULL =>
            /\ hw[loc[t].h] = loc[t].file
            /\ ev_file[loc[t].h] = NULL
            /\ \A u \in Threads : u # t => loc[u].h # loc[t].h

HandlesUsed ==
    env \cap {"media", "shared"} = {} /\ EMU \in knowndevs =>
        \A h \in Handles : hw[h] # NULL =>
            vn_refcount[EmuVn(h)] > 0 \/ \E t \in Threads : loc[t].h = h

EmuRight == Loaded /\ RightFile /\ Reserved /\ HandlesUsed

Rest == /\ CallsRight /\ GoneHaveNothing /\ Fresh
        /\ Counted /\ FsStays /\ EmuRight /\ DirsRight /\ NoPanic

-----------------------------------------------------------------------------
\* Vnodes are told by their file system and what they are in it.
LEMMA VnodeIs ==
  ASSUME NEW v \in Vnodes
  PROVE  /\ v = Vn(v.fs, v.obj) /\ v # NULL
         /\ v.fs \in {"none", EMU} \union Disks
         /\ v.fs = "none" => v.obj \in Devices
         /\ v.fs = EMU => v.obj \in Handles
         /\ v.fs \in Disks => v.obj \in {"root"} \union SfsNames
BY VfsAssumptions, NullAssumption
   DEF Vnodes, DevVnodes, EmuVnodes, SfsVnodes, DevVn, EmuVn, Vn, EMU

\* What dev_create_vnode, emufs_loadvnode and sfs_loadvnode make is a vnode.
LEMMA VnodeMade ==
  /\ \A d \in Devices : DevVn(d) \in Vnodes
  /\ \A h \in Handles : EmuVn(h) \in Vnodes
  /\ \A d \in Disks : RootVn(d) \in Vnodes
  /\ \A d \in Disks, o \in SfsNames : Vn(d, o) \in Vnodes
  /\ EmuRoot \in Vnodes
BY VfsAssumptions
   DEF Vnodes, DevVnodes, EmuVnodes, SfsVnodes, DevVn, EmuVn, RootVn, EmuRoot

\* A vnode is on the file system it was made for, as what it was made for.
LEMMA VnodeFields ==
  ASSUME NEW fs, NEW obj
  PROVE  Vn(fs, obj).fs = fs /\ Vn(fs, obj).obj = obj
BY DEF Vn

\* Devices, the emulator and the volumes of disks are told apart.
LEMMA FsApart == EMU # "none" /\ EMU \notin Disks /\ "none" \notin Disks
BY VfsAssumptions DEF EMU

-----------------------------------------------------------------------------
\* Counting.  Sets of threads that differ in one thread at most.
LEMMA OneDiffers ==
  ASSUME NEW A \in SUBSET Threads, NEW B \in SUBSET Threads, NEW t \in Threads,
         \A u \in Threads : u # t => (u \in A <=> u \in B)
  PROVE  Cardinality(B) = Cardinality(A) - In(t, A) + In(t, B)
<1> DEFINE C == A \ {t}
<1>1. IsFiniteSet(A) /\ IsFiniteSet(B) /\ IsFiniteSet(C)
  BY VfsAssumptions, FS_Subset
<1>2. Cardinality(C) \in Nat
  BY <1>1, FS_CardinalityType
<1>3. Cardinality(A) = Cardinality(C) + In(t, A)
  <2>1. CASE t \in A
    <3>1. Cardinality(A \ {t}) = Cardinality(A) - 1 /\ Cardinality(A) \in Nat
      BY <1>1, <2>1, FS_RemoveElement, FS_CardinalityType
    <3> QED
      BY <2>1, <3>1 DEF Same, Keeps, In
  <2>2. CASE t \notin A
    <3>1. C = A
      BY <2>2
    <3> QED
      BY <1>2, <2>2, <3>1 DEF Same, Keeps, In
  <2> QED
    BY <2>1, <2>2
<1>4. Cardinality(B) = Cardinality(C) + In(t, B)
  <2>0. C = B \ {t}
    OBVIOUS
  <2>1. CASE t \in B
    <3>1. Cardinality(B \ {t}) = Cardinality(B) - 1 /\ Cardinality(B) \in Nat
      BY <1>1, <2>1, FS_RemoveElement, FS_CardinalityType
    <3>2. Cardinality(C) = Cardinality(B \ {t})
      BY <2>0
    <3> QED
      BY <2>1, <3>1, <3>2 DEF Same, Keeps, In
  <2>2. CASE t \notin B
    <3>1. C = B
      BY <2>0, <2>2
    <3> QED
      BY <1>2, <2>2, <3>1 DEF Same, Keeps, In
  <2> QED
    BY <2>1, <2>2
<1>5. In(t, A) \in Nat /\ In(t, B) \in Nat
  BY DEF Same, Keeps, In
<1> QED
  BY <1>2, <1>3, <1>4, <1>5

\* A set of threads has a number, which is not 0 if one is in it.
LEMMA ThreadsCount ==
  ASSUME NEW A \in SUBSET Threads
  PROVE  /\ Cardinality(A) \in Nat
         /\ \A t \in A : Cardinality(A) >= 1
<1>1. IsFiniteSet(A)
  BY VfsAssumptions, FS_Subset
<1>2. Cardinality(A) \in Nat
  BY <1>1, FS_CardinalityType
<1>3. ASSUME NEW t \in A PROVE Cardinality(A) >= 1
  <2>1. A # {}
    OBVIOUS
  <2>2. Cardinality(A) # 0
    BY <1>1, <2>1, FS_EmptySet
  <2> QED
    BY <1>2, <2>2
<1> QED
  BY <1>2, <1>3

\* The number of holders is a number, which those that are kept are part of.
LEMMA HoldersNat ==
  ASSUME NEW op, NEW cw, NEW lo, NEW boot, NEW known,
         NEW sw \in [Disks -> Nat], NEW v
  PROVE  /\ HoldersOf(op, cw, lo, boot, known, sw, v) \in Nat
         /\ HoldersOf(op, cw, lo, boot, known, sw, v) >= Keeps(known, v)
<1> DEFINE a == Cardinality({t \in Threads : op[t] = v})
           b == Cardinality({t \in Threads : cw[t] = v})
           c == Cardinality({t \in Threads : lo[t].dir = v})
           d == Cardinality({t \in Threads : lo[t].dir2 = v})
           e == Cardinality({t \in Threads : lo[t].vn = v})
           k == Keeps(known, v)
           m == Same(boot, v)
           s == SwapsOf(sw, v)
<1>1. a \in Nat /\ b \in Nat /\ c \in Nat /\ d \in Nat /\ e \in Nat
  BY ThreadsCount
<1>2. k \in Nat /\ m \in Nat /\ s \in Nat
  BY DEF Same, Keeps, SwapsOf
<1>3. HoldersOf(op, cw, lo, boot, known, sw, v) =
        a + b + c + d + e + m + k + s
  BY DEF HoldersOf
<1> HIDE DEF a, b, c, d, e, k, m, s
<1>4. /\ a + b + c + d + e + m + k + s \in Nat
      /\ a + b + c + d + e + m + k + s >= k
  BY <1>1, <1>2
<1> QED
  BY <1>3, <1>4 DEF k

\* Whoever has v is one of them, besides what keeps it.
LEMMA HolderCounts ==
  ASSUME NEW op, NEW cw, NEW lo, NEW boot, NEW known,
         NEW sw \in [Disks -> Nat], NEW v, NEW t \in Threads,
         \/ op[t] = v \/ cw[t] = v \/ boot = v
         \/ lo[t].dir = v \/ lo[t].dir2 = v \/ lo[t].vn = v
  PROVE  HoldersOf(op, cw, lo, boot, known, sw, v) >= 1 + Keeps(known, v)
<1> DEFINE A == {u \in Threads : op[u] = v}
           B == {u \in Threads : cw[u] = v}
           C == {u \in Threads : lo[u].dir = v}
           D == {u \in Threads : lo[u].dir2 = v}
           E == {u \in Threads : lo[u].vn = v}
           a == Cardinality(A)
           b == Cardinality(B)
           c == Cardinality(C)
           d == Cardinality(D)
           e == Cardinality(E)
           k == Keeps(known, v)
           m == Same(boot, v)
           s == SwapsOf(sw, v)
<1>1. a \in Nat /\ b \in Nat /\ c \in Nat /\ d \in Nat /\ e \in Nat
  BY ThreadsCount
<1>2. k \in Nat /\ m \in Nat /\ s \in Nat
  BY DEF Same, Keeps, SwapsOf
<1>3. HoldersOf(op, cw, lo, boot, known, sw, v) =
        a + b + c + d + e + m + k + s
  BY DEF HoldersOf
<1>4. /\ op[t] = v => a >= 1
      /\ cw[t] = v => b >= 1
      /\ lo[t].dir = v => c >= 1
      /\ lo[t].dir2 = v => d >= 1
      /\ lo[t].vn = v => e >= 1
  <2>1. /\ op[t] = v => t \in A
        /\ cw[t] = v => t \in B
        /\ lo[t].dir = v => t \in C
        /\ lo[t].dir2 = v => t \in D
        /\ lo[t].vn = v => t \in E
    OBVIOUS
  <2>2. /\ A \in SUBSET Threads /\ B \in SUBSET Threads
        /\ C \in SUBSET Threads /\ D \in SUBSET Threads
        /\ E \in SUBSET Threads
    OBVIOUS
  <2> HIDE DEF A, B, C, D, E
  <2> QED
    BY <2>1, <2>2, ThreadsCount
<1>5. boot = v => m = 1
  BY DEF Same, Keeps, In
<1>6. a >= 1 \/ b >= 1 \/ c >= 1 \/ d >= 1 \/ e >= 1 \/ m = 1
  BY <1>4, <1>5
<1> HIDE DEF a, b, c, d, e, k, m, s
<1>7. a + b + c + d + e + m + k + s >= 1 + k
  BY <1>1, <1>2, <1>6
<1> QED
  BY <1>3, <1>7 DEF k

\* What one thread does changes the number by what this thread had of v and
\* what it has then, and by whether v was and is the boot directory.
LEMMA HoldersMove ==
  ASSUME NEW op, NEW cw, NEW lo, NEW boot, NEW op2, NEW cw2, NEW lo2,
         NEW boot2, NEW known, NEW sw \in [Disks -> Nat], NEW v,
         NEW t \in Threads,
         \A u \in Threads : u # t =>
            op2[u] = op[u] /\ cw2[u] = cw[u] /\ lo2[u] = lo[u]
  PROVE  HoldersOf(op2, cw2, lo2, boot2, known, sw, v) =
           HoldersOf(op, cw, lo, boot, known, sw, v)
             + (Same(op2[t], v) - Same(op[t], v))
             + (Same(cw2[t], v) - Same(cw[t], v))
             + (Same(lo2[t].dir, v) - Same(lo[t].dir, v))
             + (Same(lo2[t].dir2, v) - Same(lo[t].dir2, v))
             + (Same(lo2[t].vn, v) - Same(lo[t].vn, v))
             + (Same(boot2, v) - Same(boot, v))
<1> DEFINE A == {u \in Threads : op[u] = v}
           B == {u \in Threads : cw[u] = v}
           C == {u \in Threads : lo[u].dir = v}
           D == {u \in Threads : lo[u].dir2 = v}
           E == {u \in Threads : lo[u].vn = v}
           A2 == {u \in Threads : op2[u] = v}
           B2 == {u \in Threads : cw2[u] = v}
           C2 == {u \in Threads : lo2[u].dir = v}
           D2 == {u \in Threads : lo2[u].dir2 = v}
           E2 == {u \in Threads : lo2[u].vn = v}
           a == Same(op[t], v)
           b == Same(cw[t], v)
           c == Same(lo[t].dir, v)
           d == Same(lo[t].dir2, v)
           e == Same(lo[t].vn, v)
           a2 == Same(op2[t], v)
           b2 == Same(cw2[t], v)
           c2 == Same(lo2[t].dir, v)
           d2 == Same(lo2[t].dir2, v)
           e2 == Same(lo2[t].vn, v)
           k == Keeps(known, v)
           m == Same(boot, v)
           m2 == Same(boot2, v)
           s == SwapsOf(sw, v)
<1>1. Cardinality(A2) = Cardinality(A) - a + a2
  <2>1. \A u \in Threads : u # t => (u \in A <=> u \in A2)
    OBVIOUS
  <2>2. a = In(t, A) /\ a2 = In(t, A2)
    BY DEF Same, Keeps, In
  <2>3. A \in SUBSET Threads /\ A2 \in SUBSET Threads
    OBVIOUS
  <2> HIDE DEF A, A2, a, a2
  <2> QED
    BY <2>1, <2>2, <2>3, OneDiffers
<1>2. Cardinality(B2) = Cardinality(B) - b + b2
  <2>1. \A u \in Threads : u # t => (u \in B <=> u \in B2)
    OBVIOUS
  <2>2. b = In(t, B) /\ b2 = In(t, B2)
    BY DEF Same, Keeps, In
  <2>3. B \in SUBSET Threads /\ B2 \in SUBSET Threads
    OBVIOUS
  <2> HIDE DEF B, B2, b, b2
  <2> QED
    BY <2>1, <2>2, <2>3, OneDiffers
<1>3. Cardinality(C2) = Cardinality(C) - c + c2
  <2>1. \A u \in Threads : u # t => (u \in C <=> u \in C2)
    OBVIOUS
  <2>2. c = In(t, C) /\ c2 = In(t, C2)
    BY DEF Same, Keeps, In
  <2>3. C \in SUBSET Threads /\ C2 \in SUBSET Threads
    OBVIOUS
  <2> HIDE DEF C, C2, c, c2
  <2> QED
    BY <2>1, <2>2, <2>3, OneDiffers
<1>4. Cardinality(D2) = Cardinality(D) - d + d2
  <2>1. \A u \in Threads : u # t => (u \in D <=> u \in D2)
    OBVIOUS
  <2>2. d = In(t, D) /\ d2 = In(t, D2)
    BY DEF Same, Keeps, In
  <2>3. D \in SUBSET Threads /\ D2 \in SUBSET Threads
    OBVIOUS
  <2> HIDE DEF D, D2, d, d2
  <2> QED
    BY <2>1, <2>2, <2>3, OneDiffers
<1>5. Cardinality(E2) = Cardinality(E) - e + e2
  <2>1. \A u \in Threads : u # t => (u \in E <=> u \in E2)
    OBVIOUS
  <2>2. e = In(t, E) /\ e2 = In(t, E2)
    BY DEF Same, Keeps, In
  <2>3. E \in SUBSET Threads /\ E2 \in SUBSET Threads
    OBVIOUS
  <2> HIDE DEF E, E2, e, e2
  <2> QED
    BY <2>1, <2>2, <2>3, OneDiffers
<1>6. /\ a \in Nat /\ b \in Nat /\ c \in Nat /\ d \in Nat /\ e \in Nat
      /\ a2 \in Nat /\ b2 \in Nat /\ c2 \in Nat /\ d2 \in Nat /\ e2 \in Nat
      /\ k \in Nat /\ m \in Nat /\ m2 \in Nat /\ s \in Nat
  BY DEF Same, Keeps, SwapsOf
<1>7. /\ Cardinality(A) \in Nat /\ Cardinality(B) \in Nat
      /\ Cardinality(C) \in Nat /\ Cardinality(D) \in Nat
      /\ Cardinality(E) \in Nat
  BY ThreadsCount
<1>8. /\ HoldersOf(op, cw, lo, boot, known, sw, v) =
           Cardinality(A) + Cardinality(B) + Cardinality(C) + Cardinality(D)
             + Cardinality(E) + m + k + s
      /\ HoldersOf(op2, cw2, lo2, boot2, known, sw, v) =
           Cardinality(A2) + Cardinality(B2) + Cardinality(C2)
             + Cardinality(D2) + Cardinality(E2) + m2 + k + s
  BY DEF HoldersOf
<1>9. HoldersOf(op2, cw2, lo2, boot2, known, sw, v) =
        HoldersOf(op, cw, lo, boot, known, sw, v)
          + (a2 - a) + (b2 - b) + (c2 - c) + (d2 - d) + (e2 - e) + (m2 - m)
  <2> HIDE DEF A, B, C, D, E, A2, B2, C2, D2, E2, a, b, c, d, e,
               a2, b2, c2, d2, e2, k, m, m2, s
  <2>1. (Cardinality(A) - a + a2) + (Cardinality(B) - b + b2)
          + (Cardinality(C) - c + c2) + (Cardinality(D) - d + d2)
          + (Cardinality(E) - e + e2) + m2 + k + s =
        (Cardinality(A) + Cardinality(B) + Cardinality(C) + Cardinality(D)
             + Cardinality(E) + m + k + s)
          + (a2 - a) + (b2 - b) + (c2 - c) + (d2 - d) + (e2 - e) + (m2 - m)
    BY <1>6, <1>7
  <2>2. HoldersOf(op2, cw2, lo2, boot2, known, sw, v) =
          (Cardinality(A) - a + a2) + (Cardinality(B) - b + b2)
            + (Cardinality(C) - c + c2) + (Cardinality(D) - d + d2)
            + (Cardinality(E) - e + e2) + m2 + k + s
    BY <1>1, <1>2, <1>3, <1>4, <1>5, <1>8
  <2> QED
    BY <1>8, <2>1, <2>2
<1> QED
  BY <1>9

-----------------------------------------------------------------------------
\* What a step has to do to keep each part of the invariant.

\* The kind of a vnode is its file's.
LEMMA KindSame ==
  ASSUME NEW v \in Vnodes, v.fs # EMU \/ ev_file'[v.obj] = ev_file[v.obj]
  PROVE  Kind(v)' = Kind(v)
BY DEF Kind

\* A vnode that somebody has is counted.
LEMMA HeldCounts ==
  ASSUME Types, Counted, NEW v \in Vnodes, NEW t \in Threads,
         \/ open[t] = v \/ t_cwd[t] = v \/ bootfs_vnode = v
         \/ loc[t].dir = v \/ loc[t].dir2 = v \/ loc[t].vn = v
  PROVE  /\ vn_refcount[v] \in Nat /\ vn_refcount[v] >= 1
         /\ vn_refcount[v] >= Refcount(v) /\ Refcount(v) \in Nat
         /\ Refcount(v) >= 1 + Keeps(knowndevs, v)
<1>1. swapped \in [Disks -> Nat] /\ vn_refcount[v] \in Nat
  BY DEF Types
<1>2. Refcount(v) >= 1 + Keeps(knowndevs, v)
  BY <1>1, HolderCounts DEF Refcount
<1>3. Refcount(v) \in Nat
  BY <1>1, HoldersNat DEF Refcount
<1>4. Keeps(knowndevs, v) \in {0, 1}
  BY DEF Same, Keeps, In
<1>5. vn_refcount[v] >= Refcount(v)
  BY DEF Counted
<1> QED
  BY <1>1, <1>2, <1>3, <1>4, <1>5

\* No vnode of a volume is taken that is not mounted.
LEMMA FsKept ==
  ASSUME FsStays, UNCHANGED kd_fs,
         \A v \in Vnodes : /\ vn_refcount[v] \in Nat
                           /\ vn_refcount'[v] \in Nat
                           /\ \/ v.fs \in Disks => kd_fs[v.fs] = "mounted"
                              \/ vn_refcount'[v] <= vn_refcount[v]
  PROVE  FsStays'
<1> SUFFICES ASSUME NEW d \in Disks, kd_fs[d] # "mounted",
                    NEW v \in SfsVnodes(d)
             PROVE  vn_refcount'[v] = 0
  BY DEF FsStays
<1>1. v \in Vnodes /\ v.fs = d
  BY DEF SfsVnodes, Vn, Vnodes
<1>2. vn_refcount[v] = 0
  BY DEF FsStays
<1> QED
  BY <1>1, <1>2

\* A directory that somebody works in stays one: its file changes only when
\* nobody has its vnode.
LEMMA DirsKept ==
  ASSUME Types, Types', Counted, Counted', DirsRight,
         \A h \in Handles : \/ ev_file'[h] = ev_file[h]
                            \/ vn_refcount[EmuVn(h)] = 0
                            \/ vn_refcount'[EmuVn(h)] = 0,
         \A v \in Vnodes :
            v \in {t_cwd'[u] : u \in Threads} \union {bootfs_vnode'} =>
               \/ v \in {t_cwd[u] : u \in Threads} \union {bootfs_vnode}
               \/ /\ v.fs = EMU => vn_refcount[v] > 0
                  /\ IsDirectory(Kind(v))
  PROVE  DirsRight'
<1> SUFFICES ASSUME NEW v \in {t_cwd'[u] : u \in Threads}
                               \union {bootfs_vnode'},
                    v # NULL
             PROVE  IsDirectory(Kind(v)')
  BY DEF DirsRight
<1>1. v \in Vnodes
  BY DEF Types, VnOrNull
<1>2. PICK t \in Threads : t_cwd'[t] = v \/ bootfs_vnode' = v
  BY VfsAssumptions
<1>3. vn_refcount'[v] >= 1
  <2>1. swapped' \in [Disks -> Nat] /\ vn_refcount'[v] \in Nat
    BY <1>1 DEF Types
  <2>2. Refcount(v)' >= 1 + Keeps(knowndevs', v)
    BY <1>2, <2>1, HolderCounts DEF Refcount
  <2>3. Refcount(v)' \in Nat
    BY <2>1, HoldersNat DEF Refcount
  <2>4. Keeps(knowndevs', v) \in {0, 1}
    BY DEF Same, Keeps, In
  <2>5. vn_refcount'[v] >= Refcount(v)'
    BY <1>1 DEF Counted
  <2> QED
    BY <2>1, <2>2, <2>3, <2>4, <2>5
<1>4. (v.fs = EMU => vn_refcount[v] > 0) /\ IsDirectory(Kind(v))
  <2>1. CASE v \in {t_cwd[u] : u \in Threads} \union {bootfs_vnode}
    <3>1. IsDirectory(Kind(v))
      BY <2>1 DEF DirsRight
    <3>2. PICK u \in Threads : t_cwd[u] = v \/ bootfs_vnode = v
      BY <2>1, VfsAssumptions
    <3>3. vn_refcount[v] \in Nat /\ vn_refcount[v] >= 1
      BY <1>1, <3>2, HeldCounts
    <3> QED
      BY <3>1, <3>3
  <2> QED
    BY <1>1, <2>1
<1>5. v.fs # EMU \/ ev_file'[v.obj] = ev_file[v.obj]
  <2>1. CASE v.fs = EMU
    <3>1. v = EmuVn(v.obj) /\ v.obj \in Handles
      BY <1>1, <2>1, VnodeIs DEF EmuVn
    <3>2. vn_refcount'[v] # 0 /\ vn_refcount[v] # 0
      BY <1>3, <1>4, <2>1
    <3> QED
      BY <3>1, <3>2
  <2> QED
    BY <2>1
<1> QED
  BY <1>1, <1>4, <1>5, KindSame

\* Steps that leave the emulator alone keep what concerns it.
LEMMA EmuKept ==
  ASSUME EmuRight, UNCHANGED <<ev_file, hw, env, knowndevs>>,
         \A h \in Handles :
            vn_refcount'[EmuVn(h)] > 0 <=> vn_refcount[EmuVn(h)] > 0,
         \A u \in Threads :
            /\ loc'[u].h = loc[u].h
            /\ loc[u].h # NULL => loc'[u].file = loc[u].file
  PROVE  EmuRight'
<1>1. Loaded'
  BY DEF EmuRight, Loaded
<1>2. RightFile'
  BY DEF EmuRight, RightFile
<1>3. Reserved'
  BY DEF EmuRight, Reserved
<1>4. HandlesUsed'
  BY DEF EmuRight, HandlesUsed
<1> QED
  BY <1>1, <1>2, <1>3, <1>4 DEF EmuRight

\* VOP_DECREF: one fewer, or the last of a device, or one the emulator would
\* not close.  The last reference to a vnode of the emulator ends the vnode
\* and closes its handle.
LEMMA DecrefGives ==
  ASSUME Types, NEW w \in Vnodes, vn_refcount[w] >= 1, Decref(w)
  PROVE  /\ vn_refcount' \in [Vnodes -> Nat]
         /\ \A v \in Vnodes : v # w => vn_refcount'[v] = vn_refcount[v]
         /\ \/ /\ vn_refcount'[w] = vn_refcount[w] - 1
               /\ UNCHANGED <<ev_file, hw>>
               /\ vn_refcount[w] > 1 \/ w.fs \in Disks
            \/ /\ vn_refcount[w] = 1 /\ vn_refcount'[w] = 0
               /\ w.fs = EMU
               /\ hw' = [hw EXCEPT ![w.obj] = NULL]
               /\ ev_file' = [ev_file EXCEPT ![w.obj] = NULL]
            \/ /\ vn_refcount[w] = 1 /\ UNCHANGED vnvars
               /\ w.fs = "none" \/ (w.fs = EMU /\ Media)
<1>1. vn_refcount \in [Vnodes -> Nat]
  BY DEF Types
<1>2. CASE /\ vn_refcount[w] > 1 \/ w.fs \in Disks
           /\ vn_refcount' = [vn_refcount EXCEPT ![w] = @ - 1]
           /\ UNCHANGED <<ev_file, hw>>
  <2>1. vn_refcount[w] - 1 \in Nat
    BY <1>1
  <2> QED
    BY <1>1, <1>2, <2>1
<1>3. CASE vn_refcount[w] = 1 /\ w.fs = "none" /\ UNCHANGED vnvars
  BY <1>1, <1>3 DEF vnvars
<1>4. CASE vn_refcount[w] = 1 /\ w.fs = EMU /\ EmuReclaim(w.obj)
  <2>1. w = EmuVn(w.obj)
    BY <1>4, VnodeIs DEF EmuVn
  <2>2. CASE Media /\ UNCHANGED vnvars
    BY <1>1, <1>4, <2>2 DEF vnvars
  <2>3. CASE /\ vn_refcount' = [vn_refcount EXCEPT ![EmuVn(w.obj)] = 0]
             /\ CloseHandle(w.obj)
             /\ ev_file' = [ev_file EXCEPT ![w.obj] = NULL]
    <3>1. vn_refcount' = [vn_refcount EXCEPT ![w] = 0]
      BY <2>1, <2>3
    <3>2. /\ vn_refcount' \in [Vnodes -> Nat] /\ vn_refcount'[w] = 0
          /\ \A v \in Vnodes : v # w => vn_refcount'[v] = vn_refcount[v]
      BY <1>1, <3>1
    <3> QED
      BY <1>4, <2>3, <3>2 DEF CloseHandle
  <2> QED
    BY <1>4, <2>2, <2>3 DEF EmuReclaim
<1> QED
  BY <1>2, <1>3, <1>4 DEF Decref

\* VOP_DECREF, with EmuReclaim at the last reference, leaves files and handles.
LEMMA DecrefTypes ==
  ASSUME Types, NEW w \in Vnodes, vn_refcount[w] >= 1, Decref(w)
  PROVE  /\ ev_file' \in [Handles -> FileOrNull]
         /\ hw' \in [Handles -> FileOrNull]
<1>1. ev_file \in [Handles -> FileOrNull] /\ hw \in [Handles -> FileOrNull]
  BY DEF Types
<1>2. NULL \in FileOrNull
  BY DEF FileOrNull
<1>3. \/ UNCHANGED <<ev_file, hw>>
      \/ /\ hw' = [hw EXCEPT ![w.obj] = NULL]
         /\ ev_file' = [ev_file EXCEPT ![w.obj] = NULL]
  BY DecrefGives DEF vnvars
<1> QED
  BY <1>1, <1>2, <1>3

\* The emulator's vnodes and handles after it.
LEMMA EmuGiven ==
  ASSUME Types, EmuRight, UNCHANGED <<env, knowndevs>>,
         NEW w \in Vnodes, vn_refcount[w] >= 1, Decref(w),
         \A u \in Threads :
            /\ loc'[u].h = loc[u].h
            /\ loc[u].h # NULL => loc'[u].file = loc[u].file
  PROVE  /\ EmuRight'
         /\ \A h \in Handles : \/ ev_file'[h] = ev_file[h]
                               \/ vn_refcount'[EmuVn(h)] = 0
<1>1. /\ vn_refcount \in [Vnodes -> Nat] /\ vn_refcount' \in [Vnodes -> Nat]
      /\ ev_file \in [Handles -> FileOrNull] /\ hw \in [Handles -> FileOrNull]
      /\ \A h \in Handles : EmuVn(h) \in Vnodes /\ EmuVn(h).fs = EMU
      /\ loc \in [Threads -> Locals]
  BY DecrefGives, VnodeMade, VnodeFields DEF Types, EmuVn
<1>2. CASE /\ vn_refcount[w] = 1 /\ vn_refcount'[w] = 0
           /\ w.fs = EMU
           /\ hw' = [hw EXCEPT ![w.obj] = NULL]
           /\ ev_file' = [ev_file EXCEPT ![w.obj] = NULL]
  <2> DEFINE k == w.obj
  <2>1. w = EmuVn(k) /\ k \in Handles
    BY <1>2, VnodeIs DEF EmuVn
  <2>2. \A h \in Handles : h # k => EmuVn(h) # w
    BY <1>1, <2>1, VnodeFields DEF EmuVn
  <2>3. /\ hw'[k] = NULL /\ ev_file'[k] = NULL
        /\ \A h \in Handles : h # k =>
              /\ hw'[h] = hw[h] /\ ev_file'[h] = ev_file[h]
              /\ vn_refcount'[EmuVn(h)] = vn_refcount[EmuVn(h)]
    <3>1. \A v \in Vnodes : v # w => vn_refcount'[v] = vn_refcount[v]
      BY DecrefGives
    <3> QED
      BY <1>1, <1>2, <2>1, <2>2, <3>1
  <2>4. vn_refcount'[EmuVn(k)] = 0 /\ vn_refcount[EmuVn(k)] = 1
    BY <1>2, <2>1
  <2> HIDE DEF k
  <2>5. ev_file[k] # NULL
    BY <2>1, <2>4 DEF EmuRight, Loaded
  <2>6. Loaded'
    BY <2>1, <2>3, <2>4 DEF EmuRight, Loaded
  <2>7. RightFile'
    BY <2>1, <2>3 DEF EmuRight, RightFile
  <2>8. Reserved'
    <3> SUFFICES ASSUME "shared" \notin env, NEW t \in Threads,
                        loc'[t].h # NULL
                 PROVE  /\ hw'[loc'[t].h] = loc'[t].file
                        /\ ev_file'[loc'[t].h] = NULL
                        /\ \A u \in Threads : u # t => loc'[u].h # loc'[t].h
      BY DEF Reserved
    <3>1. /\ hw[loc[t].h] = loc[t].file /\ ev_file[loc[t].h] = NULL
          /\ \A u \in Threads : u # t => loc[u].h # loc[t].h
      BY DEF EmuRight, Reserved
    <3>2. loc[t].h \in Handles /\ loc[t].h # k
      BY <1>1, <2>5, <3>1 DEF Locals
    <3> QED
      BY <2>3, <3>1, <3>2
  <2>9. HandlesUsed'
    BY <2>1, <2>3 DEF EmuRight, HandlesUsed
  <2> QED
    BY <2>1, <2>3, <2>4, <2>6, <2>7, <2>8, <2>9 DEF EmuRight
<1>3. CASE UNCHANGED <<ev_file, hw>>
  <2>1. \A h \in Handles :
           vn_refcount'[EmuVn(h)] > 0 <=> vn_refcount[EmuVn(h)] > 0
    <3> SUFFICES ASSUME NEW h \in Handles
                 PROVE  vn_refcount'[EmuVn(h)] > 0
                          <=> vn_refcount[EmuVn(h)] > 0
      OBVIOUS
    <3>1. CASE EmuVn(h) # w
      BY <1>1, <3>1, DecrefGives
    <3>2. CASE EmuVn(h) = w
      <4>1. w.fs = EMU /\ w.fs \notin Disks /\ vn_refcount[w] \in Nat
        BY <1>1, <3>2, FsApart
      <4>2. \/ vn_refcount'[w] = vn_refcount[w] - 1 /\ vn_refcount[w] > 1
            \/ vn_refcount'[w] = vn_refcount[w]
            \/ /\ vn_refcount[w] = 1 /\ vn_refcount'[w] = 0
               /\ ev_file' = [ev_file EXCEPT ![w.obj] = NULL]
        BY <4>1, DecrefGives DEF vnvars
      <4>3. w.obj = h
        BY <3>2, VnodeFields DEF EmuVn
      <4>4. vn_refcount[w] = 1 => ev_file[h] # NULL
        BY <3>2 DEF EmuRight, Loaded
      <4>5. ev_file' = [ev_file EXCEPT ![w.obj] = NULL] => ev_file'[h] = NULL
        BY <1>1, <4>3
      <4> QED
        BY <1>3, <3>2, <4>1, <4>2, <4>4, <4>5
    <3> QED
      BY <3>1, <3>2
  <2>2. EmuRight'
    BY <1>3, <2>1, EmuKept
  <2> QED
    BY <1>3, <2>2
<1> QED
  BY <1>2, <1>3, DecrefGives DEF vnvars

\* Giving up a reference that somebody had.
LEMMA CountedGiven ==
  ASSUME Types, Counted, UNCHANGED <<env, knowndevs>>, swapped' = swapped,
         Devices \subseteq knowndevs,
         NEW w \in Vnodes, vn_refcount[w] >= 1, Decref(w),
         \A v \in Vnodes : Refcount(v)' = Refcount(v) - Same(v, w)
  PROVE  Counted'
<1>1. vn_refcount \in [Vnodes -> Nat] /\ vn_refcount' \in [Vnodes -> Nat]
  BY DecrefGives DEF Types
<1>2. \A v \in Vnodes : /\ Refcount(v) \in Nat
                        /\ Refcount(v)' \in Nat
                        /\ Refcount(v)' >= Keeps(knowndevs, v)
  <2>1. swapped \in [Disks -> Nat]
    BY DEF Types
  <2>2. \A v \in Vnodes : Refcount(v) \in Nat
    BY <2>1, HoldersNat DEF Refcount
  <2> QED
    BY <2>1, <2>2, HoldersNat DEF Refcount
<1> SUFFICES ASSUME NEW v \in Vnodes
             PROVE  /\ vn_refcount'[v] >= Refcount(v)'
                    /\ v.fs # EMU \/ ~Media =>
                         vn_refcount'[v] = Refcount(v)'
  BY DEF Counted, Media
<1>3. /\ vn_refcount[v] >= Refcount(v)
      /\ v.fs # EMU \/ ~Media => vn_refcount[v] = Refcount(v)
  BY DEF Counted
<1>4. CASE v # w
  <2>1. Same(v, w) = 0
    BY <1>4 DEF Same, Keeps, In
  <2>2. Refcount(v)' = Refcount(v) /\ vn_refcount'[v] = vn_refcount[v]
    BY <1>2, <1>4, <2>1, DecrefGives
  <2> QED
    BY <1>3, <2>2
<1>5. CASE v = w
  <2>1. Same(v, w) = 1
    BY <1>5 DEF Same, Keeps, In
  <2>2. Refcount(v)' = Refcount(v) - 1
    BY <2>1
  <2>3. CASE vn_refcount'[w] = vn_refcount[w] - 1
    BY <1>1, <1>2, <1>3, <1>5, <2>2, <2>3
  <2>4. CASE vn_refcount[w] = 1 /\ vn_refcount'[w] = 0
    BY <1>1, <1>2, <1>3, <1>5, <2>2, <2>4
  <2>5. CASE vn_refcount[w] = 1 /\ UNCHANGED vnvars /\ w.fs = EMU /\ Media
    <3>1. vn_refcount'[w] = 1
      BY <2>5 DEF vnvars
    <3> QED
      BY <1>1, <1>2, <1>3, <1>5, <2>2, <2>5, <3>1
  <2>6. CASE vn_refcount[w] = 1 /\ UNCHANGED vnvars /\ w.fs = "none"
    <3>1. Kept(knowndevs, v)
      BY <1>5, <2>6, VnodeIs DEF Kept
    <3>2. Keeps(knowndevs, v) = 1
      BY <3>1 DEF Same, Keeps, In
    <3>3. vn_refcount[v] = Refcount(v)
      BY <1>3, <1>5, <2>6, FsApart
    <3> QED
      BY <1>2, <1>5, <2>2, <2>6, <3>2, <3>3
  <2> QED
    BY <2>3, <2>4, <2>5, <2>6, DecrefGives
<1> QED
  BY <1>4, <1>5

-----------------------------------------------------------------------------
\* The step of a thread t: it goes to a label with locals l, an open file o, a
\* current directory c and a boot directory b.
Moves(t, label, l, o, c, b) ==
    /\ pc' = [pc EXCEPT ![t] = label]
    /\ loc' = [loc EXCEPT ![t] = l]
    /\ open' = [open EXCEPT ![t] = o]
    /\ t_cwd' = [t_cwd EXCEPT ![t] = c]
    /\ bootfs_vnode' = b
    /\ UNCHANGED <<knowndevs, swapped, env>>

\* How many more there are then that have v.
Gain(t, l, o, c, b, v) ==
    (Same(o, v) - Same(open[t], v)) + (Same(c, v) - Same(t_cwd[t], v))
      + (Same(l.dir, v) - Same(loc[t].dir, v))
      + (Same(l.dir2, v) - Same(loc[t].dir2, v))
      + (Same(l.vn, v) - Same(loc[t].vn, v))
      + (Same(b, v) - Same(bootfs_vnode, v))

\* Nothing is wrong with what the thread has then.
MoveOK(t, label, l, o, c, b) ==
    /\ label \in Labels /\ l \in Locals
    /\ {o, c, b} \subseteq VnOrNull
    /\ CallRight(label, l, o)
    /\ t \in live' \/ (label = "idle" /\ o = NULL /\ c = NULL)

\* Threads come and go one at a time.
LiveBut(t) ==
    /\ live' \in SUBSET Threads /\ live' # {}
    /\ \A u \in Threads : u # t => (u \in live' <=> u \in live)

\* A thread that goes on, with other locals, stays within the types.
LEMMA MoveTypes ==
  ASSUME Types, NEW t \in Threads, NEW label, NEW l, NEW o, NEW c, NEW b,
         Moves(t, label, l, o, c, b), MoveOK(t, label, l, o, c, b)
  PROVE  /\ pc' \in [Threads -> Labels] /\ loc' \in [Threads -> Locals]
         /\ open' \in [Threads -> VnOrNull] /\ t_cwd' \in [Threads -> VnOrNull]
         /\ bootfs_vnode' \in VnOrNull
         /\ knowndevs' \in SUBSET Devices /\ env' \in Environments
         /\ swapped' \in [Disks -> Nat]
BY DEF Types, Moves, MoveOK

\* The others' locals are what they were.
LEMMA MoveOthers ==
  ASSUME Types, NEW t \in Threads, NEW label, NEW l, NEW o, NEW c, NEW b,
         Moves(t, label, l, o, c, b)
  PROVE  /\ pc'[t] = label /\ loc'[t] = l /\ open'[t] = o /\ t_cwd'[t] = c
         /\ bootfs_vnode' = b
         /\ \A u \in Threads : u # t =>
               /\ pc'[u] = pc[u] /\ loc'[u] = loc[u]
               /\ open'[u] = open[u] /\ t_cwd'[u] = t_cwd[u]
BY DEF Types, Moves

\* Its locals are those its new label needs, and the others keep theirs.
LEMMA MoveCalls ==
  ASSUME Types, CallsRight, GoneHaveNothing, Devices \subseteq knowndevs,
         NEW t \in Threads, NEW label, NEW l, NEW o, NEW c, NEW b,
         Moves(t, label, l, o, c, b), MoveOK(t, label, l, o, c, b),
         LiveBut(t)
  PROVE  CallsRight' /\ GoneHaveNothing' /\ Fresh'
<1>1. /\ pc'[t] = label /\ loc'[t] = l /\ open'[t] = o /\ t_cwd'[t] = c
      /\ \A u \in Threads : u # t =>
            /\ pc'[u] = pc[u] /\ loc'[u] = loc[u]
            /\ open'[u] = open[u] /\ t_cwd'[u] = t_cwd[u]
  BY MoveOthers
<1>2. CallsRight'
  <2> SUFFICES ASSUME NEW u \in Threads
               PROVE  CallRight(pc'[u], loc'[u], open'[u])
    BY DEF CallsRight, CallRight
  <2>1. CASE u = t
    BY <1>1, <2>1 DEF MoveOK
  <2>2. CASE u # t
    BY <1>1, <2>2 DEF CallsRight
  <2> QED
    BY <2>1, <2>2
<1>3. GoneHaveNothing'
  BY <1>1 DEF GoneHaveNothing, LiveBut, MoveOK
<1>4. Fresh'
  <2>1. knowndevs' = knowndevs
    BY DEF Moves
  <2> QED
    BY <2>1 DEF Fresh, Devices
<1> QED
  BY <1>2, <1>3, <1>4

\* The references of a vnode change by what the thread gains or loses of it.
LEMMA MoveCounts ==
  ASSUME Types, NEW t \in Threads, NEW label, NEW l, NEW o, NEW c, NEW b,
         Moves(t, label, l, o, c, b), NEW v
  PROVE  /\ Refcount(v)' = Refcount(v) + Gain(t, l, o, c, b, v)
         /\ Refcount(v) \in Nat /\ Refcount(v)' \in Nat
         /\ Gain(t, l, o, c, b, v) \in Int
<1>1. /\ swapped \in [Disks -> Nat]
      /\ swapped' = swapped /\ knowndevs' = knowndevs
  BY DEF Types, Moves
<1>2. /\ loc'[t] = l /\ open'[t] = o /\ t_cwd'[t] = c /\ bootfs_vnode' = b
      /\ \A u \in Threads : u # t =>
            open'[u] = open[u] /\ t_cwd'[u] = t_cwd[u] /\ loc'[u] = loc[u]
  BY MoveOthers
<1> DEFINE old == HoldersOf(open, t_cwd, loc, bootfs_vnode, knowndevs,
                            swapped, v)
           new == HoldersOf(open', t_cwd', loc', bootfs_vnode', knowndevs,
                            swapped, v)
<1>3. new = old
             + (Same(open'[t], v) - Same(open[t], v))
             + (Same(t_cwd'[t], v) - Same(t_cwd[t], v))
             + (Same(loc'[t].dir, v) - Same(loc[t].dir, v))
             + (Same(loc'[t].dir2, v) - Same(loc[t].dir2, v))
             + (Same(loc'[t].vn, v) - Same(loc[t].vn, v))
             + (Same(bootfs_vnode', v) - Same(bootfs_vnode, v))
  <2>1. \A u \in Threads : u # t =>
            open'[u] = open[u] /\ t_cwd'[u] = t_cwd[u] /\ loc'[u] = loc[u]
    BY <1>2
  <2> QED
    BY <1>1, <2>1, HoldersMove
<1>4. old \in Nat /\ new \in Nat
  BY <1>1, HoldersNat
<1>5. Refcount(v) = old /\ Refcount(v)' = new
  BY <1>1 DEF Refcount
<1> HIDE DEF old, new
<1>6. \A x, y : Same(x, y) \in {0, 1}
  BY DEF Same, Keeps, In
<1>7. new = old + Gain(t, l, o, c, b, v)
  BY <1>2, <1>3, <1>4, <1>6 DEF Gain
<1>8. Gain(t, l, o, c, b, v) \in Int
  BY <1>6 DEF Gain
<1> QED
  BY <1>4, <1>5, <1>7, <1>8

\* A reference to v may be taken: its volume is mounted, and a vnode of the
\* emulator is loaded.
Takable(v) ==
    /\ v.fs \in Disks => kd_fs[v.fs] = "mounted"
    /\ v.fs = EMU => vn_refcount[v] > 0

\* The handle a call has reserved stays with it.
KeepsHandle(t, l) ==
    l.h = loc[t].h /\ (l.h # NULL => l.file = loc[t].file)

\* A directory is one already, or a vnode that is one; those of the
\* emulator are loaded.
GoodDir(v) ==
    v # NULL => \/ v \in {t_cwd[u] : u \in Threads} \union {bootfs_vnode}
                \/ /\ v.fs = EMU => vn_refcount[v] > 0
                   /\ IsDirectory(Kind(v))

\* Current directories are the ones there were, or a new one that is a
\* directory.
LEMMA MoveDirs ==
  ASSUME Types, NEW t \in Threads, NEW label, NEW l, NEW o, NEW c, NEW b,
         Moves(t, label, l, o, c, b), GoodDir(c), GoodDir(b)
  PROVE  \A v \in Vnodes :
            v \in {t_cwd'[u] : u \in Threads} \union {bootfs_vnode'} =>
               \/ v \in {t_cwd[u] : u \in Threads} \union {bootfs_vnode}
               \/ /\ v.fs = EMU => vn_refcount[v] > 0
                  /\ IsDirectory(Kind(v))
<1> SUFFICES ASSUME NEW v \in Vnodes,
                    v \in {t_cwd'[u] : u \in Threads} \union {bootfs_vnode'}
             PROVE  \/ v \in {t_cwd[u] : u \in Threads} \union {bootfs_vnode}
                    \/ /\ v.fs = EMU => vn_refcount[v] > 0
                       /\ IsDirectory(Kind(v))
  OBVIOUS
<1>1. v # NULL
  BY NullAssumption
<1>2. /\ t_cwd'[t] = c /\ bootfs_vnode' = b
      /\ \A u \in Threads : u # t => t_cwd'[u] = t_cwd[u]
  BY MoveOthers
<1>3. v = c \/ v = b \/ v \in {t_cwd[u] : u \in Threads}
  BY <1>2
<1> QED
  BY <1>1, <1>3 DEF GoodDir

\* No handle that emu_open reserved for a call is given to another.
LEMMA MoveHandles ==
  ASSUME Types, NEW t \in Threads, NEW label, NEW l, NEW o, NEW c, NEW b,
         Moves(t, label, l, o, c, b), KeepsHandle(t, l)
  PROVE  \A u \in Threads :
            /\ loc'[u].h = loc[u].h
            /\ loc[u].h # NULL => loc'[u].file = loc[u].file
BY MoveOthers DEF KeepsHandle

\* A step that takes references, passes them on, or does neither, and is
\* right about the emulator.
LEMMA CountsKept ==
  ASSUME Types, Rest, Devices \subseteq knowndevs,
         NEW t \in Threads, NEW label, NEW l, NEW o, NEW c, NEW b,
         Moves(t, label, l, o, c, b), MoveOK(t, label, l, o, c, b),
         LiveBut(t), UNCHANGED <<kd_fs, panic>>,
         vn_refcount' \in [Vnodes -> Nat],
         \A v \in Vnodes :
            /\ vn_refcount'[v] = vn_refcount[v] + Gain(t, l, o, c, b, v)
            /\ \/ vn_refcount'[v] = vn_refcount[v]
               \/ v.fs \in Disks => kd_fs[v.fs] = "mounted",
         ev_file' \in [Handles -> FileOrNull],
         hw' \in [Handles -> FileOrNull],
         \A h \in Handles :
            ev_file'[h] = ev_file[h] \/ vn_refcount[EmuVn(h)] = 0,
         EmuRight', GoodDir(c), GoodDir(b)
  PROVE  Types' /\ Rest'
<1>1. /\ vn_refcount \in [Vnodes -> Nat]
      /\ env' = env /\ knowndevs' = knowndevs
  BY DEF Types, Moves
<1>2. Types'
  BY MoveTypes DEF Types, LiveBut
<1>3. CallsRight' /\ GoneHaveNothing' /\ Fresh'
  BY MoveCalls DEF Rest
<1>4. Counted'
  <2> SUFFICES ASSUME NEW v \in Vnodes
               PROVE  /\ vn_refcount'[v] >= Refcount(v)'
                      /\ v.fs # EMU \/ ~Media =>
                           vn_refcount'[v] = Refcount(v)'
    BY <1>1 DEF Counted, Media
  <2>1. /\ vn_refcount[v] >= Refcount(v)
        /\ v.fs # EMU \/ ~Media => vn_refcount[v] = Refcount(v)
    BY DEF Rest, Counted
  <2>2. /\ Refcount(v)' = Refcount(v) + Gain(t, l, o, c, b, v)
        /\ Refcount(v) \in Nat /\ Refcount(v)' \in Nat
        /\ Gain(t, l, o, c, b, v) \in Int
    BY MoveCounts
  <2>3. /\ vn_refcount[v] \in Nat
        /\ vn_refcount'[v] = vn_refcount[v] + Gain(t, l, o, c, b, v)
    BY <1>1
  <2> QED
    BY <2>1, <2>2, <2>3
<1>5. FsStays'
  <2>1. \A v \in Vnodes : vn_refcount[v] \in Nat /\ vn_refcount'[v] \in Nat
    BY <1>1
  <2>2. \A v \in Vnodes : \/ v.fs \in Disks => kd_fs[v.fs] = "mounted"
                          \/ vn_refcount'[v] <= vn_refcount[v]
    BY <2>1
  <2> QED
    BY <2>1, <2>2, FsKept DEF Rest
<1>6. DirsRight'
  BY <1>2, <1>4, MoveDirs, DirsKept DEF Rest
<1>7. NoPanic'
  BY <1>1 DEF Rest, NoPanic
<1> QED
  BY <1>2, <1>3, <1>4, <1>5, <1>6, <1>7 DEF Rest

\* Such a step that leaves the emulator alone.
LEMMA TakesKept ==
  ASSUME Types, Rest, Devices \subseteq knowndevs,
         NEW t \in Threads, NEW label, NEW l, NEW o, NEW c, NEW b,
         Moves(t, label, l, o, c, b), MoveOK(t, label, l, o, c, b),
         LiveBut(t), UNCHANGED <<kd_fs, ev_file, hw, panic>>,
         vn_refcount' \in [Vnodes -> Nat],
         \A v \in Vnodes :
            /\ vn_refcount'[v] = vn_refcount[v] + Gain(t, l, o, c, b, v)
            /\ \/ vn_refcount'[v] = vn_refcount[v]
               \/ vn_refcount'[v] > vn_refcount[v] /\ Takable(v),
         KeepsHandle(t, l), GoodDir(c), GoodDir(b)
  PROVE  Types' /\ Rest'
<1>1. /\ vn_refcount \in [Vnodes -> Nat]
      /\ env' = env /\ knowndevs' = knowndevs
      /\ ev_file' \in [Handles -> FileOrNull]
      /\ hw' \in [Handles -> FileOrNull]
  BY DEF Types, Moves
<1>2. EmuRight'
  <2>1. \A h \in Handles :
           vn_refcount'[EmuVn(h)] > 0 <=> vn_refcount[EmuVn(h)] > 0
    <3> SUFFICES ASSUME NEW h \in Handles
                 PROVE  vn_refcount'[EmuVn(h)] > 0
                          <=> vn_refcount[EmuVn(h)] > 0
      OBVIOUS
    <3>1. EmuVn(h) \in Vnodes /\ EmuVn(h).fs = EMU
      BY VnodeMade, VnodeFields DEF EmuVn
    <3>2. vn_refcount[EmuVn(h)] \in Nat /\ vn_refcount'[EmuVn(h)] \in Nat
      BY <1>1, <3>1
    <3> QED
      BY <3>1, <3>2 DEF Takable
  <2>2. \A u \in Threads :
            /\ loc'[u].h = loc[u].h
            /\ loc[u].h # NULL => loc'[u].file = loc[u].file
    BY MoveHandles
  <2> QED
    BY <1>1, <2>1, <2>2, EmuKept DEF Rest
<1>3. \A v \in Vnodes :
         /\ vn_refcount'[v] = vn_refcount[v] + Gain(t, l, o, c, b, v)
         /\ \/ vn_refcount'[v] = vn_refcount[v]
            \/ v.fs \in Disks => kd_fs[v.fs] = "mounted"
  BY DEF Takable
<1> QED
  BY <1>1, <1>2, <1>3, CountsKept

\* A step that gives a reference up.
LEMMA GivesKept ==
  ASSUME Types, Rest, Devices \subseteq knowndevs,
         NEW t \in Threads, NEW label, NEW l, NEW o, NEW c, NEW b,
         Moves(t, label, l, o, c, b), MoveOK(t, label, l, o, c, b),
         LiveBut(t), UNCHANGED <<kd_fs, panic>>,
         NEW w \in Vnodes, vn_refcount[w] >= 1, Decref(w),
         \A v \in Vnodes : Gain(t, l, o, c, b, v) = 0 - Same(v, w),
         KeepsHandle(t, l), GoodDir(c), GoodDir(b)
  PROVE  Types' /\ Rest'
<1>1. /\ vn_refcount \in [Vnodes -> Nat] /\ vn_refcount' \in [Vnodes -> Nat]
      /\ env' = env /\ knowndevs' = knowndevs /\ swapped' = swapped
  BY DecrefGives DEF Types, Moves
<1>2. Types'
  BY <1>1, MoveTypes, DecrefTypes DEF Types, LiveBut
<1>3. CallsRight' /\ GoneHaveNothing' /\ Fresh'
  BY MoveCalls DEF Rest
<1>4. Counted'
  <2>1. \A v \in Vnodes : Refcount(v)' = Refcount(v) - Same(v, w)
    <3> SUFFICES ASSUME NEW v \in Vnodes
                 PROVE  Refcount(v)' = Refcount(v) - Same(v, w)
      OBVIOUS
    <3>1. Refcount(v)' = Refcount(v) + Gain(t, l, o, c, b, v)
      BY MoveCounts
    <3>2. Refcount(v) \in Nat
      BY MoveCounts
    <3>3. Gain(t, l, o, c, b, v) = 0 - Same(v, w) /\ Same(v, w) \in {0, 1}
      BY DEF Same
    <3> QED
      BY <3>1, <3>2, <3>3
  <2> QED
    BY <1>1, <2>1, CountedGiven DEF Rest
<1>5. FsStays'
  <2>1. \A v \in Vnodes : vn_refcount[v] \in Nat /\ vn_refcount'[v] \in Nat
    BY <1>1
  <2>2. \A v \in Vnodes : vn_refcount'[v] <= vn_refcount[v]
    <3> SUFFICES ASSUME NEW v \in Vnodes
                 PROVE  vn_refcount'[v] <= vn_refcount[v]
      OBVIOUS
    <3>1. CASE v # w
      BY <2>1, <3>1, DecrefGives
    <3>2. CASE v = w
      BY <2>1, <3>2, DecrefGives DEF vnvars
    <3> QED
      BY <3>1, <3>2
  <2> QED
    BY <2>1, <2>2, FsKept DEF Rest
<1>6. /\ EmuRight'
      /\ \A h \in Handles : \/ ev_file'[h] = ev_file[h]
                            \/ vn_refcount'[EmuVn(h)] = 0
  BY <1>1, MoveHandles, EmuGiven DEF Rest
<1>7. DirsRight'
  BY <1>2, <1>4, <1>6, MoveDirs, DirsKept DEF Rest
<1>8. NoPanic'
  BY <1>1 DEF Rest, NoPanic
<1> QED
  BY <1>2, <1>3, <1>4, <1>5, <1>6, <1>7, <1>8 DEF Rest


-----------------------------------------------------------------------------
\* What a thread has that is in a call without a handle reserved.
Calling(t) == /\ Types /\ Rest /\ Devices \subseteq knowndevs
              /\ t \in live /\ loc[t].h = NULL

\* The references of l are those that thread t has.
SameRefs(t, l) ==
    /\ l \in Locals /\ l.h = NULL
    /\ l.dir = loc[t].dir /\ l.dir2 = loc[t].dir2 /\ l.vn = loc[t].vn

Fields == {"dir", "dir2", "vn"}

\* Whatever has a reference, or is a current directory, came after boot.
LEMMA Started ==
  ASSUME Rest, NEW t \in Threads,
         pc[t] # "idle" \/ open[t] # NULL \/ t_cwd[t] # NULL
  PROVE  Devices \subseteq knowndevs
BY DEF Rest, Fresh

\* A vnode that is loaded: its volume is mounted.
LEMMA LoadedMounted ==
  ASSUME Types, FsStays, NEW v \in Vnodes, vn_refcount[v] > 0
  PROVE  Takable(v)
<1>1. CASE v.fs \in Disks
  <2>1. v \in SfsVnodes(v.fs)
    BY <1>1, VnodeIs DEF SfsVnodes
  <2>2. kd_fs[v.fs] = "mounted"
    BY <1>1, <2>1 DEF FsStays
  <2> QED
    BY <2>2 DEF Takable
<1>2. CASE v.fs \notin Disks
  BY <1>2 DEF Takable
<1> QED
  BY <1>1, <1>2

\* What a thread has, as open file, current directory or local, it may take
\* once more: its volume is mounted, or its vnode is loaded.
LEMMA HeldTakable ==
  ASSUME Types, Rest, NEW v \in Vnodes, NEW t \in Threads,
         \/ open[t] = v \/ t_cwd[t] = v \/ bootfs_vnode = v
         \/ loc[t].dir = v \/ loc[t].dir2 = v \/ loc[t].vn = v
  PROVE  Takable(v) /\ vn_refcount[v] \in Nat /\ vn_refcount[v] >= 1
<1>1. vn_refcount[v] \in Nat /\ vn_refcount[v] >= 1
  BY HeldCounts DEF Rest
<1>2. vn_refcount[v] > 0
  BY <1>1
<1> QED
  BY <1>1, <1>2, LoadedMounted DEF Rest

\* The handle of a vnode that is loaded is open, where each has its own.
LEMMA GoodHandle ==
  ASSUME Types, Rest, NEW v \in Vnodes, v.fs = EMU => vn_refcount[v] > 0
  PROVE  BadHandle(v) => "shared" \in env
<1> SUFFICES ASSUME v.fs = EMU, "shared" \notin env
             PROVE  hw[v.obj] # NULL
  BY DEF BadHandle
<1>1. v = EmuVn(v.obj) /\ v.obj \in Handles
  BY VnodeIs DEF EmuVn
<1>2. ev_file[v.obj] # NULL
  BY <1>1 DEF Rest, EmuRight, Loaded
<1> QED
  BY <1>1, <1>2 DEF Rest, EmuRight, RightFile

\* A panic that Breaks lists.
LEMMA PanicKept ==
  ASSUME Types, Rest, NEW why, Panic(why), UNCHANGED env,
         why \in UNION {Breaks[e] : e \in env}
  PROVE  Types' /\ Rest'
<1>1. /\ UNCHANGED <<kd_fs, knowndevs, swapped, vn_refcount, ev_file, hw>>
      /\ UNCHANGED <<t_cwd, bootfs_vnode, open, live, pc, loc>>
  BY DEF Panic, devvars, vnvars, refvars, thvars
<1>2. Types'
  BY <1>1 DEF Types
<1>3. CallsRight' /\ GoneHaveNothing' /\ Fresh'
  BY <1>1 DEF Rest, CallsRight, CallRight, GoneHaveNothing, Fresh
<1>4. Counted'
  BY <1>1 DEF Rest, Counted, Refcount, Media
<1>5. FsStays'
  BY <1>1 DEF Rest, FsStays
<1>6. EmuRight'
  BY <1>1 DEF Rest, EmuRight, Loaded, RightFile, Reserved, HandlesUsed
<1>7. DirsRight'
  BY <1>1 DEF Rest, DirsRight, Kind
<1>8. NoPanic'
  BY DEF NoPanic, Panic
<1> QED
  BY <1>2, <1>3, <1>4, <1>5, <1>6, <1>7, <1>8 DEF Rest

\* What the emulator panics for: a handle that was closed.
LEMMA BadHandleKept ==
  ASSUME Types, Rest, NEW v \in Vnodes, v.fs = EMU => vn_refcount[v] > 0,
         BadHandle(v), Panic("bad handle"), UNCHANGED env
  PROVE  Types' /\ Rest'
<1>1. "shared" \in env
  BY GoodHandle
<1>2. "bad handle" \in Breaks["shared"]
  BY DEF Breaks
<1>3. "bad handle" \in UNION {Breaks[e] : e \in env}
  BY <1>1, <1>2
<1> QED
  BY <1>3, PanicKept

\* Locals with one reference set.
With(l, f, v) == [l EXCEPT ![f] = v]

\* Setting it leaves the other locals.
LEMMA FieldSet ==
  ASSUME NEW l \in Locals, NEW v \in VnOrNull, NEW f \in Fields
  PROVE  /\ With(l, f, v) \in Locals
         /\ With(l, f, v).h = l.h /\ With(l, f, v).file = l.file
         /\ With(l, f, v).path = l.path /\ With(l, f, v).rename = l.rename
         /\ With(l, f, v).dir = IF f = "dir" THEN v ELSE l.dir
         /\ With(l, f, v).dir2 = IF f = "dir2" THEN v ELSE l.dir2
         /\ With(l, f, v).vn = IF f = "vn" THEN v ELSE l.vn
<1>1. CASE f = "dir"
  BY <1>1 DEF Locals, With
<1>2. CASE f = "dir2"
  BY <1>2 DEF Locals, With
<1>3. CASE f = "vn"
  BY <1>3 DEF Locals, With
<1> QED
  BY <1>1, <1>2, <1>3 DEF Fields

\* A step that changes where a thread is and what it carries, no reference.
LEMMA GoKept ==
  ASSUME NEW t \in live, Calling(t), NEW label \in Labels, NEW l,
         SameRefs(t, l), CallRight(label, l, open[t]),
         pc' = [pc EXCEPT ![t] = label], loc' = [loc EXCEPT ![t] = l],
         UNCHANGED <<devvars, vnvars, refvars, live, env, panic>>
  PROVE  Types' /\ Rest'
<1>0. t \in Threads
  BY DEF Calling, Types
<1> DEFINE o == open[t]
           c == t_cwd[t]
           b == bootfs_vnode
<1>1. /\ UNCHANGED <<kd_fs, knowndevs, swapped, vn_refcount, ev_file, hw>>
      /\ UNCHANGED <<t_cwd, bootfs_vnode, open, live, env, panic>>
  BY DEF devvars, vnvars, refvars
<1>2. Moves(t, label, l, o, c, b)
  BY <1>0, <1>1 DEF Moves, Calling, Types
<1>3. MoveOK(t, label, l, o, c, b) /\ LiveBut(t)
  BY <1>0, <1>1 DEF MoveOK, LiveBut, Calling, Types, SameRefs
<1>4. \A v \in Vnodes : Gain(t, l, o, c, b, v) = 0
  BY DEF Gain, SameRefs, Same
<1>5. KeepsHandle(t, l) /\ GoodDir(c) /\ GoodDir(b)
  BY <1>0 DEF KeepsHandle, GoodDir, Calling, SameRefs
<1>6. vn_refcount' \in [Vnodes -> Nat]
  BY <1>1 DEF Calling, Types
<1>7. \A v \in Vnodes :
         /\ vn_refcount'[v] = vn_refcount[v] + Gain(t, l, o, c, b, v)
         /\ vn_refcount'[v] = vn_refcount[v]
  BY <1>1, <1>4, <1>6
<1> HIDE DEF o, c, b
<1> QED
  BY <1>0, <1>1, <1>2, <1>3, <1>5, <1>6, <1>7, TakesKept DEF Calling

\* The end of a call that failed: its references come next, if it has any.
LEMMA DropNext ==
  ASSUME NEW t \in live, Calling(t), Refs(loc[t]) # {}, Goto(t, "drop"),
         UNCHANGED <<devvars, vnvars, refvars, live, loc, env, panic>>
  PROVE  Types' /\ Rest'
<1>1. t \in Threads /\ loc[t] \in Locals
  BY DEF Calling, Types
<1>2. loc' = [loc EXCEPT ![t] = loc[t]]
  BY <1>1 DEF Calling, Types
<1>3. SameRefs(t, loc[t])
  BY <1>1 DEF SameRefs, Calling
<1>4. CallRight("drop", loc[t], open[t])
  <2>1. CallRight(pc[t], loc[t], open[t])
    BY <1>1 DEF Calling, Rest, CallsRight
  <2> QED
    BY <2>1 DEF CallRight, Calling, Refs
<1> QED
  BY <1>2, <1>3, <1>4, GoKept DEF Goto, Labels

\* A thread outside the calls has no reference and no handle.
LEMMA NoLocIs == /\ NoLoc \in Locals /\ NoLoc.h = NULL
                 /\ NoLoc.dir = NULL /\ NoLoc.dir2 = NULL /\ NoLoc.vn = NULL
BY DEF NoLoc, Locals, VnOrNull, FileOrNull

\* A call may always return, having dropped what it had.
LEMMA IdleRight ==
  ASSUME NEW o
  PROVE  CallRight("idle", NoLoc, o)
BY NoLocIs DEF CallRight

\* Returning an error, once the references the call has are dropped.
LEMMA AbandonKept ==
  ASSUME NEW t \in live, Calling(t), Abandon(t),
         UNCHANGED <<devvars, vnvars, refvars, live, env, panic>>
  PROVE  Types' /\ Rest'
<1>1. CASE Refs(loc[t]) = {}
  <2>1. pc' = [pc EXCEPT ![t] = "idle"] /\ loc' = [loc EXCEPT ![t] = NoLoc]
    BY <1>1 DEF Abandon, Return, Goto, Set
  <2>2. loc[t].dir = NULL /\ loc[t].dir2 = NULL /\ loc[t].vn = NULL
    BY <1>1 DEF Refs
  <2>3. SameRefs(t, NoLoc)
    BY <2>2, NoLocIs DEF SameRefs
  <2> QED
    BY <2>1, <2>3, IdleRight, GoKept DEF Labels
<1>2. CASE Refs(loc[t]) # {}
  BY <1>2, DropNext DEF Abandon
<1> QED
  BY <1>1, <1>2

\* A call that fails: the error is returned on every path of the code.
LEMMA FailsKept ==
  ASSUME NEW t \in live, Calling(t), Fails(t), UNCHANGED env
  PROVE  Types' /\ Rest'
BY AbandonKept DEF Fails

-----------------------------------------------------------------------------
\* Path lookup.

\* Taking a reference to w into the local f.
LEMMA GainOne ==
  ASSUME NEW t \in Threads, NEW l, SameRefs(t, l), NEW w \in Vnodes,
         NEW f \in Fields, l[f] = NULL, NEW v \in Vnodes
  PROVE  Gain(t, With(l, f, w), open[t], t_cwd[t], bootfs_vnode, v) =
            Same(v, w)
<1> DEFINE m == With(l, f, w)
           d == Same(m.dir, v) - Same(loc[t].dir, v)
           d2 == Same(m.dir2, v) - Same(loc[t].dir2, v)
           n == Same(m.vn, v) - Same(loc[t].vn, v)
<1>1. l \in Locals /\ w \in VnOrNull
  BY DEF SameRefs, VnOrNull
<1>2. /\ m.dir = IF f = "dir" THEN w ELSE l.dir
      /\ m.dir2 = IF f = "dir2" THEN w ELSE l.dir2
      /\ m.vn = IF f = "vn" THEN w ELSE l.vn
  BY <1>1, FieldSet
<1>3. Gain(t, m, open[t], t_cwd[t], bootfs_vnode, v) = d + d2 + n
  <2>1. \A x : Same(x, v) \in {0, 1}
    BY DEF Same
  <2> QED
    BY <2>1 DEF Gain
<1>4. Same(NULL, v) = 0 /\ Same(w, v) = Same(v, w) /\ Same(v, w) \in {0, 1}
  BY NullAssumption DEF Same
<1>5. \A x : Same(x, v) - Same(x, v) = 0
  BY DEF Same
<1>6. d = (IF f = "dir" THEN Same(v, w) ELSE 0)
  BY <1>2, <1>4, <1>5 DEF SameRefs
<1>7. d2 = (IF f = "dir2" THEN Same(v, w) ELSE 0)
  BY <1>2, <1>4, <1>5 DEF SameRefs
<1>8. n = (IF f = "vn" THEN Same(v, w) ELSE 0)
  BY <1>2, <1>4, <1>5 DEF SameRefs
<1> HIDE DEF d, d2, n
<1>9. d + d2 + n = Same(v, w)
  BY <1>4, <1>6, <1>7, <1>8 DEF Fields
<1> QED
  BY <1>3, <1>9

\* Where the thread is then, and that the count of w follows.
LEMMA FindMoves ==
  ASSUME NEW t \in live, Calling(t), NEW l, SameRefs(t, l),
         NEW w \in Vnodes, NEW f \in Fields, l[f] = NULL,
         NEW label \in Labels, NEW m, m = With(l, f, w),
         CallRight(label, m, open[t]), Set(t, m), Goto(t, label), Incref(w),
         UNCHANGED <<devvars, refvars, live, env>>
  PROVE  /\ t \in Threads
         /\ Moves(t, label, m, open[t], t_cwd[t], bootfs_vnode)
         /\ MoveOK(t, label, m, open[t], t_cwd[t], bootfs_vnode)
         /\ LiveBut(t) /\ KeepsHandle(t, m)
         /\ GoodDir(t_cwd[t]) /\ GoodDir(bootfs_vnode)
         /\ vn_refcount' \in [Vnodes -> Nat] /\ vn_refcount'[w] > 0
         /\ \A v \in Vnodes :
               /\ v # w => vn_refcount'[v] = vn_refcount[v]
               /\ vn_refcount'[v] = vn_refcount[v]
                     + Gain(t, m, open[t], t_cwd[t], bootfs_vnode, v)
               /\ v = w => vn_refcount'[v] > vn_refcount[v]
<1>1. t \in Threads
  BY DEF Calling, Types
<1>2. /\ UNCHANGED <<kd_fs, knowndevs, swapped, t_cwd, bootfs_vnode, open>>
      /\ UNCHANGED <<live, env>>
  BY DEF devvars, refvars
<1>3. l \in Locals /\ w \in VnOrNull
  BY DEF SameRefs, VnOrNull
<1>4. m \in Locals /\ m.h = l.h
  BY <1>3, FieldSet
<1>5. Moves(t, label, m, open[t], t_cwd[t], bootfs_vnode)
  BY <1>1, <1>2 DEF Moves, Set, Goto, Calling, Types
<1>6. MoveOK(t, label, m, open[t], t_cwd[t], bootfs_vnode)
  BY <1>1, <1>2, <1>4 DEF MoveOK, Calling, Types
<1>7. LiveBut(t)
  BY <1>2 DEF LiveBut, Calling, Types
<1>8. KeepsHandle(t, m)
  BY <1>4 DEF KeepsHandle, SameRefs, Calling
<1>9. GoodDir(t_cwd[t]) /\ GoodDir(bootfs_vnode)
  BY <1>1 DEF GoodDir
<1>10. /\ vn_refcount \in [Vnodes -> Nat]
       /\ vn_refcount' = [vn_refcount EXCEPT ![w] = @ + 1]
  BY DEF Calling, Types, Incref
<1>11. /\ vn_refcount' \in [Vnodes -> Nat] /\ vn_refcount'[w] > 0
       /\ vn_refcount'[w] = vn_refcount[w] + 1
       /\ \A v \in Vnodes : v # w => vn_refcount'[v] = vn_refcount[v]
  BY <1>10
<1>12. ASSUME NEW v \in Vnodes
       PROVE  /\ v # w => vn_refcount'[v] = vn_refcount[v]
              /\ vn_refcount'[v] = vn_refcount[v]
                    + Gain(t, m, open[t], t_cwd[t], bootfs_vnode, v)
              /\ v = w => vn_refcount'[v] > vn_refcount[v]
  <2>1. Gain(t, m, open[t], t_cwd[t], bootfs_vnode, v) = Same(v, w)
    BY <1>1, GainOne
  <2>2. Same(v, w) = IF v = w THEN 1 ELSE 0
    BY DEF Same
  <2>3. vn_refcount[v] \in Nat
    BY <1>10
  <2> QED
    BY <1>11, <2>1, <2>2, <2>3
<1> QED
  BY <1>1, <1>5, <1>6, <1>7, <1>8, <1>9, <1>11, <1>12

\* VOP_INCREF of what vfs_lookup or vfs_lookparent found.
LEMMA FoundKept ==
  ASSUME NEW t \in live, Calling(t), NEW l, SameRefs(t, l),
         NEW w \in Vnodes, Takable(w), NEW f \in Fields, l[f] = NULL,
         NEW label \in Labels,
         CallRight(label, With(l, f, w), open[t]),
         Found(t, w, l, f, label), UNCHANGED env
  PROVE  Types' /\ Rest'
<1> DEFINE m == With(l, f, w)
           o == open[t]
           c == t_cwd[t]
           b == bootfs_vnode
<1>1. /\ Set(t, m) /\ Goto(t, label) /\ Incref(w)
      /\ UNCHANGED <<devvars, refvars, live, env, ev_file, hw, panic>>
  BY DEF Found, With
<1>2. UNCHANGED <<devvars, refvars, live, env>> /\ CallRight(label, m, o)
  BY <1>1
<1>3. m = With(l, f, w)
  OBVIOUS
<1> HIDE DEF m
<1>4. /\ t \in Threads
      /\ Moves(t, label, m, o, c, b) /\ MoveOK(t, label, m, o, c, b)
      /\ LiveBut(t) /\ KeepsHandle(t, m) /\ GoodDir(c) /\ GoodDir(b)
      /\ vn_refcount' \in [Vnodes -> Nat]
      /\ \A v \in Vnodes :
            /\ v # w => vn_refcount'[v] = vn_refcount[v]
            /\ vn_refcount'[v] = vn_refcount[v] + Gain(t, m, o, c, b, v)
            /\ v = w => vn_refcount'[v] > vn_refcount[v]
  BY <1>1, <1>2, <1>3, FindMoves
<1> HIDE DEF o, c, b
<1>5. UNCHANGED <<kd_fs, ev_file, hw, panic>>
  BY <1>1 DEF devvars
<1>6. \A v \in Vnodes :
         /\ vn_refcount'[v] = vn_refcount[v] + Gain(t, m, o, c, b, v)
         /\ \/ vn_refcount'[v] = vn_refcount[v]
            \/ vn_refcount'[v] > vn_refcount[v] /\ Takable(v)
  BY <1>4
<1> QED
  BY <1>4, <1>5, <1>6, TakesKept DEF Calling

\* The handle the emulator gives is nobody's, where each has its own.
LEMMA HandleForIs ==
  ASSUME Types, NEW file, HandleFor(file) # NULL
  PROVE  /\ HandleFor(file) \in Handles
         /\ "shared" \notin env => hw[HandleFor(file)] = NULL
<1> DEFINE same == {h \in Handles : "shared" \in env /\ hw[h] = file}
           from == IF same # {} THEN same ELSE FreeHandles
<1>1. HandleFor(file) = IF from = {} THEN NULL ELSE CHOOSE h \in from : TRUE
  BY DEF HandleFor
<1>2. HandleFor(file) \in from
  BY <1>1
<1>3. CASE "shared" \in env
  BY <1>2, <1>3 DEF FreeHandles
<1>4. CASE "shared" \notin env
  BY <1>2, <1>4 DEF FreeHandles
<1> QED
  BY <1>3, <1>4

\* A handle that nothing is open on has no vnode and is reserved by nobody.
LEMMA FreeHandle ==
  ASSUME Types, Rest, "shared" \notin env, NEW n \in Handles, hw[n] = NULL
  PROVE  /\ ev_file[n] = NULL /\ vn_refcount[EmuVn(n)] = 0
         /\ \A u \in Threads : loc[u].h # n
<1>1. ev_file[n] = NULL
  BY DEF Rest, EmuRight, RightFile
<1>2. vn_refcount[EmuVn(n)] = 0
  <2>1. vn_refcount[EmuVn(n)] \in Nat
    BY VnodeMade DEF Types
  <2>2. ~(vn_refcount[EmuVn(n)] > 0)
    BY <1>1 DEF Rest, EmuRight, Loaded
  <2> QED
    BY <2>1, <2>2
<1>3. ASSUME NEW u \in Threads, loc[u].h = n PROVE FALSE
  <2>1. n # NULL
    BY NullAssumption
  <2>2. CallRight(pc[u], loc[u], open[u])
    BY DEF Rest, CallsRight
  <2>3. loc[u].file # NULL
    BY <1>3, <2>1, <2>2 DEF CallRight
  <2>4. hw[n] = loc[u].file
    BY <1>3, <2>1 DEF Rest, EmuRight, Reserved
  <2> QED
    BY <2>3, <2>4
<1> QED
  BY <1>1, <1>2, <1>3

\* The vnode of a handle that an open of file has got.
LEMMA OpenedRight ==
  ASSUME Types, Rest, NEW n \in Handles, NEW file \in Seq(Names),
         "shared" \notin env => hw[n] = NULL,
         hw' = [hw EXCEPT ![n] = file], Load(n, file),
         UNCHANGED <<env, knowndevs>>,
         \A u \in Threads :
            /\ loc'[u].h = loc[u].h
            /\ loc[u].h # NULL => loc'[u].file = loc[u].file
  PROVE  /\ EmuRight'
         /\ hw' \in [Handles -> FileOrNull]
         /\ ev_file' \in [Handles -> FileOrNull]
         /\ \A h \in Handles :
               ev_file'[h] = ev_file[h] \/ vn_refcount[EmuVn(h)] = 0
<1>1. /\ vn_refcount \in [Vnodes -> Nat]
       /\ ev_file \in [Handles -> FileOrNull]
      /\ hw \in [Handles -> FileOrNull] /\ loc \in [Threads -> Locals]
      /\ \A h \in Handles : EmuVn(h) \in Vnodes /\ EmuVn(h).obj = h
      /\ file \in FileOrNull /\ file # NULL
  BY VnodeMade, VnodeFields, NullAssumption DEF Types, EmuVn, FileOrNull
<1>2. /\ hw' \in [Handles -> FileOrNull] /\ hw'[n] = file
      /\ \A h \in Handles : h # n => hw'[h] = hw[h]
  BY <1>1
<1>3. /\ vn_refcount'[EmuVn(n)] = vn_refcount[EmuVn(n)] + 1
      /\ \A h \in Handles : h # n =>
            vn_refcount'[EmuVn(h)] = vn_refcount[EmuVn(h)]
  BY <1>1 DEF Load, Incref
<1>4. /\ ev_file' \in [Handles -> FileOrNull]
      /\ \A h \in Handles : h # n => ev_file'[h] = ev_file[h]
      /\ \/ vn_refcount[EmuVn(n)] > 0 /\ ev_file'[n] = ev_file[n]
         \/ vn_refcount[EmuVn(n)] = 0 /\ ev_file'[n] = file
  <2>1. CASE vn_refcount[EmuVn(n)] > 0
    BY <1>1, <2>1 DEF Load
  <2>2. CASE ~(vn_refcount[EmuVn(n)] > 0)
    <3>1. vn_refcount[EmuVn(n)] = 0
      BY <1>1, <2>2
    <3>2. ev_file' = [ev_file EXCEPT ![n] = file]
      BY <2>2 DEF Load
    <3> QED
      BY <1>1, <3>1, <3>2
  <2> QED
    BY <2>1, <2>2
<1>5. vn_refcount[EmuVn(n)] \in Nat /\ vn_refcount'[EmuVn(n)] > 0
  BY <1>1, <1>3
<1>6. Loaded'
  <2>1. ev_file'[n] # NULL
    BY <1>1, <1>4, <1>5 DEF Rest, EmuRight, Loaded
  <2>2. \A h \in Handles : ev_file[h] # NULL <=> vn_refcount[EmuVn(h)] > 0
    BY DEF Rest, EmuRight, Loaded
  <2> QED
    BY <1>3, <1>4, <1>5, <2>1, <2>2 DEF Loaded
<1>7. "shared" \notin env =>
         /\ ev_file[n] = NULL /\ vn_refcount[EmuVn(n)] = 0
         /\ \A u \in Threads : loc[u].h # n
  BY FreeHandle
<1>8. RightFile'
  BY <1>2, <1>4, <1>7 DEF Rest, EmuRight, RightFile
<1>9. Reserved'
  <2> SUFFICES ASSUME "shared" \notin env, NEW t \in Threads,
                      loc'[t].h # NULL
               PROVE  /\ hw'[loc'[t].h] = loc'[t].file
                      /\ ev_file'[loc'[t].h] = NULL
                      /\ \A u \in Threads : u # t => loc'[u].h # loc'[t].h
    BY DEF Reserved
  <2>1. /\ hw[loc[t].h] = loc[t].file /\ ev_file[loc[t].h] = NULL
        /\ \A u \in Threads : u # t => loc[u].h # loc[t].h
    BY DEF Rest, EmuRight, Reserved
  <2>2. loc[t].h \in Handles /\ loc[t].h # n
    BY <1>1, <1>7 DEF Locals
  <2> QED
    BY <1>2, <1>4, <2>1, <2>2
<1>10. HandlesUsed'
  BY <1>2, <1>3, <1>5 DEF Rest, EmuRight, HandlesUsed
<1>11. \A h \in Handles :
          ev_file'[h] = ev_file[h] \/ vn_refcount[EmuVn(h)] = 0
  BY <1>4
<1>12. EmuRight'
  BY <1>6, <1>8, <1>9, <1>10 DEF EmuRight
<1> QED
  BY <1>2, <1>4, <1>11, <1>12

\* emufs_lookup: a vnode that is loaded already is taken, another one is
\* opened and loaded, which may fail.
LEMMA EmuFindKept ==
  ASSUME NEW t \in live, Calling(t), NEW l, SameRefs(t, l),
         NEW h \in Handles, hw[h] # NULL, NEW name \in Names,
         NEW f \in Fields, l[f] = NULL, NEW label \in Labels,
         \A n \in Handles : CallRight(label, With(l, f, EmuVn(n)), open[t]),
         EmuFind(t, h, name, l, f, label), UNCHANGED env
  PROVE  Types' /\ Rest'
<1> DEFINE file == Append(hw[h], name)
           n == HandleFor(file)
           w == EmuVn(n)
           m == With(l, f, w)
           o == open[t]
           c == t_cwd[t]
           b == bootfs_vnode
<1>1. \/ Fails(t)
      \/ Abandon(t) /\ UNCHANGED <<devvars, vnvars, refvars, live, panic>>
      \/ /\ n # NULL
         /\ hw' = [hw EXCEPT ![n] = file] /\ Load(n, file)
         /\ Set(t, m) /\ Goto(t, label)
         /\ UNCHANGED <<devvars, refvars, live, panic>>
  BY DEF EmuFind, With
<1>2. CASE Fails(t)
  BY <1>2, FailsKept
<1>3. CASE Abandon(t) /\ UNCHANGED <<devvars, vnvars, refvars, live, panic>>
  BY <1>3, AbandonKept
<1>4. CASE /\ n # NULL
           /\ hw' = [hw EXCEPT ![n] = file] /\ Load(n, file)
           /\ Set(t, m) /\ Goto(t, label)
           /\ UNCHANGED <<devvars, refvars, live, panic>>
  <2>0. Types /\ Rest /\ Devices \subseteq knowndevs
    BY DEF Calling
  <2>1. file \in Seq(Names)
    <3>1. hw[h] \in Seq(Names)
      BY <2>0 DEF Types, FileOrNull
    <3> QED
      BY <3>1
  <2>2. n \in Handles /\ ("shared" \notin env => hw[n] = NULL)
    BY <1>4, <2>0, HandleForIs
  <2> HIDE DEF file, n
  <2>3. /\ w \in Vnodes /\ w.fs = EMU
    BY <2>2, VnodeMade, VnodeFields DEF EmuVn
  <2>4. CallRight(label, m, o) /\ Incref(w)
    BY <1>4, <2>2 DEF Load
  <2>5. m = With(l, f, w)
    OBVIOUS
  <2> HIDE DEF w, m
  <2>6. UNCHANGED <<devvars, refvars, live, env>>
    BY <1>4
  <2>7. /\ t \in Threads
        /\ Moves(t, label, m, o, c, b) /\ MoveOK(t, label, m, o, c, b)
        /\ LiveBut(t) /\ KeepsHandle(t, m) /\ GoodDir(c) /\ GoodDir(b)
        /\ vn_refcount' \in [Vnodes -> Nat]
        /\ \A v \in Vnodes :
              /\ v # w => vn_refcount'[v] = vn_refcount[v]
              /\ vn_refcount'[v] = vn_refcount[v] + Gain(t, m, o, c, b, v)
              /\ v = w => vn_refcount'[v] > vn_refcount[v]
    BY <1>4, <2>3, <2>4, <2>5, <2>6, FindMoves
  <2> HIDE DEF o, c, b
  <2>8. UNCHANGED <<kd_fs, knowndevs, env, panic>>
    BY <1>4 DEF devvars
  <2>9. \A u \in Threads :
           /\ loc'[u].h = loc[u].h
           /\ loc[u].h # NULL => loc'[u].file = loc[u].file
    BY <2>0, <2>7, MoveHandles
  <2>10. /\ EmuRight'
         /\ hw' \in [Handles -> FileOrNull]
         /\ ev_file' \in [Handles -> FileOrNull]
         /\ \A k \in Handles :
               ev_file'[k] = ev_file[k] \/ vn_refcount[EmuVn(k)] = 0
    BY <1>4, <2>0, <2>1, <2>2, <2>8, <2>9, OpenedRight
  <2>11. \A v \in Vnodes :
            /\ vn_refcount'[v] = vn_refcount[v] + Gain(t, m, o, c, b, v)
            /\ \/ vn_refcount'[v] = vn_refcount[v]
               \/ v.fs \in Disks => kd_fs[v.fs] = "mounted"
    BY <2>3, <2>7, FsApart
  <2> QED
    BY <2>0, <2>7, <2>8, <2>10, <2>11, CountsKept
<1> QED
  BY <1>1, <1>2, <1>3, <1>4

\* The emulator's root directory is always loaded.
LEMMA EmuRootLoaded ==
  ASSUME Types, Rest, EMU \in knowndevs
  PROVE  vn_refcount[EmuRoot] > 0
<1>1. EmuRoot \in Vnodes
  BY VnodeMade
<1>2. vn_refcount[EmuRoot] \in Nat /\ swapped \in [Disks -> Nat]
  BY <1>1 DEF Types
<1>3. /\ Refcount(EmuRoot) \in Nat
      /\ Refcount(EmuRoot) >= Keeps(knowndevs, EmuRoot)
  BY <1>2, HoldersNat DEF Refcount
<1>4. Keeps(knowndevs, EmuRoot) = 1
  BY DEF Keeps, Kept
<1>5. vn_refcount[EmuRoot] >= Refcount(EmuRoot)
  BY <1>1 DEF Rest, Counted
<1> QED
  BY <1>2, <1>3, <1>4, <1>5

\* vfs_getroot finds a vnode that may be taken.
LEMMA GetrootIs ==
  ASSUME Types, Rest, Devices \subseteq knowndevs, NEW name,
         Getroot(name) # NULL
  PROVE  Getroot(name) \in Vnodes /\ Takable(Getroot(name))
<1> DEFINE of == {d \in knowndevs : name \in DevNames(d)}
           d == CHOOSE x \in of : TRUE
<1>1. of # {}
  BY DEF Getroot
<1>2. d \in of
  BY <1>1
<1>3. d \in Devices
  BY <1>2 DEF Types
<1>4. \/ d = EMU /\ Getroot(name) = EmuRoot
      \/ d # EMU /\ Getroot(name) = DevVn(d)
      \/ /\ d \in Disks /\ kd_fs[d] = "mounted"
         /\ Getroot(name) = RootVn(d)
  BY <1>1, FsApart DEF Getroot
<1> HIDE DEF of, d
<1>5. CASE d = EMU /\ Getroot(name) = EmuRoot
  <2>1. EmuRoot \in Vnodes
    BY VnodeMade
  <2> QED
    BY <1>5, <2>1, EmuRootLoaded, LoadedMounted DEF Rest, Devices
<1>6. CASE d # EMU /\ Getroot(name) = DevVn(d)
  <2>1. DevVn(d) \in Vnodes /\ DevVn(d).fs = "none"
    BY <1>3, VnodeMade, VnodeFields DEF DevVn
  <2> QED
    BY <1>6, <2>1, FsApart DEF Takable
<1>7. CASE /\ d \in Disks /\ kd_fs[d] = "mounted"
           /\ Getroot(name) = RootVn(d)
  <2>1. RootVn(d) \in Vnodes /\ RootVn(d).fs = d
    BY <1>7, VnodeMade, VnodeFields DEF RootVn
  <2> QED
    BY <1>7, <2>1, FsApart DEF Takable
<1> QED
  BY <1>4, <1>5, <1>6, <1>7

\* A current directory is on a file system.
LEMMA CwdHasFs ==
  ASSUME Types, Rest, NEW t \in Threads, t_cwd[t] # NULL
  PROVE  /\ t_cwd[t] \in Vnodes
         /\ t_cwd[t].fs # "none" /\ t_cwd[t].fs \in {EMU} \union Disks
<1>1. t_cwd[t] \in Vnodes
  BY DEF Types, VnOrNull
<1>2. IsDirectory(Kind(t_cwd[t]))
  BY DEF Rest, DirsRight
<1>3. ASSUME t_cwd[t].fs = "none" PROVE FALSE
  <2>1. Kind(t_cwd[t]) = "dev"
    BY <1>3, FsApart DEF Kind
  <2> QED
    BY <1>2, <2>1 DEF IsDirectory
<1> QED
  BY <1>1, <1>3, VnodeIs

\* What a path begins at may be taken.
LEMMA StartHeld ==
  ASSUME Types, Rest, Devices \subseteq knowndevs, NEW t \in Threads,
         NEW start
  PROVE  /\ ~NoFs(t, start)
         /\ StartOf(t, start) # NULL =>
               StartOf(t, start) \in Vnodes /\ Takable(StartOf(t, start))
<1>1. ~NoFs(t, start)
  BY CwdHasFs DEF NoFs
<1>2. ASSUME start = "cwd", StartOf(t, start) # NULL
      PROVE  StartOf(t, start) \in Vnodes /\ Takable(StartOf(t, start))
  <2>1. StartOf(t, start) = t_cwd[t] /\ t_cwd[t] \in Vnodes
    BY <1>2 DEF StartOf, Types, VnOrNull
  <2> QED
    BY <2>1, HeldTakable
<1>3. ASSUME start = "/", StartOf(t, start) # NULL
      PROVE  StartOf(t, start) \in Vnodes /\ Takable(StartOf(t, start))
  <2>1. StartOf(t, start) = bootfs_vnode /\ bootfs_vnode \in Vnodes
    BY <1>3 DEF StartOf, Types, VnOrNull
  <2> QED
    BY <2>1, HeldTakable
<1>4. ASSUME start = ":", StartOf(t, start) # NULL
      PROVE  StartOf(t, start) \in Vnodes /\ Takable(StartOf(t, start))
  <2>1. t_cwd[t] # NULL /\ StartOf(t, start) = FsRoot(t_cwd[t].fs)
    BY <1>4 DEF StartOf
  <2>2. /\ t_cwd[t] \in Vnodes /\ t_cwd[t].fs \in {EMU} \union Disks
        /\ Takable(t_cwd[t])
    BY <2>1, CwdHasFs, HeldTakable
  <2>3. CASE t_cwd[t].fs = EMU
    <3>1. EmuRoot \in Vnodes
      BY VnodeMade
    <3>2. Takable(EmuRoot)
      BY <3>1, EmuRootLoaded, LoadedMounted DEF Rest, Devices
    <3> QED
      BY <2>1, <2>3, <3>1, <3>2 DEF FsRoot
  <2>4. CASE t_cwd[t].fs \in Disks
    <3> DEFINE d == t_cwd[t].fs
    <3>1. RootVn(d) \in Vnodes /\ RootVn(d).fs = d
      BY <2>4, VnodeMade, VnodeFields DEF RootVn
    <3>2. kd_fs[d] = "mounted"
      BY <2>2, <2>4 DEF Takable
    <3> QED
      BY <2>1, <2>4, <3>1, <3>2, FsApart DEF Takable, FsRoot
  <2> QED
    BY <2>2, <2>3, <2>4
<1>5. ASSUME start \notin {"cwd", "/", ":"}, StartOf(t, start) # NULL
      PROVE  StartOf(t, start) \in Vnodes /\ Takable(StartOf(t, start))
  <2>1. StartOf(t, start) = Getroot(start)
    BY <1>5 DEF StartOf
  <2> QED
    BY <1>5, <2>1, GetrootIs
<1> QED
  BY <1>1, <1>2, <1>3, <1>4, <1>5

\* vfs_lookup, whatever becomes of it.
LEMMA LookupKept ==
  ASSUME NEW t \in live, Calling(t), NEW p \in Paths, NEW l, SameRefs(t, l),
         l.vn = NULL, NEW label \in Labels,
         \A v \in Vnodes : CallRight(label, With(l, "vn", v), open[t]),
         Lookup(t, p, l, label), UNCHANGED env
  PROVE  Types' /\ Rest'
<1> DEFINE v == StartOf(t, p.start)
<1>1. t \in Threads /\ Types /\ Rest /\ Devices \subseteq knowndevs
  BY DEF Calling, Types
<1>2. ~NoFs(t, p.start) /\ (v # NULL => v \in Vnodes /\ Takable(v))
  BY <1>1, StartHeld
<1>3. p.last \in Names \union {NULL} /\ "vn" \in Fields /\ l["vn"] = NULL
  BY VfsAssumptions DEF Fields
<1> HIDE DEF v
<1>4. \/ Fails(t)
      \/ v # NULL /\ Found(t, v, l, "vn", label)
      \/ v # NULL /\ BadHandle(v) /\ Panic("bad handle")
      \/ /\ v # NULL /\ ~BadHandle(v) /\ p.last # NULL
         /\ v.fs = EMU /\ EmuFind(t, v.obj, p.last, l, "vn", label)
      \/ /\ v # NULL /\ v.fs \in Disks /\ p.last \in SfsNames
         /\ Found(t, Vn(v.fs, p.last), l, "vn", label)
  BY <1>2 DEF Lookup, v
<1>5. CASE Fails(t)
  BY <1>5, FailsKept
<1>6. CASE v # NULL /\ Found(t, v, l, "vn", label)
  <2>1. /\ v \in Vnodes /\ Takable(v)
        /\ CallRight(label, With(l, "vn", v), open[t])
    BY <1>2, <1>6
  <2> QED
    BY <1>3, <1>6, <2>1, FoundKept
<1>7. CASE v # NULL /\ BadHandle(v) /\ Panic("bad handle")
  <2>1. v \in Vnodes /\ (v.fs = EMU => vn_refcount[v] > 0)
    BY <1>2, <1>7 DEF Takable
  <2> QED
    BY <1>1, <1>7, <2>1, BadHandleKept
<1>8. CASE /\ v # NULL /\ ~BadHandle(v) /\ p.last # NULL
           /\ v.fs = EMU /\ EmuFind(t, v.obj, p.last, l, "vn", label)
  <2>1. v.obj \in Handles /\ hw[v.obj] # NULL
    BY <1>2, <1>8, VnodeIs DEF BadHandle
  <2>2. \A n \in Handles : CallRight(label, With(l, "vn", EmuVn(n)), open[t])
    BY VnodeMade
  <2>3. p.last \in Names
    BY <1>3, <1>8
  <2> QED
    BY <1>3, <1>8, <2>1, <2>2, <2>3, EmuFindKept
<1>9. CASE /\ v # NULL /\ v.fs \in Disks /\ p.last \in SfsNames
           /\ Found(t, Vn(v.fs, p.last), l, "vn", label)
  <2> DEFINE w == Vn(v.fs, p.last)
  <2>1. w \in Vnodes /\ w.fs = v.fs
    BY <1>9, VnodeMade, VnodeFields
  <2>2. Takable(w)
    BY <1>2, <1>9, <2>1, FsApart DEF Takable
  <2>3. /\ CallRight(label, With(l, "vn", w), open[t])
        /\ Found(t, w, l, "vn", label)
    BY <1>9, <2>1
  <2> HIDE DEF w
  <2> QED
    BY <1>3, <2>1, <2>2, <2>3, FoundKept
<1> QED
  BY <1>4, <1>5, <1>6, <1>7, <1>8, <1>9

\* Of the vnodes of a volume the root alone has a lookparent.
LEMMA ParentIsRoot ==
  ASSUME NEW v \in Vnodes, v.fs \in Disks, Vop(Kind(v), "lookparent") = "ok"
  PROVE  v.obj = "root"
<1> SUFFICES ASSUME v.obj # "root" PROVE FALSE
  OBVIOUS
<1>1. Kind(v) = "sfsfile"
  BY FsApart DEF Kind
<1>2. Vop("sfsfile", "lookparent") = "ENOTDIR"
  BY DEF Vop, SfsFileOps, NameOps
<1> QED
  BY <1>1, <1>2

\* vfs_lookparent: the directory it finds on a volume is the root.
LEMMA LookparentKept ==
  ASSUME NEW t \in live, Calling(t), NEW p \in Paths, NEW l, SameRefs(t, l),
         NEW f \in Fields, l[f] = NULL, NEW label \in Labels,
         p.last # NULL =>
            \A v \in Vnodes : (v.fs \in Disks => v.obj = "root") =>
                                  CallRight(label, With(l, f, v), open[t]),
         Lookparent(t, p, l, f, label), UNCHANGED env
  PROVE  Types' /\ Rest'
<1> DEFINE v == StartOf(t, p.start)
<1>1. t \in Threads /\ Types /\ Rest /\ Devices \subseteq knowndevs
  BY DEF Calling, Types
<1>2. ~NoFs(t, p.start) /\ (v # NULL => v \in Vnodes /\ Takable(v))
  BY <1>1, StartHeld
<1>3. p.via \in Names \union {NULL}
  BY VfsAssumptions
<1> HIDE DEF v
<1>4. \/ Fails(t)
      \/ /\ v # NULL /\ p.last # NULL /\ Vop(Kind(v), "lookparent") = "ok"
         /\ Found(t, v, l, f, label)
      \/ v # NULL /\ BadHandle(v) /\ Panic("bad handle")
      \/ /\ v # NULL /\ p.last # NULL /\ ~BadHandle(v) /\ p.via # NULL
         /\ v.fs = EMU /\ EmuFind(t, v.obj, p.via, l, f, label)
  BY <1>2 DEF Lookparent, v
<1>5. CASE Fails(t)
  BY <1>5, FailsKept
<1>6. CASE /\ v # NULL /\ p.last # NULL /\ Vop(Kind(v), "lookparent") = "ok"
           /\ Found(t, v, l, f, label)
  <2>1. v \in Vnodes /\ Takable(v) /\ (v.fs \in Disks => v.obj = "root")
    BY <1>2, <1>6, ParentIsRoot
  <2>2. CallRight(label, With(l, f, v), open[t])
    BY <1>6, <2>1
  <2> QED
    BY <1>6, <2>1, <2>2, FoundKept
<1>7. CASE v # NULL /\ BadHandle(v) /\ Panic("bad handle")
  <2>1. v \in Vnodes /\ (v.fs = EMU => vn_refcount[v] > 0)
    BY <1>2, <1>7 DEF Takable
  <2> QED
    BY <1>1, <1>7, <2>1, BadHandleKept
<1>8. CASE /\ v # NULL /\ p.last # NULL /\ ~BadHandle(v) /\ p.via # NULL
           /\ v.fs = EMU /\ EmuFind(t, v.obj, p.via, l, f, label)
  <2>1. v.obj \in Handles /\ hw[v.obj] # NULL
    BY <1>2, <1>8, VnodeIs DEF BadHandle
  <2>2. \A n \in Handles : CallRight(label, With(l, f, EmuVn(n)), open[t])
    BY <1>8, VnodeMade, VnodeFields, FsApart DEF EmuVn
  <2>3. p.via \in Names
    BY <1>3, <1>8
  <2> QED
    BY <1>8, <2>1, <2>2, <2>3, EmuFindKept
<1> QED
  BY <1>4, <1>5, <1>6, <1>7, <1>8

-----------------------------------------------------------------------------
\* The calls begin: with nothing, then with what their path leads to.
LEMMA CallBegins ==
  ASSUME NEW t \in Threads, Types, Rest, Call(t)
  PROVE  /\ t \in live /\ Calling(t) /\ SameRefs(t, NoLoc)
         /\ loc[t] = NoLoc /\ UNCHANGED env /\ Devices \subseteq knowndevs
<1>1. /\ t \in live /\ pc[t] = "idle" /\ UNCHANGED env
      /\ Devices \subseteq knowndevs
  BY DEF Call, Running
<1>2. loc[t] = NoLoc
  BY <1>1 DEF Rest, CallsRight, CallRight
<1> QED
  BY <1>1, <1>2, NoLocIs DEF Calling, SameRefs

\* What the steps of a call find when they begin.
LEMMA StepBegins ==
  ASSUME NEW t \in Threads, Types, Rest, NEW label, At(t, label),
         label # "idle"
  PROVE  /\ t \in live /\ pc[t] = label /\ UNCHANGED env
         /\ Devices \subseteq knowndevs /\ loc[t] \in Locals
         /\ CallRight(label, loc[t], open[t])
         /\ label \notin {"load", "closeh"} =>
               Calling(t) /\ SameRefs(t, loc[t])
<1>1. t \in live /\ pc[t] = label /\ UNCHANGED env
  BY DEF At, Running
<1>2. CallRight(label, loc[t], open[t])
  BY <1>1 DEF Rest, CallsRight
<1>3. loc[t] \in Locals /\ Devices \subseteq knowndevs
  BY <1>1, Started DEF Types
<1>4. label \notin {"load", "closeh"} => loc[t].h = NULL
  BY <1>2 DEF CallRight
<1> QED
  BY <1>1, <1>2, <1>3, <1>4 DEF Calling, SameRefs

\* vfs_open with O_CREAT.
LEMMA OpenCreatKept ==
  ASSUME NEW t \in Threads, Types, Rest, NEW p \in Paths,
         NEW write \in BOOLEAN, NEW trunc \in BOOLEAN,
         OpenCreat(t, p, write, trunc)
  PROVE  Types' /\ Rest'
<1> DEFINE l == [NoLoc EXCEPT !.write = write, !.creat = TRUE,
                              !.trunc = trunc, !.path = p.last]
<1>1. /\ Call(t) /\ open[t] = NULL /\ Lookparent(t, p, l, "dir", "creat")
  BY DEF OpenCreat
<1>2. /\ t \in live /\ Calling(t) /\ SameRefs(t, NoLoc)
      /\ loc[t] = NoLoc /\ UNCHANGED env
  BY <1>1, CallBegins
<1>3. /\ l \in Locals /\ l.dir = NULL /\ l.dir2 = NULL /\ l.vn = NULL
      /\ l.h = NULL /\ l.path = p.last /\ l["dir"] = NULL
  <2>1. p.last \in Names \union {NULL}
    BY VfsAssumptions
  <2> QED
    BY <2>1, NoLocIs DEF NoLoc, Locals
<1> HIDE DEF l
<1>4. SameRefs(t, l)
  BY <1>2, <1>3, NoLocIs DEF SameRefs
<1>5. "dir" \in Fields /\ "creat" \in Labels
  BY DEF Fields, Labels
<1>6. ASSUME p.last # NULL, NEW v \in Vnodes, v.fs \in Disks => v.obj = "root"
      PROVE  CallRight("creat", With(l, "dir", v), open[t])
  <2>1. v \in VnOrNull /\ v # NULL
    BY NullAssumption DEF VnOrNull
  <2>2. /\ With(l, "dir", v).dir = v /\ With(l, "dir", v).dir2 = NULL
        /\ With(l, "dir", v).vn = NULL /\ With(l, "dir", v).h = NULL
        /\ With(l, "dir", v).path = p.last
    BY <1>3, <1>5, <2>1, FieldSet
  <2> QED
    BY <1>1, <1>6, <2>1, <2>2 DEF CallRight
<1> QED
  BY <1>1, <1>2, <1>3, <1>4, <1>5, <1>6, LookparentKept

\* vfs_open without it.
LEMMA OpenThereKept ==
  ASSUME NEW t \in Threads, Types, Rest, NEW p \in Paths,
         NEW write \in BOOLEAN, NEW trunc \in BOOLEAN,
         OpenThere(t, p, write, trunc)
  PROVE  Types' /\ Rest'
<1> DEFINE l == [NoLoc EXCEPT !.write = write, !.trunc = trunc]
<1>1. Call(t) /\ open[t] = NULL /\ Lookup(t, p, l, "eachopen")
  BY DEF OpenThere
<1>2. /\ t \in live /\ Calling(t) /\ SameRefs(t, NoLoc)
      /\ loc[t] = NoLoc /\ UNCHANGED env
  BY <1>1, CallBegins
<1>3. /\ l \in Locals /\ l.dir = NULL /\ l.dir2 = NULL /\ l.vn = NULL
      /\ l.h = NULL
  BY NoLocIs DEF NoLoc, Locals
<1> HIDE DEF l
<1>4. SameRefs(t, l)
  BY <1>2, <1>3, NoLocIs DEF SameRefs
<1>5. "vn" \in Fields /\ "eachopen" \in Labels
  BY DEF Fields, Labels
<1>6. ASSUME NEW v \in Vnodes
      PROVE  CallRight("eachopen", With(l, "vn", v), open[t])
  <2>1. v \in VnOrNull /\ v # NULL
    BY NullAssumption DEF VnOrNull
  <2>2. /\ With(l, "vn", v).dir = NULL /\ With(l, "vn", v).dir2 = NULL
        /\ With(l, "vn", v).vn = v /\ With(l, "vn", v).h = NULL
    BY <1>3, <1>5, <2>1, FieldSet
  <2> QED
    BY <1>1, <2>1, <2>2 DEF CallRight
<1> QED
  BY <1>1, <1>2, <1>3, <1>4, <1>5, <1>6, LookupKept

\* What NoLoc is with a directory, and with a vnode.
LEMMA NoLocWith ==
  ASSUME NEW v \in Vnodes, NEW f \in Fields
  PROVE  /\ With(NoLoc, f, v).dir = IF f = "dir" THEN v ELSE NULL
         /\ With(NoLoc, f, v).dir2 = IF f = "dir2" THEN v ELSE NULL
         /\ With(NoLoc, f, v).vn = IF f = "vn" THEN v ELSE NULL
         /\ With(NoLoc, f, v).h = NULL /\ v # NULL /\ NoLoc[f] = NULL
<1>1. v \in VnOrNull /\ v # NULL
  BY NullAssumption DEF VnOrNull
<1>2. NoLoc[f] = NULL
  BY DEF NoLoc, Fields
<1> QED
  BY <1>1, <1>2, NoLocIs, FieldSet

\* vfs_remove and the others.
LEMMA NameCallKept ==
  ASSUME NEW t \in Threads, Types, Rest, NEW p \in Paths, NameCall(t, p)
  PROVE  Types' /\ Rest'
<1>1. Call(t) /\ Lookparent(t, p, NoLoc, "dir", "drop")
  BY DEF NameCall
<1>2. /\ t \in live /\ Calling(t) /\ SameRefs(t, NoLoc) /\ UNCHANGED env
  BY <1>1, CallBegins
<1>3. "dir" \in Fields /\ "drop" \in Labels
  BY DEF Fields, Labels
<1>4. NoLoc["dir"] = NULL
  BY DEF NoLoc
<1>5. ASSUME NEW v \in Vnodes, v.fs \in Disks => v.obj = "root"
      PROVE  CallRight("drop", With(NoLoc, "dir", v), open[t])
  BY <1>3, <1>5, NoLocWith DEF CallRight
<1> QED
  BY <1>1, <1>2, <1>3, <1>4, <1>5, LookparentKept

\* vfs_readlink
LEMMA ReadlinkKept ==
  ASSUME NEW t \in Threads, Types, Rest, NEW p \in Paths, Readlink(t, p)
  PROVE  Types' /\ Rest'
<1>1. Call(t) /\ Lookup(t, p, NoLoc, "drop")
  BY DEF Readlink
<1>2. /\ t \in live /\ Calling(t) /\ SameRefs(t, NoLoc) /\ UNCHANGED env
  BY <1>1, CallBegins
<1>3. "vn" \in Fields /\ "drop" \in Labels
  BY DEF Fields, Labels
<1>4. ASSUME NEW v \in Vnodes
      PROVE  CallRight("drop", With(NoLoc, "vn", v), open[t])
  BY <1>3, NoLocWith DEF CallRight
<1> QED
  BY <1>1, <1>2, <1>3, <1>4, NoLocIs, LookupKept

\* vfs_rename, its first path.
LEMMA RenameFirstKept ==
  ASSUME NEW t \in Threads, Types, Rest, NEW p \in Paths, RenameFirst(t, p)
  PROVE  Types' /\ Rest'
<1> DEFINE l == [NoLoc EXCEPT !.rename = TRUE]
<1>1. Call(t) /\ Lookparent(t, p, l, "dir", "second")
  BY DEF RenameFirst
<1>2. /\ t \in live /\ Calling(t) /\ SameRefs(t, NoLoc)
      /\ loc[t] = NoLoc /\ UNCHANGED env
  BY <1>1, CallBegins
<1>3. /\ l \in Locals /\ l.dir = NULL /\ l.dir2 = NULL /\ l.vn = NULL
      /\ l.h = NULL /\ l.rename = TRUE /\ l["dir"] = NULL
  BY NoLocIs DEF NoLoc, Locals
<1> HIDE DEF l
<1>4. SameRefs(t, l)
  BY <1>2, <1>3, NoLocIs DEF SameRefs
<1>5. "dir" \in Fields /\ "second" \in Labels
  BY DEF Fields, Labels
<1>6. ASSUME NEW v \in Vnodes, v.fs \in Disks => v.obj = "root"
      PROVE  CallRight("second", With(l, "dir", v), open[t])
  <2>1. v \in VnOrNull /\ v # NULL
    BY NullAssumption DEF VnOrNull
  <2>2. /\ With(l, "dir", v).dir = v /\ With(l, "dir", v).dir2 = NULL
        /\ With(l, "dir", v).h = NULL /\ With(l, "dir", v).rename = TRUE
    BY <1>3, <1>5, <2>1, FieldSet
  <2> QED
    BY <1>6, <2>1, <2>2 DEF CallRight
<1> QED
  BY <1>1, <1>2, <1>3, <1>4, <1>5, <1>6, LookparentKept

\* vfs_link, its first path.
LEMMA LinkFirstKept ==
  ASSUME NEW t \in Threads, Types, Rest, NEW p \in Paths, LinkFirst(t, p)
  PROVE  Types' /\ Rest'
<1>1. Call(t) /\ Lookup(t, p, NoLoc, "second")
  BY DEF LinkFirst
<1>2. /\ t \in live /\ Calling(t) /\ SameRefs(t, NoLoc) /\ UNCHANGED env
  BY <1>1, CallBegins
<1>3. "vn" \in Fields /\ "second" \in Labels
  BY DEF Fields, Labels
<1>4. ASSUME NEW v \in Vnodes
      PROVE  CallRight("second", With(NoLoc, "vn", v), open[t])
  <2>1. With(NoLoc, "vn", v).rename = FALSE
    <3>1. v \in VnOrNull
      BY DEF VnOrNull
    <3>2. With(NoLoc, "vn", v).rename = NoLoc.rename
      BY <1>3, <3>1, NoLocIs, FieldSet
    <3> QED
      BY <3>2 DEF NoLoc
  <2> QED
    BY <1>3, <2>1, NoLocWith DEF CallRight
<1> QED
  BY <1>1, <1>2, <1>3, <1>4, NoLocIs, LookupKept

\* The second path of both.
LEMMA SecondKept ==
  ASSUME NEW t \in Threads, Types, Rest, NEW p \in Paths, Second(t, p)
  PROVE  Types' /\ Rest'
<1> DEFINE l == loc[t]
<1>1. At(t, "second") /\ Lookparent(t, p, l, "dir2", "both")
  BY DEF Second
<1>2. /\ t \in live /\ Calling(t) /\ SameRefs(t, l) /\ UNCHANGED env
      /\ l \in Locals /\ CallRight("second", l, open[t])
  BY <1>1, StepBegins
<1>3. "dir2" \in Fields /\ "both" \in Labels
  BY DEF Fields, Labels
<1>4. l["dir2"] = NULL
  BY <1>2 DEF CallRight
<1> HIDE DEF l
<1>5. ASSUME NEW v \in Vnodes, v.fs \in Disks => v.obj = "root"
      PROVE  CallRight("both", With(l, "dir2", v), open[t])
  <2>1. v \in VnOrNull /\ v # NULL
    BY NullAssumption DEF VnOrNull
  <2>2. /\ With(l, "dir2", v).dir = l.dir /\ With(l, "dir2", v).dir2 = v
        /\ With(l, "dir2", v).vn = l.vn /\ With(l, "dir2", v).h = l.h
        /\ With(l, "dir2", v).rename = l.rename
    BY <1>2, <1>3, <2>1, FieldSet
  <2> QED
    BY <1>2, <1>5, <2>1, <2>2 DEF CallRight
<1> QED
  BY <1>1, <1>2, <1>3, <1>4, <1>5, LookparentKept

\* vfs_chdir, its path.
LEMMA ChdirKept ==
  ASSUME NEW t \in Threads, Types, Rest, NEW p \in Paths, Chdir(t, p)
  PROVE  Types' /\ Rest'
<1>1. Call(t) /\ Lookup(t, p, NoLoc, "setcurdir")
  BY DEF Chdir
<1>2. /\ t \in live /\ Calling(t) /\ SameRefs(t, NoLoc) /\ UNCHANGED env
  BY <1>1, CallBegins
<1>3. "vn" \in Fields /\ "setcurdir" \in Labels
  BY DEF Fields, Labels
<1>4. ASSUME NEW v \in Vnodes
      PROVE  CallRight("setcurdir", With(NoLoc, "vn", v), open[t])
  BY <1>3, NoLocWith DEF CallRight
<1> QED
  BY <1>1, <1>2, <1>3, <1>4, NoLocIs, LookupKept

\* vfs_getcwd begins.
LEMMA GetcwdKept ==
  ASSUME NEW t \in Threads, Types, Rest, Getcwd(t)
  PROVE  Types' /\ Rest'
<1> DEFINE v == t_cwd[t]
<1>1. Call(t) /\ v # NULL /\ Found(t, v, NoLoc, "vn", "name")
  BY DEF Getcwd
<1>2. /\ t \in live /\ Calling(t) /\ SameRefs(t, NoLoc) /\ UNCHANGED env
  BY <1>1, CallBegins
<1>3. "vn" \in Fields /\ "name" \in Labels
  BY DEF Fields, Labels
<1>4. v \in Vnodes /\ v.fs # "none" /\ Takable(v)
  BY <1>1, CwdHasFs, HeldTakable
<1> HIDE DEF v
<1>5. CallRight("name", With(NoLoc, "vn", v), open[t])
  BY <1>3, <1>4, NoLocWith DEF CallRight
<1>6. NoLoc["vn"] = NULL
  BY DEF NoLoc
<1> QED
  BY <1>1, <1>2, <1>3, <1>4, <1>5, <1>6, FoundKept

-----------------------------------------------------------------------------
\* Calls end: what they took is given up.

\* The locals m are those of thread t without the one in f.
Without(t, f, m) ==
    /\ m \in Locals /\ m.h = NULL
    /\ m.dir = IF f = "dir" THEN NULL ELSE loc[t].dir
    /\ m.dir2 = IF f = "dir2" THEN NULL ELSE loc[t].dir2
    /\ m.vn = IF f = "vn" THEN NULL ELSE loc[t].vn

\* Without it, the vnode has a holder less.
LEMMA GainLess ==
  ASSUME NEW t \in Threads, NEW f \in Fields, NEW w \in Vnodes,
         loc[t][f] = w, NEW m, Without(t, f, m), NEW v \in Vnodes
  PROVE  Gain(t, m, open[t], t_cwd[t], bootfs_vnode, v) = 0 - Same(v, w)
<1> DEFINE d == Same(m.dir, v) - Same(loc[t].dir, v)
           d2 == Same(m.dir2, v) - Same(loc[t].dir2, v)
           n == Same(m.vn, v) - Same(loc[t].vn, v)
<1>1. Gain(t, m, open[t], t_cwd[t], bootfs_vnode, v) = d + d2 + n
  <2>1. \A x : Same(x, v) \in {0, 1}
    BY DEF Same
  <2> QED
    BY <2>1 DEF Gain
<1>2. Same(NULL, v) = 0 /\ Same(w, v) = Same(v, w) /\ Same(v, w) \in {0, 1}
  BY NullAssumption DEF Same
<1>3. \A x : Same(x, v) - Same(x, v) = 0
  BY DEF Same
<1>4. d = (IF f = "dir" THEN 0 - Same(v, w) ELSE 0)
  BY <1>2, <1>3 DEF Without
<1>5. d2 = (IF f = "dir2" THEN 0 - Same(v, w) ELSE 0)
  BY <1>2, <1>3 DEF Without
<1>6. n = (IF f = "vn" THEN 0 - Same(v, w) ELSE 0)
  BY <1>2, <1>3 DEF Without
<1> HIDE DEF d, d2, n
<1>7. d + d2 + n = 0 - Same(v, w)
  BY <1>2, <1>4, <1>5, <1>6 DEF Fields
<1> QED
  BY <1>1, <1>7

\* Who spins in emufs_reclaim keeps what he has.
LEMMA SpinsKept ==
  ASSUME NEW t \in live, Types, Rest, Devices \subseteq knowndevs,
         loc[t].h = NULL, NEW v, Spins(t, v), UNCHANGED env
  PROVE  Types' /\ Rest'
<1>1. /\ UNCHANGED <<kd_fs, knowndevs, swapped, vn_refcount, ev_file, hw>>
      /\ UNCHANGED <<t_cwd, bootfs_vnode, open, live, loc, env, panic>>
      /\ t \in Threads
  BY DEF Spins, devvars, vnvars, refvars, Types
<1>2. /\ pc' \in [Threads -> Labels] /\ pc'[t] = "spins"
      /\ \A u \in Threads : u # t => pc'[u] = pc[u]
  BY <1>1 DEF Spins, Goto, Types, Labels
<1>3. Types'
  BY <1>1, <1>2 DEF Types
<1>4. CallsRight'
  <2>1. ASSUME NEW u \in Threads PROVE CallRight(pc[u], loc[u], open[u])
    BY DEF Rest, CallsRight
  <2>2. CallRight("spins", loc[t], open[t])
    BY <1>1, <2>1 DEF CallRight
  <2> QED
    BY <1>1, <1>2, <2>1, <2>2 DEF CallsRight
<1>5. GoneHaveNothing' /\ Fresh'
  BY <1>1, <1>2 DEF Rest, GoneHaveNothing, Fresh
<1>6. Counted'
  BY <1>1 DEF Rest, Counted, Refcount, Media
<1>7. EmuRight'
  BY <1>1 DEF Rest, EmuRight, Loaded, RightFile, Reserved, HandlesUsed
<1>8. DirsRight' /\ FsStays'
  BY <1>1 DEF Rest, DirsRight, Kind, FsStays
<1>9. NoPanic'
  BY <1>1 DEF Rest, NoPanic
<1> QED
  BY <1>3, <1>4, <1>5, <1>6, <1>7, <1>8, <1>9 DEF Rest

\* VOP_DECREF of a local, on the way to the next label or to the return.
LEMMA DropToKept ==
  ASSUME NEW t \in live, Calling(t), NEW f \in Fields, loc[t][f] # NULL,
         NEW label \in Labels, DropTo(t, f, label), UNCHANGED env,
         NEW m, m = IF label = "idle" THEN NoLoc
                    ELSE With(loc[t], f, NULL),
         Without(t, f, m), CallRight(label, m, open[t])
  PROVE  Types' /\ Rest'
<1> DEFINE w == loc[t][f]
           o == open[t]
           c == t_cwd[t]
           b == bootfs_vnode
<1>1. /\ t \in Threads /\ Types /\ Rest /\ Devices \subseteq knowndevs
      /\ loc[t] \in Locals
  BY DEF Calling, Types
<1>2. w \in Vnodes /\ (loc[t].dir = w \/ loc[t].dir2 = w \/ loc[t].vn = w)
  BY <1>1 DEF Fields, Locals, VnOrNull
<1>3. vn_refcount[w] \in Nat /\ vn_refcount[w] >= 1
  BY <1>1, <1>2, HeldTakable
<1>s. CASE Spins(t, w)
  <2>1. loc[t].h = NULL
    BY DEF Calling
  <2> QED
    BY <1>1, <1>s, <2>1, SpinsKept
<1> SUFFICES ASSUME ~Spins(t, w)
             PROVE  Types' /\ Rest'
  BY <1>s
<1>4. /\ Decref(w) /\ Set(t, m) /\ Goto(t, label)
      /\ UNCHANGED <<devvars, refvars, live, panic>>
  BY <1>3 DEF DropTo, With
<1>5. /\ UNCHANGED <<kd_fs, knowndevs, swapped, t_cwd, bootfs_vnode, open>>
      /\ UNCHANGED <<live, env, panic>>
  BY <1>4 DEF devvars, refvars
<1>6. Moves(t, label, m, o, c, b)
  BY <1>1, <1>4, <1>5 DEF Moves, Set, Goto, Types
<1>7. MoveOK(t, label, m, o, c, b)
  BY <1>1, <1>5 DEF MoveOK, Types, Without
<1>8. LiveBut(t) /\ GoodDir(c) /\ GoodDir(b)
  BY <1>1, <1>5 DEF LiveBut, GoodDir, Types
<1>9. KeepsHandle(t, m)
  BY DEF KeepsHandle, Without, Calling
<1>10. \A v \in Vnodes : Gain(t, m, o, c, b, v) = 0 - Same(v, w)
  BY <1>1, <1>2, GainLess
<1> HIDE DEF w, o, c, b
<1> QED
  BY <1>1, <1>2, <1>3, <1>4, <1>5, <1>6, <1>7, <1>8, <1>9, <1>10, GivesKept

\* The directory of vfs_open, when the file was made.
LEMMA DropDirKept ==
  ASSUME NEW t \in Threads, Types, Rest, DropDir(t)
  PROVE  Types' /\ Rest'
<1> DEFINE l == loc[t]
           m == With(l, "dir", NULL)
<1>1. At(t, "dropdir") /\ DropTo(t, "dir", "eachopen")
  BY DEF DropDir
<1>2. /\ t \in live /\ Calling(t) /\ SameRefs(t, l) /\ UNCHANGED env
      /\ l \in Locals /\ CallRight("dropdir", l, open[t])
  BY <1>1, StepBegins
<1>3. "dir" \in Fields /\ "eachopen" \in Labels /\ NULL \in VnOrNull
  BY DEF Fields, Labels, VnOrNull
<1>4. /\ m \in Locals /\ m.h = l.h /\ m.dir = NULL /\ m.dir2 = l.dir2
      /\ m.vn = l.vn
  BY <1>2, <1>3, FieldSet
<1>5. m = IF "eachopen" = "idle" THEN NoLoc ELSE With(loc[t], "dir", NULL)
  OBVIOUS
<1> HIDE DEF m
<1>6. Without(t, "dir", m)
  BY <1>2, <1>4 DEF Without, SameRefs
<1>7. loc[t]["dir"] # NULL
  BY <1>2 DEF CallRight
<1>8. CallRight("eachopen", m, open[t])
  BY <1>2, <1>4 DEF CallRight
<1> QED
  BY <1>1, <1>2, <1>3, <1>5, <1>6, <1>7, <1>8, DropToKept

\* The end of every call.
LEMMA DropKept ==
  ASSUME NEW t \in Threads, Types, Rest, Drop(t)
  PROVE  Types' /\ Rest'
<1> DEFINE l == loc[t]
           refs == Refs(l)
           f == IF "dir2" \in refs THEN "dir2"
                ELSE IF "dir" \in refs THEN "dir" ELSE "vn"
           label == IF refs = {f} THEN "idle" ELSE "drop"
           m == IF label = "idle" THEN NoLoc ELSE With(loc[t], f, NULL)
<1>1. At(t, "drop") /\ DropTo(t, f, label)
  BY DEF Drop
<1>2. /\ t \in live /\ Calling(t) /\ SameRefs(t, l) /\ UNCHANGED env
      /\ l \in Locals /\ CallRight("drop", l, open[t])
  BY <1>1, StepBegins
<1>3. f \in Fields /\ label \in Labels /\ NULL \in VnOrNull
  BY DEF Fields, Labels, VnOrNull
<1>4. /\ "dir" \in refs <=> l.dir # NULL
      /\ "dir2" \in refs <=> l.dir2 # NULL
      /\ "vn" \in refs <=> l.vn # NULL
      /\ refs \subseteq Fields
  BY DEF Refs, Fields
<1>5. f \in refs /\ l[f] # NULL
  BY <1>2, <1>4 DEF CallRight, Fields
<1>6. /\ label \in {"idle", "drop"}
      /\ label = "idle" => refs = {f}
      /\ label = "drop" => refs # {f}
  OBVIOUS
<1>7. m = IF label = "idle" THEN NoLoc ELSE With(loc[t], f, NULL)
  OBVIOUS
<1> HIDE DEF f, label, m, refs
<1>8. CASE label = "idle"
  <2>1. m = NoLoc
    BY <1>7, <1>8
  <2>2. /\ l.dir = NULL \/ f = "dir"
        /\ l.dir2 = NULL \/ f = "dir2"
        /\ l.vn = NULL \/ f = "vn"
    BY <1>4, <1>6, <1>8
  <2>3. Without(t, f, m)
    BY <1>2, <2>1, <2>2, NoLocIs DEF Without
  <2>4. CallRight(label, m, open[t])
    BY <1>8, <2>1, IdleRight
  <2> QED
    BY <1>1, <1>2, <1>3, <1>5, <1>7, <2>3, <2>4, DropToKept
<1>9. CASE label = "drop"
  <2>1. m = With(l, f, NULL)
    BY <1>7, <1>9
  <2>2. /\ m \in Locals /\ m.h = l.h
        /\ m.dir = IF f = "dir" THEN NULL ELSE l.dir
        /\ m.dir2 = IF f = "dir2" THEN NULL ELSE l.dir2
        /\ m.vn = IF f = "vn" THEN NULL ELSE l.vn
    BY <1>2, <1>3, <2>1, FieldSet
  <2>3. Without(t, f, m)
    BY <1>2, <2>2 DEF Without, SameRefs
  <2>4. PICK g \in refs : g # f
    BY <1>5, <1>6, <1>9
  <2>5. m.dir # NULL \/ m.dir2 # NULL \/ m.vn # NULL
    BY <1>3, <1>4, <2>2, <2>4 DEF Fields
  <2>6. CallRight("drop", m, open[t])
    BY <1>2, <2>2, <2>5 DEF CallRight
  <2> QED
    BY <1>1, <1>2, <1>3, <1>5, <1>7, <1>9, <2>3, <2>6, DropToKept
<1> QED
  BY <1>6, <1>8, <1>9

-----------------------------------------------------------------------------
\* VOP_CREAT.
LEMMA CreatFailsKept ==
  ASSUME NEW t \in live, Calling(t), Refs(loc[t]) # {}, CreatFails(t),
         UNCHANGED env
  PROVE  Types' /\ Rest'
BY DropNext DEF CreatFails

\* Nothing is gained by who keeps what he had.
LEMMA GainNone ==
  ASSUME NEW t \in Threads, NEW m, m.dir = loc[t].dir, m.dir2 = loc[t].dir2,
         m.vn = loc[t].vn, NEW v
  PROVE  Gain(t, m, open[t], t_cwd[t], bootfs_vnode, v) = 0
<1>1. \A x : Same(x, v) \in {0, 1}
  BY DEF Same
<1> QED
  BY <1>1 DEF Gain

\* The emulator has made the file; its vnode comes next.
LEMMA EmuOpenKept ==
  ASSUME NEW t \in live, Calling(t), CallRight("creat", loc[t], open[t]),
         NEW h \in Handles, hw[h] # NULL, EmuOpen(t, h), UNCHANGED env
  PROVE  Types' /\ Rest'
<1> DEFINE l == loc[t]
           file == Append(hw[h], l.path)
           n == HandleFor(file)
           m == [l EXCEPT !.h = n, !.file = file]
           o == open[t]
           c == t_cwd[t]
           b == bootfs_vnode
<1>1. /\ t \in Threads /\ Types /\ Rest /\ Devices \subseteq knowndevs
      /\ l \in Locals /\ l.h = NULL /\ o = NULL
      /\ l.dir # NULL /\ l.dir2 = NULL /\ l.vn = NULL /\ l.path # NULL
  BY DEF Calling, Types, CallRight
<1>2. /\ n # NULL /\ hw' = [hw EXCEPT ![n] = file]
      /\ loc' = [loc EXCEPT ![t] = m] /\ pc' = [pc EXCEPT ![t] = "load"]
      /\ UNCHANGED <<devvars, vn_refcount, ev_file, refvars, live, panic>>
  BY DEF EmuOpen, Set, Goto
<1>3. file \in Seq(Names) /\ file \in FileOrNull /\ file # NULL
  <2>1. hw[h] \in Seq(Names) /\ l.path \in Names
    BY <1>1 DEF Types, FileOrNull, Locals
  <2>2. file \in Seq(Names)
    BY <2>1
  <2> QED
    BY <2>2, NullAssumption DEF FileOrNull
<1>4. n \in Handles /\ ("shared" \notin env => hw[n] = NULL) /\ n # NULL
  BY <1>1, <1>2, HandleForIs
<1>5. /\ m \in Locals /\ m.h = n /\ m.file = file /\ m.dir = l.dir
      /\ m.dir2 = l.dir2 /\ m.vn = l.vn /\ m.path = l.path
  BY <1>1, <1>3, <1>4 DEF Locals
<1> HIDE DEF file, n, m
<1>6. /\ UNCHANGED <<kd_fs, knowndevs, swapped, t_cwd, bootfs_vnode, open>>
      /\ UNCHANGED <<vn_refcount, ev_file, live, env, panic>>
  BY <1>2 DEF devvars, refvars
<1>7. Moves(t, "load", m, o, c, b)
  BY <1>1, <1>2, <1>6 DEF Moves, Types
<1>8. CallRight("load", m, o)
  <2>1. CallRight("creat", l, o)
    OBVIOUS
  <2> QED
    BY <1>1, <1>3, <1>4, <1>5, <2>1 DEF CallRight
<1>9. MoveOK(t, "load", m, o, c, b)
  BY <1>1, <1>5, <1>6, <1>8 DEF MoveOK, Types, Labels
<1>10. LiveBut(t) /\ GoodDir(c) /\ GoodDir(b)
  BY <1>1, <1>6 DEF LiveBut, GoodDir, Types
<1>11. \A v \in Vnodes : Gain(t, m, o, c, b, v) = 0
  BY <1>1, <1>5, GainNone
<1>12. /\ vn_refcount \in [Vnodes -> Nat]
       /\ ev_file \in [Handles -> FileOrNull]
       /\ hw \in [Handles -> FileOrNull] /\ loc \in [Threads -> Locals]
  BY <1>1 DEF Types
<1>13. /\ hw' \in [Handles -> FileOrNull] /\ hw'[n] = file
       /\ \A k \in Handles : k # n => hw'[k] = hw[k]
  BY <1>2, <1>3, <1>4, <1>12
<1>14. /\ loc'[t] = m
       /\ \A u \in Threads : u # t => loc'[u] = loc[u]
  BY <1>1, <1>2, <1>12
<1>15. "shared" \notin env =>
          /\ ev_file[n] = NULL /\ \A u \in Threads : loc[u].h # n
  BY <1>1, <1>4, FreeHandle
<1>16. EmuRight'
  <2>1. Loaded'
    BY <1>1, <1>6 DEF Rest, EmuRight, Loaded
  <2>2. RightFile'
    BY <1>1, <1>6, <1>13, <1>15 DEF Rest, EmuRight, RightFile
  <2>3. Reserved'
    <3> SUFFICES ASSUME "shared" \notin env, NEW u \in Threads,
                        loc'[u].h # NULL
                 PROVE  /\ hw'[loc'[u].h] = loc'[u].file
                        /\ ev_file[loc'[u].h] = NULL
                        /\ \A x \in Threads : x # u => loc'[x].h # loc'[u].h
      BY <1>6 DEF Reserved
    <3>1. CASE u = t
      BY <1>5, <1>13, <1>14, <1>15, <3>1
    <3>2. CASE u # t
      <4>1. /\ loc'[u] = loc[u] /\ hw[loc[u].h] = loc[u].file
            /\ ev_file[loc[u].h] = NULL
            /\ \A x \in Threads : x # u => loc[x].h # loc[u].h
        BY <1>1, <1>14, <3>2 DEF Rest, EmuRight, Reserved
      <4>2. loc[u].h \in Handles /\ loc[u].h # n
        BY <1>12, <1>14, <1>15, <3>2 DEF Locals
      <4> QED
        BY <1>5, <1>13, <1>14, <4>1, <4>2
    <3> QED
      BY <3>1, <3>2
  <2>4. HandlesUsed'
    <3> SUFFICES ASSUME env \cap {"media", "shared"} = {}, EMU \in knowndevs,
                        NEW k \in Handles, hw'[k] # NULL,
                        ~(vn_refcount[EmuVn(k)] > 0)
                 PROVE  \E u \in Threads : loc'[u].h = k
      BY <1>6 DEF HandlesUsed
    <3>1. CASE k = n
      BY <1>1, <1>5, <1>14, <3>1
    <3>2. CASE k # n
      <4>1. hw[k] # NULL
        BY <1>13, <3>2
      <4>2. PICK u \in Threads : loc[u].h = k
        BY <1>1, <4>1 DEF Rest, EmuRight, HandlesUsed
      <4>3. u # t
        BY <1>1, <4>2, NullAssumption
      <4> QED
        BY <1>14, <4>2, <4>3
    <3> QED
      BY <3>1, <3>2
  <2> QED
    BY <2>1, <2>2, <2>3, <2>4 DEF EmuRight
<1>17. /\ vn_refcount' \in [Vnodes -> Nat]
       /\ ev_file' \in [Handles -> FileOrNull]
       /\ \A k \in Handles :
             ev_file'[k] = ev_file[k] \/ vn_refcount[EmuVn(k)] = 0
       /\ UNCHANGED <<kd_fs, panic>>
  BY <1>6, <1>12
<1>18. \A v \in Vnodes :
          /\ vn_refcount'[v] = vn_refcount[v] + Gain(t, m, o, c, b, v)
          /\ \/ vn_refcount'[v] = vn_refcount[v]
             \/ v.fs \in Disks => kd_fs[v.fs] = "mounted"
  BY <1>6, <1>11, <1>12
<1> HIDE DEF o, c, b
<1> QED
  BY <1>1, <1>7, <1>9, <1>10, <1>13, <1>16, <1>17, <1>18, CountsKept

\* VOP_CREAT: the vnode of the file, on whichever file system it is.
LEMMA CreatKept ==
  ASSUME NEW t \in Threads, Types, Rest, Creat(t)
  PROVE  Types' /\ Rest'
<1> DEFINE l == loc[t]
           dir == l.dir
<1>1. At(t, "creat")
  BY DEF Creat
<1>2. /\ t \in live /\ Calling(t) /\ SameRefs(t, l) /\ UNCHANGED env
      /\ l \in Locals /\ CallRight("creat", l, open[t])
  BY <1>1, StepBegins
<1>3. /\ dir \in Vnodes /\ dir # NULL /\ l.dir2 = NULL /\ l.vn = NULL
      /\ l.h = NULL /\ open[t] = NULL
      /\ dir.fs \in Disks => dir.obj = "root"
  BY <1>2 DEF CallRight, Locals, VnOrNull
<1>4. Takable(dir) /\ (dir.fs = EMU => vn_refcount[dir] > 0)
  BY <1>2, <1>3, HeldTakable DEF Takable
<1>5. \/ CreatFails(t)
      \/ BadHandle(dir) /\ Panic("bad handle")
      \/ ~BadHandle(dir) /\ dir.fs = EMU /\ EmuOpen(t, dir.obj)
      \/ /\ dir.fs \in Disks /\ l.path \in SfsNames
         /\ Found(t, Vn(dir.fs, l.path), l, "vn", "dropdir")
  BY DEF Creat
<1>6. CASE CreatFails(t)
  <2>1. Refs(loc[t]) # {}
    BY <1>3 DEF Refs
  <2> QED
    BY <1>2, <1>6, <2>1, CreatFailsKept
<1>7. CASE BadHandle(dir) /\ Panic("bad handle")
  BY <1>2, <1>3, <1>4, <1>7, BadHandleKept
<1>8. CASE ~BadHandle(dir) /\ dir.fs = EMU /\ EmuOpen(t, dir.obj)
  <2>1. dir.obj \in Handles /\ hw[dir.obj] # NULL
    BY <1>3, <1>8, VnodeIs DEF BadHandle
  <2> QED
    BY <1>2, <1>8, <2>1, EmuOpenKept
<1>9. CASE /\ dir.fs \in Disks /\ l.path \in SfsNames
           /\ Found(t, Vn(dir.fs, l.path), l, "vn", "dropdir")
  <2> DEFINE w == Vn(dir.fs, l.path)
  <2>1. w \in Vnodes /\ w.fs = dir.fs
    BY <1>9, VnodeMade, VnodeFields
  <2>2. Takable(w)
    BY <1>4, <1>9, <2>1, FsApart DEF Takable
  <2>3. "vn" \in Fields /\ "dropdir" \in Labels /\ w # NULL
        /\ w \in VnOrNull /\ l["vn"] = NULL
    BY <1>3, <2>1, NullAssumption DEF Fields, Labels, VnOrNull
  <2>4. Found(t, w, l, "vn", "dropdir")
    BY <1>9
  <2> HIDE DEF w
  <2>5. /\ With(l, "vn", w).dir = dir /\ With(l, "vn", w).dir2 = NULL
        /\ With(l, "vn", w).vn = w /\ With(l, "vn", w).h = NULL
    BY <1>2, <1>3, <2>3, FieldSet
  <2>6. CallRight("dropdir", With(l, "vn", w), open[t])
    BY <1>3, <2>3, <2>5 DEF CallRight
  <2> QED
    BY <1>2, <2>1, <2>2, <2>3, <2>4, <2>6, FoundKept
<1> QED
  BY <1>5, <1>6, <1>7, <1>8, <1>9

\* What a call has that has reserved a handle.
LEMMA Reserves ==
  ASSUME NEW t \in Threads, Types, Rest, NEW label \in {"load", "closeh"},
         At(t, label)
  PROVE  /\ t \in live /\ UNCHANGED env /\ Devices \subseteq knowndevs
         /\ loc[t] \in Locals /\ CallRight(label, loc[t], open[t])
         /\ loc[t].h \in Handles /\ loc[t].h # NULL /\ loc[t].file # NULL
         /\ loc[t].file \in Seq(Names)
         /\ loc[t].dir # NULL /\ loc[t].dir2 = NULL /\ loc[t].vn = NULL
         /\ open[t] = NULL
         /\ "shared" \notin env =>
               /\ hw[loc[t].h] = loc[t].file /\ ev_file[loc[t].h] = NULL
               /\ vn_refcount[EmuVn(loc[t].h)] = 0
               /\ \A u \in Threads : u # t => loc[u].h # loc[t].h
<1>1. /\ t \in live /\ UNCHANGED env /\ Devices \subseteq knowndevs
      /\ loc[t] \in Locals /\ CallRight(label, loc[t], open[t])
  BY StepBegins
<1>2. /\ loc[t].h # NULL /\ loc[t].file # NULL
      /\ loc[t].dir # NULL /\ loc[t].dir2 = NULL /\ loc[t].vn = NULL
      /\ open[t] = NULL
  BY <1>1 DEF CallRight
<1>3. loc[t].h \in Handles /\ loc[t].file \in Seq(Names)
  BY <1>1, <1>2 DEF Locals, FileOrNull
<1>4. ASSUME "shared" \notin env
      PROVE  /\ hw[loc[t].h] = loc[t].file /\ ev_file[loc[t].h] = NULL
             /\ vn_refcount[EmuVn(loc[t].h)] = 0
             /\ \A u \in Threads : u # t => loc[u].h # loc[t].h
  <2>1. /\ hw[loc[t].h] = loc[t].file /\ ev_file[loc[t].h] = NULL
        /\ \A u \in Threads : u # t => loc[u].h # loc[t].h
    BY <1>2, <1>4 DEF Rest, EmuRight, Reserved
  <2>2. vn_refcount[EmuVn(loc[t].h)] \in Nat
    BY <1>3, VnodeMade DEF Types
  <2>3. ~(vn_refcount[EmuVn(loc[t].h)] > 0)
    BY <1>3, <2>1 DEF Rest, EmuRight, Loaded
  <2> QED
    BY <2>1, <2>2, <2>3
<1> QED
  BY <1>1, <1>2, <1>3, <1>4

\* emufs_creat without memory for the vnode: it closes the handle next.
LEMMA CreatNoMemKept ==
  ASSUME NEW t \in Threads, Types, Rest, CreatLoad(t), LoadNoMem(loc[t].h)
  PROVE  Types' /\ Rest'
<1> DEFINE l == loc[t]
           o == open[t]
           c == t_cwd[t]
           b == bootfs_vnode
<1>1. /\ At(t, "load") /\ pc' = [pc EXCEPT ![t] = "closeh"]
      /\ UNCHANGED <<devvars, vn_refcount, ev_file, hw, refvars, live, loc>>
      /\ UNCHANGED panic
  BY DEF CreatLoad, Goto
<1>2. /\ t \in live /\ UNCHANGED env /\ Devices \subseteq knowndevs
      /\ l \in Locals /\ CallRight("load", l, o)
  BY <1>1, Reserves
<1>3. /\ UNCHANGED <<kd_fs, knowndevs, swapped, t_cwd, bootfs_vnode, open>>
      /\ UNCHANGED <<vn_refcount, ev_file, hw, live, loc, env, panic>>
  BY <1>1, <1>2 DEF devvars, refvars
<1>4. Moves(t, "closeh", l, o, c, b)
  BY <1>1, <1>3 DEF Moves, Types
<1>5. CallRight("closeh", l, o)
  BY <1>2 DEF CallRight
<1>6. MoveOK(t, "closeh", l, o, c, b)
  BY <1>2, <1>3, <1>5 DEF MoveOK, Types, Labels
<1>7. LiveBut(t) /\ GoodDir(c) /\ GoodDir(b) /\ KeepsHandle(t, l)
  BY <1>2, <1>3 DEF LiveBut, GoodDir, Types, KeepsHandle
<1>8. \A v \in Vnodes : Gain(t, l, o, c, b, v) = 0
  BY GainNone
<1>9. vn_refcount' \in [Vnodes -> Nat] /\ vn_refcount \in [Vnodes -> Nat]
  BY <1>3 DEF Types
<1>10. \A v \in Vnodes :
          /\ vn_refcount'[v] = vn_refcount[v] + Gain(t, l, o, c, b, v)
          /\ vn_refcount'[v] = vn_refcount[v]
  BY <1>3, <1>8, <1>9
<1>11. UNCHANGED <<kd_fs, ev_file, hw, panic>>
  BY <1>3
<1> HIDE DEF l, o, c, b
<1> QED
  BY <1>2, <1>4, <1>6, <1>7, <1>9, <1>10, <1>11, TakesKept

\* The handle a call reserved has its vnode, or is closed: the call has it no
\* more, the other calls have theirs.
LEMMA HandleGone ==
  ASSUME NEW t \in Threads, Types, NEW m, loc' = [loc EXCEPT ![t] = m],
         m.h = NULL, UNCHANGED <<env, knowndevs>>, EmuRight,
         NEW h \in Handles, h = loc[t].h, h # NULL,
         hw \in [Handles -> FileOrNull],
         \A k \in Handles : k # h =>
            /\ hw'[k] = hw[k] /\ ev_file'[k] = ev_file[k]
            /\ vn_refcount'[EmuVn(k)] = vn_refcount[EmuVn(k)],
         hw'[h] # NULL => vn_refcount'[EmuVn(h)] > 0
  PROVE  Reserved' /\ HandlesUsed'
<1>1. loc \in [Threads -> Locals]
  BY DEF Types
<1>2. loc'[t] = m /\ \A u \in Threads : u # t => loc'[u] = loc[u]
  BY <1>1
<1>3. Reserved'
  <2> SUFFICES ASSUME "shared" \notin env, NEW u \in Threads,
                      loc'[u].h # NULL
               PROVE  /\ hw'[loc'[u].h] = loc'[u].file
                      /\ ev_file'[loc'[u].h] = NULL
                      /\ \A x \in Threads : x # u => loc'[x].h # loc'[u].h
    BY DEF Reserved
  <2>1. u # t /\ loc'[u] = loc[u] /\ loc[u].h # NULL
    BY <1>2
  <2>2. /\ hw[loc[u].h] = loc[u].file /\ ev_file[loc[u].h] = NULL
        /\ \A x \in Threads : x # u => loc[x].h # loc[u].h
    BY <2>1 DEF EmuRight, Reserved
  <2>3. loc[u].h \in Handles /\ loc[u].h # h
    BY <1>1, <2>1, <2>2 DEF Locals
  <2> QED
    BY <1>2, <2>1, <2>2, <2>3
<1>4. HandlesUsed'
  <2> SUFFICES ASSUME env \cap {"media", "shared"} = {}, EMU \in knowndevs,
                      NEW k \in Handles, hw'[k] # NULL,
                      ~(vn_refcount'[EmuVn(k)] > 0)
               PROVE  \E u \in Threads : loc'[u].h = k
    BY DEF HandlesUsed
  <2>1. k # h /\ hw[k] # NULL /\ ~(vn_refcount[EmuVn(k)] > 0)
    OBVIOUS
  <2>2. PICK u \in Threads : loc[u].h = k
    BY <2>1 DEF EmuRight, HandlesUsed
  <2>3. u # t
    BY <2>1, <2>2
  <2> QED
    BY <1>2, <2>2, <2>3
<1> QED
  BY <1>3, <1>4

\* emufs_creat has its vnode.
LEMMA CreatLoadedKept ==
  ASSUME NEW t \in Threads, Types, Rest, CreatLoad(t), ~LoadNoMem(loc[t].h)
  PROVE  Types' /\ Rest'
<1> DEFINE l == loc[t]
           h == l.h
           w == EmuVn(h)
           n == [l EXCEPT !.h = NULL]
           m == With(n, "vn", w)
           o == open[t]
           c == t_cwd[t]
           b == bootfs_vnode
<1>1. /\ At(t, "load") /\ Load(h, l.file)
      /\ loc' = [loc EXCEPT ![t] = [l EXCEPT !.vn = EmuVn(h), !.h = NULL]]
      /\ pc' = [pc EXCEPT ![t] = "dropdir"]
      /\ UNCHANGED <<devvars, hw, refvars, live, panic>>
  BY DEF CreatLoad, Goto, Set
<1>2. /\ t \in live /\ UNCHANGED env /\ Devices \subseteq knowndevs
      /\ l \in Locals /\ CallRight("load", l, o)
      /\ h \in Handles /\ h # NULL /\ l.file # NULL /\ l.file \in Seq(Names)
      /\ l.dir # NULL /\ l.dir2 = NULL /\ l.vn = NULL /\ o = NULL
      /\ "shared" \notin env =>
            /\ hw[h] = l.file /\ ev_file[h] = NULL /\ vn_refcount[w] = 0
  BY <1>1, Reserves
<1>3. w \in Vnodes /\ w.fs = EMU /\ w \in VnOrNull /\ w # NULL
      /\ w.fs \notin Disks
  BY <1>2, VnodeMade, VnodeFields, NullAssumption, FsApart DEF EmuVn, VnOrNull
<1>4. /\ n \in Locals /\ n.h = NULL /\ n.dir = l.dir /\ n.dir2 = l.dir2
      /\ n.vn = l.vn
  BY <1>2 DEF Locals
<1>5. m = [l EXCEPT !.vn = w, !.h = NULL]
  BY <1>2 DEF Locals, With
<1>6. SameRefs(t, n) /\ n["vn"] = NULL /\ "vn" \in Fields
  BY <1>2, <1>4 DEF SameRefs, Fields
<1>7. loc' = [loc EXCEPT ![t] = m]
  BY <1>1, <1>5
<1> HIDE DEF n
<1>8. /\ m \in Locals /\ m.h = NULL /\ m.dir = l.dir /\ m.dir2 = l.dir2
      /\ m.vn = w
  BY <1>3, <1>4, <1>6, FieldSet
<1>9. \A v \in Vnodes : Gain(t, m, o, c, b, v) = Same(v, w)
  BY <1>3, <1>6, GainOne
<1> HIDE DEF m, w
<1>10. /\ UNCHANGED <<kd_fs, knowndevs, swapped, t_cwd, bootfs_vnode, open>>
       /\ UNCHANGED <<hw, live, env, panic>>
  BY <1>1, <1>2 DEF devvars, refvars
<1>11. Moves(t, "dropdir", m, o, c, b)
  BY <1>1, <1>7, <1>10 DEF Moves, Types
<1>12. CallRight("dropdir", m, o)
  BY <1>2, <1>3, <1>8 DEF CallRight
<1>13. MoveOK(t, "dropdir", m, o, c, b)
  BY <1>2, <1>8, <1>10, <1>12 DEF MoveOK, Types, Labels
<1>14. LiveBut(t) /\ GoodDir(c) /\ GoodDir(b)
  BY <1>2, <1>10 DEF LiveBut, GoodDir, Types
<1>15. /\ vn_refcount \in [Vnodes -> Nat]
       /\ ev_file \in [Handles -> FileOrNull]
       /\ hw \in [Handles -> FileOrNull]
       /\ \A k \in Handles : EmuVn(k) \in Vnodes /\ EmuVn(k).obj = k
  BY VnodeMade, VnodeFields DEF Types, EmuVn
<1>16. vn_refcount' = [vn_refcount EXCEPT ![w] = @ + 1]
  BY <1>1 DEF Load, Incref, w
<1>17. /\ vn_refcount' \in [Vnodes -> Nat] /\ vn_refcount'[w] > 0
       /\ vn_refcount'[w] = vn_refcount[w] + 1
       /\ \A v \in Vnodes : v # w => vn_refcount'[v] = vn_refcount[v]
  BY <1>3, <1>15, <1>16
<1>18. /\ ev_file' \in [Handles -> FileOrNull]
       /\ \A k \in Handles : k # h => ev_file'[k] = ev_file[k]
       /\ \/ vn_refcount[w] > 0 /\ ev_file'[h] = ev_file[h]
          \/ vn_refcount[w] = 0 /\ ev_file'[h] = l.file
  <2>1. ev_file' = IF vn_refcount[w] > 0 THEN ev_file
                   ELSE [ev_file EXCEPT ![h] = l.file]
    BY <1>1 DEF Load, w
  <2>2. CASE vn_refcount[w] > 0
    BY <1>15, <2>1, <2>2
  <2>3. CASE ~(vn_refcount[w] > 0)
    <3>1. vn_refcount[w] = 0
      BY <1>3, <1>15, <2>3
    <3>2. ev_file' = [ev_file EXCEPT ![h] = l.file]
      BY <2>1, <2>3
    <3>3. l.file \in FileOrNull
      BY <1>2 DEF FileOrNull
    <3> QED
      BY <1>2, <1>15, <3>1, <3>2, <3>3
  <2> QED
    BY <2>2, <2>3
<1>19. \A k \in Handles : k # h =>
          /\ hw'[k] = hw[k] /\ ev_file'[k] = ev_file[k]
          /\ vn_refcount'[EmuVn(k)] = vn_refcount[EmuVn(k)]
  <2>1. \A k \in Handles : k # h => EmuVn(k) # w
    BY <1>2, <1>15 DEF w
  <2> QED
    BY <1>10, <1>15, <1>17, <1>18, <2>1
<1>20. Loaded'
  <2>1. ev_file'[h] # NULL
    BY <1>2, <1>18 DEF Rest, EmuRight, Loaded, w
  <2>2. \A k \in Handles : ev_file[k] # NULL <=> vn_refcount[EmuVn(k)] > 0
    BY DEF Rest, EmuRight, Loaded
  <2>3. vn_refcount'[EmuVn(h)] > 0
    BY <1>17 DEF w
  <2> QED
    BY <1>19, <2>1, <2>2, <2>3 DEF Loaded
<1>21. RightFile'
  BY <1>2, <1>10, <1>18, <1>19 DEF Rest, EmuRight, RightFile
<1>22. Reserved' /\ HandlesUsed'
  <2>1. vn_refcount'[EmuVn(h)] > 0
    BY <1>17 DEF w
  <2> QED
    BY <1>2, <1>7, <1>8, <1>10, <1>15, <1>19, <2>1, HandleGone DEF Rest
<1>23. EmuRight'
  BY <1>20, <1>21, <1>22 DEF EmuRight
<1>24. /\ \A k \in Handles :
             ev_file'[k] = ev_file[k] \/ vn_refcount[EmuVn(k)] = 0
       /\ hw' \in [Handles -> FileOrNull] /\ UNCHANGED <<kd_fs, panic>>
  BY <1>10, <1>15, <1>18 DEF w
<1>25. \A v \in Vnodes :
          /\ vn_refcount'[v] = vn_refcount[v] + Gain(t, m, o, c, b, v)
          /\ \/ vn_refcount'[v] = vn_refcount[v]
             \/ v.fs \in Disks => kd_fs[v.fs] = "mounted"
  BY <1>3, <1>9, <1>15, <1>17 DEF Same
<1> HIDE DEF o, c, b
<1> QED
  BY <1>2, <1>11, <1>13, <1>14, <1>17, <1>18, <1>23, <1>24, <1>25, CountsKept

\* emufs_creat closes the handle it could not make a vnode for.
LEMMA CreatCloseKept ==
  ASSUME NEW t \in Threads, Types, Rest, CreatClose(t)
  PROVE  Types' /\ Rest'
<1> DEFINE l == loc[t]
           h == l.h
           m == [l EXCEPT !.h = NULL]
           o == open[t]
           c == t_cwd[t]
           b == bootfs_vnode
<1>1. /\ At(t, "closeh") /\ hw' = [hw EXCEPT ![h] = NULL]
      /\ loc' = [loc EXCEPT ![t] = m] /\ pc' = [pc EXCEPT ![t] = "drop"]
      /\ UNCHANGED <<devvars, vn_refcount, ev_file, refvars, live, panic>>
  BY DEF CreatClose, Goto, Set
<1>2. /\ t \in live /\ UNCHANGED env /\ Devices \subseteq knowndevs
      /\ l \in Locals /\ CallRight("closeh", l, o)
      /\ h \in Handles /\ h # NULL
      /\ l.dir # NULL /\ l.dir2 = NULL /\ l.vn = NULL /\ o = NULL
      /\ "shared" \notin env => ev_file[h] = NULL
  BY <1>1, Reserves
<1>3. /\ m \in Locals /\ m.h = NULL /\ m.dir = l.dir /\ m.dir2 = l.dir2
      /\ m.vn = l.vn
  BY <1>2 DEF Locals
<1> HIDE DEF m
<1>4. /\ UNCHANGED <<kd_fs, knowndevs, swapped, t_cwd, bootfs_vnode, open>>
      /\ UNCHANGED <<vn_refcount, ev_file, live, env, panic>>
  BY <1>1, <1>2 DEF devvars, refvars
<1>5. Moves(t, "drop", m, o, c, b)
  BY <1>1, <1>4 DEF Moves, Types
<1>6. CallRight("drop", m, o)
  BY <1>2, <1>3 DEF CallRight
<1>7. MoveOK(t, "drop", m, o, c, b)
  BY <1>2, <1>3, <1>4, <1>6 DEF MoveOK, Types, Labels
<1>8. LiveBut(t) /\ GoodDir(c) /\ GoodDir(b)
  BY <1>2, <1>4 DEF LiveBut, GoodDir, Types
<1>9. \A v \in Vnodes : Gain(t, m, o, c, b, v) = 0
  BY <1>3, GainNone
<1>10. /\ vn_refcount \in [Vnodes -> Nat]
       /\ ev_file \in [Handles -> FileOrNull]
       /\ hw \in [Handles -> FileOrNull]
  BY DEF Types
<1>11. /\ hw' \in [Handles -> FileOrNull] /\ hw'[h] = NULL
       /\ \A k \in Handles : k # h => hw'[k] = hw[k]
  BY <1>1, <1>2, <1>10 DEF FileOrNull
<1>12. Loaded'
  BY <1>4 DEF Rest, EmuRight, Loaded
<1>13. RightFile'
  BY <1>2, <1>4, <1>11 DEF Rest, EmuRight, RightFile
<1>14. Reserved' /\ HandlesUsed'
  <2>1. \A k \in Handles : k # h =>
            /\ hw'[k] = hw[k] /\ ev_file'[k] = ev_file[k]
            /\ vn_refcount'[EmuVn(k)] = vn_refcount[EmuVn(k)]
    BY <1>4, <1>11
  <2> QED
    BY <1>1, <1>2, <1>3, <1>4, <1>10, <1>11, <2>1, HandleGone DEF Rest
<1>15. EmuRight'
  BY <1>12, <1>13, <1>14 DEF EmuRight
<1>16. /\ vn_refcount' \in [Vnodes -> Nat]
       /\ ev_file' \in [Handles -> FileOrNull]
       /\ \A k \in Handles :
             ev_file'[k] = ev_file[k] \/ vn_refcount[EmuVn(k)] = 0
       /\ UNCHANGED <<kd_fs, panic>>
  BY <1>4, <1>10
<1>17. \A v \in Vnodes :
          /\ vn_refcount'[v] = vn_refcount[v] + Gain(t, m, o, c, b, v)
          /\ \/ vn_refcount'[v] = vn_refcount[v]
             \/ v.fs \in Disks => kd_fs[v.fs] = "mounted"
  BY <1>4, <1>9, <1>10
<1> HIDE DEF o, c, b
<1> QED
  BY <1>2, <1>5, <1>7, <1>8, <1>11, <1>15, <1>16, <1>17, CountsKept

-----------------------------------------------------------------------------
\* Open files.
LEMMA DoOpenKept ==
  ASSUME NEW t \in Threads, Types, Rest, DoOpen(t)
  PROVE  Types' /\ Rest'
<1> DEFINE l == loc[t]
           o == l.vn
           c == t_cwd[t]
           b == bootfs_vnode
<1>1. At(t, "eachopen")
  BY DEF DoOpen
<1>2. /\ t \in live /\ Calling(t) /\ UNCHANGED env
      /\ l \in Locals /\ CallRight("eachopen", l, open[t])
  BY <1>1, StepBegins
<1>3. /\ o \in Vnodes /\ o # NULL /\ l.dir = NULL /\ l.dir2 = NULL
      /\ l.h = NULL /\ open[t] = NULL /\ Refs(loc[t]) # {}
  BY <1>2 DEF CallRight, Locals, VnOrNull, Refs
<1>4. \/ CreatFails(t)
      \/ BadHandle(o) /\ Panic("bad handle")
      \/ /\ open' = [open EXCEPT ![t] = o] /\ Return(t)
         /\ UNCHANGED <<devvars, vnvars, t_cwd, bootfs_vnode, live, panic>>
  BY DEF DoOpen
<1>5. CASE CreatFails(t)
  BY <1>2, <1>3, <1>5, CreatFailsKept
<1>6. CASE BadHandle(o) /\ Panic("bad handle")
  <2>1. o.fs = EMU => vn_refcount[o] > 0
    BY <1>3, HeldTakable DEF Takable
  <2> QED
    BY <1>2, <1>3, <1>6, <2>1, BadHandleKept
<1>7. CASE /\ open' = [open EXCEPT ![t] = o] /\ Return(t)
           /\ UNCHANGED <<devvars, vnvars, t_cwd, bootfs_vnode, live, panic>>
  <2>1. /\ UNCHANGED <<kd_fs, knowndevs, swapped, t_cwd, bootfs_vnode>>
        /\ UNCHANGED <<vn_refcount, ev_file, hw, live, env, panic>>
    BY <1>2, <1>7 DEF devvars, vnvars
  <2>2. Moves(t, "idle", NoLoc, o, c, b)
    BY <1>7, <2>1 DEF Moves, Types, Return, Goto, Set
  <2>3. MoveOK(t, "idle", NoLoc, o, c, b)
    BY <1>2, <1>3, <2>1, NoLocIs, IdleRight
       DEF MoveOK, Types, Labels, VnOrNull
  <2>4. LiveBut(t) /\ GoodDir(c) /\ GoodDir(b) /\ KeepsHandle(t, NoLoc)
    BY <1>3, <2>1, NoLocIs DEF LiveBut, GoodDir, Types, KeepsHandle
  <2>5. \A v \in Vnodes : Gain(t, NoLoc, o, c, b, v) = 0
    <3> SUFFICES ASSUME NEW v \in Vnodes
                 PROVE  Gain(t, NoLoc, o, c, b, v) = 0
      OBVIOUS
    <3>1. \A x : Same(x, v) \in {0, 1}
      BY DEF Same
    <3> QED
      BY <1>3, <3>1, NoLocIs DEF Gain
  <2>6. vn_refcount' \in [Vnodes -> Nat] /\ vn_refcount \in [Vnodes -> Nat]
    BY <2>1 DEF Types
  <2>7. \A v \in Vnodes :
           /\ vn_refcount'[v] = vn_refcount[v] + Gain(t, NoLoc, o, c, b, v)
           /\ vn_refcount'[v] = vn_refcount[v]
    BY <2>1, <2>5, <2>6
  <2>8. UNCHANGED <<kd_fs, ev_file, hw, panic>> /\ Devices \subseteq knowndevs
    BY <1>2, <2>1 DEF Calling
  <2> HIDE DEF o, c, b
  <2> QED
    BY <2>2, <2>3, <2>4, <2>6, <2>7, <2>8, TakesKept
<1> QED
  BY <1>4, <1>5, <1>6, <1>7

\* A thread between two calls.
LEMMA IdleHas ==
  ASSUME NEW t \in Threads, Types, Rest, Running(t), pc[t] = "idle"
  PROVE  t \in live /\ UNCHANGED env /\ loc[t] = NoLoc /\ loc[t].h = NULL
BY NoLocIs DEF Running, Rest, CallsRight, CallRight

\* vfs_close
LEMMA CloseKept ==
  ASSUME NEW t \in Threads, Types, Rest, Close(t)
  PROVE  Types' /\ Rest'
<1> DEFINE w == open[t]
           c == t_cwd[t]
           b == bootfs_vnode
<1>0. Running(t) /\ pc[t] = "idle" /\ w # NULL
  BY DEF Close
<1>s. CASE Spins(t, w)
  <2>1. t \in live /\ UNCHANGED env /\ loc[t].h = NULL
    BY <1>0, IdleHas
  <2>2. Devices \subseteq knowndevs
    BY <1>0, Started
  <2> QED
    BY <1>s, <2>1, <2>2, SpinsKept
<1> SUFFICES ASSUME ~Spins(t, w)
             PROVE  Types' /\ Rest'
  BY <1>s
<1>1. /\ Running(t) /\ pc[t] = "idle" /\ w # NULL /\ Decref(w)
      /\ open' = [open EXCEPT ![t] = NULL]
      /\ UNCHANGED <<devvars, t_cwd, bootfs_vnode, thvars, panic>>
  BY DEF Close
<1>2. t \in live /\ UNCHANGED env /\ loc[t] = NoLoc /\ loc[t].h = NULL
  BY <1>1, IdleHas
<1>3. w \in Vnodes /\ Devices \subseteq knowndevs
  BY <1>1, Started DEF Types, VnOrNull
<1>4. vn_refcount[w] \in Nat /\ vn_refcount[w] >= 1
  BY <1>3, HeldTakable
<1>5. /\ UNCHANGED <<kd_fs, knowndevs, swapped, t_cwd, bootfs_vnode>>
      /\ UNCHANGED <<live, pc, loc, env, panic>>
  BY <1>1, <1>2 DEF devvars, thvars
<1>6. Moves(t, "idle", NoLoc, NULL, c, b)
  BY <1>1, <1>2, <1>5 DEF Moves, Types
<1>7. MoveOK(t, "idle", NoLoc, NULL, c, b)
  BY <1>2, <1>5, NoLocIs, IdleRight DEF MoveOK, Types, Labels, VnOrNull
<1>8. LiveBut(t) /\ GoodDir(c) /\ GoodDir(b) /\ KeepsHandle(t, NoLoc)
  BY <1>2, <1>5, NoLocIs DEF LiveBut, GoodDir, Types, KeepsHandle
<1>9. ASSUME NEW v \in Vnodes
      PROVE  Gain(t, NoLoc, NULL, c, b, v) = 0 - Same(v, w)
  <2>1. \A x : Same(x, v) \in {0, 1}
    BY DEF Same
  <2>2. Same(NULL, v) = 0 /\ Same(w, v) = Same(v, w)
    BY NullAssumption DEF Same
  <2> QED
    BY <1>2, <2>1, <2>2 DEF Gain
<1>10. UNCHANGED <<kd_fs, panic>> /\ Decref(w)
  BY <1>1, <1>5
<1> HIDE DEF w, c, b
<1> QED
  BY <1>3, <1>4, <1>6, <1>7, <1>8, <1>9, <1>10, GivesKept

\* Of the functions that system calls use, only vop_tryseek is left out of a
\* table, and not out of the one of emufs files.
LEMMA NullFunction ==
  ASSUME NEW v \in Vnodes, NEW op \in FileOps, Vop(Kind(v), op) = "null"
  PROVE  op = "tryseek" /\ Kind(v) # "emufile"
<1>1. Kind(v) \in {"dev", "sfsfile", "sfsdir", "emufile", "emudir"}
  BY FsApart DEF Kind
<1>2. CASE Kind(v) = "dev"
  BY <1>2 DEF Vop, DevOps, FileOps, NameOps
<1>3. CASE Kind(v) = "sfsfile"
  BY <1>3 DEF Vop, SfsFileOps, FileOps, NameOps
<1>4. CASE Kind(v) = "sfsdir"
  BY <1>4 DEF Vop, SfsDirOps, FileOps, NameOps
<1>5. CASE Kind(v) = "emufile"
  BY <1>5 DEF Vop, EmuFileOps, FileOps, NameOps
<1>6. CASE Kind(v) = "emudir"
  BY <1>6 DEF Vop, EmuDirOps, FileOps, NameOps
<1> QED
  BY <1>1, <1>2, <1>3, <1>4, <1>5, <1>6

\* The system calls on an open file.
LEMMA UseKept ==
  ASSUME NEW t \in Threads, Types, Rest, NEW op \in FileOps, Use(t, op)
  PROVE  Types' /\ Rest'
<1> DEFINE v == open[t]
<1>1. /\ Running(t) /\ pc[t] = "idle" /\ v # NULL
      /\ op = "tryseek" => "seek" \in env \/ Kind(v) = "emufile"
      /\ \/ Vop(Kind(v), op) = "null" /\ Panic("null function")
         \/ BadHandle(v) /\ Panic("bad handle")
  BY DEF Use
<1>2. v \in Vnodes /\ UNCHANGED env
  BY <1>1, IdleHas DEF Types, VnOrNull
<1>3. CASE Vop(Kind(v), op) = "null" /\ Panic("null function")
  <2>1. "seek" \in env
    BY <1>1, <1>2, <1>3, NullFunction
  <2>2. "null function" \in Breaks["seek"]
    BY DEF Breaks
  <2>3. "null function" \in UNION {Breaks[e] : e \in env}
    BY <2>1, <2>2
  <2> QED
    BY <1>2, <1>3, <2>3, PanicKept
<1>4. CASE BadHandle(v) /\ Panic("bad handle")
  <2>1. v.fs = EMU => vn_refcount[v] > 0
    BY <1>2, HeldTakable DEF Takable
  <2> QED
    BY <1>2, <1>4, <2>1, BadHandleKept
<1> QED
  BY <1>1, <1>3, <1>4

-----------------------------------------------------------------------------
\* vfs_rename and vfs_link have both paths: the two directories of a rename on
\* one volume are its root.
LEMMA BothKept ==
  ASSUME NEW t \in Threads, Types, Rest, Both(t)
  PROVE  Types' /\ Rest'
<1> DEFINE l == loc[t]
<1>1. At(t, "both")
  BY DEF Both
<1>2. /\ t \in live /\ Calling(t) /\ UNCHANGED env
      /\ l \in Locals /\ CallRight("both", l, open[t])
  BY <1>1, StepBegins
<1>3. /\ l.dir2 \in Vnodes /\ Refs(loc[t]) # {}
      /\ l.rename => l.dir \in Vnodes
  BY <1>2 DEF CallRight, Locals, VnOrNull, Refs
<1>4. ASSUME l.rename, SameFs(l.dir, l.dir2), Kind(l.dir) = "sfsdir"
      PROVE  l.dir = l.dir2
  <2>1. l.dir.fs \notin {"none", EMU} /\ l.dir2.fs = l.dir.fs
    BY <1>4, FsApart DEF Kind, SameFs
  <2>2. l.dir.fs \in Disks
    BY <1>3, <1>4, <2>1, VnodeIs
  <2>3. l.dir.obj = "root" /\ l.dir2.obj = "root"
    BY <1>2, <1>3, <1>4, <2>1, <2>2, NullAssumption DEF CallRight
  <2>4. l.dir = Vn(l.dir.fs, l.dir.obj) /\ l.dir2 = Vn(l.dir2.fs, l.dir2.obj)
    BY <1>3, <1>4, VnodeIs
  <2> QED
    BY <2>1, <2>3, <2>4
<1>5. CreatFails(t)
  BY <1>4 DEF Both
<1> QED
  BY <1>2, <1>3, <1>5, CreatFailsKept

\* vfs_getcwd has the directory: its volume is mounted.
LEMMA GetcwdNameKept ==
  ASSUME NEW t \in Threads, Types, Rest, GetcwdName(t)
  PROVE  Types' /\ Rest'
<1> DEFINE v == loc[t].vn
<1>1. At(t, "name")
  BY DEF GetcwdName
<1>2. /\ t \in live /\ Calling(t) /\ UNCHANGED env
      /\ loc[t] \in Locals /\ CallRight("name", loc[t], open[t])
  BY <1>1, StepBegins
<1>3. v \in Vnodes /\ v.fs # "none" /\ Refs(loc[t]) # {}
  BY <1>2 DEF CallRight, Locals, VnOrNull, Refs
<1>4. v.fs \in Disks => kd_fs[v.fs] = "mounted"
  BY <1>3, HeldTakable DEF Takable
<1>5. CreatFails(t)
  BY <1>3, <1>4 DEF GetcwdName
<1> QED
  BY <1>2, <1>3, <1>5, CreatFailsKept

-----------------------------------------------------------------------------
\* Current directories.

\* One of a volume is its root.
LEMMA DirIsRoot ==
  ASSUME Types, Rest, NEW t \in Threads, NEW v \in Vnodes,
         v = t_cwd[t] \/ v = bootfs_vnode \/ IsDirectory(Kind(v)),
         v.fs \in Disks
  PROVE  v.obj = "root"
<1> SUFFICES ASSUME v.obj # "root" PROVE FALSE
  OBVIOUS
<1>1. Kind(v) = "sfsfile"
  BY FsApart DEF Kind
<1>2. v # NULL
  BY NullAssumption
<1>3. IsDirectory(Kind(v))
  BY <1>2 DEF Rest, DirsRight
<1> QED
  BY <1>1, <1>3 DEF IsDirectory

\* vfs_setcurdir: the new directory is taken, the old one is to be given up.
LEMMA SetcurdirKept ==
  ASSUME NEW t \in Threads, Types, Rest, Setcurdir(t)
  PROVE  Types' /\ Rest'
<1> DEFINE l == loc[t]
           w == l.vn
           m == With(l, "dir", t_cwd[t])
           o == open[t]
           b == bootfs_vnode
<1>1. At(t, "setcurdir")
  BY DEF Setcurdir
<1>2. /\ t \in live /\ Calling(t) /\ UNCHANGED env
      /\ l \in Locals /\ CallRight("setcurdir", l, o)
  BY <1>1, StepBegins
<1>3. /\ w \in Vnodes /\ w # NULL /\ l.dir = NULL /\ l.dir2 = NULL
      /\ l.h = NULL /\ Refs(loc[t]) # {}
  BY <1>2 DEF CallRight, Locals, VnOrNull, Refs
<1>4. Takable(w)
  BY <1>3, HeldTakable
<1>5. CASE CreatFails(t)
  BY <1>2, <1>3, <1>5, CreatFailsKept
<1>6. CASE /\ CanBeCwd(w) /\ Incref(w)
           /\ t_cwd' = [t_cwd EXCEPT ![t] = w]
           /\ Set(t, m) /\ Goto(t, "drop")
           /\ UNCHANGED <<devvars, ev_file, hw, bootfs_vnode, open, live,
                          panic>>
  <2>1. t_cwd[t] \in VnOrNull /\ "dir" \in Fields
    BY DEF Types, Fields
  <2>2. /\ m \in Locals /\ m.h = NULL /\ m.dir = t_cwd[t] /\ m.dir2 = NULL
        /\ m.vn = w
    BY <1>2, <1>3, <2>1, FieldSet
  <2> HIDE DEF m
  <2>3. /\ UNCHANGED <<kd_fs, knowndevs, swapped, bootfs_vnode, open>>
        /\ UNCHANGED <<ev_file, hw, live, env, panic>>
    BY <1>2, <1>6 DEF devvars
  <2>4. Moves(t, "drop", m, o, w, b)
    BY <1>6, <2>3 DEF Moves, Types, Goto, Set
  <2>5. CallRight("drop", m, o)
    <3>1. m.dir # NULL /\ m.dir.fs \in Disks => m.dir.obj = "root"
      BY <2>1, <2>2, DirIsRoot DEF VnOrNull
    <3> QED
      BY <1>3, <2>2, <3>1 DEF CallRight
  <2>6. MoveOK(t, "drop", m, o, w, b)
    BY <1>2, <1>3, <2>2, <2>3, <2>5 DEF MoveOK, Types, Labels, VnOrNull
  <2>7. LiveBut(t) /\ GoodDir(w) /\ GoodDir(b) /\ KeepsHandle(t, m)
    BY <1>3, <1>4, <1>6, <2>2, <2>3
       DEF LiveBut, GoodDir, Types, KeepsHandle, CanBeCwd, Takable
  <2>8. ASSUME NEW v \in Vnodes PROVE Gain(t, m, o, w, b, v) = Same(v, w)
    <3>1. \A x : Same(x, v) \in {0, 1}
      BY DEF Same
    <3>2. Same(NULL, v) = 0 /\ Same(w, v) = Same(v, w)
      BY NullAssumption DEF Same
    <3> QED
      BY <1>3, <2>2, <3>1, <3>2 DEF Gain
  <2>9. /\ vn_refcount \in [Vnodes -> Nat]
        /\ vn_refcount' = [vn_refcount EXCEPT ![w] = @ + 1]
    BY <1>6 DEF Types, Incref
  <2>10. vn_refcount' \in [Vnodes -> Nat]
    BY <1>3, <2>9
  <2>11. ASSUME NEW v \in Vnodes
         PROVE  /\ vn_refcount'[v] = vn_refcount[v] + Gain(t, m, o, w, b, v)
                /\ \/ vn_refcount'[v] = vn_refcount[v]
                   \/ vn_refcount'[v] > vn_refcount[v] /\ Takable(v)
    <3>1. Gain(t, m, o, w, b, v) = IF v = w THEN 1 ELSE 0
      BY <2>8 DEF Same
    <3> QED
      BY <1>3, <1>4, <2>9, <3>1
  <2>12. UNCHANGED <<kd_fs, ev_file, hw, panic>> /\ Devices \subseteq knowndevs
    BY <1>2, <2>3 DEF Calling
  <2> HIDE DEF w, o, b
  <2> QED
    BY <2>4, <2>6, <2>7, <2>10, <2>11, <2>12, TakesKept
<1> QED
  BY <1>5, <1>6 DEF Setcurdir, With

\* vfs_setbootfs, vfs_clearbootfs and vfs_clearcurdir: what was there is to be
\* given up.
LEMMA ChangeKept ==
  ASSUME NEW t \in Threads, Types, Rest, Call(t), NEW w \in VnOrNull,
         NEW newcwd \in BOOLEAN, NEW newboot \in BOOLEAN,
         w # NULL => newcwd /\ newboot /\ Takable(w) /\ CanBeCwd(w),
         Change(t, w, newcwd, newboot)
  PROVE  Types' /\ Rest'
<1> DEFINE n == [NoLoc EXCEPT !.dir2 = IF newcwd THEN t_cwd[t] ELSE NULL,
                              !.dir = IF newboot THEN bootfs_vnode ELSE NULL]
           l == IF Refs(n) = {} THEN NoLoc ELSE n
           label == IF Refs(n) = {} THEN "idle" ELSE "drop"
           o == open[t]
           c == IF newcwd THEN w ELSE t_cwd[t]
           b == IF newboot THEN w ELSE bootfs_vnode
<1>1. /\ t \in live /\ Calling(t) /\ SameRefs(t, NoLoc)
      /\ loc[t] = NoLoc /\ UNCHANGED env /\ Devices \subseteq knowndevs
  BY CallBegins
<1>2. /\ vn_refcount' = IF w = NULL THEN vn_refcount
                        ELSE [vn_refcount EXCEPT ![w] = @ + 2]
      /\ t_cwd' = IF newcwd THEN [t_cwd EXCEPT ![t] = w] ELSE t_cwd
      /\ bootfs_vnode' = b
      /\ IF Refs(n) = {} THEN Return(t) ELSE Goto(t, "drop") /\ Set(t, n)
      /\ UNCHANGED <<devvars, ev_file, hw, open, live, panic>>
  BY DEF Change
<1>3. /\ t_cwd[t] \in VnOrNull /\ bootfs_vnode \in VnOrNull
      /\ NULL \in VnOrNull /\ o \in VnOrNull
  BY DEF Types, VnOrNull
<1>4. /\ n \in Locals /\ n.h = NULL /\ n.vn = NULL
      /\ n.dir2 = IF newcwd THEN t_cwd[t] ELSE NULL
      /\ n.dir = IF newboot THEN bootfs_vnode ELSE NULL
  BY <1>3, NoLocIs DEF NoLoc, Locals
<1> HIDE DEF n
<1>5. /\ l \in Locals /\ l.h = NULL /\ l.vn = NULL
      /\ l.dir2 = IF newcwd THEN t_cwd[t] ELSE NULL
      /\ l.dir = IF newboot THEN bootfs_vnode ELSE NULL
  <2>1. CASE Refs(n) = {}
    <3>1. n.dir = NULL /\ n.dir2 = NULL
      BY <2>1 DEF Refs
    <3> QED
      BY <1>4, <2>1, <3>1, NoLocIs
  <2>2. CASE Refs(n) # {}
    BY <1>4, <2>2
  <2> QED
    BY <2>1, <2>2
<1>6. pc' = [pc EXCEPT ![t] = label] /\ loc' = [loc EXCEPT ![t] = l]
  BY <1>2 DEF Return, Goto, Set
<1>7. (label = "idle" /\ l = NoLoc) \/ (label = "drop" /\ Refs(l) # {})
  OBVIOUS
<1> HIDE DEF l, label
<1>8. /\ UNCHANGED <<kd_fs, knowndevs, swapped, open>>
      /\ UNCHANGED <<ev_file, hw, live, env, panic>>
  BY <1>1, <1>2 DEF devvars
<1>9. t_cwd' = [t_cwd EXCEPT ![t] = c]
  BY <1>2 DEF Types
<1>10. Moves(t, label, l, o, c, b)
  BY <1>2, <1>6, <1>8, <1>9 DEF Moves, Types
<1>11. CallRight(label, l, o)
  <2>1. CASE label = "idle" /\ l = NoLoc
    BY <2>1, IdleRight
  <2>2. CASE label = "drop" /\ Refs(l) # {}
    <3>1. l.dir # NULL /\ l.dir.fs \in Disks => l.dir.obj = "root"
      BY <1>3, <1>5, DirIsRoot DEF VnOrNull
    <3>2. l.dir2 # NULL /\ l.dir2.fs \in Disks => l.dir2.obj = "root"
      BY <1>3, <1>5, DirIsRoot DEF VnOrNull
    <3>3. l.dir # NULL \/ l.dir2 # NULL \/ l.vn # NULL
      BY <2>2 DEF Refs
    <3> QED
      BY <1>5, <2>2, <3>1, <3>2, <3>3 DEF CallRight
  <2> QED
    BY <1>7, <2>1, <2>2
<1>12. MoveOK(t, label, l, o, c, b)
  BY <1>1, <1>3, <1>5, <1>7, <1>8, <1>11 DEF MoveOK, Labels
<1>13. LiveBut(t) /\ KeepsHandle(t, l)
  BY <1>1, <1>5, <1>8, NoLocIs DEF LiveBut, KeepsHandle, Types
<1>14. GoodDir(c) /\ GoodDir(b)
  BY DEF GoodDir, CanBeCwd, Takable
<1>15. ASSUME NEW v \in Vnodes
       PROVE  Gain(t, l, o, c, b, v) = IF v = w THEN 2 ELSE 0
  <2>1. \A x : Same(x, v) \in {0, 1}
    BY DEF Same
  <2>2. Same(NULL, v) = 0 /\ Same(w, v) = (IF v = w THEN 1 ELSE 0) /\ v # NULL
    BY NullAssumption DEF Same
  <2>3. /\ Same(l.dir, v) = IF newboot THEN Same(bootfs_vnode, v) ELSE 0
        /\ Same(l.dir2, v) = IF newcwd THEN Same(t_cwd[t], v) ELSE 0
        /\ Same(l.vn, v) = 0
    BY <1>5, <2>2
  <2>4. /\ Same(c, v) = IF newcwd THEN Same(w, v) ELSE Same(t_cwd[t], v)
        /\ Same(b, v) = IF newboot THEN Same(w, v) ELSE Same(bootfs_vnode, v)
    OBVIOUS
  <2>5. /\ Same(loc[t].dir, v) = 0 /\ Same(loc[t].dir2, v) = 0
        /\ Same(loc[t].vn, v) = 0
    BY <1>1, <2>2, NoLocIs
  <2> HIDE DEF c, b
  <2>6. Gain(t, l, o, c, b, v) =
          (Same(c, v) - Same(t_cwd[t], v)) + Same(l.dir, v)
            + Same(l.dir2, v) + (Same(b, v) - Same(bootfs_vnode, v))
    BY <2>1, <2>3, <2>5 DEF Gain
  <2> QED
    BY <2>1, <2>2, <2>3, <2>4, <2>6
<1>16. vn_refcount \in [Vnodes -> Nat] /\ vn_refcount' \in [Vnodes -> Nat]
  BY <1>2 DEF Types, VnOrNull
<1>17. ASSUME NEW v \in Vnodes
       PROVE  /\ vn_refcount'[v] = vn_refcount[v] + Gain(t, l, o, c, b, v)
              /\ \/ vn_refcount'[v] = vn_refcount[v]
                 \/ vn_refcount'[v] > vn_refcount[v] /\ Takable(v)
  <2>1. v # NULL
    BY NullAssumption
  <2> QED
    BY <1>2, <1>15, <1>16, <2>1
<1> HIDE DEF o, c, b
<1> QED
  BY <1>1, <1>8, <1>10, <1>12, <1>13, <1>14, <1>16, <1>17, TakesKept

\* vfs_setbootfs: the root of a file system becomes the boot directory.
LEMMA SetbootfsKept ==
  ASSUME NEW t \in Threads, Types, Rest, NEW name, Setbootfs(t, name)
  PROVE  Types' /\ Rest'
<1> DEFINE w == Getroot(name)
<1>1. /\ Call(t) /\ w # NULL /\ CanBeCwd(w) /\ Change(t, w, TRUE, TRUE)
  BY DEF Setbootfs
<1>2. w \in Vnodes /\ Takable(w)
  BY <1>1, CallBegins, GetrootIs
<1>3. w \in VnOrNull
  BY <1>2 DEF VnOrNull
<1> HIDE DEF w
<1> QED
  BY <1>1, <1>2, <1>3, ChangeKept

\* vfs_clearbootfs, vfs_clearcurdir: the directory is dropped.
LEMMA ClearKept ==
  ASSUME NEW t \in Threads, Types, Rest, Clearbootfs(t) \/ Clearcurdir(t)
  PROVE  Types' /\ Rest'
<1>1. NULL \in VnOrNull
  BY DEF VnOrNull
<1>2. CASE Clearbootfs(t)
  <2>1. Call(t) /\ Change(t, NULL, FALSE, TRUE)
    BY <1>2 DEF Clearbootfs
  <2> QED
    BY <1>1, <2>1, ChangeKept
<1>3. CASE Clearcurdir(t)
  <2>1. Call(t) /\ Change(t, NULL, TRUE, FALSE)
    BY <1>3 DEF Clearcurdir
  <2> QED
    BY <1>1, <2>1, ChangeKept
<1> QED
  BY <1>2, <1>3

\* thread_fork: the new thread has the current directory too.
LEMMA ForkKept ==
  ASSUME NEW t \in Threads, NEW u \in Threads, Types, Rest, Fork(t, u)
  PROVE  Types' /\ Rest'
<1> DEFINE w == t_cwd[t]
           b == bootfs_vnode
<1>1. /\ Running(t) /\ pc[t] = "idle" /\ u \notin live
      /\ Devices \subseteq knowndevs /\ live' = live \union {u}
      /\ t_cwd' = [t_cwd EXCEPT ![u] = w] /\ Inherits(w)
      /\ UNCHANGED <<devvars, ev_file, hw, bootfs_vnode, open, pc, loc, panic>>
  BY DEF Fork
<1>2. /\ pc[u] = "idle" /\ open[u] = NULL /\ t_cwd[u] = NULL
      /\ loc[u] = NoLoc
  BY <1>1 DEF Rest, GoneHaveNothing, CallsRight, CallRight
<1>3. w \in VnOrNull /\ (w # NULL => w \in Vnodes /\ Takable(w))
  BY HeldTakable DEF Types, VnOrNull
<1>4. /\ UNCHANGED <<kd_fs, knowndevs, swapped, bootfs_vnode, open>>
      /\ UNCHANGED <<ev_file, hw, pc, loc, env, panic>>
  BY <1>1 DEF devvars, Running
<1>5. Moves(u, "idle", NoLoc, NULL, w, b)
  BY <1>1, <1>2, <1>4 DEF Moves, Types
<1>6. MoveOK(u, "idle", NoLoc, NULL, w, b)
  BY <1>1, <1>3, NoLocIs, IdleRight DEF MoveOK, Types, Labels, VnOrNull
<1>7. LiveBut(u) /\ GoodDir(w) /\ GoodDir(b) /\ KeepsHandle(u, NoLoc)
  BY <1>1, <1>2, NoLocIs DEF LiveBut, GoodDir, Types, KeepsHandle
<1>8. ASSUME NEW v \in Vnodes
      PROVE  Gain(u, NoLoc, NULL, w, b, v) = IF v = w THEN 1 ELSE 0
  <2>1. \A x : Same(x, v) \in {0, 1}
    BY DEF Same
  <2>2. Same(NULL, v) = 0 /\ Same(w, v) = (IF v = w THEN 1 ELSE 0)
    BY NullAssumption DEF Same
  <2> QED
    BY <1>2, <2>1, <2>2 DEF Gain
<1>9. vn_refcount \in [Vnodes -> Nat]
  BY DEF Types
<1>10. vn_refcount' = IF w = NULL THEN vn_refcount
                      ELSE [vn_refcount EXCEPT ![w] = @ + 1]
  BY <1>1 DEF Inherits, Incref
<1>11. vn_refcount' \in [Vnodes -> Nat]
  BY <1>3, <1>9, <1>10
<1>12. ASSUME NEW v \in Vnodes
       PROVE  /\ vn_refcount'[v] =
                   vn_refcount[v] + Gain(u, NoLoc, NULL, w, b, v)
              /\ \/ vn_refcount'[v] = vn_refcount[v]
                 \/ vn_refcount'[v] > vn_refcount[v] /\ Takable(v)
  <2>1. v # NULL
    BY NullAssumption
  <2> QED
    BY <1>3, <1>8, <1>9, <1>10, <2>1
<1>13. UNCHANGED <<kd_fs, ev_file, hw, panic>>
  BY <1>4
<1> HIDE DEF w, b
<1> QED
  BY <1>1, <1>5, <1>6, <1>7, <1>11, <1>12, <1>13, TakesKept

\* thread_exit: its current directory is given up.
LEMMA ExitKept ==
  ASSUME NEW t \in Threads, Types, Rest, Exit(t)
  PROVE  Types' /\ Rest'
<1> DEFINE w == t_cwd[t]
           b == bootfs_vnode
<1>0. Running(t) /\ pc[t] = "idle" /\ live # {t}
  BY DEF Exit
<1>s. CASE Spins(t, w)
  <2>1. t \in live /\ UNCHANGED env /\ loc[t].h = NULL
    BY <1>0, IdleHas
  <2>2. Devices \subseteq knowndevs
    BY <1>0, <2>1 DEF Rest, Fresh
  <2> QED
    BY <1>s, <2>1, <2>2, SpinsKept
<1> SUFFICES ASSUME ~(w # NULL /\ Spins(t, w))
             PROVE  Types' /\ Rest'
  BY <1>s
<1>1. /\ Running(t) /\ pc[t] = "idle" /\ open[t] = NULL
      /\ live # {t} /\ live' = live \ {t}
      /\ IF w = NULL THEN UNCHANGED vnvars ELSE Decref(w)
      /\ t_cwd' = [t_cwd EXCEPT ![t] = NULL]
      /\ UNCHANGED <<devvars, bootfs_vnode, open, pc, loc, panic>>
  BY DEF Exit
<1>2. t \in live /\ UNCHANGED env /\ loc[t] = NoLoc /\ loc[t].h = NULL
  BY <1>1, IdleHas
<1>3. Devices \subseteq knowndevs
  BY <1>1, <1>2 DEF Rest, Fresh
<1>4. /\ UNCHANGED <<kd_fs, knowndevs, swapped, bootfs_vnode, open>>
      /\ UNCHANGED <<pc, loc, env, panic>>
  BY <1>1, <1>2 DEF devvars
<1>5. Moves(t, "idle", NoLoc, NULL, NULL, b)
  BY <1>1, <1>2, <1>4 DEF Moves, Types
<1>6. MoveOK(t, "idle", NoLoc, NULL, NULL, b)
  BY <1>2, NoLocIs, IdleRight DEF MoveOK, Types, Labels, VnOrNull
<1>7. LiveBut(t)
  <2>1. live' # {}
    BY <1>1, <1>2
  <2> QED
    BY <1>1, <2>1 DEF LiveBut, Types
<1>8. GoodDir(NULL) /\ GoodDir(b) /\ KeepsHandle(t, NoLoc)
  BY <1>2, NoLocIs DEF GoodDir, KeepsHandle
<1>9. ASSUME NEW v \in Vnodes
      PROVE  Gain(t, NoLoc, NULL, NULL, b, v) = 0 - Same(v, w)
  <2>1. \A x : Same(x, v) \in {0, 1}
    BY DEF Same
  <2>2. Same(NULL, v) = 0 /\ Same(w, v) = Same(v, w)
    BY NullAssumption DEF Same
  <2> QED
    BY <1>1, <1>2, <2>1, <2>2 DEF Gain
<1>10. CASE w = NULL
  <2>1. UNCHANGED <<kd_fs, vn_refcount, ev_file, hw, panic>>
    BY <1>1, <1>4, <1>10 DEF vnvars
  <2>2. vn_refcount' \in [Vnodes -> Nat] /\ vn_refcount \in [Vnodes -> Nat]
    BY <2>1 DEF Types
  <2>3. \A v \in Vnodes :
           /\ vn_refcount'[v] =
                vn_refcount[v] + Gain(t, NoLoc, NULL, NULL, b, v)
           /\ vn_refcount'[v] = vn_refcount[v]
    BY <1>9, <1>10, <2>1, <2>2, NullAssumption DEF Same
  <2>4. UNCHANGED <<kd_fs, ev_file, hw, panic>>
    BY <2>1
  <2> HIDE DEF w, b
  <2> QED
    BY <1>3, <1>5, <1>6, <1>7, <1>8, <2>2, <2>3, <2>4, TakesKept
<1>11. CASE w # NULL
  <2>1. w \in Vnodes /\ Decref(w)
    BY <1>1, <1>11 DEF Types, VnOrNull
  <2>2. vn_refcount[w] \in Nat /\ vn_refcount[w] >= 1
    BY <2>1, HeldTakable
  <2>3. UNCHANGED <<kd_fs, panic>>
    BY <1>4
  <2> HIDE DEF w, b
  <2> QED
    BY <1>3, <1>5, <1>6, <1>7, <1>8, <1>9, <2>1, <2>2, <2>3, GivesKept
<1> QED
  BY <1>10, <1>11

-----------------------------------------------------------------------------
\* Devices.  What is mounted changes, and nothing else.
LEMMA KdKept ==
  ASSUME Types, Rest, FsStays',
         kd_fs' \in [Disks -> {NULL, "mounted", "swap"}],
         UNCHANGED <<knowndevs, swapped, vnvars, refvars, thvars, env, panic>>
  PROVE  Types' /\ Rest'
<1>1. /\ UNCHANGED <<knowndevs, swapped, vn_refcount, ev_file, hw>>
      /\ UNCHANGED <<t_cwd, bootfs_vnode, open, live, pc, loc, env, panic>>
  BY DEF vnvars, refvars, thvars
<1>2. Types'
  BY <1>1 DEF Types
<1>3. CallsRight' /\ GoneHaveNothing' /\ Fresh'
  BY <1>1 DEF Rest, CallsRight, CallRight, GoneHaveNothing, Fresh
<1>4. Counted'
  BY <1>1 DEF Rest, Counted, Refcount, Media
<1>5. EmuRight'
  BY <1>1 DEF Rest, EmuRight, Loaded, RightFile, Reserved, HandlesUsed
<1>6. DirsRight'
  BY <1>1 DEF Rest, DirsRight, Kind
<1>7. NoPanic'
  BY <1>1 DEF Rest, NoPanic
<1> QED
  BY <1>2, <1>3, <1>4, <1>5, <1>6, <1>7 DEF Rest

\* No vnode of a volume is loaded that is not mounted, or not busy.
LEMMA NotLoaded ==
  ASSUME Types, Rest, NEW d \in Disks, kd_fs[d] # "mounted" \/ ~Busy(d),
         NEW v \in SfsVnodes(d)
  PROVE  vn_refcount[v] = 0
<1>1. vn_refcount[v] \in Nat
  BY DEF Types, Vnodes
<1>2. CASE kd_fs[d] # "mounted"
  BY <1>2 DEF Rest, FsStays
<1>3. CASE ~Busy(d)
  BY <1>1, <1>3 DEF Busy
<1> QED
  BY <1>2, <1>3

\* vfs_mount and vfs_unmount, vfs_swapoff, vfs_unmountall.
LEMMA MountKept ==
  ASSUME NEW t \in Threads, Types, Rest, NEW d \in Disks, Mount(t, d)
  PROVE  Types' /\ Rest'
<1>1. /\ Call(t) /\ kd_fs' = [kd_fs EXCEPT ![d] = "mounted"]
      /\ UNCHANGED <<knowndevs, swapped, vnvars, refvars, thvars, panic>>
  BY DEF Mount
<1>2. UNCHANGED env /\ vn_refcount' = vn_refcount
  BY <1>1, CallBegins DEF vnvars
<1>3. kd_fs' \in [Disks -> {NULL, "mounted", "swap"}]
  BY <1>1 DEF Types
<1>4. FsStays'
  BY <1>1, <1>2 DEF Types, Rest, FsStays
<1> QED
  BY <1>1, <1>2, <1>3, <1>4, KdKept

\* vfs_unmount: FSOP_UNMOUNT says EBUSY while a vnode is loaded.
LEMMA UnmountKept ==
  ASSUME NEW t \in Threads, Types, Rest, NEW d \in Disks, Unmount(t, d)
  PROVE  Types' /\ Rest'
<1>1. /\ Call(t) /\ ~Busy(d) /\ kd_fs' = [kd_fs EXCEPT ![d] = NULL]
      /\ UNCHANGED <<knowndevs, swapped, vnvars, refvars, thvars, panic>>
  BY DEF Unmount
<1>2. UNCHANGED env /\ vn_refcount' = vn_refcount
  BY <1>1, CallBegins DEF vnvars
<1>3. kd_fs' \in [Disks -> {NULL, "mounted", "swap"}]
  BY <1>1 DEF Types
<1>4. FsStays'
  <2> SUFFICES ASSUME NEW k \in Disks, kd_fs'[k] # "mounted",
                      NEW v \in SfsVnodes(k)
               PROVE  vn_refcount[v] = 0
    BY <1>2 DEF FsStays
  <2>1. kd_fs[k] # "mounted" \/ ~Busy(k)
    BY <1>1 DEF Types
  <2> QED
    BY <2>1, NotLoaded
<1> QED
  BY <1>1, <1>2, <1>3, <1>4, KdKept

\* vfs_swapoff: the device of a disk that was swapped on.
LEMMA SwapoffKept ==
  ASSUME NEW t \in Threads, Types, Rest, NEW d \in Disks, Swapoff(t, d)
  PROVE  Types' /\ Rest'
<1>1. /\ Call(t) /\ kd_fs[d] = "swap" /\ kd_fs' = [kd_fs EXCEPT ![d] = NULL]
      /\ UNCHANGED <<knowndevs, swapped, vnvars, refvars, thvars, panic>>
  BY DEF Swapoff
<1>2. UNCHANGED env /\ vn_refcount' = vn_refcount
  BY <1>1, CallBegins DEF vnvars
<1>3. kd_fs' \in [Disks -> {NULL, "mounted", "swap"}]
  BY <1>1 DEF Types
<1>4. FsStays'
  <2> SUFFICES ASSUME NEW k \in Disks, kd_fs'[k] # "mounted",
                      NEW v \in SfsVnodes(k)
               PROVE  vn_refcount[v] = 0
    BY <1>2 DEF FsStays
  <2>1. kd_fs[k] # "mounted"
    BY <1>1 DEF Types
  <2> QED
    BY <2>1, NotLoaded
<1> QED
  BY <1>1, <1>2, <1>3, <1>4, KdKept

\* vfs_unmountall: volumes in use, or whose sync fails, stay mounted.
LEMMA UnmountallKept ==
  ASSUME NEW t \in Threads, Types, Rest, Unmountall(t)
  PROVE  Types' /\ Rest'
<1>1. /\ Call(t)
      /\ UNCHANGED <<knowndevs, swapped, vnvars, refvars, thvars, panic>>
  BY DEF Unmountall
<1>2. PICK failing \in SUBSET Disks :
         kd_fs' = [d \in Disks |->
                     IF kd_fs[d] = "mounted" /\ (Busy(d) \/ d \in failing)
                     THEN "mounted" ELSE NULL]
  BY DEF Unmountall
<1>3. UNCHANGED env /\ vn_refcount' = vn_refcount
  BY <1>1, CallBegins DEF vnvars
<1>4. kd_fs' \in [Disks -> {NULL, "mounted", "swap"}]
  BY <1>2
<1>5. FsStays'
  <2> SUFFICES ASSUME NEW k \in Disks, kd_fs'[k] # "mounted",
                      NEW v \in SfsVnodes(k)
               PROVE  vn_refcount[v] = 0
    BY <1>3 DEF FsStays
  <2>1. kd_fs[k] # "mounted" \/ ~Busy(k)
    BY <1>2
  <2> QED
    BY <2>1, NotLoaded
<1> QED
  BY <1>1, <1>3, <1>4, <1>5, KdKept

\* vfs_swapon: the raw device is handed out.
LEMMA SwaponKept ==
  ASSUME NEW t \in Threads, Types, Rest, NEW d \in Disks, Swapon(t, d)
  PROVE  Types' /\ Rest'
<1> DEFINE w == DevVn(d)
<1>1. /\ Call(t) /\ kd_fs' = [kd_fs EXCEPT ![d] = "swap"]
      /\ kd_fs[d] = NULL /\ Incref(w)
      /\ swapped' = [swapped EXCEPT ![d] = @ + 1]
      /\ UNCHANGED <<knowndevs, ev_file, hw, refvars, thvars, panic>>
  BY DEF Swapon, CanMount
<1>2. /\ UNCHANGED <<knowndevs, ev_file, hw, t_cwd, bootfs_vnode, open>>
      /\ UNCHANGED <<live, pc, loc, env, panic>> /\ Devices \subseteq knowndevs
  BY <1>1, CallBegins DEF refvars, thvars
<1>3. w \in Vnodes /\ w.fs = "none" /\ w.obj = d
  BY VnodeMade, VnodeFields DEF DevVn, Devices
<1>4. \A v \in Vnodes : v.fs = "none" /\ v.obj = d => v = w
  BY VnodeIs DEF DevVn
<1>5. /\ vn_refcount \in [Vnodes -> Nat] /\ swapped \in [Disks -> Nat]
      /\ vn_refcount' = [vn_refcount EXCEPT ![w] = @ + 1]
  BY <1>1 DEF Types, Incref
<1> HIDE DEF w
<1>6. /\ vn_refcount' \in [Vnodes -> Nat]
      /\ \A v \in Vnodes : vn_refcount'[v] =
                              IF v = w THEN vn_refcount[v] + 1
                              ELSE vn_refcount[v]
  BY <1>3, <1>5
<1>7. swapped' \in [Disks -> Nat]
  BY <1>1, <1>5
<1>8. kd_fs' \in [Disks -> {NULL, "mounted", "swap"}]
  BY <1>1 DEF Types
<1>9. Types'
  BY <1>2, <1>6, <1>7, <1>8 DEF Types
<1>10. CallsRight' /\ GoneHaveNothing' /\ Fresh'
  BY <1>2 DEF Rest, CallsRight, CallRight, GoneHaveNothing, Fresh
<1>11. Counted'
  <2> SUFFICES ASSUME NEW v \in Vnodes
               PROVE  /\ vn_refcount'[v] >= Refcount(v)'
                      /\ v.fs # EMU \/ ~Media =>
                           vn_refcount'[v] = Refcount(v)'
    BY <1>2 DEF Counted, Media
  <2> DEFINE a == Cardinality({u \in Threads : open[u] = v})
             b == Cardinality({u \in Threads : t_cwd[u] = v})
             c == Cardinality({u \in Threads : loc[u].dir = v})
             e == Cardinality({u \in Threads : loc[u].dir2 = v})
             f == Cardinality({u \in Threads : loc[u].vn = v})
             m == Same(bootfs_vnode, v)
             k == Keeps(knowndevs, v)
  <2>1. /\ a \in Nat /\ b \in Nat /\ c \in Nat /\ e \in Nat /\ f \in Nat
        /\ m \in Nat /\ k \in Nat
    BY ThreadsCount DEF Same, Keeps
  <2>2. Refcount(v) = a + b + c + e + f + m + k + SwapsOf(swapped, v)
    BY DEF Refcount, HoldersOf
  <2>3. Refcount(v)' = a + b + c + e + f + m + k + SwapsOf(swapped', v)
    BY <1>2 DEF Refcount, HoldersOf, Same, Keeps, Kept
  <2> HIDE DEF a, b, c, e, f, m, k
  <2>4. SwapsOf(swapped, v) \in Nat
    BY <1>5 DEF SwapsOf
  <2>5. SwapsOf(swapped', v) = SwapsOf(swapped, v) + (IF v = w THEN 1 ELSE 0)
    <3>1. CASE v = w
      BY <1>1, <1>3, <1>5, <3>1 DEF SwapsOf
    <3>2. CASE v # w
      <4>1. v.fs = "none" /\ v.obj \in Disks =>
               swapped'[v.obj] = swapped[v.obj]
        BY <1>1, <1>4, <1>5, <3>2
      <4>2. SwapsOf(swapped', v) = SwapsOf(swapped, v)
        BY <4>1 DEF SwapsOf
      <4> QED
        BY <2>4, <3>2, <4>2
    <3> QED
      BY <3>1, <3>2
  <2>6. /\ vn_refcount[v] \in Nat /\ vn_refcount[v] >= Refcount(v)
        /\ v.fs # EMU \/ ~Media => vn_refcount[v] = Refcount(v)
    BY <1>5 DEF Rest, Counted
  <2>7. Refcount(v)' = Refcount(v) + (IF v = w THEN 1 ELSE 0)
    BY <2>1, <2>2, <2>3, <2>4, <2>5
  <2>8. Refcount(v) \in Nat
    BY <2>1, <2>2, <2>4
  <2> QED
    BY <1>6, <2>6, <2>7, <2>8
<1>12. FsStays'
  <2> SUFFICES ASSUME NEW k \in Disks, kd_fs'[k] # "mounted",
                      NEW v \in SfsVnodes(k)
               PROVE  vn_refcount'[v] = 0
    BY DEF FsStays
  <2>1. v \in Vnodes /\ v.fs = k
    BY DEF Vnodes, SfsVnodes, Vn
  <2>2. v # w
    BY <1>3, <2>1, FsApart
  <2>3. kd_fs[k] # "mounted"
    BY <1>1, NullAssumption DEF Types
  <2>4. vn_refcount[v] = 0
    BY <2>3, NotLoaded
  <2> QED
    BY <1>6, <2>1, <2>2, <2>4
<1>13. EmuRight'
  <2>1. \A h \in Handles :
           vn_refcount'[EmuVn(h)] > 0 <=> vn_refcount[EmuVn(h)] > 0
    BY <1>3, <1>6, VnodeMade, VnodeFields, FsApart DEF EmuVn
  <2> QED
    BY <1>2, <2>1, EmuKept DEF Rest
<1>14. DirsRight'
  BY <1>2 DEF Rest, DirsRight, Kind
<1>15. NoPanic'
  BY <1>2 DEF Rest, NoPanic
<1> QED
  BY <1>9, <1>10, <1>11, <1>12, <1>13, <1>14, <1>15 DEF Rest

\* Where nobody has anything, v has what keeps it.
LEMMA NobodyHas ==
  ASSUME NEW op, NEW cw, NEW lo, NEW known, NEW sw, NEW v \in Vnodes,
         \A t \in Threads : op[t] = NULL /\ cw[t] = NULL /\ lo[t] = NoLoc,
         sw = [d \in Disks |-> 0]
  PROVE  HoldersOf(op, cw, lo, NULL, known, sw, v) = Keeps(known, v)
<1>1. v # NULL
  BY NullAssumption
<1>2. /\ {t \in Threads : op[t] = v} = {}
      /\ {t \in Threads : cw[t] = v} = {}
      /\ {t \in Threads : lo[t].dir = v} = {}
      /\ {t \in Threads : lo[t].dir2 = v} = {}
      /\ {t \in Threads : lo[t].vn = v} = {}
  BY <1>1, NoLocIs
<1>3. Cardinality({}) = 0
  BY FS_EmptySet
<1>4. Same(NULL, v) = 0 /\ SwapsOf(sw, v) = 0 /\ Keeps(known, v) \in {0, 1}
  BY <1>1 DEF Same, SwapsOf, Keeps
<1>5. HoldersOf(op, cw, lo, NULL, known, sw, v) =
        0 + 0 + 0 + 0 + 0 + 0 + Keeps(known, v) + 0
  BY <1>2, <1>3, <1>4 DEF HoldersOf
<1> QED
  BY <1>4, <1>5

\* vfs_doadd, during boot.
LEMMA AddDevKept ==
  ASSUME NEW t \in Threads, Types, Rest, NEW d \in Devices, AddDev(t, d)
  PROVE  Types' /\ Rest'
<1>1. /\ d \notin knowndevs /\ knowndevs' = knowndevs \union {d}
      /\ vn_refcount' = [v \in Vnodes |->
            IF v = DevVn(d) \/ (d = EMU /\ v = EmuRoot) THEN 1
            ELSE vn_refcount[v]]
      /\ ev_file' = IF d = EMU THEN [ev_file EXCEPT ![EMU_ROOTHANDLE] = <<>>]
                    ELSE ev_file
      /\ UNCHANGED <<kd_fs, swapped, hw, refvars, thvars, panic>>
      /\ UNCHANGED env
  BY DEF AddDev, Running
<1>2. /\ UNCHANGED <<kd_fs, swapped, hw, t_cwd, bootfs_vnode, open>>
      /\ UNCHANGED <<live, pc, loc, env, panic>>
  BY <1>1 DEF refvars, thvars
<1>3. /\ \A u \in Threads :
            pc[u] = "idle" /\ open[u] = NULL /\ t_cwd[u] = NULL
      /\ bootfs_vnode = NULL /\ swapped = [k \in Disks |-> 0]
      /\ \E u \in Threads : live = {u}
      /\ hw = [h \in Handles |-> IF h = EMU_ROOTHANDLE THEN <<>> ELSE NULL]
      /\ EMU \notin knowndevs => \A h \in Handles : ev_file[h] = NULL
  BY <1>1 DEF Rest, Fresh
<1>4. \A u \in Threads : loc[u] = NoLoc
  BY <1>3 DEF Rest, CallsRight, CallRight
<1>5. /\ vn_refcount \in [Vnodes -> Nat] /\ vn_refcount' \in [Vnodes -> Nat]
      /\ ev_file \in [Handles -> FileOrNull]
  BY <1>1 DEF Types
<1>6. EMU_ROOTHANDLE \in Handles /\ <<>> \in FileOrNull /\ <<>> # NULL
  <2>1. <<>> \in Seq(Names)
    OBVIOUS
  <2> QED
    BY <2>1, VfsAssumptions, NullAssumption DEF FileOrNull
<1>7. /\ ev_file' \in [Handles -> FileOrNull]
      /\ d = EMU => /\ ev_file'[EMU_ROOTHANDLE] = <<>>
                    /\ \A h \in Handles : h # EMU_ROOTHANDLE =>
                          ev_file'[h] = ev_file[h]
      /\ d # EMU => ev_file' = ev_file
  BY <1>1, <1>5, <1>6
<1>8. knowndevs' \in SUBSET Devices
  BY <1>1 DEF Types
<1>9. Types'
  BY <1>2, <1>5, <1>7, <1>8 DEF Types
<1>10. CallsRight' /\ GoneHaveNothing'
  BY <1>2 DEF Rest, CallsRight, CallRight, GoneHaveNothing
<1>11. Fresh'
  <2>1. EMU \notin knowndevs' => \A h \in Handles : ev_file'[h] = NULL
    BY <1>1, <1>3, <1>7
  <2> QED
    BY <1>2, <1>3, <2>1 DEF Fresh
<1>12. \A v \in Vnodes : /\ Refcount(v) = Keeps(knowndevs, v)
                         /\ Refcount(v)' = Keeps(knowndevs', v)
  BY <1>2, <1>3, <1>4, NobodyHas DEF Refcount
<1>13. DevVn(d) \in Vnodes /\ DevVn(d).fs = "none" /\ DevVn(d).obj = d
  BY VnodeMade, VnodeFields DEF DevVn
<1>14. EmuRoot \in Vnodes /\ EmuRoot.fs = EMU /\ EmuRoot.obj = EMU_ROOTHANDLE
  BY VnodeMade, VnodeFields DEF EmuRoot, EmuVn
<1>15. \A v \in Vnodes : v.fs = "none" /\ v.obj = d => v = DevVn(d)
  BY VnodeIs DEF DevVn
<1>16. Counted'
  <2> SUFFICES ASSUME NEW v \in Vnodes
               PROVE  /\ vn_refcount'[v] >= Refcount(v)'
                      /\ v.fs # EMU \/ ~Media =>
                           vn_refcount'[v] = Refcount(v)'
    BY <1>2 DEF Counted, Media
  <2>1. /\ vn_refcount[v] >= Refcount(v)
        /\ v.fs # EMU \/ ~Media => vn_refcount[v] = Refcount(v)
    BY DEF Rest, Counted
  <2>2. CASE v = DevVn(d) \/ (d = EMU /\ v = EmuRoot)
    <3>1. vn_refcount'[v] = 1
      BY <1>1, <2>2
    <3>2. Keeps(knowndevs', v) = 1
      BY <1>1, <1>13, <2>2 DEF Keeps, Kept
    <3> QED
      BY <1>12, <3>1, <3>2
  <2>3. CASE ~(v = DevVn(d) \/ (d = EMU /\ v = EmuRoot))
    <3>1. vn_refcount'[v] = vn_refcount[v]
      BY <1>1, <2>3
    <3>2. Kept(knowndevs', v) <=> Kept(knowndevs, v)
      BY <1>1, <1>15, <2>3 DEF Kept
    <3>3. Keeps(knowndevs', v) = Keeps(knowndevs, v)
      BY <3>2 DEF Keeps
    <3> QED
      BY <1>12, <2>1, <3>1, <3>3
  <2> QED
    BY <2>2, <2>3
<1>17. FsStays'
  <2> SUFFICES ASSUME NEW k \in Disks, kd_fs[k] # "mounted",
                      NEW v \in SfsVnodes(k)
               PROVE  vn_refcount'[v] = 0
    BY <1>2 DEF FsStays
  <2>1. v \in Vnodes /\ v.fs = k
    BY DEF Vnodes, SfsVnodes, Vn
  <2>2. v # DevVn(d) /\ v # EmuRoot
    BY <1>13, <1>14, <2>1, FsApart
  <2>3. vn_refcount[v] = 0
    BY NotLoaded
  <2> QED
    BY <1>1, <2>1, <2>2, <2>3
<1>18. Loaded'
  <2> SUFFICES ASSUME NEW h \in Handles
               PROVE  ev_file'[h] # NULL <=> vn_refcount'[EmuVn(h)] > 0
    BY DEF Loaded
  <2>1. /\ EmuVn(h) \in Vnodes /\ EmuVn(h).fs = EMU /\ EmuVn(h).obj = h
        /\ EmuVn(h) # DevVn(d)
    BY <1>13, VnodeMade, VnodeFields, FsApart DEF EmuVn
  <2>2. CASE d = EMU /\ h = EMU_ROOTHANDLE
    <3>1. EmuVn(h) = EmuRoot
      BY <2>2 DEF EmuRoot
    <3>2. vn_refcount'[EmuVn(h)] = 1
      BY <1>1, <2>1, <2>2, <3>1
    <3> QED
      BY <1>6, <1>7, <2>2, <3>2
  <2>3. CASE ~(d = EMU /\ h = EMU_ROOTHANDLE)
    <3>1. ev_file'[h] = ev_file[h]
      BY <1>7, <2>3
    <3>2. ~(d = EMU /\ EmuVn(h) = EmuRoot)
      BY <1>14, <2>1, <2>3
    <3>3. vn_refcount'[EmuVn(h)] = vn_refcount[EmuVn(h)]
      BY <1>1, <2>1, <3>2
    <3> QED
      BY <3>1, <3>3 DEF Rest, EmuRight, Loaded
  <2> QED
    BY <2>2, <2>3
<1>19. RightFile'
  <2>1. CASE d = EMU
    <3>1. \A h \in Handles : h # EMU_ROOTHANDLE => ev_file'[h] = NULL
      BY <1>1, <1>3, <1>7, <2>1
    <3>2. hw[EMU_ROOTHANDLE] = <<>>
      BY <1>3, <1>6
    <3> QED
      BY <1>2, <1>7, <2>1, <3>1, <3>2 DEF RightFile
  <2>2. CASE d # EMU
    BY <1>2, <1>7, <2>2 DEF Rest, EmuRight, RightFile
  <2> QED
    BY <2>1, <2>2
<1>20. Reserved'
  BY <1>2, <1>4, NoLocIs DEF Reserved
<1>21. HandlesUsed'
  <2> SUFFICES ASSUME env \cap {"media", "shared"} = {}, EMU \in knowndevs',
                      NEW h \in Handles, hw[h] # NULL
               PROVE  vn_refcount'[EmuVn(h)] > 0
    BY <1>2 DEF HandlesUsed
  <2>1. h = EMU_ROOTHANDLE
    BY <1>3
  <2>2. EmuVn(h) = EmuRoot
    BY <2>1 DEF EmuRoot
  <2>3. CASE d = EMU
    BY <1>1, <1>14, <2>2, <2>3
  <2>4. CASE d # EMU
    <3>1. EMU \in knowndevs
      BY <1>1, <2>4
    <3>2. vn_refcount[EmuRoot] > 0
      BY <3>1, EmuRootLoaded
    <3>3. vn_refcount'[EmuRoot] \in {1, vn_refcount[EmuRoot]}
      BY <1>1, <1>14
    <3> QED
      BY <2>2, <3>2, <3>3
  <2> QED
    BY <2>3, <2>4
<1>22. EmuRight'
  BY <1>18, <1>19, <1>20, <1>21 DEF EmuRight
<1>23. DirsRight'
  BY <1>2, <1>3 DEF DirsRight
<1>24. NoPanic'
  BY <1>2 DEF Rest, NoPanic
<1> QED
  BY <1>9, <1>10, <1>11, <1>16, <1>17, <1>22, <1>23, <1>24 DEF Rest

\* The end of boot has it all.
LEMMA InitRight == Init => Types /\ Rest
<1> SUFFICES ASSUME Init PROVE Types /\ Rest
  OBVIOUS
<1>1. /\ kd_fs = [d \in Disks |-> NULL]
      /\ knowndevs = {"null"}
      /\ vn_refcount = [v \in Vnodes |-> IF v = DevVn("null") THEN 1 ELSE 0]
      /\ ev_file = [h \in Handles |-> NULL]
      /\ hw = [h \in Handles |-> IF h = EMU_ROOTHANDLE THEN <<>> ELSE NULL]
      /\ t_cwd = [t \in Threads |-> NULL]
      /\ bootfs_vnode = NULL
      /\ swapped = [d \in Disks |-> 0]
      /\ pc = [t \in Threads |-> "idle"]
      /\ loc = [t \in Threads |-> NoLoc]
      /\ open = [t \in Threads |-> NULL]
      /\ env \in Environments
      /\ panic = "none"
  BY DEF Init
<1>2. PICK t \in Threads : live = {t}
  <2>1. \E t \in Threads : TRUE
    BY VfsAssumptions
  <2>2. (CHOOSE t \in Threads : TRUE) \in Threads
    BY <2>1
  <2> QED
    BY <2>2 DEF Init
<1>3. <<>> \in FileOrNull /\ NULL \in FileOrNull /\ NULL \in VnOrNull
  <2>1. <<>> \in Seq(Names)
    OBVIOUS
  <2> QED
    BY <2>1 DEF FileOrNull, VnOrNull
<1>4. EMU # "null"
  BY DEF EMU
<1>5. Types
  BY <1>1, <1>2, <1>3, NoLocIs DEF Types, Labels, Devices
<1>6. CallsRight /\ GoneHaveNothing
  BY <1>1, IdleRight DEF CallsRight, GoneHaveNothing
<1>7. Fresh
  BY <1>1, <1>2 DEF Fresh
<1>8. DevVn("null") \in Vnodes /\ DevVn("null").fs = "none"
      /\ DevVn("null").obj = "null"
  BY VnodeMade, VnodeFields DEF DevVn, Devices
<1>9. ASSUME NEW v \in Vnodes PROVE vn_refcount[v] = Refcount(v)
  <2>1. Refcount(v) = Keeps(knowndevs, v)
    BY <1>1, NobodyHas DEF Refcount
  <2>2. Kept(knowndevs, v) <=> v = DevVn("null")
    BY <1>1, <1>4, <1>8, VnodeIs DEF Kept, DevVn
  <2>3. Keeps(knowndevs, v) = IF v = DevVn("null") THEN 1 ELSE 0
    BY <2>2 DEF Keeps
  <2> QED
    BY <1>1, <2>1, <2>3
<1>10. Counted
  <2> SUFFICES ASSUME NEW v \in Vnodes
               PROVE  /\ vn_refcount[v] >= Refcount(v)
                      /\ v.fs # EMU \/ ~Media => vn_refcount[v] = Refcount(v)
    BY DEF Counted
  <2>1. vn_refcount[v] \in Nat /\ vn_refcount[v] = Refcount(v)
    BY <1>5, <1>9 DEF Types
  <2> QED
    BY <2>1
<1>11. FsStays
  <2> SUFFICES ASSUME NEW d \in Disks, NEW v \in SfsVnodes(d)
               PROVE  vn_refcount[v] = 0
    BY DEF FsStays
  <2>1. v \in Vnodes /\ v.fs = d
    BY DEF Vnodes, SfsVnodes, Vn
  <2>2. v # DevVn("null")
    BY <1>8, <2>1, FsApart
  <2> QED
    BY <1>1, <2>1, <2>2
<1>12. EmuRight
  <2>1. Loaded
    <3> SUFFICES ASSUME NEW h \in Handles
                 PROVE  ev_file[h] # NULL <=> vn_refcount[EmuVn(h)] > 0
      BY DEF Loaded
    <3>1. EmuVn(h) \in Vnodes /\ EmuVn(h) # DevVn("null")
      BY <1>8, VnodeMade, VnodeFields, FsApart DEF EmuVn
    <3> QED
      BY <1>1, <3>1
  <2>2. RightFile /\ Reserved
    BY <1>1, NoLocIs DEF RightFile, Reserved
  <2>3. HandlesUsed
    BY <1>1, <1>4 DEF HandlesUsed
  <2> QED
    BY <2>1, <2>2, <2>3 DEF EmuRight
<1>13. DirsRight /\ NoPanic
  BY <1>1 DEF DirsRight, NoPanic
<1> QED
  BY <1>5, <1>6, <1>7, <1>10, <1>11, <1>12, <1>13 DEF Rest

\* Every step keeps it.
LEMMA StepKept ==
  ASSUME NEW t \in Threads, Types, Rest, Step(t)
  PROVE  Types' /\ Rest'
<1>1. CASE CreatLoad(t)
  <2>1. CASE LoadNoMem(loc[t].h)
    BY <1>1, <2>1, CreatNoMemKept
  <2>2. CASE ~LoadNoMem(loc[t].h)
    BY <1>1, <2>2, CreatLoadedKept
  <2> QED
    BY <2>1, <2>2
<1>2. CASE Creat(t) \/ CreatClose(t) \/ DropDir(t) \/ Drop(t)
  BY <1>2, CreatKept, CreatCloseKept, DropDirKept, DropKept
<1>3. CASE DoOpen(t) \/ Both(t) \/ Setcurdir(t) \/ GetcwdName(t)
  BY <1>3, DoOpenKept, BothKept, SetcurdirKept, GetcwdNameKept
<1>4. CASE \E p \in Paths : Second(t, p)
  BY <1>4, SecondKept
<1> QED
  BY <1>1, <1>2, <1>3, <1>4 DEF Step

\* The system calls that are given a path.
LEMMA PathCallKept ==
  ASSUME NEW t \in Threads, NEW p \in Paths, Types, Rest,
         \/ NameCall(t, p) \/ Readlink(t, p) \/ RenameFirst(t, p)
         \/ LinkFirst(t, p) \/ Chdir(t, p)
         \/ \E mode \in OpenModes :
               \/ OpenCreat(t, p, mode[1], mode[2])
               \/ OpenThere(t, p, mode[1], mode[2])
  PROVE  Types' /\ Rest'
<1>1. CASE NameCall(t, p) \/ Readlink(t, p) \/ RenameFirst(t, p)
  BY <1>1, NameCallKept, ReadlinkKept, RenameFirstKept
<1>2. CASE LinkFirst(t, p) \/ Chdir(t, p)
  BY <1>2, LinkFirstKept, ChdirKept
<1>3. CASE \E mode \in OpenModes :
              \/ OpenCreat(t, p, mode[1], mode[2])
              \/ OpenThere(t, p, mode[1], mode[2])
  <2>1. PICK mode \in OpenModes : \/ OpenCreat(t, p, mode[1], mode[2])
                                  \/ OpenThere(t, p, mode[1], mode[2])
    BY <1>3
  <2>2. mode[1] \in BOOLEAN /\ mode[2] \in BOOLEAN
    BY VfsAssumptions
  <2> QED
    BY <2>1, <2>2, OpenCreatKept, OpenThereKept
<1> QED
  BY <1>1, <1>2, <1>3

\* The calls that are given the name of a disk.
LEMMA DiskKept ==
  ASSUME NEW t \in Threads, NEW d \in Disks, Types, Rest,
         \/ Mount(t, d) \/ Unmount(t, d) \/ Swapon(t, d) \/ Swapoff(t, d)
  PROVE  Types' /\ Rest'
BY MountKept, UnmountKept, SwaponKept, SwapoffKept

\* Every step keeps it, whichever call it is of.
LEMMA VfsNext ==
  ASSUME Types, Rest, [Next]_vars
  PROVE  Types' /\ Rest'
<1>1. CASE UNCHANGED vars
  <2>1. UNCHANGED <<kd_fs, knowndevs, swapped, vn_refcount, env, panic>>
    BY <1>1 DEF vars, devvars, vnvars
  <2>2. UNCHANGED <<vnvars, refvars, thvars>>
    BY <1>1 DEF vars
  <2>3. kd_fs' \in [Disks -> {NULL, "mounted", "swap"}]
    BY <2>1 DEF Types
  <2>4. FsStays'
    BY <2>1 DEF Rest, FsStays
  <2> QED
    BY <2>1, <2>2, <2>3, <2>4, KdKept
<1>2. CASE Next
  <2>1. PICK t \in Threads :
          \/ Step(t) \/ Close(t) \/ Getcwd(t) \/ Clearbootfs(t)
          \/ Clearcurdir(t) \/ Exit(t) \/ Unmountall(t)
          \/ \E p \in Paths :
                \/ NameCall(t, p) \/ Readlink(t, p) \/ RenameFirst(t, p)
                \/ LinkFirst(t, p) \/ Chdir(t, p)
                \/ \E mode \in OpenModes :
                      \/ OpenCreat(t, p, mode[1], mode[2])
                      \/ OpenThere(t, p, mode[1], mode[2])
          \/ \E op \in FileOps : Use(t, op)
          \/ \E name \in {"null", EMU} \union Disks : Setbootfs(t, name)
          \/ \E d \in Disks : Mount(t, d) \/ Unmount(t, d) \/ Swapon(t, d)
                              \/ Swapoff(t, d)
          \/ \E d \in Devices : AddDev(t, d)
          \/ \E u \in Threads : Fork(t, u)
    BY <1>2 DEF Next
  <2>2. CASE Step(t)
    BY <2>2, StepKept
  <2>3. CASE Close(t) \/ Getcwd(t)
    BY <2>3, CloseKept, GetcwdKept
  <2>4. CASE Clearbootfs(t) \/ Clearcurdir(t)
    BY <2>4, ClearKept
  <2>5. CASE Exit(t) \/ Unmountall(t)
    BY <2>5, ExitKept, UnmountallKept
  <2>6. CASE \E p \in Paths :
                \/ NameCall(t, p) \/ Readlink(t, p) \/ RenameFirst(t, p)
                \/ LinkFirst(t, p) \/ Chdir(t, p)
                \/ \E mode \in OpenModes :
                      \/ OpenCreat(t, p, mode[1], mode[2])
                      \/ OpenThere(t, p, mode[1], mode[2])
    BY <2>6, PathCallKept
  <2>7. CASE \E op \in FileOps : Use(t, op)
    BY <2>7, UseKept
  <2>8. CASE \E name \in {"null", EMU} \union Disks : Setbootfs(t, name)
    BY <2>8, SetbootfsKept
  <2>9. CASE \E d \in Disks : Mount(t, d) \/ Unmount(t, d) \/ Swapon(t, d)
                              \/ Swapoff(t, d)
    BY <2>9, DiskKept
  <2>10. CASE \E d \in Devices : AddDev(t, d)
    BY <2>10, AddDevKept
  <2>11. CASE \E u \in Threads : Fork(t, u)
    BY <2>11, ForkKept
  <2> QED
    BY <2>1, <2>2, <2>3, <2>4, <2>5, <2>6, <2>7, <2>8, <2>9, <2>10, <2>11
<1> QED
  BY <1>1, <1>2

\* Whatever paths and names the calls are given, and whichever of their steps
\* fails.
THEOREM VfsInvariant == Spec => [](Types /\ Rest)
BY InitRight, VfsNext, PTL DEF Spec

-----------------------------------------------------------------------------
\* What the runs check follows.

\* Threads with a tag.
Tagged(tag, S) == {<<tag, t>> : t \in S}

\* They are as many as they are without it, which Holders puts in front.
LEMMA TaggedCount ==
  ASSUME NEW S \in SUBSET Threads, NEW tag
  PROVE  /\ IsFiniteSet(Tagged(tag, S))
         /\ Cardinality(Tagged(tag, S)) = Cardinality(S)
<1> DEFINE T == Tagged(tag, S)
<1> USE DEF Tagged
<1> DEFINE f == [t \in S |-> <<tag, t>>]
<1>1. IsFiniteSet(S)
  BY VfsAssumptions, FS_Subset
<1>2. f \in [S -> T]
  OBVIOUS
<1>3. \A x \in T : \E t \in S : f[t] = x
  OBVIOUS
<1>4. \A x, y \in S : f[x] = f[y] => x = y
  OBVIOUS
<1>5. f \in Bijection(S, T)
  BY <1>2, <1>3, <1>4 DEF Bijection, Injection, Surjection, IsInjective
<1>6. ExistsBijection(S, T)
  BY <1>5 DEF ExistsBijection
<1> QED
  BY <1>1, <1>6, FS_Bijection

\* Two kinds of holders of a vnode are counted one after the other.
LEMMA ApartCount ==
  ASSUME NEW S, NEW T, IsFiniteSet(S), IsFiniteSet(T), S \cap T = {}
  PROVE  /\ IsFiniteSet(S \union T)
         /\ Cardinality(S \union T) = Cardinality(S) + Cardinality(T)
<1>1. /\ IsFiniteSet(S \union T)
      /\ Cardinality(S \union T) =
           Cardinality(S) + Cardinality(T) - Cardinality(S \cap T)
  BY FS_Union
<1>2. /\ Cardinality(S \cap T) = 0
      /\ Cardinality(S) \in Nat /\ Cardinality(T) \in Nat
  BY FS_EmptySet, FS_CardinalityType
<1> QED
  BY <1>1, <1>2

\* At most one of what is kept, or of the boot directory.
LEMMA OneOrNone ==
  ASSUME NEW S, NEW x, NEW n \in {0, 1}, n = 1 => S = {x}, n = 0 => S = {}
  PROVE  IsFiniteSet(S) /\ Cardinality(S) = n
<1>1. CASE n = 1
  <2>1. S = {x}
    BY <1>1
  <2>2. IsFiniteSet({x}) /\ Cardinality({x}) = 1
    BY FS_Singleton
  <2> QED
    BY <1>1, <2>1, <2>2
<1>2. CASE n = 0
  BY <1>2, FS_EmptySet
<1> QED
  BY <1>1, <1>2

\* The references are those of the holders.
LEMMA HoldersCount ==
  ASSUME Types, Rest, Devices \subseteq knowndevs, NEW v \in Vnodes
  PROVE  Refcount(v) = Cardinality(Holders(v)) + SwapRefs(v)
<1> DEFINE SA == {t \in Threads : open[t] = v}
           SB == {t \in Threads : t_cwd[t] = v}
           SC == {t \in Threads : loc[t].dir = v}
           SD == {t \in Threads : loc[t].dir2 = v}
           SE == {t \in Threads : loc[t].vn = v}
           A == Tagged("open", SA)
           B == Tagged("cwd", SB)
           C == Tagged("dir", SC)
           D == Tagged("dir2", SD)
           E == Tagged("vn", SE)
           F == IF bootfs_vnode = v THEN {<<"boot", NULL>>} ELSE {}
           G == IF v = EmuRoot \/ v \in DevVnodes THEN {<<"kept", NULL>>}
                ELSE {}
<1>1. v # NULL /\ live \subseteq Threads
  BY NullAssumption DEF Types
<1>2. \A t \in Threads \ live :
         /\ open[t] # v /\ t_cwd[t] # v
         /\ loc[t].dir # v /\ loc[t].dir2 # v /\ loc[t].vn # v
  BY <1>1, NoLocIs DEF Rest, GoneHaveNothing, CallsRight, CallRight
<1>3. /\ {u \in live : open[u] = v} = SA
      /\ {u \in live : t_cwd[u] = v} = SB
  BY <1>1, <1>2
<1>4. {ft \in {"dir", "dir2", "vn"} \X live : loc[ft[2]][ft[1]] = v}
        = C \union D \union E
  BY <1>1, <1>2 DEF Tagged
<1>5. Holders(v) = ((((A \union B) \union (C \union D \union E)) \union F)
                      \union G)
  BY <1>3, <1>4 DEF Holders, Tagged
<1>6. /\ IsFiniteSet(A) /\ Cardinality(A) = Cardinality(SA)
      /\ IsFiniteSet(B) /\ Cardinality(B) = Cardinality(SB)
      /\ IsFiniteSet(C) /\ Cardinality(C) = Cardinality(SC)
      /\ IsFiniteSet(D) /\ Cardinality(D) = Cardinality(SD)
      /\ IsFiniteSet(E) /\ Cardinality(E) = Cardinality(SE)
  <2>1. /\ SA \in SUBSET Threads /\ SB \in SUBSET Threads
        /\ SC \in SUBSET Threads /\ SD \in SUBSET Threads
        /\ SE \in SUBSET Threads
    OBVIOUS
  <2> HIDE DEF SA, SB, SC, SD, SE
  <2> QED
    BY <2>1, TaggedCount
<1>7. IsFiniteSet(F) /\ Cardinality(F) = Same(bootfs_vnode, v)
  <2>1. /\ Same(bootfs_vnode, v) \in {0, 1}
        /\ Same(bootfs_vnode, v) = 1 => F = {<<"boot", NULL>>}
        /\ Same(bootfs_vnode, v) = 0 => F = {}
    BY DEF Same
  <2> HIDE DEF F
  <2> QED
    BY <2>1, OneOrNone
<1>8. IsFiniteSet(G) /\ Cardinality(G) = Keeps(knowndevs, v)
  <2>1. Kept(knowndevs, v) <=> v = EmuRoot \/ v \in DevVnodes
    <3>1. EMU \in knowndevs /\ \A d \in Devices : d \in knowndevs
      BY DEF Devices
    <3>2. v.fs = "none" => v = DevVn(v.obj) /\ v.obj \in Devices
      BY VnodeIs DEF DevVn
    <3>3. v \in DevVnodes => v.fs = "none" /\ v.obj \in Devices
      BY VnodeFields DEF DevVnodes, DevVn
    <3> QED
      BY <3>1, <3>2, <3>3 DEF Kept, DevVnodes
  <2>2. Keeps(knowndevs, v) = IF v = EmuRoot \/ v \in DevVnodes THEN 1 ELSE 0
    BY <2>1 DEF Keeps
  <2>3. /\ Keeps(knowndevs, v) \in {0, 1}
        /\ Keeps(knowndevs, v) = 1 => G = {<<"kept", NULL>>}
        /\ Keeps(knowndevs, v) = 0 => G = {}
    BY <2>2
  <2> HIDE DEF G
  <2> QED
    BY <2>3, OneOrNone
<1>9. /\ A \cap B = {} /\ C \cap D = {} /\ (C \union D) \cap E = {}
      /\ (A \union B) \cap (C \union D \union E) = {}
      /\ ((A \union B) \union (C \union D \union E)) \cap F = {}
      /\ (((A \union B) \union (C \union D \union E)) \union F) \cap G = {}
  BY DEF Tagged
<1> HIDE DEF A, B, C, D, E, F, G
<1>10. /\ IsFiniteSet(A \union B)
       /\ Cardinality(A \union B) = Cardinality(A) + Cardinality(B)
  BY <1>6, <1>9, ApartCount
<1>11. /\ IsFiniteSet(C \union D)
       /\ Cardinality(C \union D) = Cardinality(C) + Cardinality(D)
  BY <1>6, <1>9, ApartCount
<1>12. /\ IsFiniteSet(C \union D \union E)
       /\ Cardinality(C \union D \union E) =
            Cardinality(C \union D) + Cardinality(E)
  BY <1>6, <1>9, <1>11, ApartCount
<1> DEFINE X == (A \union B) \union (C \union D \union E)
<1>13. /\ IsFiniteSet(X)
       /\ Cardinality(X) =
            Cardinality(A \union B) + Cardinality(C \union D \union E)
  BY <1>9, <1>10, <1>12, ApartCount
<1>14. X \cap F = {} /\ (X \union F) \cap G = {}
       /\ Holders(v) = (X \union F) \union G
  BY <1>5, <1>9
<1> HIDE DEF X
<1>15. /\ IsFiniteSet(X \union F)
       /\ Cardinality(X \union F) = Cardinality(X) + Cardinality(F)
  BY <1>7, <1>13, <1>14, ApartCount
<1>16. Cardinality((X \union F) \union G) =
         Cardinality(X \union F) + Cardinality(G)
  BY <1>8, <1>14, <1>15, ApartCount
<1>17. Cardinality(Holders(v)) =
         Cardinality(SA) + Cardinality(SB) + Cardinality(SC)
           + Cardinality(SD) + Cardinality(SE)
           + Same(bootfs_vnode, v) + Keeps(knowndevs, v)
  <2>1. /\ Cardinality(SA) \in Nat /\ Cardinality(SB) \in Nat
        /\ Cardinality(SC) \in Nat /\ Cardinality(SD) \in Nat
        /\ Cardinality(SE) \in Nat
    BY ThreadsCount
  <2>2. Same(bootfs_vnode, v) \in Nat /\ Keeps(knowndevs, v) \in Nat
    BY DEF Same, Keeps
  <2> HIDE DEF SA, SB, SC, SD, SE
  <2> QED
    BY <1>6, <1>7, <1>8, <1>10, <1>11, <1>12, <1>13, <1>14, <1>15, <1>16,
       <2>1, <2>2
<1>18. SwapRefs(v) = SwapsOf(swapped, v)
  BY DEF SwapRefs, SwapsOf
<1> QED
  BY <1>17, <1>18 DEF Refcount, HoldersOf

\* What the run checks of the references of a vnode.
LEMMA RightRefs ==
  ASSUME Types, Rest
  PROVE  RefsRight
<1>1. TypeOK
  <2>1. Loaded
    BY DEF Rest, EmuRight
  <2>2. /\ \A d \in Disks : kd_fs[d] \in {NULL, "mounted", "swap"}
        /\ \A v \in Vnodes : vn_refcount[v] \in Nat
        /\ live \subseteq Threads /\ live # {}
    BY DEF Types
  <2> QED
    BY <2>1, <2>2 DEF TypeOK, Loaded
<1>2. RefsMatch
  <2> SUFFICES ASSUME env \cap {"media"} = {}, Devices \subseteq knowndevs,
                      NEW v \in Vnodes
               PROVE  vn_refcount[v] =
                         Cardinality(Holders(v)) + SwapRefs(v)
    BY DEF RefsMatch
  <2>1. vn_refcount[v] = Refcount(v)
    BY DEF Rest, Counted, Media
  <2> QED
    BY <2>1, HoldersCount
<1>3. FsStays
  BY DEF Rest
<1>4. CwdIsDir
  BY DEF Rest, DirsRight, CwdIsDir, Types
<1> QED
  BY <1>1, <1>2, <1>3, <1>4 DEF RefsRight

\* What the run checks of the handles of the emulator.
LEMMA RightHandles ==
  ASSUME Types, Rest
  PROVE  HandlesRight
<1>1. RightFile
  BY DEF Rest, EmuRight
<1>2. HandlesClosed
  <2> SUFFICES ASSUME env \cap {"media", "shared"} = {}, EMU \in knowndevs,
                      NEW h \in Handles, hw[h] # NULL,
                      ~(vn_refcount[EmuVn(h)] > 0)
               PROVE  \E t \in live : loc[t].h = h
    BY DEF HandlesClosed
  <2>1. PICK t \in Threads : loc[t].h = h
    BY DEF Rest, EmuRight, HandlesUsed
  <2>2. h # NULL
    BY NullAssumption
  <2>3. t \in live
    BY <2>1, <2>2, NoLocIs
       DEF Rest, GoneHaveNothing, CallsRight, CallRight
  <2> QED
    BY <2>1, <2>3
<1> QED
  BY <1>1, <1>2 DEF HandlesRight

\* A vnode's count is the number of those who have it, in open files, current
\* directories and the middle of calls; its volume stays mounted as long, and
\* a current directory is a directory of a file system.
THEOREM VfsRefsRight == Spec => []RefsRight
BY VfsInvariant, RightRefs, PTL

\* A vnode of the emulator has the handle of the file it was opened as, and no
\* handle is left open that nothing will close.
THEOREM VfsHandlesRight == Spec => []HandlesRight
BY VfsInvariant, RightHandles, PTL

\* No reference is given up that was not there, no name asked for of a volume
\* that is gone, no function called that is not there, no closed handle used,
\* but for what Breaks lists.
THEOREM VfsNoPanic == Spec => []NoPanic
<1>1. Types /\ Rest => NoPanic
  BY DEF Rest
<1> QED
  BY <1>1, VfsInvariant, PTL
=============================================================================
