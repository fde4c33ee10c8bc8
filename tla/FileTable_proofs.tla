-------------------------- MODULE FileTable_proofs --------------------------
(***************************************************************************)
(* Proofs about FileTable: for any numbers of processes, descriptors, heap *)
(* addresses and vnodes, and any set of events of the environment, open    *)
(* files are counted and freed right as long as no program calls close or  *)
(* dup2, and what fails otherwise is what Breaks lists.                    *)
(*                                                                         *)
(* A step changes the entry of at most one descriptor and one struct file. *)
(* What such a change does to the descriptors of a file (Slots), the       *)
(* entries in use of a table (Used) and the references to a vnode          *)
(* (References), and so to their numbers, is shown once, of sets.          *)
(***************************************************************************)
EXTENDS FileTable, FiniteSetTheorems, TLAPS

Labels == {"none", "run", "io", "seek", "close", "dup2", "copy", "born",
           "exit", "des"}

Locs == [fd : 0 .. MAX_OPEN_FILES, f : Files \union {NULL},
         op : {"none", "read", "write"}, off : 0 .. MaxOffset,
         child : Procs \union {NULL}]

Types ==
    /\ TypeOK
    /\ pc \in [Procs -> Labels]
    /\ loc \in [Procs -> Locs]
    /\ env \subseteq EnvEvents

\* The table of a process that does not exist is empty.
NoneEmpty == \A p \in Procs : pc[p] = "none" => Used(p) = {}

\* A child being made has one parent, and what that has copied so far.
CopiesRight ==
    /\ \A p \in Procs : pc[p] = "copy" =>
          /\ loc[p].child \in Procs /\ pc[loc[p].child] = "born"
          /\ fd_lk[p] /\ fd_lk[loc[p].child]
          /\ \A i \in Fds : fd_ofiles[loc[p].child][i] =
                IF i < loc[p].fd THEN fd_ofiles[p][i] ELSE NULL
    /\ \A p, q \in Procs :
          pc[p] = "copy" /\ pc[q] = "copy" /\ loc[p].child = loc[q].child
            => p = q

\* A call works on the file that its descriptor leads to.
EntryOf(p) ==
    /\ pc[p] \in {"io", "seek", "close"} =>
         /\ loc[p].fd \in Fds
         /\ fd_ofiles[p][loc[p].fd] = loc[p].f
    /\ pc[p] \in {"io", "seek", "close", "dup2", "des"} =>
         loc[p].f \in Files
    /\ pc[p] = "close" => "close" \in env
    /\ pc[p] = "dup2" => "dup2" \in env

EntryRight == \A p \in Procs : EntryOf(p)

\* fd_nfiles counts the descriptors of a table.
NfilesRight ==
    "dup2" \notin env => \A p \in Procs : fd_lk[p] =>
        fd_nfiles[p] = Cardinality(Used(p))

TablesInv == NoneEmpty /\ CopiesRight /\ EntryRight /\ NfilesRight

\* A file is not referenced more often than there are descriptors for it.
RefsFit ==
    "dup2" \notin env => \A f \in Files : file[f].live =>
        file[f].f_refcount <= Cardinality(Slots(f))

\* A vnode has the references that its files will give back.
VnodeEnough ==
    None({"dup2", "full", "stat"}) => \A v \in Vnodes :
        vn_refcount[v] >= Cardinality(References(v))

Calm == None({"close", "dup2"})

\* Without close and dup2, every process has its table, and a file that is
\* being closed for good, or is locked, is there.
LkRight == \A p \in Procs : fd_lk[p] <=> pc[p] # "none"

UsersRight ==
    \A p \in Procs :
      /\ pc[p] = "des" => file[loc[p].f].live
      /\ pc[p] \in {"seek", "des"} => file[loc[p].f].f_lk = p

\* While no calls overlap, a call finds the offset it has read.
OffsetsRight ==
    None({"overlap", "close", "dup2"}) =>
      /\ \A p, q \in Procs :
           /\ pc[p] \in {"io", "seek"} /\ pc[q] \in {"io", "seek"}
           /\ loc[p].f = loc[q].f
           => p = q
      /\ \A p \in Procs : pc[p] = "io" =>
           file[loc[p].f].f_offset = loc[p].off

\* No call goes against a mode that is all its file was opened with.
OnlyKept ==
    None({"close", "dup2"}) /\ panic = "none" =>
        \A p \in Procs : pc[p] = "io" =>
            file[loc[p].f].f_oflags # Only(Against(loc[p].op))

CountsInv == RefsFit /\ VnodeEnough /\ CountsSlots /\ VnodeCounted

CalmInv ==
    /\ Calm => LkRight /\ UsersRight
    /\ OffsetsRight /\ OffsetCounts /\ OnlyKept

FileInv ==
    /\ Types /\ NoPanic
    /\ panic = "none" => TablesInv /\ CountsInv /\ CalmInv

-----------------------------------------------------------------------------
\* Finite sets, and what one element more or less does to their numbers.

\* fd_attach finds the first entry of those that are free.
LEMMA MinOfFds ==
  ASSUME NEW S \in SUBSET Fds, S # {}
  PROVE  Min(S) \in S
<1>0. S \in SUBSET Nat
  BY FileTableAssumptions DEF Fds
<1>1. IsWellFoundedOn(OpToRel(<, Nat), Nat)
  BY NatLessThanWellFounded
<1>2. PICK x \in S : \A y \in S : <<y, x>> \notin OpToRel(<, Nat)
  BY <1>0, <1>1, WFMin
<1>3. \A y \in S : ~(y < x)
  BY <1>0, <1>2 DEF OpToRel
<1>4. \A y \in S : x =< y
  BY <1>0, <1>3
<1> QED
  BY <1>4 DEF Min

\* A uint16_t counts up and down by one inside its range.
LEMMA WordIs ==
  /\ WORD \in Nat /\ WORD > 0
  /\ \A n \in Nat : n < WORD => Uint16(n) = n
  /\ \A n \in Nat : n > 0 /\ n < WORD => Uint16(n - 1) = n - 1
  /\ \A n \in Int : Uint16(n) \in 0 .. WORD - 1
<1>1. WORD \in Nat /\ WORD > 0
  BY DEF WORD
<1>2. \A w \in Nat, n \in Nat : w > 0 /\ n < w => n % w = n
  OBVIOUS
<1>3. \A w \in Nat, n \in Int : w > 0 => n % w \in 0 .. w - 1
  OBVIOUS
<1>4. \A n \in Nat : n < WORD => Uint16(n) = n
  BY <1>1, <1>2 DEF Uint16
<1>5. \A n \in Nat : n > 0 /\ n < WORD => Uint16(n - 1) = n - 1
  <2>1. \A n \in Nat, w \in Nat : n > 0 /\ n < w =>
           n - 1 \in Nat /\ n - 1 < w
    OBVIOUS
  <2> QED
    BY <1>1, <1>4, <2>1
<1>6. \A n \in Int : Uint16(n) \in 0 .. WORD - 1
  BY <1>1, <1>3 DEF Uint16
<1> QED
  BY <1>1, <1>4, <1>5, <1>6

\* Any entries of a table, and any descriptors, are fewer than WORD.
LEMMA Fits ==
  /\ IsFiniteSet(Fds) /\ IsFiniteSet(Procs \X Fds)
  /\ \A S \in SUBSET (Procs \X Fds) :
       IsFiniteSet(S) /\ Cardinality(S) \in Nat /\ Cardinality(S) < WORD
  /\ \A S \in SUBSET Fds :
       IsFiniteSet(S) /\ Cardinality(S) \in Nat /\ Cardinality(S) < WORD
<1>1. IsFiniteSet(Fds)
  BY FS_Interval, FileTableAssumptions DEF Fds
<1>2. IsFiniteSet(Procs \X Fds) /\ Cardinality(Procs \X Fds) \in Nat
  BY <1>1, CountsFit, FS_Product, FS_CardinalityType
<1>3. ASSUME NEW S \in SUBSET (Procs \X Fds)
      PROVE  /\ IsFiniteSet(S) /\ Cardinality(S) \in Nat
             /\ Cardinality(S) < WORD
  <2>1. IsFiniteSet(S) /\ Cardinality(S) <= Cardinality(Procs \X Fds)
    BY <1>2, FS_Subset
  <2>2. Cardinality(S) \in Nat
    BY <2>1, FS_CardinalityType
  <2>w. WORD \in Nat
    BY WordIs
  <2>3. PICK m \in Nat : m = Cardinality(Procs \X Fds)
    BY <1>2
  <2>4. PICK n \in Nat : n = Cardinality(S)
    BY <2>2
  <2>5. m < WORD /\ n <= m
    BY <2>1, <2>3, <2>4, CountsFit
  <2>6. n < WORD
    BY <2>w, <2>5
  <2> QED
    BY <2>1, <2>4, <2>6
<1>4. ASSUME NEW U \in SUBSET Fds
      PROVE  /\ IsFiniteSet(U) /\ Cardinality(U) \in Nat
             /\ Cardinality(U) < WORD
  <2> DEFINE S == {First} \X U
  <2>1. IsFiniteSet(U) /\ Cardinality(U) \in Nat
    BY <1>1, FS_Subset, FS_CardinalityType
  <2>2. IsFiniteSet({First}) /\ Cardinality({First}) = 1
    BY FS_Singleton
  <2>3. Cardinality(S) = Cardinality({First}) * Cardinality(U)
    BY <2>1, <2>2, FS_Product
  <2>4. Cardinality(S) = Cardinality(U)
    BY <2>1, <2>2, <2>3
  <2>5. S \in SUBSET (Procs \X Fds)
    BY FileTableAssumptions
  <2>6. Cardinality(S) < WORD
    BY <1>3, <2>5
  <2> QED
    BY <2>1, <2>4, <2>6
<1> QED
  BY <1>1, <1>2, <1>3, <1>4

\* So are the entries in use and the descriptors that lead to a file.
LEMMA Finite ==
  /\ \A p : /\ IsFiniteSet(Used(p)) /\ Cardinality(Used(p)) \in Nat
            /\ Cardinality(Used(p)) < WORD
  /\ \A f : /\ IsFiniteSet(Slots(f)) /\ Cardinality(Slots(f)) \in Nat
            /\ Cardinality(Slots(f)) < WORD
<1>1. \A p : Used(p) \in SUBSET Fds
  BY DEF Used
<1>2. \A f : Slots(f) \in SUBSET (Procs \X Fds)
  BY DEF Slots
<1> QED
  BY <1>1, <1>2, Fits

\* And so they are after a step.
LEMMA FiniteNext ==
  /\ \A p : /\ IsFiniteSet(Used(p)') /\ Cardinality(Used(p)') \in Nat
            /\ Cardinality(Used(p)') < WORD
  /\ \A f : /\ IsFiniteSet(Slots(f)') /\ Cardinality(Slots(f)') \in Nat
            /\ Cardinality(Slots(f)') < WORD
<1>1. \A p : Used(p)' \in SUBSET Fds
  BY DEF Used
<1>2. \A f : Slots(f)' \in SUBSET (Procs \X Fds)
  BY DEF Slots
<1> QED
  BY <1>1, <1>2, Fits

\* One element more.
LEMMA OneMore ==
  ASSUME NEW S, NEW T, NEW x, IsFiniteSet(S), x \notin S, T = S \union {x}
  PROVE  Cardinality(T) = Cardinality(S) + 1 /\ IsFiniteSet(T)
BY FS_AddElement

\* One element less.
LEMMA OneLess ==
  ASSUME NEW S, NEW T, NEW x, IsFiniteSet(S), x \in S, T = S \ {x}
  PROVE  /\ Cardinality(T) = Cardinality(S) - 1 /\ IsFiniteSet(T)
         /\ Cardinality(S) > 0
<1>1. Cardinality(S) \in Nat /\ Cardinality(S) # 0
  BY FS_CardinalityType, FS_EmptySet
<1> QED
  BY <1>1, FS_RemoveElement

-----------------------------------------------------------------------------
\* Descriptors.

\* The entry i of p's table becomes x, and no other entry changes.
Puts(p, i, x) ==
    /\ fd_ofiles'[p][i] = x
    /\ \A q \in Procs, j \in Fds :
          q # p \/ j # i => fd_ofiles'[q][j] = fd_ofiles[q][j]

TablesKept ==
    \A q \in Procs, j \in Fds : fd_ofiles'[q][j] = fd_ofiles[q][j]

\* A step that leaves the tables alone leaves what leads to a file, and what
\* is in use.
LEMMA KeptSets ==
  ASSUME TablesKept
  PROVE  /\ \A f : Slots(f)' = Slots(f)
         /\ \A p \in Procs : Used(p)' = Used(p)
<1>1. ASSUME NEW f
      PROVE  Slots(f)' = Slots(f)
  <2>1. \A s \in Procs \X Fds : fd_ofiles'[s[1]][s[2]] = fd_ofiles[s[1]][s[2]]
    BY DEF TablesKept
  <2> QED
    BY <2>1 DEF Slots
<1> QED
  BY <1>1 DEF TablesKept, Used

\* A descriptor that led nowhere now leads to f: fd_attach, file_copy.
LEMMA FillSets ==
  ASSUME NEW p \in Procs, NEW i \in Fds, NEW f \in Files,
         fd_ofiles[p][i] = NULL, Puts(p, i, f)
  PROVE  /\ Slots(f)' = Slots(f) \union {<<p, i>>}
         /\ Cardinality(Slots(f)') = Cardinality(Slots(f)) + 1
         /\ \A g \in Files \ {f} : Slots(g)' = Slots(g)
         /\ Cardinality(Used(p)') = Cardinality(Used(p)) + 1
         /\ \A q \in Procs \ {p} : Used(q)' = Used(q)
<1>0. f # NULL /\ NULL \notin Files
  BY FileTableAssumptions
<1>1. \A s \in Procs \X Fds : s # <<p, i>> =>
         fd_ofiles'[s[1]][s[2]] = fd_ofiles[s[1]][s[2]]
  <2> SUFFICES ASSUME NEW s \in Procs \X Fds, s # <<p, i>>
               PROVE  fd_ofiles'[s[1]][s[2]] = fd_ofiles[s[1]][s[2]]
    OBVIOUS
  <2>1. s[1] \in Procs /\ s[2] \in Fds /\ (s[1] # p \/ s[2] # i)
    OBVIOUS
  <2> QED
    BY <2>1 DEF Puts
<1>2. /\ <<p, i>> \in Procs \X Fds /\ fd_ofiles'[p][i] = f
      /\ <<p, i>>[1] = p /\ <<p, i>>[2] = i
  BY DEF Puts
<1>3. Slots(f)' = Slots(f) \union {<<p, i>>}
  BY <1>1, <1>2 DEF Slots
<1>4. <<p, i>> \notin Slots(f)
  BY <1>0 DEF Slots
<1>5. \A g \in Files \ {f} : Slots(g)' = Slots(g)
  BY <1>0, <1>1, <1>2 DEF Slots
<1>6. Used(p)' = Used(p) \union {i} /\ i \notin Used(p)
  BY <1>0 DEF Puts, Used
<1>7. \A q \in Procs \ {p} : Used(q)' = Used(q)
  BY DEF Puts, Used
<1>8. Cardinality(Slots(f)') = Cardinality(Slots(f)) + 1
  <2>1. IsFiniteSet(Slots(f))
    BY Finite
  <2> QED
    BY <1>3, <1>4, <2>1, OneMore
<1>9. Cardinality(Used(p)') = Cardinality(Used(p)) + 1
  <2>1. IsFiniteSet(Used(p))
    BY Finite
  <2> QED
    BY <1>6, <2>1, OneMore
<1> QED
  BY <1>3, <1>5, <1>7, <1>8, <1>9

\* A descriptor that led to f leads nowhere: fd_detach, sys_close.
LEMMA ClearSets ==
  ASSUME NEW p \in Procs, NEW i \in Fds, NEW f \in Files,
         fd_ofiles[p][i] = f, Puts(p, i, NULL)
  PROVE  /\ Slots(f)' = Slots(f) \ {<<p, i>>} /\ <<p, i>> \in Slots(f)
         /\ Cardinality(Slots(f)') = Cardinality(Slots(f)) - 1
         /\ \A g \in Files \ {f} : Slots(g)' = Slots(g)
         /\ Cardinality(Used(p)') = Cardinality(Used(p)) - 1
         /\ Cardinality(Used(p)) > 0
         /\ \A q \in Procs \ {p} : Used(q)' = Used(q)
<1>0. f # NULL /\ NULL \notin Files
  BY FileTableAssumptions
<1>1. \A s \in Procs \X Fds : s # <<p, i>> =>
         fd_ofiles'[s[1]][s[2]] = fd_ofiles[s[1]][s[2]]
  <2> SUFFICES ASSUME NEW s \in Procs \X Fds, s # <<p, i>>
               PROVE  fd_ofiles'[s[1]][s[2]] = fd_ofiles[s[1]][s[2]]
    OBVIOUS
  <2>1. s[1] \in Procs /\ s[2] \in Fds /\ (s[1] # p \/ s[2] # i)
    OBVIOUS
  <2> QED
    BY <2>1 DEF Puts
<1>2. /\ <<p, i>> \in Procs \X Fds /\ fd_ofiles'[p][i] = NULL
      /\ <<p, i>>[1] = p /\ <<p, i>>[2] = i
  BY DEF Puts
<1>3. Slots(f)' = Slots(f) \ {<<p, i>>}
  BY <1>0, <1>1, <1>2 DEF Slots
<1>4. <<p, i>> \in Slots(f)
  BY <1>2 DEF Slots
<1>5. \A g \in Files \ {f} : Slots(g)' = Slots(g)
  BY <1>0, <1>1, <1>2 DEF Slots
<1>6. Used(p)' = Used(p) \ {i} /\ i \in Used(p)
  BY <1>0 DEF Puts, Used
<1>7. \A q \in Procs \ {p} : Used(q)' = Used(q)
  BY DEF Puts, Used
<1>8. Cardinality(Slots(f)') = Cardinality(Slots(f)) - 1
  <2>1. IsFiniteSet(Slots(f))
    BY Finite
  <2> QED
    BY <1>3, <1>4, <2>1, OneLess
<1>9. Cardinality(Used(p)') = Cardinality(Used(p)) - 1
      /\ Cardinality(Used(p)) > 0
  <2>1. IsFiniteSet(Used(p))
    BY Finite
  <2> QED
    BY <1>6, <2>1, OneLess
<1> QED
  BY <1>3, <1>4, <1>5, <1>7, <1>8, <1>9

-----------------------------------------------------------------------------
\* References to vnodes.


\* What a struct file that has been allocated holds.
LEMMA LiveIs ==
  ASSUME file \in [Files -> LiveFile \union {FreeFile}], NEW f \in Files,
         file[f].live
  PROVE  /\ file[f] \in LiveFile
         /\ file[f].f_vnode \in Vnodes /\ file[f].f_refcount \in Nat
         /\ file[f].f_refcount < WORD /\ file[f].f_oflags \in Flags
         /\ file[f].f_offset \in 0 .. MaxOffset /\ file[f].moved \in Nat
         /\ file[f].f_lk \in Procs \union {NULL}
<1>1. FreeFile.live = FALSE
  BY DEF FreeFile
<1>2. file[f] \in LiveFile
  BY <1>1
<1> QED
  <2>1. \A w \in Nat : \A n \in 0 .. w - 1 : n \in Nat /\ n < w
    OBVIOUS
  <2>2. file[f].f_refcount \in 0 .. WORD - 1
    BY <1>2 DEF LiveFile
  <2>3. file[f].f_refcount \in Nat /\ file[f].f_refcount < WORD
    BY <2>1, <2>2, WordIs
  <2>4. /\ file[f].f_vnode \in Vnodes /\ file[f].f_oflags \in Flags
        /\ file[f].f_offset \in 0 .. MaxOffset /\ file[f].moved \in Nat
        /\ file[f].f_lk \in Procs \union {NULL}
    BY <1>2 DEF LiveFile
  <2> QED
    BY <1>2, <2>3, <2>4

\* The references to v, one by one.
LEMMA ReferenceIs ==
  ASSUME NEW v, NEW x
  PROVE  x \in References(v) <=>
           \E f \in Files : /\ file[f].live /\ file[f].f_vnode = v
                            /\ \E k \in 0 .. file[f].f_refcount : x = <<f, k>>
<1>1. ASSUME x \in References(v)
      PROVE  \E f \in Files : /\ file[f].live /\ file[f].f_vnode = v
                              /\ \E k \in 0 .. file[f].f_refcount :
                                   x = <<f, k>>
  <2>1. PICK f \in {g \in Files : file[g].live /\ file[g].f_vnode = v} :
               x \in {f} \X (0 .. file[f].f_refcount)
    BY <1>1 DEF References
  <2>2. x = <<f, x[2]>> /\ x[2] \in 0 .. file[f].f_refcount
    BY <2>1
  <2> QED
    BY <2>1, <2>2
<1>2. ASSUME NEW f \in Files, file[f].live, file[f].f_vnode = v,
             NEW k \in 0 .. file[f].f_refcount, x = <<f, k>>
      PROVE  x \in References(v)
  <2>1. x \in {f} \X (0 .. file[f].f_refcount)
    BY <1>2
  <2> QED
    BY <1>2, <2>1 DEF References
<1> QED
  BY <1>1, <1>2

\* A vnode has finitely many references, of finitely many files.
LEMMA ReferencesFinite ==
  ASSUME file \in [Files -> LiveFile \union {FreeFile}], NEW v
  PROVE  IsFiniteSet(References(v)) /\ Cardinality(References(v)) \in Nat
<1>0. WORD \in Nat \ {0}
  BY WordIs
<1>1. IsFiniteSet(0 .. WORD - 1)
  BY <1>0, FS_Interval
<1>2. IsFiniteSet(Files \X (0 .. WORD - 1))
  BY <1>1, CountsFit, FS_Product
<1>3. ASSUME NEW x \in References(v)
      PROVE  x \in Files \X (0 .. WORD - 1)
  <2>1. PICK f \in Files : /\ file[f].live /\ file[f].f_vnode = v
                           /\ \E k \in 0 .. file[f].f_refcount : x = <<f, k>>
    BY ReferenceIs
  <2>2. PICK k \in 0 .. file[f].f_refcount : x = <<f, k>>
    BY <2>1
  <2>3. k \in 0 .. WORD - 1
    BY <1>0, <2>1, <2>2, LiveIs
  <2> QED
    BY <2>2, <2>3
<1>4. References(v) \in SUBSET (Files \X (0 .. WORD - 1))
  BY <1>3
<1> QED
  BY <1>2, <1>4, FS_Subset, FS_CardinalityType

\* Only the struct file at f may change.
Alters(f) == \A g \in Files \ {f} : file'[g] = file[g]

\* The next state's references, one by one.
LEMMA ReferenceNext ==
  ASSUME NEW v, NEW x
  PROVE  x \in References(v)' <=>
           \E f \in Files : /\ file'[f].live /\ file'[f].f_vnode = v
                            /\ \E k \in 0 .. file'[f].f_refcount :
                                 x = <<f, k>>
<1>1. ASSUME x \in References(v)'
      PROVE  \E f \in Files : /\ file'[f].live /\ file'[f].f_vnode = v
                              /\ \E k \in 0 .. file'[f].f_refcount :
                                   x = <<f, k>>
  <2>1. PICK f \in {g \in Files : file'[g].live /\ file'[g].f_vnode = v} :
               x \in {f} \X (0 .. file'[f].f_refcount)
    BY <1>1 DEF References
  <2>2. x = <<f, x[2]>> /\ x[2] \in 0 .. file'[f].f_refcount
    BY <2>1
  <2> QED
    BY <2>1, <2>2
<1>2. ASSUME NEW f \in Files, file'[f].live, file'[f].f_vnode = v,
             NEW k \in 0 .. file'[f].f_refcount, x = <<f, k>>
      PROVE  x \in References(v)'
  <2>1. x \in {f} \X (0 .. file'[f].f_refcount)
    BY <1>2
  <2> QED
    BY <1>2, <2>1 DEF References
<1> QED
  BY <1>1, <1>2

\* A step that changes no vnode and no count of a file.
LEMMA ReferencesSame ==
  ASSUME NEW f \in Files, Alters(f), file'[f].live <=> file[f].live,
         file[f].live => /\ file'[f].f_vnode = file[f].f_vnode
                         /\ file'[f].f_refcount = file[f].f_refcount
  PROVE  \A v : References(v)' = References(v)
<1>1. \A g \in Files :
         /\ file'[g].live <=> file[g].live
         /\ file[g].live => /\ file'[g].f_vnode = file[g].f_vnode
                            /\ file'[g].f_refcount = file[g].f_refcount
  BY DEF Alters
<1>2. ASSUME NEW v, NEW x
      PROVE  x \in References(v)' <=> x \in References(v)
  BY <1>1, ReferenceIs, ReferenceNext
<1>3. ASSUME NEW v
      PROVE  References(v)' = References(v)
  <2>1. \A x : x \in References(v)' <=> x \in References(v)
    BY <1>2
  <2> QED
    BY <2>1
<1> QED
  BY <1>3

\* A step that changes no struct file changes no references.
LEMMA ReferencesKept ==
  ASSUME UNCHANGED file
  PROVE  \A v : References(v)' = References(v)
BY DEF References

\* A file that is allocated with one reference and the vnode v: the vnode has
\* two more.
LEMMA ReferencesOpen ==
  ASSUME file \in [Files -> LiveFile \union {FreeFile}],
         NEW f \in Files, NEW v \in Vnodes, Alters(f), ~file[f].live,
         file'[f].live, file'[f].f_vnode = v, file'[f].f_refcount = 1
  PROVE  /\ Cardinality(References(v)') = Cardinality(References(v)) + 2
         /\ \A w \in Vnodes \ {v} : References(w)' = References(w)
<1>0. \A g \in Files : g # f => file'[g] = file[g]
  BY DEF Alters
<1>1. ASSUME NEW w \in Vnodes \ {v}, NEW x
      PROVE  x \in References(w)' <=> x \in References(w)
  BY <1>0, ReferenceIs, ReferenceNext
<1>2. ASSUME NEW x
      PROVE  x \in References(v)' <=>
               x \in References(v) \/ x = <<f, 0>> \/ x = <<f, 1>>
  <2>1. \A k : k \in 0 .. 1 <=> k = 0 \/ k = 1
    OBVIOUS
  <2>2. (\E k \in 0 .. file'[f].f_refcount : x = <<f, k>>) <=>
          x = <<f, 0>> \/ x = <<f, 1>>
    BY <2>1
  <2>3. x \in References(v)' <=>
          \/ \E k \in 0 .. file'[f].f_refcount : x = <<f, k>>
          \/ x \in References(v)
    BY <1>0, ReferenceIs, ReferenceNext
  <2> QED
    BY <2>2, <2>3
<1>3. \A k : <<f, k>> \notin References(v)
  BY ReferenceIs
<1> DEFINE R == References(v)
           S == R \union {<<f, 0>>}
<1>4. IsFiniteSet(R) /\ Cardinality(R) \in Nat
  BY ReferencesFinite
<1>5. Cardinality(S) = Cardinality(R) + 1 /\ IsFiniteSet(S)
  BY <1>3, <1>4, OneMore
<1>6. References(v)' = S \union {<<f, 1>>} /\ <<f, 1>> \notin S
  BY <1>2, <1>3
<1>7. Cardinality(References(v)') = Cardinality(S) + 1
  <2> HIDE DEF S
  <2> QED
    BY <1>5, <1>6, OneMore
<1>8. \A w \in Vnodes \ {v} : References(w)' = References(w)
  <2> SUFFICES ASSUME NEW w \in Vnodes \ {v}
               PROVE  References(w)' = References(w)
    OBVIOUS
  <2>1. \A x : x \in References(w)' <=> x \in References(w)
    BY <1>1
  <2> QED
    BY <2>1
<1>9. \A a \in Nat : \A b, c : b = a + 1 /\ c = b + 1 => c = a + 2
  OBVIOUS
<1> QED
  BY <1>4, <1>5, <1>7, <1>8, <1>9

\* One reference of a file less, whether it stays or, having none left, is
\* freed: its vnode has one less, and had one.
LEMMA ReferencesDown ==
  ASSUME file \in [Files -> LiveFile \union {FreeFile}],
         NEW f \in Files, Alters(f), file[f].live,
         NEW v \in Vnodes, v = file[f].f_vnode,
         \/ /\ file'[f].live /\ file'[f].f_vnode = file[f].f_vnode
            /\ file[f].f_refcount > 0
            /\ file'[f].f_refcount = file[f].f_refcount - 1
         \/ ~file'[f].live /\ file[f].f_refcount = 0
  PROVE  /\ Cardinality(References(v)') =
              Cardinality(References(v)) - 1
         /\ Cardinality(References(v)) > 0
         /\ \A w \in Vnodes : w # v =>
              References(w)' = References(w)
<1>0. \A g \in Files : g # f => file'[g] = file[g]
  BY DEF Alters
<1>n. PICK n \in Nat : n = file[f].f_refcount
  BY LiveIs
<1>1. ASSUME NEW w \in Vnodes, w # v, NEW x
      PROVE  x \in References(w)' <=> x \in References(w)
  BY <1>0, <1>1, ReferenceIs, ReferenceNext
<1>2. \A k : <<f, k>> \in References(v) <=> k \in 0 .. n
  BY <1>n, ReferenceIs
<1>3. \A k : <<f, k>> \in References(v)' <=> k \in 0 .. n /\ k # n
  <2>1. CASE /\ file'[f].live /\ file'[f].f_vnode = file[f].f_vnode
             /\ n > 0 /\ file'[f].f_refcount = n - 1
    <3>1. \A k : k \in 0 .. (n - 1) <=> k \in 0 .. n /\ k # n
      OBVIOUS
    <3>2. \A k : <<f, k>> \in References(v)' <=> k \in 0 .. (n - 1)
      BY <2>1, ReferenceNext
    <3> QED
      BY <3>1, <3>2
  <2>2. CASE ~file'[f].live /\ n = 0
    <3>1. \A k : k \in 0 .. n <=> k = n
      BY <2>2
    <3>2. \A k : <<f, k>> \notin References(v)'
      BY <2>2, ReferenceNext
    <3> QED
      BY <3>1, <3>2
  <2> QED
    BY <1>n, <2>1, <2>2
<1>4. ASSUME NEW x, \A k : x # <<f, k>>
      PROVE  x \in References(v)' <=> x \in References(v)
  BY <1>0, <1>4, ReferenceIs, ReferenceNext
<1>5. References(v)' = References(v) \ {<<f, n>>}
  <2> SUFFICES ASSUME NEW x
               PROVE  x \in References(v)' <=>
                        x \in References(v) /\ x # <<f, n>>
    OBVIOUS
  <2>1. CASE \A k : x # <<f, k>>
    BY <2>1, <1>4
  <2>2. ASSUME NEW k, x = <<f, k>>
        PROVE  x \in References(v)' <=> x \in References(v) /\ x # <<f, n>>
    BY <2>2, <1>2, <1>3
  <2> QED
    BY <2>1, <2>2
<1>6. <<f, n>> \in References(v)
  BY <1>2
<1>7. IsFiniteSet(References(v))
  BY ReferencesFinite
<1>8. /\ Cardinality(References(v)') = Cardinality(References(v)) - 1
      /\ Cardinality(References(v)) > 0
  BY <1>5, <1>6, <1>7, OneLess
<1>9. \A w \in Vnodes : w # v => References(w)' = References(w)
  <2> SUFFICES ASSUME NEW w \in Vnodes, w # v
               PROVE  References(w)' = References(w)
    OBVIOUS
  <2>1. \A x : x \in References(w)' <=> x \in References(w)
    BY <1>1
  <2> QED
    BY <2>1
<1> QED
  BY <1>8, <1>9

\* One reference of a file more: its vnode has one more.
LEMMA ReferencesUp ==
  ASSUME file \in [Files -> LiveFile \union {FreeFile}],
         NEW f \in Files, Alters(f), file[f].live,
         NEW v \in Vnodes, v = file[f].f_vnode,
         file'[f].live, file'[f].f_vnode = file[f].f_vnode,
         file'[f].f_refcount = file[f].f_refcount + 1
  PROVE  /\ Cardinality(References(v)') =
              Cardinality(References(v)) + 1
         /\ \A w \in Vnodes : w # v =>
              References(w)' = References(w)
<1>0. \A g \in Files : g # f => file'[g] = file[g]
  BY DEF Alters
<1>n. PICK n \in Nat : n = file[f].f_refcount
  BY LiveIs
<1>1. ASSUME NEW w \in Vnodes, w # v, NEW x
      PROVE  x \in References(w)' <=> x \in References(w)
  BY <1>0, <1>1, ReferenceIs, ReferenceNext
<1>2. \A k : <<f, k>> \in References(v) <=> k \in 0 .. n
  BY <1>n, ReferenceIs
<1>3. \A k : <<f, k>> \in References(v)' <=> k \in 0 .. n \/ k = n + 1
  <2>1. \A k : k \in 0 .. (n + 1) <=> k \in 0 .. n \/ k = n + 1
    OBVIOUS
  <2>2. \A k : <<f, k>> \in References(v)' <=> k \in 0 .. (n + 1)
    BY <1>n, ReferenceNext
  <2> QED
    BY <2>1, <2>2
<1>4. ASSUME NEW x, \A k : x # <<f, k>>
      PROVE  x \in References(v)' <=> x \in References(v)
  BY <1>0, <1>4, ReferenceIs, ReferenceNext
<1>5. References(v)' = References(v) \union {<<f, n + 1>>}
  <2> SUFFICES ASSUME NEW x
               PROVE  x \in References(v)' <=>
                        x \in References(v) \/ x = <<f, n + 1>>
    OBVIOUS
  <2>1. CASE \A k : x # <<f, k>>
    BY <2>1, <1>4
  <2>2. ASSUME NEW k, x = <<f, k>>
        PROVE  x \in References(v)' <=>
                 x \in References(v) \/ x = <<f, n + 1>>
    BY <2>2, <1>2, <1>3
  <2> QED
    BY <2>1, <2>2
<1>6. <<f, n + 1>> \notin References(v)
  <2>1. n + 1 \notin 0 .. n
    OBVIOUS
  <2> QED
    BY <1>2, <2>1
<1>7. IsFiniteSet(References(v))
  BY ReferencesFinite
<1>8. Cardinality(References(v)') = Cardinality(References(v)) + 1
  BY <1>5, <1>6, <1>7, OneMore
<1>9. \A w \in Vnodes : w # v => References(w)' = References(w)
  <2> SUFFICES ASSUME NEW w \in Vnodes, w # v
               PROVE  References(w)' = References(w)
    OBVIOUS
  <2>1. \A x : x \in References(w)' <=> x \in References(w)
    BY <1>1
  <2> QED
    BY <2>1
<1> QED
  BY <1>8, <1>9

-----------------------------------------------------------------------------
\* Types.

\* The fields of a struct file that one assignment or two change.
LEMMA FileFields ==
  ASSUME NEW r \in LiveFile, NEW n \in 0 .. WORD - 1,
         NEW o \in 0 .. MaxOffset, NEW m \in Nat,
         NEW k \in Procs \union {NULL}
  PROVE  /\ r.live
         /\ [r EXCEPT !.f_offset = o, !.moved = m] \in LiveFile
         /\ [r EXCEPT !.f_lk = k] \in LiveFile
         /\ [r EXCEPT !.f_offset = o, !.moved = m, !.f_lk = k] \in LiveFile
         /\ [r EXCEPT !.f_refcount = n] \in LiveFile
         /\ [r EXCEPT !.f_lk = k, !.f_refcount = n] \in LiveFile
BY DEF LiveFile

\* k_open makes a struct file with one reference.
LEMMA NewFileIs ==
  ASSUME NEW v \in Vnodes, NEW flags \in Flags, NEW off \in {0, MaxOffset}
  PROVE  /\ NewFile(v, flags, off) \in LiveFile
         /\ NewFile(v, flags, off).live
         /\ NewFile(v, flags, off).f_vnode = v
         /\ NewFile(v, flags, off).f_refcount = 1
         /\ NewFile(v, flags, off).f_offset = NewFile(v, flags, off).moved
<1>1. 1 \in 0 .. WORD - 1
  <2>1. WORD - 1 \in Nat /\ 1 <= WORD - 1
    BY DEF WORD
  <2> QED
    BY <2>1
<1>2. off \in 0 .. MaxOffset /\ off \in Nat
  BY FileTableAssumptions
<1> QED
  BY <1>1, <1>2 DEF NewFile, LiveFile

\* The locals that the calls set are locals.
LEMMA LocsIs ==
  /\ NoLoc \in Locs
  /\ \A fd \in Fds, f \in Files, op \in {"read", "write"},
        off \in 0 .. MaxOffset :
       [NoLoc EXCEPT !.fd = fd, !.f = f, !.op = op, !.off = off] \in Locs
  /\ \A fd \in Fds, f \in Files : [NoLoc EXCEPT !.fd = fd, !.f = f] \in Locs
  /\ \A f \in Files : [NoLoc EXCEPT !.f = f] \in Locs
  /\ \A q \in Procs : [NoLoc EXCEPT !.child = q] \in Locs
  /\ \A i \in Fds, q \in Procs \union {NULL} :
       [NoLoc EXCEPT !.fd = i + 1, !.child = q] \in Locs
<1>1. /\ 0 \in 0 .. MAX_OPEN_FILES /\ 0 \in 0 .. MaxOffset
      /\ \A i \in Fds : /\ i \in 0 .. MAX_OPEN_FILES
                        /\ i + 1 \in 0 .. MAX_OPEN_FILES
  BY FileTableAssumptions DEF Fds
<1> QED
  BY <1>1 DEF NoLoc, Locs

\* Who is in the table, by its descriptor.
LEMMA FileAtIs ==
  ASSUME Types, NEW p \in Procs, NEW fd, FileAt(p, fd) # NULL
  PROVE  /\ fd \in Fds /\ FileAt(p, fd) \in Files
         /\ FileAt(p, fd) = fd_ofiles[p][fd]
BY DEF FileAt, Types, TypeOK

TablesTyped ==
    /\ fd_ofiles \in [Procs -> [Fds -> Files \union {NULL}]]
    /\ fd_nfiles \in [Procs -> 0 .. WORD - 1]
    /\ fd_lk \in [Procs -> BOOLEAN]
    /\ pc \in [Procs -> Labels]
    /\ loc \in [Procs -> Locs]
    /\ env \subseteq EnvEvents

HeapTyped ==
    /\ file \in [Files -> LiveFile \union {FreeFile}]
    /\ vn_refcount \in [Vnodes -> Nat]

\* The types in two parts: the heap may be anything once a panic has come.
LEMMA TypesAre == Types <=> TablesTyped /\ (panic = "none" => HeapTyped)
BY DEF Types, TypeOK, TablesTyped, HeapTyped

-----------------------------------------------------------------------------
\* What each step does when nothing it meets is gone.

Goes(p, label) ==
    pc'[p] = label /\ \A q \in Procs \ {p} : pc'[q] = pc[q]

Takes(p, l) ==
    loc'[p] = l /\ \A q \in Procs \ {p} : loc'[q] = loc[q]

\* d more references to v.
Adds(v, d) ==
    /\ vn_refcount'[v] = vn_refcount[v] + d
    /\ \A w \in Vnodes \ {v} : vn_refcount'[w] = vn_refcount[w]

\* d more descriptors in p's table, as the table counts.
Numbers(p, d) ==
    /\ fd_nfiles'[p] = Uint16(fd_nfiles[p] + d)
    /\ \A q \in Procs \ {p} : fd_nfiles'[q] = fd_nfiles[q]

Sets(f, r) == file'[f] = r /\ Alters(f)

\* The table's lock is destroyed.
LosesLk(p) ==
    ~fd_lk'[p] /\ \A q \in Procs \ {p} : fd_lk'[q] = fd_lk[q]

\* A step moves one process, to a label and with locals.
LEMMA ControlDoes ==
  ASSUME TablesTyped, NEW p \in Procs, NEW label \in Labels, NEW l \in Locs
  PROVE  /\ Goto(p, label) => Goes(p, label) /\ pc' \in [Procs -> Labels]
         /\ Enter(p, l) => Takes(p, l) /\ loc' \in [Procs -> Locs]
BY DEF TablesTyped, Goto, Enter, Goes, Takes

\* One entry of a table is written.
LEMMA PutDoes ==
  ASSUME TablesTyped, NEW p \in Procs, NEW i \in Fds,
         NEW x \in Files \union {NULL},
         fd_ofiles' = [fd_ofiles EXCEPT ![p][i] = x]
  PROVE  /\ Puts(p, i, x)
         /\ fd_ofiles' \in [Procs -> [Fds -> Files \union {NULL}]]
BY DEF TablesTyped, Puts

\* One struct file is written.
LEMMA SetDoes ==
  ASSUME HeapTyped, NEW f \in Files, NEW r \in LiveFile \union {FreeFile},
         file' = [file EXCEPT ![f] = r]
  PROVE  Sets(f, r) /\ file' \in [Files -> LiveFile \union {FreeFile}]
BY DEF HeapTyped, Sets, Alters

\* The count of a vnode is changed, and stays one.
LEMMA AddDoes ==
  ASSUME HeapTyped, NEW v \in Vnodes, NEW d \in {-1, 1, 2},
         vn_refcount[v] + d >= 0,
         vn_refcount' = [vn_refcount EXCEPT ![v] = vn_refcount[v] + d]
  PROVE  Adds(v, d) /\ vn_refcount' \in [Vnodes -> Nat]
<1>1. vn_refcount[v] + d \in Nat
  BY DEF HeapTyped
<1> QED
  BY <1>1 DEF HeapTyped, Adds

\* fd_nfiles is changed.
LEMMA NumberDoes ==
  ASSUME TablesTyped, NEW p \in Procs, NEW d \in {-1, 1, 2},
         fd_nfiles' = [fd_nfiles EXCEPT ![p] = Uint16(fd_nfiles[p] + d)]
  PROVE  Numbers(p, d) /\ fd_nfiles' \in [Procs -> 0 .. WORD - 1]
<1>1. fd_nfiles[p] \in 0 .. WORD - 1 /\ WORD \in Nat
  BY WordIs DEF TablesTyped
<1>2. fd_nfiles[p] + d \in Int
  BY <1>1
<1>3. Uint16(fd_nfiles[p] + d) \in 0 .. WORD - 1
  BY <1>2, WordIs
<1> QED
  BY <1>3 DEF TablesTyped, Numbers

\* lock_destroy of one table.
LEMMA LkDoes ==
  ASSUME TablesTyped, NEW p \in Procs,
         fd_lk' = [fd_lk EXCEPT ![p] = FALSE]
  PROVE  LosesLk(p) /\ fd_lk' \in [Procs -> BOOLEAN]
BY DEF TablesTyped, LosesLk

\* k_open.
Opened(p, v, f, i, flags, off) ==
    /\ pc[p] = "run" /\ fd_lk[p] /\ ~file[f].live
    /\ fd_ofiles[p][i] = NULL /\ Puts(p, i, f) /\ Numbers(p, 1)
    /\ Sets(f, NewFile(v, flags, off)) /\ Adds(v, 2)
    /\ UNCHANGED <<fd_lk, pc, loc>>

\* k_open: it meets a destroyed lock, or it opens the file.
LEMMA KOpenDoes ==
  ASSUME Types, NEW p \in Procs, NEW v \in Vnodes, NEW flags \in Flags,
         NEW off \in {0, MaxOffset}, KOpen(p, v, flags, off)
  PROVE  /\ TablesTyped' /\ panic' \in {"none", "freed fd_lk"}
         /\ panic' = "freed fd_lk" => ~fd_lk[p] /\ pc[p] = "run"
         /\ panic' = "none" =>
              /\ HeapTyped'
              /\ \E f \in Files, i \in Fds : Opened(p, v, f, i, flags, off)
<1>1. TablesTyped /\ HeapTyped /\ pc[p] = "run" /\ panic = "none" /\ env' = env
  BY TypesAre DEF KOpen, At
<1>2. CASE ~fd_lk[p] /\ Panic("freed fd_lk")
  BY <1>1, <1>2 DEF Panic, TablesTyped, tables
<1>3. ASSUME NEW f \in Files, fd_lk[p], ~file[f].live, FdAttach(p, f),
             FreeFds(p) # {},
             file' = [file EXCEPT ![f] = NewFile(v, flags, off)],
             vn_refcount' = [vn_refcount EXCEPT ![v] = @ + 2],
             UNCHANGED <<fd_lk, pc, loc, panic>>
      PROVE  /\ TablesTyped' /\ HeapTyped' /\ panic' = "none"
             /\ \E i \in Fds : Opened(p, v, f, i, flags, off)
  <2>1. PICK i \in Fds : i = Min(FreeFds(p)) /\ fd_ofiles[p][i] = NULL
    BY <1>3, MinOfFds DEF FreeFds
  <2>2. /\ fd_ofiles' = [fd_ofiles EXCEPT ![p][i] = f]
        /\ fd_nfiles' = [fd_nfiles EXCEPT ![p] = Uint16(fd_nfiles[p] + 1)]
    BY <1>3, <2>1 DEF FdAttach
  <2>3. Puts(p, i, f) /\ fd_ofiles' \in [Procs -> [Fds -> Files \union {NULL}]]
    BY <1>1, <2>2, PutDoes
  <2>4. Numbers(p, 1) /\ fd_nfiles' \in [Procs -> 0 .. WORD - 1]
    BY <1>1, <2>2, NumberDoes
  <2>5. PICK r \in LiveFile : r = NewFile(v, flags, off)
    BY NewFileIs
  <2>6. Sets(f, r) /\ file' \in [Files -> LiveFile \union {FreeFile}]
    BY <1>1, <1>3, <2>5, SetDoes
  <2>7. vn_refcount[v] + 2 >= 0
    BY <1>1 DEF HeapTyped
  <2>8. Adds(v, 2) /\ vn_refcount' \in [Vnodes -> Nat]
    BY <1>1, <1>3, <2>7, AddDoes
  <2>9. TablesTyped' /\ HeapTyped'
    BY <1>1, <1>3, <2>3, <2>4, <2>6, <2>8 DEF TablesTyped, HeapTyped
  <2> QED
    BY <1>1, <1>3, <2>1, <2>3, <2>4, <2>5, <2>6, <2>8, <2>9 DEF Opened
<1> QED
  BY <1>2, <1>3 DEF KOpen

\* vfs_close without a struct file, or a vnode left referenced.
Recounted(p, v, d) ==
    /\ pc[p] = "run"
    /\ \/ d = -1 /\ vn_refcount[v] > 0 /\ ~None({"full", "stat"})
       \/ d = 1 /\ "nomem" \in env
    /\ Adds(v, d) /\ UNCHANGED <<tables, file, pc, loc>>

\* k_open, undone after a failure: the vnode loses a reference.
LEMMA KOpenUndoneDoes ==
  ASSUME Types, NEW p \in Procs, NEW v \in Vnodes, KOpenUndone(p, v)
  PROVE  /\ TablesTyped' /\ panic' \in {"none", "freed vnode"}
         /\ ~None({"full", "stat"})
         /\ panic' = "none" => HeapTyped' /\ Recounted(p, v, -1)
<1>1. TablesTyped /\ HeapTyped /\ pc[p] = "run" /\ panic = "none" /\ env' = env
  BY TypesAre DEF KOpenUndone, At
<1>2. TablesTyped' /\ panic' \in {"none", "freed vnode"}
  BY <1>1 DEF KOpenUndone, Decref, Check, tables, TablesTyped
<1>3. ~None({"full", "stat"})
  BY DEF KOpenUndone, None
<1>4. ASSUME panic' = "none" PROVE HeapTyped' /\ Recounted(p, v, -1)
  <2>1. vn_refcount[v] > 0 /\ vn_refcount[v] \in Nat
    BY <1>1, <1>4 DEF KOpenUndone, Decref, Check, HeapTyped
  <2>d. PICK d \in {-1, 1, 2} : d = -1
    OBVIOUS
  <2>2. vn_refcount' = [vn_refcount EXCEPT ![v] = vn_refcount[v] + d]
    BY <2>1, <2>d DEF KOpenUndone, Decref
  <2>3. vn_refcount[v] + d >= 0
    BY <2>1, <2>d
  <2>4. Adds(v, d) /\ vn_refcount' \in [Vnodes -> Nat]
    BY <1>1, <2>2, <2>3, AddDoes
  <2>5. Recounted(p, v, d)
    BY <1>1, <1>3, <2>1, <2>4, <2>d DEF KOpenUndone, Recounted
  <2> QED
    BY <1>1, <2>4, <2>5, <2>d DEF KOpenUndone, HeapTyped
<1> QED
  BY <1>2, <1>3, <1>4

\* k_open without memory: the vnode keeps a reference, or it fails.
LEMMA KOpenNoMemDoes ==
  ASSUME Types, NEW p \in Procs, NEW v \in Vnodes, KOpenNoMem(p, v)
  PROVE  /\ TablesTyped' /\ panic' \in {"none", "freed file"}
         /\ "nomem" \in env
         /\ panic' = "none" => HeapTyped' /\ Recounted(p, v, 1)
<1>1. /\ TablesTyped /\ HeapTyped /\ pc[p] = "run" /\ panic = "none"
      /\ env' = env /\ "nomem" \in env
  BY TypesAre DEF KOpenNoMem, At
<1>2. TablesTyped' /\ panic' \in {"none", "freed file"}
  BY <1>1 DEF KOpenNoMem, Panic, tables, TablesTyped
<1>3. ASSUME panic' = "none" PROVE HeapTyped' /\ Recounted(p, v, 1)
  <2>1. /\ vn_refcount' = [vn_refcount EXCEPT ![v] = vn_refcount[v] + 1]
        /\ UNCHANGED <<tables, file, pc, loc>>
    BY <1>3 DEF KOpenNoMem, Panic
  <2>2. vn_refcount[v] + 1 >= 0
    BY <1>1 DEF HeapTyped
  <2>3. Adds(v, 1) /\ vn_refcount' \in [Vnodes -> Nat]
    BY <1>1, <2>1, <2>2, AddDoes
  <2> QED
    BY <1>1, <2>1, <2>3 DEF Recounted, HeapTyped
<1> QED
  BY <1>1, <1>2, <1>3

\* What a step that takes its table's lock and uses f may meet instead.
Meets(p, f) ==
    /\ panic' = "freed fd_lk" => ~fd_lk[p]
    /\ panic' = "freed file" => ~file[f].live

\* sys_read and sys_write up to the VOP.
IoBegan(p, fd, f, op) ==
    /\ pc[p] = "run" /\ fd_ofiles[p][fd] = f /\ file[f].live
    /\ "overlap" \in env \/ ~Overlaps(p, f)
    /\ Permitted(f, op)
    /\ Goes(p, "io")
    /\ Takes(p, [NoLoc EXCEPT !.fd = fd, !.f = f, !.op = op,
                              !.off = file[f].f_offset])
    /\ UNCHANGED <<tables, file, vn_refcount>>

\* A descriptor past the table ends a system call that looks it up.
LEMMA LookupDoes ==
  ASSUME Types, NEW p \in Procs, NEW fd, NEW A \in BOOLEAN,
         Lookup(p, fd, A)
  PROVE  /\ panic = "none" /\ pc[p] = "run" /\ env' = env
         /\ TablesTyped /\ HeapTyped
         /\ \/ FileAt(p, fd) # NULL /\ A
            \/ /\ "badfd" \in env /\ panic' = "past the table" /\ TablesTyped'
<1>1. panic = "none" /\ pc[p] = "run" /\ env' = env /\ TablesTyped /\ HeapTyped
  BY TypesAre DEF Lookup, At
<1>2. CASE FileAt(p, fd) # NULL /\ A
  BY <1>1, <1>2
<1>3. CASE "badfd" \in env /\ Panic("past the table")
  BY <1>1, <1>3 DEF Panic, TablesTyped, tables
<1> QED
  BY <1>1, <1>2, <1>3 DEF Lookup

\* Using takes the lock and the file, or the step ends with what is gone.
LEMMA UsingDoes ==
  ASSUME TablesTyped, env' = env, NEW p \in Procs, NEW f,
         NEW A \in BOOLEAN, Using(p, f, A)
  PROVE  \/ fd_lk[p] /\ file[f].live /\ A
         \/ /\ TablesTyped' /\ panic' \in {"freed fd_lk", "freed file"}
            /\ Meets(p, f)
BY DEF Using, Panic, tables, TablesTyped, Meets

\* sys_read and sys_write up to the VOP: the file is used, or gone.
LEMMA IoStartDoes ==
  ASSUME Types, NEW p \in Procs, NEW fd, NEW op \in {"read", "write"},
         IoStart(p, fd, op)
  PROVE  /\ TablesTyped'
         /\ \/ "badfd" \in env /\ panic' = "past the table"
            \/ \E i \in Fds, f \in Files :
                 /\ fd_ofiles[p][i] = f
                 /\ panic' \in {"none", "freed fd_lk", "freed file"}
                 /\ Meets(p, f) /\ pc[p] = "run"
                 /\ panic' = "none" => HeapTyped' /\ IoBegan(p, i, f, op)
<1> DEFINE A(f) ==
             /\ Permitted(f, op)
             /\ Enter(p, [NoLoc EXCEPT !.fd = fd, !.f = f, !.op = op,
                                       !.off = file[f].f_offset])
             /\ Goto(p, "io")
             /\ UNCHANGED <<tables, file, vn_refcount, panic>>
           B(f) == ("overlap" \in env \/ ~Overlaps(p, f)) /\ Using(p, f, A(f))
<1>1. Lookup(p, fd, B(FileAt(p, fd)))
  BY DEF IoStart
<1>2. B(FileAt(p, fd)) \in BOOLEAN
  OBVIOUS
<1>3. /\ panic = "none" /\ pc[p] = "run" /\ env' = env
      /\ TablesTyped /\ HeapTyped
      /\ \/ FileAt(p, fd) # NULL /\ B(FileAt(p, fd))
         \/ "badfd" \in env /\ panic' = "past the table" /\ TablesTyped'
  <2> HIDE DEF B
  <2> QED
    BY <1>1, <1>2, LookupDoes
<1>4. ASSUME FileAt(p, fd) # NULL, B(FileAt(p, fd))
      PROVE  /\ TablesTyped'
             /\ \E i \in Fds, f \in Files :
                 /\ fd_ofiles[p][i] = f
                 /\ panic' \in {"none", "freed fd_lk", "freed file"}
                 /\ Meets(p, f) /\ pc[p] = "run"
                 /\ panic' = "none" => HeapTyped' /\ IoBegan(p, i, f, op)
  <2>1. PICK f \in Files : f = FileAt(p, fd) /\ f = fd_ofiles[p][fd]
    BY <1>4, FileAtIs
  <2>2. fd \in Fds
    BY <1>4, FileAtIs
  <2>3. A(f) \in BOOLEAN /\ Using(p, f, A(f))
    BY <1>4, <2>1
  <2>4. \/ fd_lk[p] /\ file[f].live /\ A(f)
        \/ /\ TablesTyped' /\ panic' \in {"freed fd_lk", "freed file"}
           /\ Meets(p, f)
    <3> HIDE DEF A
    <3> QED
      BY <1>3, <2>3, UsingDoes
  <2>5. CASE fd_lk[p] /\ file[f].live /\ A(f)
    <3>1. file[f].f_offset \in 0 .. MaxOffset
      BY <1>3, <2>5, LiveIs DEF HeapTyped
    <3>2. PICK l \in Locs : l = [NoLoc EXCEPT !.fd = fd, !.f = f, !.op = op,
                                              !.off = file[f].f_offset]
      BY <2>2, <3>1, LocsIs
    <3>3. Goto(p, "io") /\ Enter(p, l) /\ "io" \in Labels
      BY <2>5, <3>2 DEF Labels
    <3>4. /\ Goes(p, "io") /\ pc' \in [Procs -> Labels]
          /\ Takes(p, l) /\ loc' \in [Procs -> Locs]
      BY <1>3, <3>3, ControlDoes
    <3>5. TablesTyped' /\ HeapTyped' /\ panic' = "none"
      BY <1>3, <2>5, <3>4 DEF TablesTyped, HeapTyped, tables
    <3>6. IoBegan(p, fd, f, op)
      BY <1>3, <1>4, <2>1, <2>5, <3>2, <3>4 DEF IoBegan
    <3> QED
      BY <1>3, <2>1, <2>2, <3>5, <3>6 DEF Meets
  <2> QED
    BY <1>3, <2>1, <2>2, <2>4, <2>5
<1> QED
  BY <1>3, <1>4

\* sys_read and sys_write after the VOP.
IoDone(p, f, n) ==
    /\ pc[p] = "io" /\ f = loc[p].f /\ file[f].live
    /\ Sets(f, [file[f] EXCEPT
                  !.f_offset = IF n = 0 THEN file[f].f_offset
                               ELSE loc[p].off + n,
                  !.moved = file[f].moved + n])
    /\ Goes(p, "run") /\ Takes(p, NoLoc)
    /\ UNCHANGED <<tables, vn_refcount>>

\* sys_read and sys_write after the VOP.
LEMMA IoEndDoes ==
  ASSUME Types, NEW p \in Procs, NEW n \in 0 .. 1, IoEnd(p, n),
         NEW f \in Files, f = loc[p].f
  PROVE  /\ TablesTyped' /\ pc[p] = "io" /\ Meets(p, f)
         /\ panic' \in {"none", "freed fd_lk", "freed file"}
         /\ panic' = "none" => HeapTyped' /\ IoDone(p, f, n)
<1> DEFINE off == loc[p].off + n
           A == /\ file' = [file EXCEPT
                              ![f].f_offset = IF n = 0 THEN @
                                              ELSE Advance(f, off),
                              ![f].moved = @ + n]
                /\ Enter(p, NoLoc)
                /\ Goto(p, "run")
                /\ UNCHANGED <<tables, vn_refcount, panic>>
<1>1. /\ At(p, "io") /\ Using(p, f, A) /\ off <= MaxOffset
      /\ TablesTyped /\ HeapTyped /\ env' = env /\ A \in BOOLEAN
  BY TypesAre DEF IoEnd, At
<1>2. \/ fd_lk[p] /\ file[f].live /\ A
      \/ /\ TablesTyped' /\ panic' \in {"freed fd_lk", "freed file"}
         /\ Meets(p, f)
  <2> HIDE DEF A
  <2> QED
    BY <1>1, UsingDoes
<1>3. CASE fd_lk[p] /\ file[f].live /\ A
  <2>1. /\ file[f] \in LiveFile /\ file[f].f_offset \in 0 .. MaxOffset
        /\ file[f].moved \in Nat
    BY <1>1, <1>3, LiveIs DEF HeapTyped
  <2>2. loc[p].off \in 0 .. MaxOffset
    BY <1>1 DEF TablesTyped, Locs
  <2>3. off \in 0 .. MaxOffset /\ file[f].moved + n \in Nat
    BY <1>1, <2>1, <2>2
  <2>4. PICK o \in 0 .. MaxOffset :
               o = IF n = 0 THEN file[f].f_offset ELSE off
    BY <2>1, <2>3
  <2>5. PICK r \in LiveFile :
               r = [file[f] EXCEPT !.f_offset = o, !.moved = file[f].moved + n]
    <3>1. 0 \in 0 .. WORD - 1 /\ NULL \in Procs \union {NULL}
      BY WordIs
    <3> QED
      BY <2>1, <2>3, <3>1, FileFields
  <2>6. file' = [file EXCEPT ![f] = r]
    BY <1>1, <1>3, <2>4, <2>5 DEF Advance, HeapTyped
  <2>7. Sets(f, r) /\ file' \in [Files -> LiveFile \union {FreeFile}]
    BY <1>1, <2>6, SetDoes
  <2>8. /\ Goes(p, "run") /\ pc' \in [Procs -> Labels]
        /\ Takes(p, NoLoc) /\ loc' \in [Procs -> Locs]
    <3>1. "run" \in Labels /\ NoLoc \in Locs /\ Goto(p, "run")
          /\ Enter(p, NoLoc)
      BY <1>3, LocsIs DEF Labels
    <3> QED
      BY <1>1, <3>1, ControlDoes
  <2>9. TablesTyped' /\ HeapTyped' /\ panic' = "none"
    BY <1>1, <1>3, <2>7, <2>8 DEF TablesTyped, HeapTyped, tables, At
  <2>10. IoDone(p, f, n)
    BY <1>1, <1>3, <2>4, <2>5, <2>7, <2>8 DEF IoDone, At
  <2> QED
    BY <1>1, <2>9, <2>10 DEF Meets, At
<1> QED
  BY <1>1, <1>2, <1>3 DEF At

\* sys_lseek locks the file, and moves its offset or not.
SeekBegan(p, fd, f) ==
    /\ pc[p] = "run" /\ fd_ofiles[p][fd] = f /\ file[f].live
    /\ "overlap" \in env \/ ~Overlaps(p, f)
    /\ file[f].f_lk = NULL
    /\ Sets(f, [file[f] EXCEPT !.f_lk = p])
    /\ Goes(p, "seek") /\ Takes(p, [NoLoc EXCEPT !.fd = fd, !.f = f])
    /\ UNCHANGED <<tables, vn_refcount>>

\* sys_lseek, up to get_file.
LEMMA LseekStartDoes ==
  ASSUME Types, NEW p \in Procs, NEW fd \in Fds, LseekStart(p, fd)
  PROVE  /\ TablesTyped' /\ pc[p] = "run"
         /\ \E f \in Files :
                 /\ fd_ofiles[p][fd] = f
                 /\ panic' \in {"none", "freed fd_lk", "freed file"}
                 /\ Meets(p, f)
                 /\ panic' = "none" => HeapTyped' /\ SeekBegan(p, fd, f)
<1>1. /\ At(p, "run") /\ TablesTyped /\ HeapTyped /\ env' = env
      /\ fd_ofiles[p][fd] # NULL
  BY TypesAre DEF LseekStart, At
<1>2. PICK f \in Files : f = fd_ofiles[p][fd]
  BY <1>1 DEF TablesTyped
<1> DEFINE A == /\ file[f].f_lk = NULL
                /\ file' = [file EXCEPT ![f].f_lk = p]
                /\ Enter(p, [NoLoc EXCEPT !.fd = fd, !.f = f])
                /\ Goto(p, "seek")
                /\ UNCHANGED <<tables, vn_refcount, panic>>
<1>3. /\ Using(p, f, A) /\ A \in BOOLEAN
      /\ "overlap" \in env \/ ~Overlaps(p, f)
  BY <1>2 DEF LseekStart
<1>4. \/ fd_lk[p] /\ file[f].live /\ A
      \/ /\ TablesTyped' /\ panic' \in {"freed fd_lk", "freed file"}
         /\ Meets(p, f)
  <2> HIDE DEF A
  <2> QED
    BY <1>1, <1>3, UsingDoes
<1>5. CASE fd_lk[p] /\ file[f].live /\ A
  <2>1. file[f] \in LiveFile
    BY <1>1, <1>5, LiveIs DEF HeapTyped
  <2>2. PICK r \in LiveFile : r = [file[f] EXCEPT !.f_lk = p]
    <3>1. /\ 0 \in 0 .. WORD - 1 /\ p \in Procs \union {NULL}
          /\ 0 \in 0 .. MaxOffset /\ 0 \in Nat
      BY WordIs, FileTableAssumptions
    <3> QED
      BY <2>1, <3>1, FileFields
  <2>3. file' = [file EXCEPT ![f] = r]
    BY <1>1, <1>5, <2>2 DEF HeapTyped
  <2>4. Sets(f, r) /\ file' \in [Files -> LiveFile \union {FreeFile}]
    BY <1>1, <2>3, SetDoes
  <2>5. PICK l \in Locs : l = [NoLoc EXCEPT !.fd = fd, !.f = f]
    BY LocsIs
  <2>6. /\ Goes(p, "seek") /\ pc' \in [Procs -> Labels]
        /\ Takes(p, l) /\ loc' \in [Procs -> Locs]
    <3>1. "seek" \in Labels /\ Goto(p, "seek") /\ Enter(p, l)
      BY <1>5, <2>5 DEF Labels
    <3> QED
      BY <1>1, <3>1, ControlDoes
  <2>7. TablesTyped' /\ HeapTyped' /\ panic' = "none"
    BY <1>1, <1>5, <2>4, <2>6 DEF TablesTyped, HeapTyped, tables, At
  <2>8. SeekBegan(p, fd, f)
    BY <1>1, <1>2, <1>3, <1>5, <2>2, <2>4, <2>5, <2>6 DEF SeekBegan, At
  <2> QED
    BY <1>1, <1>2, <2>7, <2>8 DEF Meets, At
<1> QED
  BY <1>1, <1>2, <1>4, <1>5 DEF At

SeekDone(p, f) ==
    /\ pc[p] = "seek" /\ f = loc[p].f /\ file[f].live
    /\ \/ \E off \in 0 .. MaxOffset :
            Sets(f, [file[f] EXCEPT !.f_offset = off, !.moved = off,
                                    !.f_lk = NULL])
       \/ Sets(f, [file[f] EXCEPT !.f_lk = NULL])
    /\ Goes(p, "run") /\ Takes(p, NoLoc)
    /\ UNCHANGED <<tables, vn_refcount>>

\* sys_lseek: the offset is set or refused, and the file unlocked.
LEMMA LseekEndDoes ==
  ASSUME Types, NEW p \in Procs, NEW off \in {0, MaxOffset},
         LseekEnd(p, off), NEW f \in Files, f = loc[p].f
  PROVE  /\ TablesTyped' /\ pc[p] = "seek" /\ Meets(p, f)
         /\ panic' \in {"none", "freed fd_lk", "freed file"}
         /\ panic' = "none" => HeapTyped' /\ SeekDone(p, f)
<1> DEFINE A == /\ \/ file' = [file EXCEPT ![f].f_offset = off,
                                           ![f].moved = off, ![f].f_lk = NULL]
                   \/ LseekRefused(f)
                /\ Enter(p, NoLoc)
                /\ Goto(p, "run")
                /\ UNCHANGED <<tables, vn_refcount, panic>>
<1>1. /\ At(p, "seek") /\ Using(p, f, A)
      /\ TablesTyped /\ HeapTyped /\ env' = env /\ A \in BOOLEAN
  BY TypesAre DEF LseekEnd, At
<1>2. \/ fd_lk[p] /\ file[f].live /\ A
      \/ /\ TablesTyped' /\ panic' \in {"freed fd_lk", "freed file"}
         /\ Meets(p, f)
  <2> HIDE DEF A
  <2> QED
    BY <1>1, UsingDoes
<1>3. CASE fd_lk[p] /\ file[f].live /\ A
  <2>1. file[f] \in LiveFile
    BY <1>1, <1>3, LiveIs DEF HeapTyped
  <2>2. off \in 0 .. MaxOffset /\ off \in Nat
    BY FileTableAssumptions
  <2>3. /\ [file[f] EXCEPT !.f_offset = off, !.moved = off,
                           !.f_lk = NULL] \in LiveFile
        /\ [file[f] EXCEPT !.f_lk = NULL] \in LiveFile
    <3>1. 0 \in 0 .. WORD - 1 /\ NULL \in Procs \union {NULL}
      BY WordIs
    <3> QED
      BY <2>1, <2>2, <3>1, FileFields
  <2>4. PICK r \in LiveFile :
               /\ \/ r = [file[f] EXCEPT !.f_offset = off, !.moved = off,
                                         !.f_lk = NULL]
                  \/ r = [file[f] EXCEPT !.f_lk = NULL]
               /\ file' = [file EXCEPT ![f] = r]
    <3>1. CASE file' = [file EXCEPT ![f].f_offset = off,
                                    ![f].moved = off, ![f].f_lk = NULL]
      <4>1. file' = [file EXCEPT ![f] =
                       [file[f] EXCEPT !.f_offset = off, !.moved = off,
                                       !.f_lk = NULL]]
        BY <1>1, <3>1 DEF HeapTyped
      <4> QED
        BY <2>3, <4>1
    <3>2. CASE LseekRefused(f)
      <4>1. file' = [file EXCEPT ![f] = [file[f] EXCEPT !.f_lk = NULL]]
        BY <1>1, <3>2 DEF HeapTyped, LseekRefused
      <4> QED
        BY <2>3, <4>1
    <3> QED
      BY <1>3, <3>1, <3>2
  <2>5. Sets(f, r) /\ file' \in [Files -> LiveFile \union {FreeFile}]
    BY <1>1, <2>4, SetDoes
  <2>6. /\ Goes(p, "run") /\ pc' \in [Procs -> Labels]
        /\ Takes(p, NoLoc) /\ loc' \in [Procs -> Locs]
    <3>1. "run" \in Labels /\ NoLoc \in Locs /\ Goto(p, "run")
          /\ Enter(p, NoLoc)
      BY <1>3, LocsIs DEF Labels
    <3> QED
      BY <1>1, <3>1, ControlDoes
  <2>7. TablesTyped' /\ HeapTyped' /\ panic' = "none"
    BY <1>1, <1>3, <2>5, <2>6 DEF TablesTyped, HeapTyped, tables, At
  <2>8. SeekDone(p, f)
    <3>1. \/ \E o \in 0 .. MaxOffset :
               Sets(f, [file[f] EXCEPT !.f_offset = o, !.moved = o,
                                       !.f_lk = NULL])
          \/ Sets(f, [file[f] EXCEPT !.f_lk = NULL])
      <4>1. CASE r = [file[f] EXCEPT !.f_offset = off, !.moved = off,
                                     !.f_lk = NULL]
        <5>1. Sets(f, [file[f] EXCEPT !.f_offset = off, !.moved = off,
                                      !.f_lk = NULL])
          BY <2>5, <4>1
        <5> QED
          BY <2>2, <5>1
      <4>2. CASE r = [file[f] EXCEPT !.f_lk = NULL]
        BY <2>5, <4>2
      <4> QED
        BY <2>4, <4>1, <4>2
    <3>2. UNCHANGED <<tables, vn_refcount>>
      BY <1>3
    <3> QED
      BY <1>1, <1>3, <2>6, <3>1, <3>2 DEF SeekDone, At
  <2> QED
    BY <1>1, <2>7, <2>8 DEF Meets, At
<1> QED
  BY <1>1, <1>2, <1>3 DEF At

\* sys_close takes a reference away.
CloseBegan(p, fd, f) ==
    /\ "close" \in env
    /\ pc[p] = "run" /\ fd_ofiles[p][fd] = f /\ file[f].live
    /\ file[f].f_refcount > 0
    /\ Sets(f, [file[f] EXCEPT !.f_refcount = file[f].f_refcount - 1])
    /\ Goes(p, "close") /\ Takes(p, [NoLoc EXCEPT !.fd = fd, !.f = f])
    /\ UNCHANGED <<tables, vn_refcount>>

\* sys_close gives back the reference of its descriptor.
LEMMA CloseStartDoes ==
  ASSUME Types, NEW p \in Procs, NEW fd, CloseStart(p, fd)
  PROVE  /\ TablesTyped' /\ "close" \in env
         /\ \/ panic' \in {"none", "freed fd_lk", "freed file", "refcount"}
            \/ "badfd" \in env /\ panic' = "past the table"
         /\ panic' = "none" =>
              /\ HeapTyped'
              /\ \E i \in Fds, f \in Files : CloseBegan(p, i, f)
<1> DEFINE A(f) ==
             /\ Check(file[f].f_refcount > 0, "refcount")
             /\ file' = [file EXCEPT ![f].f_refcount = Uint16(@ - 1)]
             /\ Enter(p, [NoLoc EXCEPT !.fd = fd, !.f = f])
             /\ Goto(p, "close")
             /\ UNCHANGED <<tables, vn_refcount>>
           B(f) == Using(p, f, A(f))
<1>1. Lookup(p, fd, B(FileAt(p, fd))) /\ "close" \in env
  BY DEF CloseStart
<1>2. B(FileAt(p, fd)) \in BOOLEAN
  BY DEF Using
<1>3. /\ panic = "none" /\ pc[p] = "run" /\ env' = env
      /\ TablesTyped /\ HeapTyped
      /\ \/ FileAt(p, fd) # NULL /\ B(FileAt(p, fd))
         \/ "badfd" \in env /\ panic' = "past the table" /\ TablesTyped'
  <2> HIDE DEF B
  <2> QED
    BY <1>1, <1>2, LookupDoes
<1>4. ASSUME FileAt(p, fd) # NULL, B(FileAt(p, fd))
      PROVE  /\ TablesTyped'
             /\ panic' \in {"none", "freed fd_lk", "freed file", "refcount"}
             /\ panic' = "none" =>
                  /\ HeapTyped'
                  /\ \E i \in Fds, f \in Files : CloseBegan(p, i, f)
  <2>1. PICK f \in Files : f = FileAt(p, fd) /\ f = fd_ofiles[p][fd]
    BY <1>4, FileAtIs
  <2>2. fd \in Fds
    BY <1>4, FileAtIs
  <2>3. A(f) \in BOOLEAN /\ Using(p, f, A(f))
    BY <1>4, <2>1
  <2>4. \/ fd_lk[p] /\ file[f].live /\ A(f)
        \/ /\ TablesTyped' /\ panic' \in {"freed fd_lk", "freed file"}
           /\ Meets(p, f)
    <3> HIDE DEF A
    <3> QED
      BY <1>3, <2>3, UsingDoes
  <2>5. CASE fd_lk[p] /\ file[f].live /\ A(f)
    <3>1. PICK l \in Locs : l = [NoLoc EXCEPT !.fd = fd, !.f = f]
      BY <2>2, LocsIs
    <3>2. Goto(p, "close") /\ Enter(p, l) /\ "close" \in Labels
      BY <2>5, <3>1 DEF Labels
    <3>3. /\ Goes(p, "close") /\ pc' \in [Procs -> Labels]
          /\ Takes(p, l) /\ loc' \in [Procs -> Locs]
      BY <1>3, <3>2, ControlDoes
    <3>4. TablesTyped' /\ panic' \in {"none", "refcount"}
      BY <1>3, <2>5, <3>3 DEF TablesTyped, tables, Check
    <3>5. ASSUME panic' = "none"
          PROVE  HeapTyped' /\ CloseBegan(p, fd, f)
      <4>1. /\ file[f] \in LiveFile /\ file[f].f_refcount \in Nat
            /\ file[f].f_refcount < WORD
        BY <1>3, <2>5, LiveIs DEF HeapTyped
      <4>2. file[f].f_refcount > 0
        BY <2>5, <3>5 DEF Check
      <4>3. Uint16(file[f].f_refcount - 1) = file[f].f_refcount - 1
        BY <4>1, <4>2, WordIs
      <4>4. PICK n \in 0 .. WORD - 1 : n = file[f].f_refcount - 1
        BY <4>1, <4>2, WordIs
      <4>5. PICK r \in LiveFile : r = [file[f] EXCEPT !.f_refcount = n]
        <5>1. /\ NULL \in Procs \union {NULL} /\ 0 \in Nat
              /\ 0 \in 0 .. MaxOffset
          BY FileTableAssumptions
        <5> QED
          BY <4>1, <5>1, FileFields
      <4>6. file' = [file EXCEPT ![f] = r]
        BY <1>3, <2>5, <4>3, <4>4, <4>5 DEF HeapTyped
      <4>7. Sets(f, r) /\ file' \in [Files -> LiveFile \union {FreeFile}]
        BY <1>3, <4>6, SetDoes
      <4>8. CloseBegan(p, fd, f)
        BY <1>1, <1>3, <2>1, <2>5, <3>1, <3>3, <4>2, <4>4, <4>5, <4>7
           DEF CloseBegan
      <4> QED
        BY <1>3, <2>5, <4>7, <4>8 DEF HeapTyped
    <3> QED
      BY <2>2, <3>4, <3>5
  <2> QED
    BY <2>4, <2>5
<1>c. "close" \in env
  BY <1>1
<1> HIDE DEF B
<1>5. CASE "badfd" \in env /\ panic' = "past the table" /\ TablesTyped'
  BY <1>c, <1>5
<1>6. CASE FileAt(p, fd) # NULL /\ B(FileAt(p, fd))
  BY <1>c, <1>4, <1>6
<1> QED
  BY <1>3, <1>5, <1>6

\* With no reference left, the file is freed and the lock of the table
\* destroyed.
CloseDone(p, f) ==
    /\ pc[p] = "close" /\ f = loc[p].f /\ file[f].live
    /\ \/ /\ file[f].f_refcount = 0
          /\ Adds(file[f].f_vnode, -1)
          /\ LosesLk(p)
          /\ Sets(f, FreeFile)
          /\ Puts(p, loc[p].fd, NULL)
       \/ UNCHANGED <<vn_refcount, fd_lk, file, fd_ofiles>>
    /\ Goes(p, "run") /\ Takes(p, NoLoc)
    /\ UNCHANGED fd_nfiles

\* sys_close after that: the file is freed with its last reference.
LEMMA CloseEndDoes ==
  ASSUME Types, NEW p \in Procs, CloseEnd(p), NEW f \in Files, f = loc[p].f,
         loc[p].fd \in Fds
  PROVE  /\ TablesTyped' /\ pc[p] = "close"
         /\ panic' \in {"none", "freed fd_lk", "freed file", "freed vnode"}
         /\ panic' = "freed vnode" =>
               file[f].live /\ vn_refcount[file[f].f_vnode] <= 0
         /\ panic' = "none" => HeapTyped' /\ CloseDone(p, f)
<1> DEFINE Freed == /\ file[f].f_refcount = 0
                    /\ Decref(file[f].f_vnode)
                    /\ fd_lk' = [fd_lk EXCEPT ![p] = FALSE]
                    /\ file' = [file EXCEPT ![f] = FreeFile]
                    /\ fd_ofiles' = [fd_ofiles EXCEPT ![p][loc[p].fd] = NULL]
           Kept == UNCHANGED <<vn_refcount, fd_lk, file, fd_ofiles, panic>>
           A == /\ \/ Freed
                   \/ file[f].f_refcount # 0 /\ Kept
                /\ Enter(p, NoLoc)
                /\ Goto(p, "run")
                /\ UNCHANGED fd_nfiles
<1>1. /\ At(p, "close") /\ Using(p, f, A)
      /\ TablesTyped /\ HeapTyped /\ env' = env /\ A \in BOOLEAN
  BY TypesAre DEF CloseEnd, At
<1>2. \/ fd_lk[p] /\ file[f].live /\ A
      \/ /\ TablesTyped' /\ panic' \in {"freed fd_lk", "freed file"}
         /\ Meets(p, f)
  <2> HIDE DEF A
  <2> QED
    BY <1>1, UsingDoes
<1>3. ASSUME fd_lk[p], file[f].live, A
      PROVE  /\ TablesTyped' /\ panic' \in {"none", "freed vnode"}
             /\ panic' = "freed vnode" => vn_refcount[file[f].f_vnode] <= 0
             /\ panic' = "none" => HeapTyped' /\ CloseDone(p, f)
  <2>1. /\ Goes(p, "run") /\ pc' \in [Procs -> Labels]
        /\ Takes(p, NoLoc) /\ loc' \in [Procs -> Locs]
    <3>1. "run" \in Labels /\ NoLoc \in Locs /\ Goto(p, "run")
          /\ Enter(p, NoLoc)
      BY <1>3, LocsIs DEF Labels
    <3> QED
      BY <1>1, <3>1, ControlDoes
  <2>2. PICK v \in Vnodes : v = file[f].f_vnode
    BY <1>1, <1>3, LiveIs DEF HeapTyped
  <2>3. CASE Freed
    <3>1. /\ Puts(p, loc[p].fd, NULL)
          /\ fd_ofiles' \in [Procs -> [Fds -> Files \union {NULL}]]
      <4>1. PICK i \in Fds : i = loc[p].fd
        OBVIOUS
      <4> QED
        BY <1>1, <2>3, <4>1, PutDoes
    <3>2. LosesLk(p) /\ fd_lk' \in [Procs -> BOOLEAN]
      BY <1>1, <2>3, LkDoes
    <3>3. /\ Sets(f, FreeFile)
          /\ file' \in [Files -> LiveFile \union {FreeFile}]
      BY <1>1, <2>3, SetDoes
    <3>4. /\ vn_refcount' = [vn_refcount EXCEPT ![v] = @ - 1]
          /\ Check(vn_refcount[v] > 0, "freed vnode")
          /\ vn_refcount[v] \in Nat
      BY <1>1, <2>2, <2>3 DEF Decref, HeapTyped
    <3>5. TablesTyped'
      BY <1>1, <1>3, <2>1, <3>1, <3>2 DEF TablesTyped
    <3>6. /\ panic' \in {"none", "freed vnode"}
          /\ panic' = "freed vnode" => vn_refcount[v] <= 0
      <4>1. PICK n \in Nat : n = vn_refcount[v]
        BY <3>4
      <4>2. panic' = IF n > 0 THEN "none" ELSE "freed vnode"
        BY <3>4, <4>1 DEF Check
      <4>3. CASE n > 0
        BY <4>2, <4>3
      <4>4. CASE ~(n > 0)
        <5>1. vn_refcount[v] <= 0
          BY <4>1, <4>4
        <5>2. panic' = "freed vnode"
          BY <4>2, <4>4
        <5> QED
          BY <5>1, <5>2
      <4> QED
        BY <4>3, <4>4
    <3>7. ASSUME panic' = "none" PROVE HeapTyped' /\ CloseDone(p, f)
      <4>1. vn_refcount[v] > 0
        BY <3>4, <3>7 DEF Check
      <4>d. PICK d \in {-1, 1, 2} : d = -1
        OBVIOUS
      <4>2. vn_refcount' = [vn_refcount EXCEPT ![v] = vn_refcount[v] + d]
        BY <3>4, <4>d
      <4>3. vn_refcount[v] + d >= 0
        <5>1. PICK n \in Nat : n = vn_refcount[v]
          BY <3>4
        <5>2. n > 0
          BY <4>1, <5>1
        <5> QED
          BY <4>d, <5>1, <5>2
      <4>4. Adds(v, d) /\ vn_refcount' \in [Vnodes -> Nat]
        BY <1>1, <4>2, <4>3, AddDoes
      <4>5. CloseDone(p, f)
        BY <1>1, <1>3, <2>1, <2>2, <2>3, <3>1, <3>2, <3>3, <4>4, <4>d
           DEF CloseDone, At
      <4> QED
        BY <3>3, <4>4, <4>5 DEF HeapTyped
    <3> QED
      BY <2>2, <3>5, <3>6, <3>7
  <2>4. CASE Kept
    <3>1. panic' = "none" /\ TablesTyped' /\ HeapTyped'
      BY <1>1, <1>3, <2>1, <2>4 DEF TablesTyped, HeapTyped, At
    <3>2. CloseDone(p, f)
      BY <1>1, <1>3, <2>1, <2>4 DEF CloseDone, At
    <3> QED
      BY <3>1, <3>2
  <2> QED
    BY <1>3, <2>3, <2>4
<1>4. CASE fd_lk[p] /\ file[f].live /\ A
  <2> HIDE DEF A
  <2> QED
    BY <1>1, <1>3, <1>4 DEF At
<1> QED
  BY <1>1, <1>2, <1>4 DEF At

\* sys_dup2 writes an entry of the table and counts one reference more, then
\* one less if the entry was in use.
Dup2Did(p) ==
    /\ "dup2" \in env
    /\ \A q \in Procs \ {p} :
          \A j \in Fds : fd_ofiles'[q][j] = fd_ofiles[q][j]
    /\ \A q \in Procs \ {p} : fd_lk'[q] = fd_lk[q]
    /\ \E l \in Locs : Takes(p, l) /\ (pc'[p] = "dup2" => l.f \in Files)
    /\ \E label \in {"run", "dup2"} : Goes(p, label)

\* sys_dup2 fills an entry.
LEMMA Dup2StartDoes ==
  ASSUME Types, NEW p \in Procs, NEW old, NEW new, Dup2Start(p, old, new)
  PROVE  /\ TablesTyped' /\ "dup2" \in env
         /\ \/ panic' \in {"none", "freed fd_lk", "freed file"}
            \/ "badfd" \in env /\ panic' = "past the table"
         /\ panic' = "none" => HeapTyped' /\ Dup2Did(p) /\ pc[p] = "run"
<1> DEFINE A(f) ==
             /\ fd_ofiles' = [fd_ofiles EXCEPT ![p][new] = f]
             /\ file' = [file EXCEPT ![f].f_refcount = Uint16(@ + 1)]
             /\ Enter(p, [NoLoc EXCEPT !.f = f])
             /\ Goto(p, IF fd_ofiles[p][new] = NULL THEN "run" ELSE "dup2")
             /\ UNCHANGED <<fd_nfiles, fd_lk, vn_refcount, panic>>
           B(f) == Using(p, f, A(f))
<1>1. Lookup(p, old, B(FileAt(p, old)))
  BY DEF Dup2Start
<1>c. "dup2" \in env /\ new \in Fds
  BY DEF Dup2Start
<1>2. B(FileAt(p, old)) \in BOOLEAN
  BY DEF Using
<1>3. /\ panic = "none" /\ pc[p] = "run" /\ env' = env
      /\ TablesTyped /\ HeapTyped
      /\ \/ FileAt(p, old) # NULL /\ B(FileAt(p, old))
         \/ "badfd" \in env /\ panic' = "past the table" /\ TablesTyped'
  <2> HIDE DEF B
  <2> QED
    BY <1>1, <1>2, LookupDoes
<1>4. ASSUME FileAt(p, old) # NULL, B(FileAt(p, old))
      PROVE  /\ TablesTyped'
             /\ panic' \in {"none", "freed fd_lk", "freed file"}
             /\ panic' = "none" => HeapTyped' /\ Dup2Did(p)
  <2>1. PICK f \in Files : f = FileAt(p, old)
    BY <1>4, FileAtIs
  <2>3. A(f) \in BOOLEAN /\ Using(p, f, A(f))
    BY <1>4, <2>1
  <2>4. \/ fd_lk[p] /\ file[f].live /\ A(f)
        \/ /\ TablesTyped' /\ panic' \in {"freed fd_lk", "freed file"}
           /\ Meets(p, f)
    <3> HIDE DEF A
    <3> QED
      BY <1>3, <2>3, UsingDoes
  <2>5. CASE fd_lk[p] /\ file[f].live /\ A(f)
    <3>1. PICK l \in Locs : l = [NoLoc EXCEPT !.f = f] /\ l.f = f
      BY LocsIs DEF NoLoc
    <3>2. PICK label \in {"run", "dup2"} : Goto(p, label)
      BY <2>5
    <3>3. Enter(p, l) /\ label \in Labels
      BY <2>5, <3>1 DEF Labels
    <3>4. /\ Goes(p, label) /\ pc' \in [Procs -> Labels]
          /\ Takes(p, l) /\ loc' \in [Procs -> Locs]
      BY <1>3, <3>2, <3>3, ControlDoes
    <3>5. /\ Puts(p, new, f)
          /\ fd_ofiles' \in [Procs -> [Fds -> Files \union {NULL}]]
      BY <1>3, <1>c, <2>5, PutDoes
    <3>6. TablesTyped' /\ panic' = "none"
      BY <1>3, <2>5, <3>4, <3>5 DEF TablesTyped
    <3>7. PICK n \in 0 .. WORD - 1 : n = Uint16(file[f].f_refcount + 1)
      BY <1>3, <2>5, LiveIs, WordIs DEF HeapTyped
    <3>8. PICK r \in LiveFile : r = [file[f] EXCEPT !.f_refcount = n]
      <4>1. /\ NULL \in Procs \union {NULL} /\ 0 \in Nat
            /\ 0 \in 0 .. MaxOffset
        BY FileTableAssumptions
      <4>2. file[f] \in LiveFile
        BY <1>3, <2>5, LiveIs DEF HeapTyped
      <4> QED
        BY <4>1, <4>2, FileFields
    <3>9. file' = [file EXCEPT ![f] = r]
      BY <1>3, <2>5, <3>7, <3>8 DEF HeapTyped
    <3>10. HeapTyped'
      BY <1>3, <2>5, <3>9, SetDoes DEF HeapTyped
    <3>11. Dup2Did(p)
      <4>1. \A q \in Procs \ {p} :
              \A j \in Fds : fd_ofiles'[q][j] = fd_ofiles[q][j]
        BY <3>5 DEF Puts
      <4> QED
        BY <1>c, <2>5, <3>1, <3>4, <4>1 DEF Dup2Did
    <3> QED
      BY <3>6, <3>10, <3>11
  <2> QED
    BY <2>4, <2>5
<1> HIDE DEF B
<1>5. CASE "badfd" \in env /\ panic' = "past the table" /\ TablesTyped'
  BY <1>c, <1>5
<1>6. CASE FileAt(p, old) # NULL /\ B(FileAt(p, old))
  BY <1>c, <1>3, <1>4, <1>6
<1> QED
  BY <1>3, <1>5, <1>6

\* sys_dup2 gives back the reference of the file it copied.
LEMMA Dup2EndDoes ==
  ASSUME Types, NEW p \in Procs, Dup2End(p), NEW f \in Files, f = loc[p].f,
         "dup2" \in env
  PROVE  /\ TablesTyped' /\ pc[p] = "dup2"
         /\ panic' \in {"none", "freed fd_lk", "freed file", "freed vnode"}
         /\ panic' = "none" => HeapTyped' /\ Dup2Did(p)
<1> DEFINE Freed == /\ file[f].f_refcount = 1
                    /\ fd_lk' = [fd_lk EXCEPT ![p] = FALSE]
                    /\ Decref(file[f].f_vnode)
           Kept == UNCHANGED <<fd_lk, vn_refcount, panic>>
           A == /\ file' = [file EXCEPT ![f].f_refcount = Uint16(@ - 1)]
                /\ Freed \/ (file[f].f_refcount # 1 /\ Kept)
                /\ Enter(p, NoLoc)
                /\ Goto(p, "run")
                /\ UNCHANGED <<fd_ofiles, fd_nfiles>>
<1>1. /\ At(p, "dup2") /\ Using(p, f, A)
      /\ TablesTyped /\ HeapTyped /\ env' = env /\ A \in BOOLEAN
  BY TypesAre DEF Dup2End, At
<1>2. \/ fd_lk[p] /\ file[f].live /\ A
      \/ /\ TablesTyped' /\ panic' \in {"freed fd_lk", "freed file"}
         /\ Meets(p, f)
  <2> HIDE DEF A
  <2> QED
    BY <1>1, UsingDoes
<1>3. ASSUME fd_lk[p], file[f].live, A
      PROVE  /\ TablesTyped' /\ panic' \in {"none", "freed vnode"}
             /\ panic' = "none" => HeapTyped' /\ Dup2Did(p)
  <2>1. /\ Goes(p, "run") /\ pc' \in [Procs -> Labels]
        /\ Takes(p, NoLoc) /\ loc' \in [Procs -> Locs]
    <3>1. "run" \in Labels /\ NoLoc \in Locs /\ Goto(p, "run")
          /\ Enter(p, NoLoc)
      BY <1>3, LocsIs DEF Labels
    <3> QED
      BY <1>1, <3>1, ControlDoes
  <2>2. PICK v \in Vnodes : v = file[f].f_vnode
    BY <1>1, <1>3, LiveIs DEF HeapTyped
  <2>3. /\ fd_lk' \in [Procs -> BOOLEAN]
        /\ \A q \in Procs \ {p} : fd_lk'[q] = fd_lk[q]
    <3>1. CASE Freed
      BY <1>1, <3>1, LkDoes DEF LosesLk
    <3>2. CASE Kept
      BY <1>1, <3>2 DEF TablesTyped
    <3> QED
      BY <1>3, <3>1, <3>2
  <2>4. TablesTyped'
    BY <1>1, <1>3, <2>1, <2>3 DEF TablesTyped
  <2>5. panic' \in {"none", "freed vnode"}
    BY <1>1, <1>3 DEF Decref, Check, At
  <2>6. Dup2Did(p)
    <3>1. \A q \in Procs \ {p} :
            \A j \in Fds : fd_ofiles'[q][j] = fd_ofiles[q][j]
      BY <1>3
    <3>2. \E l \in Locs : Takes(p, l) /\ (pc'[p] = "dup2" => l.f \in Files)
      <4>1. NoLoc \in Locs /\ pc'[p] # "dup2"
        BY <2>1, LocsIs DEF Goes
      <4> QED
        BY <2>1, <4>1
    <3>3. \E label \in {"run", "dup2"} : Goes(p, label)
      BY <2>1
    <3> QED
      BY <2>3, <3>1, <3>2, <3>3 DEF Dup2Did
  <2>7. PICK n \in 0 .. WORD - 1 : n = Uint16(file[f].f_refcount - 1)
    BY <1>1, <1>3, LiveIs, WordIs DEF HeapTyped
  <2>8. PICK r \in LiveFile : r = [file[f] EXCEPT !.f_refcount = n]
    <3>1. /\ NULL \in Procs \union {NULL} /\ 0 \in Nat
          /\ 0 \in 0 .. MaxOffset
      BY FileTableAssumptions
    <3>2. file[f] \in LiveFile
      BY <1>1, <1>3, LiveIs DEF HeapTyped
    <3> QED
      BY <3>1, <3>2, FileFields
  <2>9. file' = [file EXCEPT ![f] = r]
    BY <1>1, <1>3, <2>7, <2>8 DEF HeapTyped
  <2>10. file' \in [Files -> LiveFile \union {FreeFile}]
    BY <1>1, <2>9, SetDoes
  <2>11. ASSUME panic' = "none" PROVE vn_refcount' \in [Vnodes -> Nat]
    <3>1. CASE Freed
      BY <1>1, <2>2, <2>11, <3>1 DEF Decref, Check, HeapTyped
    <3>2. CASE Kept
      BY <1>1, <3>2 DEF HeapTyped
    <3> QED
      BY <1>3, <3>1, <3>2
  <2> QED
    BY <2>4, <2>5, <2>6, <2>10, <2>11 DEF HeapTyped
<1>4. CASE fd_lk[p] /\ file[f].live /\ A
  <2> HIDE DEF A
  <2> QED
    BY <1>1, <1>3, <1>4 DEF At
<1> QED
  BY <1>1, <1>2, <1>4 DEF At


\* fork makes an empty table where there was none.
Forked(p, q) ==
    /\ pc[p] = "run" /\ pc[q] = "none" /\ q # p /\ fd_lk[p]
    /\ TablesKept /\ (\A i \in Fds : fd_ofiles[q][i] = NULL)
    /\ fd_nfiles'[q] = 0 /\ fd_lk'[q]
    /\ \A r \in Procs \ {q} : /\ fd_nfiles'[r] = fd_nfiles[r]
                              /\ fd_lk'[r] = fd_lk[r]
    /\ pc'[p] = "copy" /\ pc'[q] = "born"
    /\ \A r \in Procs \ {p, q} : pc'[r] = pc[r]
    /\ Takes(p, [NoLoc EXCEPT !.child = q])
    /\ UNCHANGED <<file, vn_refcount>>

\* fork makes the child's table, or meets a destroyed lock.
LEMMA ForkDoes ==
  ASSUME Types, NoneEmpty, NEW p \in Procs, NEW q \in Procs, Fork(p, q)
  PROVE  /\ TablesTyped' /\ panic' \in {"none", "freed fd_lk"}
         /\ panic' = "freed fd_lk" => ~fd_lk[p] /\ pc[p] = "run"
         /\ panic' = "none" => HeapTyped' /\ Forked(p, q)
<1>1. /\ TablesTyped /\ HeapTyped /\ panic = "none" /\ env' = env
      /\ pc[p] = "run" /\ pc[q] = "none" /\ p # q
  BY TypesAre DEF Fork, At
<1>2. CASE ~fd_lk[p] /\ Panic("freed fd_lk")
  BY <1>1, <1>2 DEF Panic, TablesTyped, tables
<1>3. ASSUME fd_lk[p], fd_lk' = [fd_lk EXCEPT ![q] = TRUE],
             fd_ofiles' = [fd_ofiles EXCEPT ![q] = [i \in Fds |-> NULL]],
             fd_nfiles' = [fd_nfiles EXCEPT ![q] = 0],
             pc' = [pc EXCEPT ![p] = "copy", ![q] = "born"],
             Enter(p, [NoLoc EXCEPT !.child = q]),
             UNCHANGED <<file, vn_refcount, panic>>
      PROVE  TablesTyped' /\ HeapTyped' /\ panic' = "none" /\ Forked(p, q)
  <2>1. PICK l \in Locs : l = [NoLoc EXCEPT !.child = q]
    BY LocsIs
  <2>2. Takes(p, l) /\ loc' \in [Procs -> Locs]
    <3>1. Enter(p, l)
      BY <1>3, <2>1
    <3> QED
      BY <1>1, <3>1 DEF Enter, Takes, TablesTyped
  <2>3. /\ pc' \in [Procs -> Labels] /\ pc'[p] = "copy" /\ pc'[q] = "born"
        /\ \A r \in Procs \ {p, q} : pc'[r] = pc[r]
    BY <1>1, <1>3 DEF TablesTyped, Labels
  <2>4. fd_ofiles' \in [Procs -> [Fds -> Files \union {NULL}]]
    BY <1>1, <1>3 DEF TablesTyped
  <2>5. \A i \in Fds : fd_ofiles[q][i] = NULL
    BY <1>1 DEF NoneEmpty, Used
  <2>6. TablesKept
    <3>1. \A j \in Fds : fd_ofiles'[q][j] = NULL
      BY <1>1, <1>3 DEF TablesTyped
    <3>2. \A r \in Procs : r # q =>
             \A j \in Fds : fd_ofiles'[r][j] = fd_ofiles[r][j]
      BY <1>1, <1>3 DEF TablesTyped
    <3> QED
      BY <2>5, <3>1, <3>2 DEF TablesKept
  <2>7. /\ fd_nfiles' \in [Procs -> 0 .. WORD - 1] /\ fd_nfiles'[q] = 0
        /\ \A r \in Procs \ {q} : fd_nfiles'[r] = fd_nfiles[r]
    <3>1. PICK n \in 0 .. WORD - 1 : n = 0
      BY WordIs
    <3> QED
      BY <1>1, <1>3, <3>1 DEF TablesTyped
  <2>8. /\ fd_lk' \in [Procs -> BOOLEAN] /\ fd_lk'[q]
        /\ \A r \in Procs \ {q} : fd_lk'[r] = fd_lk[r]
    BY <1>1, <1>3 DEF TablesTyped
  <2>9. TablesTyped' /\ HeapTyped' /\ panic' = "none"
    BY <1>1, <1>3, <2>2, <2>3, <2>4, <2>7, <2>8 DEF TablesTyped, HeapTyped
  <2> QED
    BY <1>1, <1>3, <2>1, <2>2, <2>3, <2>5, <2>6, <2>7, <2>8, <2>9 DEF Forked
<1> QED
  BY <1>2, <1>3 DEF Fork

\* file_copy passes an entry that leads nowhere, or copies one.
CopySkipped(p) ==
    /\ pc[p] = "copy" /\ loc[p].fd \in Fds
    /\ fd_ofiles[p][loc[p].fd] = NULL
    /\ Takes(p, [NoLoc EXCEPT !.fd = loc[p].fd + 1, !.child = loc[p].child])
    /\ UNCHANGED <<tables, file, vn_refcount, pc>>

Copied(p, i, q, f) ==
    /\ pc[p] = "copy" /\ i = loc[p].fd /\ q = loc[p].child
    /\ fd_ofiles[p][i] = f /\ file[f].live /\ file[f].f_lk = NULL
    /\ Puts(q, i, f) /\ Numbers(q, 1) /\ Adds(file[f].f_vnode, 1)
    /\ Sets(f, [file[f] EXCEPT !.f_refcount = Uint16(file[f].f_refcount + 1)])
    /\ Takes(p, [NoLoc EXCEPT !.fd = i + 1, !.child = q])
    /\ UNCHANGED <<fd_lk, pc>>

\* file_copy skips an entry, copies one, or meets a file that is gone.
LEMMA FileCopyDoes ==
  ASSUME Types, NEW p \in Procs, FileCopy(p),
         NEW q \in Procs, q = loc[p].child
  PROVE  /\ TablesTyped' /\ pc[p] = "copy"
         /\ panic' \in {"none", "freed fd_lk", "freed file"}
         /\ panic' # "none" =>
              \E i \in Fds, f \in Files : fd_ofiles[p][i] = f /\ Meets(p, f)
         /\ panic' = "none" =>
              /\ HeapTyped'
              /\ \/ CopySkipped(p)
                 \/ \E i \in Fds, f \in Files : Copied(p, i, q, f)
<1>1. /\ TablesTyped /\ HeapTyped /\ panic = "none" /\ env' = env
      /\ pc[p] = "copy"
  BY TypesAre DEF FileCopy, At
<1>2. PICK i \in Fds : i = loc[p].fd
  BY DEF FileCopy
<1>3. PICK l \in Locs : l = [NoLoc EXCEPT !.fd = i + 1, !.child = q]
  BY LocsIs
<1>4. CASE /\ fd_ofiles[p][i] = NULL /\ CopyNext(p)
           /\ UNCHANGED <<tables, file, vn_refcount, pc, panic>>
  <2>1. Takes(p, l) /\ loc' \in [Procs -> Locs]
    BY <1>1, <1>2, <1>3, <1>4 DEF CopyNext, Enter, Takes, TablesTyped
  <2>2. TablesTyped' /\ HeapTyped' /\ panic' = "none"
    BY <1>1, <1>4, <2>1 DEF TablesTyped, HeapTyped, tables
  <2>3. CopySkipped(p)
    BY <1>1, <1>2, <1>3, <1>4, <2>1 DEF CopySkipped
  <2> QED
    BY <1>1, <2>2, <2>3
<1>5. CASE fd_ofiles[p][i] # NULL
  <2>1. PICK f \in Files : f = fd_ofiles[p][i]
    BY <1>1, <1>5 DEF TablesTyped
  <2> DEFINE A == /\ file[f].f_lk = NULL
                  /\ fd_ofiles' = [fd_ofiles EXCEPT ![q][i] = f]
                  /\ fd_nfiles' = [fd_nfiles EXCEPT ![q] = Uint16(@ + 1)]
                  /\ CopyRef(f)
                  /\ VnodeRef(file[f].f_vnode)
                  /\ CopyNext(p)
                  /\ UNCHANGED <<fd_lk, pc, panic>>
  <2>2. Using(p, f, A) /\ A \in BOOLEAN
    BY <1>2, <1>5, <2>1 DEF FileCopy
  <2>3. \/ fd_lk[p] /\ file[f].live /\ A
        \/ /\ TablesTyped' /\ panic' \in {"freed fd_lk", "freed file"}
           /\ Meets(p, f)
    <3> HIDE DEF A
    <3> QED
      BY <1>1, <2>2, UsingDoes
  <2>4. CASE fd_lk[p] /\ file[f].live /\ A
    <3>1. Takes(p, l) /\ loc' \in [Procs -> Locs]
      BY <1>1, <1>2, <1>3, <2>4 DEF CopyNext, Enter, Takes, TablesTyped
    <3>2. /\ Puts(q, i, f)
          /\ fd_ofiles' \in [Procs -> [Fds -> Files \union {NULL}]]
      BY <1>1, <2>4, PutDoes
    <3>d. PICK d \in {-1, 1, 2} : d = 1
      OBVIOUS
    <3>3. Numbers(q, d) /\ fd_nfiles' \in [Procs -> 0 .. WORD - 1]
      <4>1. fd_nfiles' = [fd_nfiles EXCEPT ![q] = Uint16(fd_nfiles[q] + d)]
        BY <2>4, <3>d
      <4> QED
        BY <1>1, <4>1, NumberDoes
    <3>4. /\ file[f] \in LiveFile /\ file[f].f_vnode \in Vnodes
          /\ file[f].f_refcount \in Nat
      BY <1>1, <2>4, LiveIs DEF HeapTyped
    <3>5. PICK v \in Vnodes : v = file[f].f_vnode
      BY <3>4
    <3>6. Adds(v, d) /\ vn_refcount' \in [Vnodes -> Nat]
      <4>1. vn_refcount' = [vn_refcount EXCEPT ![v] = vn_refcount[v] + d]
        BY <2>4, <3>5, <3>d DEF VnodeRef
      <4>2. vn_refcount[v] + d >= 0
        BY <1>1, <3>d DEF HeapTyped
      <4> QED
        BY <1>1, <4>1, <4>2, AddDoes
    <3>7. PICK n \in 0 .. WORD - 1 : n = Uint16(file[f].f_refcount + 1)
      BY <3>4, WordIs
    <3>8. PICK r \in LiveFile : r = [file[f] EXCEPT !.f_refcount = n]
      <4>1. /\ NULL \in Procs \union {NULL} /\ 0 \in Nat
            /\ 0 \in 0 .. MaxOffset
        BY FileTableAssumptions
      <4> QED
        BY <3>4, <4>1, FileFields
    <3>9. file' = [file EXCEPT ![f] = r]
      BY <1>1, <2>4, <3>7, <3>8 DEF HeapTyped, CopyRef
    <3>10. Sets(f, r) /\ file' \in [Files -> LiveFile \union {FreeFile}]
      BY <1>1, <3>9, SetDoes
    <3>11. TablesTyped' /\ HeapTyped' /\ panic' = "none"
      BY <1>1, <2>4, <3>1, <3>2, <3>3, <3>6, <3>10 DEF TablesTyped, HeapTyped
    <3>12. Copied(p, i, q, f)
      BY <1>1, <1>2, <1>3, <2>1, <2>4, <3>1, <3>2, <3>3, <3>d, <3>5, <3>6,
         <3>7, <3>8, <3>10 DEF Copied
    <3> QED
      BY <1>1, <3>11, <3>12
  <2>5. CASE /\ TablesTyped' /\ panic' \in {"freed fd_lk", "freed file"}
             /\ Meets(p, f)
    BY <1>1, <2>1, <2>5
  <2> QED
    BY <2>3, <2>4, <2>5
<1> QED
  BY <1>2, <1>4, <1>5 DEF FileCopy

\* The child is there, or gone again.
CopyEnded(p, q) ==
    /\ pc[p] = "copy" /\ loc[p].fd \notin Fds
    /\ pc'[p] = "run" /\ pc'[q] \in {"run", "exit"}
    /\ \A r \in Procs \ {p, q} : pc'[r] = pc[r]
    /\ Takes(p, NoLoc)
    /\ UNCHANGED <<tables, file, vn_refcount>>

\* file_copy at its end, with the assertion that the numbers agree.
LEMMA FileCopiedDoes ==
  ASSUME Types, NEW p \in Procs, FileCopied(p),
         NEW q \in Procs, q = loc[p].child, q # p
  PROVE  /\ TablesTyped' /\ HeapTyped' /\ CopyEnded(p, q)
         /\ panic' \in {"none", "nfiles differ"}
         /\ panic' = "nfiles differ" => fd_nfiles[p] # fd_nfiles[q]
<1>1. /\ TablesTyped /\ HeapTyped /\ panic = "none" /\ env' = env
      /\ pc[p] = "copy"
  BY TypesAre DEF FileCopied, At
<1>2. PICK label \in {"run", "exit"} :
             pc' = [pc EXCEPT ![p] = "run", ![q] = label]
  BY DEF FileCopied
<1>3. /\ pc' \in [Procs -> Labels] /\ pc'[p] = "run" /\ pc'[q] = label
      /\ \A r \in Procs \ {p, q} : pc'[r] = pc[r]
  BY <1>1, <1>2 DEF TablesTyped, Labels
<1>4. Takes(p, NoLoc) /\ loc' \in [Procs -> Locs]
  <2>1. Enter(p, NoLoc) /\ NoLoc \in Locs
    BY LocsIs DEF FileCopied
  <2> QED
    BY <1>1, <2>1 DEF Enter, Takes, TablesTyped
<1>5. UNCHANGED <<tables, file, vn_refcount>> /\ loc[p].fd \notin Fds
  BY DEF FileCopied
<1>6. TablesTyped' /\ HeapTyped'
  BY <1>1, <1>3, <1>4, <1>5 DEF TablesTyped, HeapTyped, tables
<1>7. /\ panic' \in {"none", "nfiles differ"}
      /\ panic' = "nfiles differ" => fd_nfiles[p] # fd_nfiles[q]
  BY DEF FileCopied, Check
<1>8. CopyEnded(p, q)
  BY <1>1, <1>3, <1>4, <1>5 DEF CopyEnded
<1> QED
  BY <1>6, <1>7, <1>8

Exits(p) ==
    /\ pc[p] = "run" /\ Goes(p, "exit")
    /\ UNCHANGED <<tables, file, vn_refcount, loc>>

\* sys_exit begins.
LEMMA ExitDoes ==
  ASSUME Types, NEW p \in Procs, Exit(p)
  PROVE  TablesTyped' /\ HeapTyped' /\ panic' = "none" /\ Exits(p)
<1>1. /\ TablesTyped /\ HeapTyped /\ panic = "none" /\ env' = env
      /\ pc[p] = "run" /\ Goto(p, "exit") /\ "exit" \in Labels
      /\ UNCHANGED <<tables, file, vn_refcount, loc, panic>>
  BY TypesAre DEF Exit, At, Labels
<1>2. Goes(p, "exit") /\ pc' \in [Procs -> Labels]
  BY <1>1 DEF Goto, Goes, TablesTyped
<1> QED
  BY <1>1, <1>2 DEF TablesTyped, HeapTyped, tables, Exits

\* exit gives up a descriptor, and with the last one of a file the file.
DesBegan(p, i, f) ==
    /\ pc[p] = "exit" /\ fd_ofiles[p][i] = f
    /\ file[f].live /\ file[f].f_lk = NULL /\ file[f].f_refcount > 0
    /\ Puts(p, i, NULL) /\ Numbers(p, -1) /\ Adds(file[f].f_vnode, -1)
    /\ Sets(f, [file[f] EXCEPT !.f_lk = p,
                               !.f_refcount = file[f].f_refcount - 1])
    /\ Goes(p, "des") /\ Takes(p, [NoLoc EXCEPT !.f = f])
    /\ UNCHANGED fd_lk

\* des_descriptor: the entry is cleared and both counts go down, unless
\* one of them is 0 already.
LEMMA DesDescriptorDoes ==
  ASSUME Types, NEW p \in Procs, DesDescriptor(p)
  PROVE  /\ TablesTyped' /\ pc[p] = "exit"
         /\ \E i \in Fds, f \in Files :
              /\ fd_ofiles[p][i] = f
              /\ panic' \in {"none", "freed fd_lk", "freed file", "refcount",
                             "freed vnode"}
              /\ Meets(p, f)
              /\ panic' = "refcount" => file[f].live /\ file[f].f_refcount = 0
              /\ panic' = "freed vnode" =>
                    file[f].live /\ vn_refcount[file[f].f_vnode] <= 0
              /\ panic' = "none" => HeapTyped' /\ DesBegan(p, i, f)
<1>1. /\ TablesTyped /\ HeapTyped /\ panic = "none" /\ env' = env
      /\ pc[p] = "exit" /\ Used(p) # {}
  BY TypesAre DEF DesDescriptor, At
<1>2. PICK i \in Fds : i = Min(Used(p)) /\ fd_ofiles[p][i] # NULL
  BY <1>1, MinOfFds DEF Used
<1>3. PICK f \in Files : f = fd_ofiles[p][i]
  BY <1>1, <1>2 DEF TablesTyped
<1> DEFINE n == file[f].f_refcount
           A == /\ file[f].f_lk = NULL
                /\ file' = [file EXCEPT ![f].f_lk = p,
                                        ![f].f_refcount = Uint16(@ - 1)]
                /\ fd_ofiles' = [fd_ofiles EXCEPT ![p][i] = NULL]
                /\ fd_nfiles' = [fd_nfiles EXCEPT ![p] = Uint16(@ - 1)]
                /\ vn_refcount' =
                      [vn_refcount EXCEPT ![file[f].f_vnode] = @ - 1]
                /\ panic' = IF file[f].f_refcount = 0 THEN "refcount"
                            ELSE IF vn_refcount[file[f].f_vnode] = 0
                            THEN "freed vnode" ELSE "none"
                /\ Enter(p, [NoLoc EXCEPT !.f = f])
                /\ Goto(p, "des")
                /\ UNCHANGED fd_lk
<1>4. Using(p, f, A) /\ A \in BOOLEAN
  BY <1>2, <1>3 DEF DesDescriptor
<1>5. \/ fd_lk[p] /\ file[f].live /\ A
      \/ /\ TablesTyped' /\ panic' \in {"freed fd_lk", "freed file"}
         /\ Meets(p, f)
  <2> HIDE DEF A
  <2> QED
    BY <1>1, <1>4, UsingDoes
<1>6. CASE fd_lk[p] /\ file[f].live /\ A
  <2>1. PICK l \in Locs : l = [NoLoc EXCEPT !.f = f]
    BY LocsIs
  <2>2. /\ Goes(p, "des") /\ pc' \in [Procs -> Labels]
        /\ Takes(p, l) /\ loc' \in [Procs -> Locs]
    <3>1. "des" \in Labels /\ Goto(p, "des") /\ Enter(p, l)
      BY <1>6, <2>1 DEF Labels
    <3> QED
      BY <1>1, <3>1, ControlDoes
  <2>3. /\ Puts(p, i, NULL)
        /\ fd_ofiles' \in [Procs -> [Fds -> Files \union {NULL}]]
    BY <1>1, <1>6, PutDoes
  <2>d. PICK d \in {-1, 1, 2} : d = -1
    OBVIOUS
  <2>4. Numbers(p, d) /\ fd_nfiles' \in [Procs -> 0 .. WORD - 1]
    <3>1. fd_nfiles[p] \in Int
      BY <1>1, WordIs DEF TablesTyped
    <3>2. fd_nfiles[p] - 1 = fd_nfiles[p] + d
      BY <2>d, <3>1
    <3>3. fd_nfiles' = [fd_nfiles EXCEPT ![p] = Uint16(fd_nfiles[p] + d)]
      BY <1>6, <3>2
    <3> QED
      BY <1>1, <3>3, NumberDoes
  <2>5. TablesTyped'
    BY <1>1, <1>6, <2>2, <2>3, <2>4 DEF TablesTyped
  <2>6. PICK v \in Vnodes : v = file[f].f_vnode
    BY <1>1, <1>6, LiveIs DEF HeapTyped
  <2>7. /\ panic' \in {"none", "refcount", "freed vnode"}
        /\ panic' = "refcount" => file[f].f_refcount = 0
        /\ panic' = "freed vnode" => vn_refcount[v] = 0
    BY <1>6, <2>6
  <2>8. ASSUME panic' = "none"
        PROVE  HeapTyped' /\ DesBegan(p, i, f)
    <3>1. /\ file[f] \in LiveFile /\ n \in Nat /\ n < WORD /\ n # 0
          /\ vn_refcount[v] # 0 /\ vn_refcount[v] \in Nat
      BY <1>1, <1>6, <2>6, <2>8, LiveIs DEF HeapTyped
    <3>2. Uint16(n - 1) = n - 1 /\ n > 0
      BY <3>1, WordIs
    <3>3. PICK m \in 0 .. WORD - 1 : m = n - 1
      BY <3>1, <3>2, WordIs
    <3>4. PICK r \in LiveFile :
                 r = [file[f] EXCEPT !.f_lk = p, !.f_refcount = m]
      <4>1. p \in Procs \union {NULL} /\ 0 \in Nat /\ 0 \in 0 .. MaxOffset
        BY FileTableAssumptions
      <4> QED
        BY <3>1, <4>1, FileFields
    <3>5. file' = [file EXCEPT ![f] = r]
      BY <1>1, <1>6, <3>2, <3>3, <3>4 DEF HeapTyped
    <3>6. Sets(f, r) /\ file' \in [Files -> LiveFile \union {FreeFile}]
      BY <1>1, <3>5, SetDoes
    <3>7. Adds(v, d) /\ vn_refcount' \in [Vnodes -> Nat]
      <4>1. vn_refcount' = [vn_refcount EXCEPT ![v] = vn_refcount[v] + d]
        BY <1>6, <2>6, <2>d, <3>1
      <4>2. vn_refcount[v] + d >= 0
        BY <2>d, <3>1
      <4> QED
        BY <1>1, <4>1, <4>2, AddDoes
    <3>8. DesBegan(p, i, f)
      BY <1>1, <1>3, <1>6, <2>1, <2>2, <2>3, <2>4, <2>d, <2>6, <3>2, <3>3,
         <3>4, <3>6, <3>7 DEF DesBegan
    <3> QED
      BY <3>6, <3>7, <3>8 DEF HeapTyped
  <2>9. vn_refcount[v] \in Nat
    BY <1>1 DEF HeapTyped
  <2>10. panic' = "freed vnode" => vn_refcount[file[f].f_vnode] <= 0
    <3>1. PICK n0 \in Nat : n0 = vn_refcount[v]
      BY <2>9
    <3>2. n0 = 0 => n0 <= 0
      OBVIOUS
    <3> QED
      BY <2>6, <2>7, <3>1, <3>2
  <2> QED
    BY <1>1, <1>3, <1>6, <2>5, <2>7, <2>8, <2>10 DEF Meets
<1>7. CASE /\ TablesTyped' /\ panic' \in {"freed fd_lk", "freed file"}
           /\ Meets(p, f)
  BY <1>1, <1>3, <1>7
<1> QED
  BY <1>5, <1>6, <1>7

DesDone(p, f) ==
    /\ pc[p] = "des" /\ f = loc[p].f /\ file[f].live
    /\ \/ /\ file[f].f_refcount = 0 /\ Sets(f, FreeFile)
          /\ Adds(file[f].f_vnode, -1)
       \/ /\ file[f].f_refcount # 0 /\ Sets(f, [file[f] EXCEPT !.f_lk = NULL])
          /\ UNCHANGED vn_refcount
    /\ Goes(p, "exit") /\ Takes(p, NoLoc)
    /\ UNCHANGED tables

\* des_file frees the file or unlocks it.
LEMMA DesFileDoes ==
  ASSUME Types, NEW p \in Procs, DesFile(p), NEW f \in Files, f = loc[p].f
  PROVE  /\ TablesTyped' /\ pc[p] = "des" /\ Meets(p, f)
         /\ panic' \in {"none", "freed fd_lk", "freed file", "freed vnode"}
         /\ panic' = "freed vnode" =>
               file[f].live /\ vn_refcount[file[f].f_vnode] <= 0
         /\ panic' = "none" => HeapTyped' /\ DesDone(p, f)
<1> DEFINE Freed == /\ LastClose(f)
                    /\ file' = [file EXCEPT ![f] = FreeFile]
                    /\ Decref(file[f].f_vnode)
           Kept == /\ ~LastClose(f)
                   /\ file' = [file EXCEPT ![f].f_lk = NULL]
                   /\ UNCHANGED <<vn_refcount, panic>>
           A == /\ Freed \/ Kept
                /\ Enter(p, NoLoc)
                /\ Goto(p, "exit")
                /\ UNCHANGED tables
<1>1. /\ At(p, "des") /\ Using(p, f, A)
      /\ TablesTyped /\ HeapTyped /\ env' = env /\ A \in BOOLEAN
  BY TypesAre DEF DesFile, At
<1>2. \/ fd_lk[p] /\ file[f].live /\ A
      \/ /\ TablesTyped' /\ panic' \in {"freed fd_lk", "freed file"}
         /\ Meets(p, f)
  <2> HIDE DEF A
  <2> QED
    BY <1>1, UsingDoes
<1>3. ASSUME fd_lk[p], file[f].live, A
      PROVE  /\ TablesTyped' /\ panic' \in {"none", "freed vnode"}
             /\ panic' = "freed vnode" => vn_refcount[file[f].f_vnode] <= 0
             /\ panic' = "none" => HeapTyped' /\ DesDone(p, f)
  <2>1. /\ Goes(p, "exit") /\ pc' \in [Procs -> Labels]
        /\ Takes(p, NoLoc) /\ loc' \in [Procs -> Locs]
    <3>1. "exit" \in Labels /\ NoLoc \in Locs /\ Goto(p, "exit")
          /\ Enter(p, NoLoc)
      BY <1>3, LocsIs DEF Labels
    <3> QED
      BY <1>1, <3>1, ControlDoes
  <2>2. PICK v \in Vnodes : v = file[f].f_vnode
    BY <1>1, <1>3, LiveIs DEF HeapTyped
  <2>t. TablesTyped'
    BY <1>1, <1>3, <2>1 DEF TablesTyped, tables
  <2>3. CASE Freed
    <3>1. PICK n \in Nat : n = vn_refcount[v]
      BY <1>1 DEF HeapTyped
    <3>2. panic' = IF n > 0 THEN "none" ELSE "freed vnode"
      BY <2>2, <2>3, <3>1 DEF Decref, Check
    <3>3. Sets(f, FreeFile) /\ file' \in [Files -> LiveFile \union {FreeFile}]
      BY <1>1, <2>3, SetDoes
    <3>4. CASE ~(n > 0)
      <4>1. vn_refcount[v] <= 0
        BY <3>1, <3>4
      <4>2. panic' = "freed vnode"
        BY <3>2, <3>4
      <4> QED
        BY <2>2, <2>t, <4>1, <4>2
    <3>5. CASE n > 0
      <4>d. PICK d \in {-1, 1, 2} : d = -1
        OBVIOUS
      <4>1. vn_refcount' = [vn_refcount EXCEPT ![v] = vn_refcount[v] + d]
        BY <2>2, <2>3, <3>1, <4>d DEF Decref
      <4>2. vn_refcount[v] + d >= 0
        BY <3>1, <3>5, <4>d
      <4>3. Adds(v, d) /\ vn_refcount' \in [Vnodes -> Nat]
        BY <1>1, <4>1, <4>2, AddDoes
      <4>4. DesDone(p, f)
        BY <1>1, <1>3, <2>1, <2>2, <2>3, <3>3, <4>3, <4>d
           DEF DesDone, At, LastClose
      <4> QED
        BY <2>t, <3>2, <3>3, <3>5, <4>3, <4>4 DEF HeapTyped
    <3> QED
      BY <3>1, <3>4, <3>5
  <2>4. CASE Kept
    <3>1. file[f] \in LiveFile
      BY <1>1, <1>3, LiveIs DEF HeapTyped
    <3>2. PICK r \in LiveFile : r = [file[f] EXCEPT !.f_lk = NULL]
      <4>1. /\ NULL \in Procs \union {NULL} /\ 0 \in Nat
            /\ 0 \in 0 .. MaxOffset /\ 0 \in 0 .. WORD - 1
        BY FileTableAssumptions, WordIs
      <4> QED
        BY <3>1, <4>1, FileFields
    <3>3. file' = [file EXCEPT ![f] = r]
      BY <1>1, <2>4, <3>2 DEF HeapTyped
    <3>4. Sets(f, r) /\ file' \in [Files -> LiveFile \union {FreeFile}]
      BY <1>1, <3>3, SetDoes
    <3>5. panic' = "none" /\ HeapTyped'
      BY <1>1, <2>4, <3>4 DEF HeapTyped, At
    <3>6. DesDone(p, f)
      BY <1>1, <1>3, <2>1, <2>4, <3>2, <3>4 DEF DesDone, At, LastClose
    <3> QED
      BY <2>t, <3>5, <3>6
  <2> QED
    BY <1>3, <2>3, <2>4
<1>4. CASE fd_lk[p] /\ file[f].live /\ A
  <2> HIDE DEF A
  <2>1. /\ TablesTyped' /\ panic' \in {"none", "freed vnode"}
        /\ panic' = "freed vnode" => vn_refcount[file[f].f_vnode] <= 0
        /\ panic' = "none" => HeapTyped' /\ DesDone(p, f)
    BY <1>3, <1>4
  <2> QED
    BY <1>1, <1>4, <2>1 DEF At, Meets
<1> QED
  BY <1>1, <1>2, <1>4 DEF At

\* The table is destroyed.
Destroyed(p) ==
    /\ pc[p] = "exit" /\ Used(p) = {}
    /\ LosesLk(p) /\ Goes(p, "none")
    /\ UNCHANGED <<fd_ofiles, fd_nfiles, file, vn_refcount, loc>>

\* fd_destroy, with the assertion that fd_nfiles is 0.
LEMMA FdDestroyDoes ==
  ASSUME Types, NEW p \in Procs, FdDestroy(p)
  PROVE  /\ TablesTyped' /\ HeapTyped' /\ Destroyed(p)
         /\ panic' \in {"none", "freed fd_lk", "nfiles"}
         /\ panic' = "freed fd_lk" => ~fd_lk[p]
         /\ panic' = "nfiles" => fd_lk[p] /\ fd_nfiles[p] # 0
<1>1. /\ TablesTyped /\ HeapTyped /\ panic = "none" /\ env' = env
      /\ pc[p] = "exit" /\ Used(p) = {} /\ Goto(p, "none")
      /\ fd_lk' = [fd_lk EXCEPT ![p] = FALSE]
      /\ UNCHANGED <<fd_ofiles, fd_nfiles, file, vn_refcount, loc>>
  BY TypesAre DEF FdDestroy, At
<1>2. Goes(p, "none") /\ pc' \in [Procs -> Labels]
  BY <1>1 DEF Goto, Goes, TablesTyped, Labels
<1>3. LosesLk(p) /\ fd_lk' \in [Procs -> BOOLEAN]
  BY <1>1, LkDoes
<1>4. TablesTyped' /\ HeapTyped' /\ Destroyed(p)
  BY <1>1, <1>2, <1>3 DEF TablesTyped, HeapTyped, Destroyed
<1>5. /\ panic' \in {"none", "freed fd_lk", "nfiles"}
      /\ panic' = "freed fd_lk" => ~fd_lk[p]
      /\ panic' = "nfiles" => fd_lk[p] /\ fd_nfiles[p] # 0
  BY DEF FdDestroy
<1> QED
  BY <1>1, <1>4, <1>5

-----------------------------------------------------------------------------
\* Tables and their copies.

\* A step of p in a call that makes no table and destroys none.
OnlyOf(p) ==
    /\ \A q \in Procs \ {p} :
         /\ pc'[q] = pc[q] /\ loc'[q] = loc[q] /\ fd_lk'[q] = fd_lk[q]
         /\ \A j \in Fds : fd_ofiles'[q][j] = fd_ofiles[q][j]
    /\ pc[p] \notin {"none", "copy", "born"}
    /\ pc'[p] \notin {"none", "copy", "born"}

\* It leaves what a fork of another process has copied.
LEMMA OnlyOfKeeps ==
  ASSUME NEW p \in Procs, OnlyOf(p), env' = env,
         NoneEmpty, CopiesRight, EntryRight, EntryOf(p)'
  PROVE  NoneEmpty' /\ CopiesRight' /\ EntryRight'
<1>1. NoneEmpty'
  BY DEF OnlyOf, NoneEmpty, Used
<1>2. ASSUME NEW q \in Procs, pc'[q] = "copy"
      PROVE  /\ q # p /\ pc[q] = "copy" /\ loc'[q] = loc[q]
             /\ loc[q].child # p
  BY <1>2 DEF OnlyOf, CopiesRight
<1>3. CopiesRight'
  <2>1. ASSUME NEW q \in Procs, pc'[q] = "copy"
        PROVE  /\ loc'[q].child \in Procs /\ pc'[loc'[q].child] = "born"
               /\ fd_lk'[q] /\ fd_lk'[loc'[q].child]
               /\ \A i \in Fds : fd_ofiles'[loc'[q].child][i] =
                     IF i < loc'[q].fd THEN fd_ofiles'[q][i] ELSE NULL
    <3>1. PICK r \in Procs : r = loc[q].child
      BY <1>2, <2>1 DEF CopiesRight
    <3>2. q # p /\ r # p /\ loc'[q] = loc[q] /\ pc[q] = "copy"
      BY <1>2, <2>1, <3>1
    <3> QED
      BY <3>1, <3>2 DEF OnlyOf, CopiesRight
  <2>2. \A q, r \in Procs :
          pc'[q] = "copy" /\ pc'[r] = "copy" /\ loc'[q].child = loc'[r].child
            => q = r
    BY <1>2 DEF CopiesRight
  <2> QED
    BY <2>1, <2>2 DEF CopiesRight
<1>4. EntryRight'
  <2> SUFFICES ASSUME NEW q \in Procs, q # p
               PROVE  EntryOf(q)'
    BY DEF EntryRight
  <2>1. EntryOf(q) /\ pc'[q] = pc[q] /\ loc'[q] = loc[q]
    BY DEF EntryRight, OnlyOf
  <2>2. \A j \in Fds : fd_ofiles'[q][j] = fd_ofiles[q][j]
    BY DEF OnlyOf
  <2> QED
    BY <2>1, <2>2 DEF EntryOf
<1> QED
  BY <1>1, <1>3, <1>4

\* A step that leaves the tables, or the numbers of their descriptors, alone.
LEMMA NfilesKept ==
  ASSUME env' = env, NfilesRight, TablesKept, UNCHANGED fd_nfiles,
         \A q \in Procs : fd_lk'[q] => fd_lk[q]
  PROVE  NfilesRight'
<1>1. \A q \in Procs : Used(q)' = Used(q)
  BY KeptSets
<1> QED
  BY <1>1 DEF NfilesRight

\* Most steps use the table as it is.
LEMMA TablesStay ==
  ASSUME NEW p \in Procs, NEW label, NEW l, Goes(p, label), Takes(p, l),
         UNCHANGED tables, env' = env, TablesInv, EntryOf(p)',
         pc[p] \notin {"none", "copy", "born"},
         label \notin {"none", "copy", "born"}
  PROVE  TablesInv'
<1>1. OnlyOf(p)
  BY DEF OnlyOf, Goes, Takes, tables
<1>2. NoneEmpty' /\ CopiesRight' /\ EntryRight'
  BY <1>1, OnlyOfKeeps DEF TablesInv
<1>3. NfilesRight'
  <2>1. /\ TablesKept /\ UNCHANGED fd_nfiles
        /\ \A q \in Procs : fd_lk'[q] => fd_lk[q]
    BY DEF tables, TablesKept
  <2> QED
    BY <2>1, NfilesKept DEF TablesInv
<1> QED
  BY <1>2, <1>3 DEF TablesInv

\* A descriptor more or less is one more or less to fd_nfiles, which does not
\* wrap.
LEMMA NumberOfUsed ==
  ASSUME TablesTyped, NEW p \in Procs, NEW d \in {-1, 1, 2}, Numbers(p, d),
         fd_nfiles[p] = Cardinality(Used(p)),
         Cardinality(Used(p)') = Cardinality(Used(p)) + d
  PROVE  fd_nfiles'[p] = Cardinality(Used(p)')
<1>2. /\ Cardinality(Used(p)') \in Nat /\ Cardinality(Used(p)') < WORD
  BY FiniteNext
<1>3. Uint16(Cardinality(Used(p)')) = Cardinality(Used(p)')
  BY <1>2, WordIs
<1> QED
  BY <1>3 DEF Numbers

-----------------------------------------------------------------------------
\* Each step keeps the tables right.

\* k_open fills one entry of its table.
LEMMA OpenedTables ==
  ASSUME Types, TablesInv, env' = env, NEW p \in Procs, NEW v, NEW flags,
         NEW off, NEW f \in Files, NEW i \in Fds,
         Opened(p, v, f, i, flags, off)
  PROVE  TablesInv'
<1>1. OnlyOf(p) /\ EntryOf(p)'
  BY DEF OnlyOf, EntryOf, Opened, Puts
<1>2. NoneEmpty' /\ CopiesRight' /\ EntryRight'
  BY <1>1, OnlyOfKeeps DEF TablesInv
<1>3. ASSUME "dup2" \notin env, NEW q \in Procs, fd_lk'[q]
      PROVE  fd_nfiles'[q] = Cardinality(Used(q)')
  <2>1. fd_lk[q] /\ fd_nfiles[q] = Cardinality(Used(q))
    BY <1>3 DEF Opened, TablesInv, NfilesRight
  <2>2. /\ Cardinality(Used(p)') = Cardinality(Used(p)) + 1
        /\ \A r \in Procs \ {p} : Used(r)' = Used(r)
    BY FillSets DEF Opened
  <2>3. CASE q = p
    <3>d. PICK d \in {-1, 1, 2} : d = 1
      OBVIOUS
    <3>1. Numbers(p, d) /\ Cardinality(Used(p)') = Cardinality(Used(p)) + d
      BY <2>2, <3>d DEF Opened
    <3> QED
      BY <2>1, <2>3, <3>1, NumberOfUsed, TypesAre
  <2>4. CASE q # p
    BY <2>1, <2>2, <2>4 DEF Opened, Numbers
  <2> QED
    BY <2>3, <2>4
<1> QED
  BY <1>2, <1>3 DEF TablesInv, NfilesRight

\* A k_open that fails touches no table.
LEMMA RecountedTables ==
  ASSUME TablesInv, env' = env, NEW p, NEW v, NEW d, Recounted(p, v, d)
  PROVE  TablesInv'
<1>1. UNCHANGED <<fd_ofiles, fd_nfiles, fd_lk, pc, loc, env>>
  BY DEF Recounted, tables
<1> QED
  BY <1>1 DEF TablesInv, NoneEmpty, CopiesRight, EntryRight, EntryOf,
              NfilesRight, Used

\* read, write, lseek, and a close up to the test of the count.
LEMMA UseTables ==
  ASSUME Types, TablesInv, env' = env, NEW p \in Procs, NEW f \in Files,
         \/ \E fd \in Fds, op \in {"read", "write"} : IoBegan(p, fd, f, op)
         \/ \E n \in 0 .. 1 : IoDone(p, f, n)
         \/ \E fd \in Fds : SeekBegan(p, fd, f)
         \/ SeekDone(p, f)
         \/ \E fd \in Fds : CloseBegan(p, fd, f)
  PROVE  TablesInv'
<1>1. ASSUME NEW fd \in Fds, NEW op \in {"read", "write"},
             IoBegan(p, fd, f, op)
      PROVE  TablesInv'
  <2>1. PICK l : l = [NoLoc EXCEPT !.fd = fd, !.f = f, !.op = op,
                                   !.off = file[f].f_offset]
    OBVIOUS
  <2>2. Goes(p, "io") /\ Takes(p, l) /\ pc[p] = "run" /\ UNCHANGED tables
    BY <1>1, <2>1 DEF IoBegan
  <2>3. l.fd = fd /\ l.f = f
    BY <2>1 DEF NoLoc
  <2>4. EntryOf(p)'
    BY <1>1, <2>2, <2>3 DEF EntryOf, IoBegan, Goes, Takes, tables
  <2> QED
    BY <2>2, <2>4, TablesStay
<1>2. ASSUME NEW n \in 0 .. 1, IoDone(p, f, n)
      PROVE  TablesInv'
  <2>1. Goes(p, "run") /\ Takes(p, NoLoc) /\ pc[p] = "io" /\ UNCHANGED tables
    BY <1>2 DEF IoDone
  <2>2. EntryOf(p)'
    BY <2>1 DEF EntryOf, Goes
  <2> QED
    BY <2>1, <2>2, TablesStay
<1>3. ASSUME NEW fd \in Fds, SeekBegan(p, fd, f)
      PROVE  TablesInv'
  <2>1. PICK l : l = [NoLoc EXCEPT !.fd = fd, !.f = f]
    OBVIOUS
  <2>2. Goes(p, "seek") /\ Takes(p, l) /\ pc[p] = "run" /\ UNCHANGED tables
    BY <1>3, <2>1 DEF SeekBegan
  <2>3. l.fd = fd /\ l.f = f
    BY <2>1 DEF NoLoc
  <2>4. EntryOf(p)'
    BY <1>3, <2>2, <2>3 DEF EntryOf, SeekBegan, Goes, Takes, tables
  <2> QED
    BY <2>2, <2>4, TablesStay
<1>4. CASE SeekDone(p, f)
  <2>1. Goes(p, "run") /\ Takes(p, NoLoc) /\ pc[p] = "seek" /\ UNCHANGED tables
    BY <1>4 DEF SeekDone
  <2>2. EntryOf(p)'
    BY <2>1 DEF EntryOf, Goes
  <2> QED
    BY <2>1, <2>2, TablesStay
<1>5. ASSUME NEW fd \in Fds, CloseBegan(p, fd, f)
      PROVE  TablesInv'
  <2>1. PICK l : l = [NoLoc EXCEPT !.fd = fd, !.f = f]
    OBVIOUS
  <2>2. Goes(p, "close") /\ Takes(p, l) /\ pc[p] = "run" /\ UNCHANGED tables
    BY <1>5, <2>1 DEF CloseBegan
  <2>3. l.fd = fd /\ l.f = f
    BY <2>1 DEF NoLoc
  <2>4. EntryOf(p)'
    BY <1>5, <2>2, <2>3 DEF EntryOf, CloseBegan, Goes, Takes, tables
  <2> QED
    BY <2>2, <2>4, TablesStay
<1> QED
  BY <1>1, <1>2, <1>3, <1>4, <1>5

\* sys_close destroys the lock of the table, so nobody asks what it counts.
LEMMA CloseTables ==
  ASSUME Types, TablesInv, env' = env, NEW p \in Procs, NEW f \in Files,
         loc[p].fd \in Fds, CloseDone(p, f)
  PROVE  TablesInv'
<1>1. CASE UNCHANGED <<vn_refcount, fd_lk, file, fd_ofiles>>
  <2>1. /\ Goes(p, "run") /\ Takes(p, NoLoc) /\ pc[p] = "close"
        /\ UNCHANGED tables
    BY <1>1 DEF CloseDone, tables
  <2>2. EntryOf(p)'
    BY <2>1 DEF EntryOf, Goes
  <2> QED
    BY <2>1, <2>2, TablesStay
<1>2. CASE LosesLk(p) /\ Puts(p, loc[p].fd, NULL)
  <2>1. OnlyOf(p) /\ EntryOf(p)'
    BY <1>2 DEF OnlyOf, EntryOf, CloseDone, Puts, LosesLk, Goes, Takes
  <2>2. NoneEmpty' /\ CopiesRight' /\ EntryRight'
    BY <2>1, OnlyOfKeeps DEF TablesInv
  <2>3. \A q \in Procs : fd_lk'[q] => fd_lk[q] /\ q # p
    BY <1>2 DEF LosesLk
  <2>4. \A q \in Procs \ {p} : Used(q)' = Used(q)
    BY <1>2 DEF Puts, Used
  <2>5. NfilesRight'
    BY <2>3, <2>4 DEF NfilesRight, CloseDone, TablesInv
  <2> QED
    BY <2>2, <2>5 DEF TablesInv
<1> QED
  BY <1>1, <1>2 DEF CloseDone

\* sys_dup2 keeps the tables in shape, but for the number in fd_nfiles.
LEMMA Dup2Tables ==
  ASSUME Types, TablesInv, env' = env, NEW p \in Procs, Dup2Did(p),
         pc[p] \in {"run", "dup2"}
  PROVE  TablesInv'
<1>1. PICK l \in Locs : Takes(p, l) /\ (pc'[p] = "dup2" => l.f \in Files)
  BY DEF Dup2Did
<1>2. PICK label \in {"run", "dup2"} : Goes(p, label)
  BY DEF Dup2Did
<1>3. OnlyOf(p) /\ EntryOf(p)'
  BY <1>1, <1>2 DEF OnlyOf, EntryOf, Dup2Did, Goes, Takes
<1>4. NoneEmpty' /\ CopiesRight' /\ EntryRight'
  BY <1>3, OnlyOfKeeps DEF TablesInv
<1>5. NfilesRight'
  BY DEF Dup2Did, NfilesRight
<1> QED
  BY <1>4, <1>5 DEF TablesInv

\* fork empties the child's table, which nobody else has as a child.
LEMMA ForkTables ==
  ASSUME Types, TablesInv, env' = env, NEW p \in Procs, NEW q \in Procs,
         Forked(p, q)
  PROVE  TablesInv'
<1>0. /\ \A r \in Procs : Used(r)' = Used(r)
      /\ \A r \in Procs, j \in Fds : fd_ofiles'[r][j] = fd_ofiles[r][j]
  BY KeptSets DEF Forked, TablesKept
<1>1. NoneEmpty'
  BY <1>0 DEF NoneEmpty, TablesInv, Forked
<1>c. loc'[p].child = q /\ loc'[p].fd = 0
  BY DEF Forked, Takes, NoLoc
<1>2. ASSUME NEW r \in Procs, r # p, pc'[r] = "copy"
      PROVE  /\ pc[r] = "copy" /\ r # q /\ loc'[r] = loc[r]
             /\ loc[r].child \in Procs \ {p, q} /\ pc[loc[r].child] = "born"
  <2>1. pc[r] = "copy" /\ r # q /\ loc'[r] = loc[r]
    BY <1>2 DEF Forked, Takes
  <2>2. loc[r].child \in Procs /\ pc[loc[r].child] = "born"
    BY <2>1 DEF TablesInv, CopiesRight
  <2> QED
    BY <2>1, <2>2 DEF Forked
<1>3. CopiesRight'
  <2>1. ASSUME NEW r \in Procs, pc'[r] = "copy"
        PROVE  /\ loc'[r].child \in Procs /\ pc'[loc'[r].child] = "born"
               /\ fd_lk'[r] /\ fd_lk'[loc'[r].child]
               /\ \A i \in Fds : fd_ofiles'[loc'[r].child][i] =
                     IF i < loc'[r].fd THEN fd_ofiles'[r][i] ELSE NULL
    <3>1. CASE r = p
      <4>1. \A i \in Fds : ~(i < 0)
        BY FileTableAssumptions DEF Fds
      <4> QED
        BY <1>0, <1>c, <3>1, <4>1 DEF Forked
    <3>2. CASE r # p
      <4>1. PICK s \in Procs \ {p, q} : s = loc[r].child
        BY <1>2, <2>1, <3>2
      <4>2. /\ pc[r] = "copy" /\ r # q /\ loc'[r] = loc[r] /\ pc[s] = "born"
        BY <1>2, <2>1, <3>2, <4>1
      <4> QED
        BY <1>0, <3>2, <4>1, <4>2 DEF TablesInv, CopiesRight, Forked
    <3> QED
      BY <3>1, <3>2
  <2>2. ASSUME NEW r \in Procs, NEW s \in Procs, pc'[r] = "copy",
               pc'[s] = "copy", loc'[r].child = loc'[s].child
        PROVE  r = s
    <3>1. CASE r # p /\ s # p
      BY <1>2, <2>2, <3>1 DEF TablesInv, CopiesRight
    <3>2. CASE r = p \/ s = p
      BY <1>2, <1>c, <2>2, <3>2
    <3> QED
      BY <3>1, <3>2
  <2> QED
    BY <2>1, <2>2 DEF CopiesRight
<1>4. EntryRight'
  <2> SUFFICES ASSUME NEW r \in Procs
               PROVE  EntryOf(r)'
    BY DEF EntryRight
  <2>1. CASE r = p \/ r = q
    BY <2>1 DEF EntryOf, Forked
  <2>2. CASE r # p /\ r # q
    <3>1. EntryOf(r) /\ pc'[r] = pc[r] /\ loc'[r] = loc[r]
      BY <2>2 DEF TablesInv, EntryRight, Forked, Takes
    <3> QED
      BY <1>0, <3>1 DEF EntryOf
  <2> QED
    BY <2>1, <2>2
<1>5. NfilesRight'
  <2>1. Used(q) = {} /\ Cardinality(Used(q)) = 0
    BY FS_EmptySet DEF Forked, Used
  <2> QED
    BY <1>0, <2>1 DEF TablesInv, NfilesRight, Forked
<1> QED
  BY <1>1, <1>3, <1>4, <1>5 DEF TablesInv

\* file_copy makes the child's table like the parent's, entry by entry.
LEMMA CopyTables ==
  ASSUME Types, TablesInv, env' = env, NEW p \in Procs, NEW q \in Procs,
         q = loc[p].child, pc[p] = "copy",
         NEW i \in Fds, i = loc[p].fd,
         Takes(p, [NoLoc EXCEPT !.fd = i + 1, !.child = q]),
         UNCHANGED <<fd_lk, pc>>,
         \/ /\ fd_ofiles[p][i] = NULL /\ UNCHANGED <<fd_ofiles, fd_nfiles>>
         \/ \E f \in Files : /\ fd_ofiles[p][i] = f /\ Puts(q, i, f)
                             /\ Numbers(q, 1)
  PROVE  TablesInv'
<1>0. /\ pc[q] = "born" /\ q # p /\ fd_lk[p] /\ fd_lk[q]
      /\ fd_ofiles[q][i] = NULL
      /\ \A j \in Fds : fd_ofiles[q][j] =
            IF j < i THEN fd_ofiles[p][j] ELSE NULL
  <2>1. ~(i < i)
    BY FileTableAssumptions DEF Fds
  <2> QED
    BY <2>1 DEF TablesInv, CopiesRight
<1>1. /\ fd_ofiles'[q][i] = fd_ofiles[p][i]
      /\ \A r \in Procs, j \in Fds :
            r # q \/ j # i => fd_ofiles'[r][j] = fd_ofiles[r][j]
  BY <1>0 DEF Puts
<1>2. \A r \in Procs \ {q} : Used(r)' = Used(r)
  BY <1>1 DEF Used
<1>3. NoneEmpty'
  BY <1>0, <1>2 DEF NoneEmpty, TablesInv
<1>c. loc'[p].child = q /\ loc'[p].fd = i + 1
  BY DEF Takes, NoLoc
<1>4. ASSUME NEW r \in Procs, r # p, pc[r] = "copy"
      PROVE  /\ loc'[r] = loc[r] /\ r # q
             /\ loc[r].child \in Procs \ {p, q} /\ pc[loc[r].child] = "born"
  <2>1. loc'[r] = loc[r] /\ r # q
    BY <1>0, <1>4 DEF Takes
  <2>2. loc[r].child \in Procs /\ pc[loc[r].child] = "born"
    BY <1>4 DEF TablesInv, CopiesRight
  <2>3. loc[r].child # q
    BY <1>4 DEF TablesInv, CopiesRight
  <2> QED
    BY <2>1, <2>2, <2>3
<1>5. CopiesRight'
  <2>1. ASSUME NEW r \in Procs, pc'[r] = "copy"
        PROVE  /\ loc'[r].child \in Procs /\ pc'[loc'[r].child] = "born"
               /\ fd_lk'[r] /\ fd_lk'[loc'[r].child]
               /\ \A j \in Fds : fd_ofiles'[loc'[r].child][j] =
                     IF j < loc'[r].fd THEN fd_ofiles'[r][j] ELSE NULL
    <3>1. CASE r = p
      <4>1. ASSUME NEW j \in Fds
            PROVE  fd_ofiles'[q][j] =
                     IF j < i + 1 THEN fd_ofiles'[p][j] ELSE NULL
        <5>1. fd_ofiles'[p][j] = fd_ofiles[p][j]
          BY <1>0, <1>1
        <5>2. CASE j = i
          <6>1. j < i + 1
            BY <5>2, FileTableAssumptions DEF Fds
          <6> QED
            BY <1>1, <5>1, <5>2, <6>1
        <5>3. CASE j # i
          <6>1. j < i + 1 <=> j < i
            BY <5>3, FileTableAssumptions DEF Fds
          <6>2. fd_ofiles'[q][j] = IF j < i THEN fd_ofiles[p][j] ELSE NULL
            BY <1>0, <1>1, <5>3
          <6> QED
            BY <5>1, <6>1, <6>2
        <5> QED
          BY <5>2, <5>3
      <4> QED
        BY <1>0, <1>c, <3>1, <4>1
    <3>2. CASE r # p
      <4>1. PICK s \in Procs \ {p, q} : s = loc[r].child
        BY <1>4, <2>1, <3>2
      <4>2. /\ pc[r] = "copy" /\ r # q /\ loc'[r] = loc[r] /\ pc[s] = "born"
        BY <1>4, <2>1, <3>2, <4>1
      <4>3. \A j \in Fds : /\ fd_ofiles'[s][j] = fd_ofiles[s][j]
                           /\ fd_ofiles'[r][j] = fd_ofiles[r][j]
        BY <1>1, <4>1, <4>2
      <4> QED
        BY <4>1, <4>2, <4>3 DEF TablesInv, CopiesRight
    <3> QED
      BY <3>1, <3>2
  <2>2. ASSUME NEW r \in Procs, NEW s \in Procs, pc'[r] = "copy",
               pc'[s] = "copy", loc'[r].child = loc'[s].child
        PROVE  r = s
    <3>1. CASE r # p /\ s # p
      BY <1>4, <2>2, <3>1 DEF TablesInv, CopiesRight
    <3>2. CASE r = p \/ s = p
      BY <1>4, <1>c, <2>2, <3>2
    <3> QED
      BY <3>1, <3>2
  <2> QED
    BY <2>1, <2>2 DEF CopiesRight
<1>6. EntryRight'
  <2> SUFFICES ASSUME NEW r \in Procs
               PROVE  EntryOf(r)'
    BY DEF EntryRight
  <2>1. CASE r = p \/ r = q
    BY <1>0, <2>1 DEF EntryOf
  <2>2. CASE r # p /\ r # q
    <3>1. EntryOf(r) /\ pc'[r] = pc[r] /\ loc'[r] = loc[r]
      BY <2>2 DEF TablesInv, EntryRight, Takes
    <3>2. \A j \in Fds : fd_ofiles'[r][j] = fd_ofiles[r][j]
      BY <1>1, <2>2
    <3> QED
      BY <3>1, <3>2 DEF EntryOf
  <2> QED
    BY <2>1, <2>2
<1>7. NfilesRight'
  <2>1. CASE fd_ofiles[p][i] = NULL /\ UNCHANGED <<fd_ofiles, fd_nfiles>>
    BY <2>1, NfilesKept DEF TablesInv, TablesKept
  <2>2. ASSUME NEW f \in Files, fd_ofiles[p][i] = f, Puts(q, i, f),
               Numbers(q, 1)
        PROVE  NfilesRight'
    <3> SUFFICES ASSUME "dup2" \notin env, NEW r \in Procs, fd_lk[r]
                 PROVE  fd_nfiles'[r] = Cardinality(Used(r)')
      BY DEF NfilesRight
    <3>1. fd_nfiles[r] = Cardinality(Used(r))
      BY DEF TablesInv, NfilesRight
    <3>2. CASE r = q
      <4>d. PICK d \in {-1, 1, 2} : d = 1
        OBVIOUS
      <4>1. Numbers(q, d) /\ Cardinality(Used(q)') = Cardinality(Used(q)) + d
        BY <1>0, <2>2, <4>d, FillSets
      <4> QED
        BY <3>1, <3>2, <4>1, NumberOfUsed, TypesAre
    <3>3. CASE r # q
      BY <1>2, <2>2, <3>1, <3>3 DEF Numbers
    <3> QED
      BY <3>2, <3>3
  <2> QED
    BY <2>1, <2>2
<1> QED
  BY <1>3, <1>5, <1>6, <1>7 DEF TablesInv

\* When the copy is complete, parent and child have as many open files.
LEMMA CopyEndedTables ==
  ASSUME Types, TablesInv, env' = env, NEW p \in Procs, NEW q \in Procs,
         q = loc[p].child, CopyEnded(p, q)
  PROVE  TablesInv' /\ ("dup2" \notin env => fd_nfiles[p] = fd_nfiles[q])
<1>0. /\ pc[p] = "copy" /\ pc[q] = "born" /\ q # p /\ fd_lk[p] /\ fd_lk[q]
  BY DEF CopyEnded, TablesInv, CopiesRight
<1>1. Used(p) = Used(q)
  <2>1. loc[p].fd \in 0 .. MAX_OPEN_FILES /\ loc[p].fd \notin Fds
    BY DEF CopyEnded, Types, Locs
  <2>2. \A j \in Fds : j < loc[p].fd
    BY <2>1, FileTableAssumptions DEF Fds
  <2>3. \A j \in Fds : fd_ofiles[q][j] = fd_ofiles[p][j]
    BY <1>0, <2>2 DEF TablesInv, CopiesRight
  <2> QED
    BY <2>3 DEF Used
<1>2. "dup2" \notin env => fd_nfiles[p] = fd_nfiles[q]
  BY <1>0, <1>1 DEF TablesInv, NfilesRight
<1>3. /\ pc'[p] = "run" /\ pc'[q] \in {"run", "exit"}
      /\ \A r \in Procs \ {p, q} : pc'[r] = pc[r]
      /\ \A r \in Procs \ {p} : loc'[r] = loc[r]
      /\ UNCHANGED <<fd_ofiles, fd_nfiles, fd_lk>>
  BY DEF CopyEnded, Takes, tables
<1>4. NoneEmpty'
  BY <1>3 DEF NoneEmpty, TablesInv, Used
<1>5. CopiesRight'
  <2>1. ASSUME NEW r \in Procs, pc'[r] = "copy"
        PROVE  /\ r # p /\ r # q /\ pc[r] = "copy" /\ loc'[r] = loc[r]
               /\ loc[r].child \in Procs \ {p, q}
    <3>1. r # p /\ r # q /\ pc[r] = "copy" /\ loc'[r] = loc[r]
      BY <1>3, <2>1
    <3>2. loc[r].child \in Procs /\ pc[loc[r].child] = "born"
      BY <3>1 DEF TablesInv, CopiesRight
    <3>3. loc[r].child # q
      BY <1>0, <3>1 DEF TablesInv, CopiesRight
    <3> QED
      BY <1>0, <3>1, <3>2, <3>3
  <2> QED
    BY <1>3, <2>1 DEF TablesInv, CopiesRight
<1>6. EntryRight'
  BY <1>3 DEF EntryRight, EntryOf, TablesInv
<1>7. NfilesRight'
  BY <1>3 DEF NfilesRight, TablesInv, Used
<1> QED
  BY <1>2, <1>4, <1>5, <1>6, <1>7 DEF TablesInv

\* sys_exit touches no table as it begins.
LEMMA ExitsTables ==
  ASSUME Types, TablesInv, env' = env, NEW p \in Procs, Exits(p)
  PROVE  TablesInv'
<1>1. PICK l : l = loc[p]
  OBVIOUS
<1>2. Goes(p, "exit") /\ Takes(p, l) /\ pc[p] = "run" /\ UNCHANGED tables
  BY <1>1 DEF Exits, Takes
<1>3. EntryOf(p)'
  BY <1>2 DEF EntryOf, Goes
<1> QED
  BY <1>2, <1>3, TablesStay

\* des_descriptor clears one entry, and fd_nfiles counts it.
LEMMA DesBeganTables ==
  ASSUME Types, TablesInv, env' = env, NEW p \in Procs, NEW f \in Files,
         NEW i \in Fds, DesBegan(p, i, f)
  PROVE  TablesInv'
<1>0. loc'[p].f = f
  BY DEF DesBegan, Takes, NoLoc
<1>1. OnlyOf(p) /\ EntryOf(p)'
  BY <1>0 DEF OnlyOf, EntryOf, DesBegan, Puts, Goes, Takes
<1>2. NoneEmpty' /\ CopiesRight' /\ EntryRight'
  BY <1>1, OnlyOfKeeps DEF TablesInv
<1>3. ASSUME "dup2" \notin env, NEW q \in Procs, fd_lk'[q]
      PROVE  fd_nfiles'[q] = Cardinality(Used(q)')
  <2>1. fd_lk[q] /\ fd_nfiles[q] = Cardinality(Used(q))
    BY <1>3 DEF DesBegan, TablesInv, NfilesRight
  <2>2. /\ Cardinality(Used(p)') = Cardinality(Used(p)) - 1
        /\ \A r \in Procs \ {p} : Used(r)' = Used(r)
    BY ClearSets DEF DesBegan
  <2>3. CASE q = p
    <3>d. PICK d \in {-1, 1, 2} : d = -1
      OBVIOUS
    <3>0. Cardinality(Used(p)) \in Nat
      BY Finite
    <3>1. Numbers(p, d) /\ Cardinality(Used(p)') = Cardinality(Used(p)) + d
      BY <2>2, <3>0, <3>d DEF DesBegan
    <3> QED
      BY <2>1, <2>3, <3>1, NumberOfUsed, TypesAre
  <2>4. CASE q # p
    BY <2>1, <2>2, <2>4 DEF DesBegan, Numbers
  <2> QED
    BY <2>3, <2>4
<1> QED
  BY <1>2, <1>3 DEF TablesInv, NfilesRight

\* des_file touches no table.
LEMMA DesDoneTables ==
  ASSUME Types, TablesInv, env' = env, NEW p \in Procs, NEW f,
         DesDone(p, f)
  PROVE  TablesInv'
<1>1. /\ Goes(p, "exit") /\ Takes(p, NoLoc) /\ pc[p] = "des"
      /\ UNCHANGED tables
  BY DEF DesDone
<1>2. EntryOf(p)'
  BY <1>1 DEF EntryOf, Goes
<1> QED
  BY <1>1, <1>2, TablesStay

\* A table is destroyed empty.
LEMMA DestroyedTables ==
  ASSUME Types, TablesInv, env' = env, NEW p \in Procs, Destroyed(p)
  PROVE  /\ TablesInv'
         /\ "dup2" \notin env /\ fd_lk[p] => fd_nfiles[p] = 0
<1>1. /\ pc[p] = "exit" /\ pc'[p] = "none"
      /\ \A q \in Procs \ {p} : pc'[q] = pc[q] /\ fd_lk'[q] = fd_lk[q]
      /\ ~fd_lk'[p] /\ UNCHANGED <<fd_ofiles, fd_nfiles, loc>>
      /\ Used(p) = {}
  BY DEF Destroyed, Goes, LosesLk
<1>2. NoneEmpty'
  BY <1>1 DEF NoneEmpty, TablesInv, Used
<1>3. CopiesRight'
  <2>1. ASSUME NEW r \in Procs, pc'[r] = "copy"
        PROVE  r # p /\ pc[r] = "copy" /\ loc[r].child \in Procs \ {p}
    BY <1>1, <2>1 DEF TablesInv, CopiesRight
  <2> QED
    BY <1>1, <2>1 DEF TablesInv, CopiesRight
<1>4. EntryRight'
  BY <1>1 DEF EntryRight, EntryOf, TablesInv
<1>5. NfilesRight'
  BY <1>1 DEF NfilesRight, TablesInv, Used
<1>6. "dup2" \notin env /\ fd_lk[p] => fd_nfiles[p] = 0
  BY <1>1, FS_EmptySet DEF TablesInv, NfilesRight
<1> QED
  BY <1>2, <1>3, <1>4, <1>5, <1>6 DEF TablesInv

-----------------------------------------------------------------------------
\* Each step keeps the counts of files and vnodes.

\* A process that is closing a file for good goes on closing it.
DesKept(f) ==
    \A q \in Procs : pc[q] = "des" /\ loc[q].f # f =>
        pc'[q] = "des" /\ loc'[q].f = loc[q].f

\* When nothing but the struct file at f and the descriptors for it change,
\* it is enough to look at these.
LEMMA FileMoved ==
  ASSUME env' = env, panic = "none", RefsFit, CountsSlots,
         NEW f \in Files, Alters(f), DesKept(f),
         \A g \in Files \ {f} : Slots(g)' = Slots(g),
         "dup2" \notin env /\ file'[f].live =>
            file'[f].f_refcount <= Cardinality(Slots(f)'),
         Calm /\ file'[f].live =>
            /\ file'[f].f_refcount = Cardinality(Slots(f)')
            /\ \/ Slots(f)' # {}
               \/ \E q \in Procs : pc'[q] = "des" /\ loc'[q].f = f,
         Calm /\ ~file'[f].live => Slots(f)' = {}
  PROVE  RefsFit' /\ CountsSlots'
<1>1. RefsFit'
  BY DEF RefsFit, Alters
<1>2. ASSUME Calm, NEW g \in Files, g # f
      PROVE  /\ file'[g].live =>
                  /\ file'[g].f_refcount = Cardinality(Slots(g)')
                  /\ \/ Slots(g)' # {}
                     \/ \E q \in Procs : pc'[q] = "des" /\ loc'[q].f = g
             /\ ~file'[g].live => Slots(g)' = {}
  <2>1. file'[g] = file[g] /\ Slots(g)' = Slots(g)
    BY <1>2 DEF Alters
  <2>2. /\ file[g].live =>
              /\ file[g].f_refcount = Cardinality(Slots(g))
              /\ \/ Slots(g) # {}
                 \/ \E q \in Procs : pc[q] = "des" /\ loc[q].f = g
        /\ ~file[g].live => Slots(g) = {}
    BY <1>2 DEF CountsSlots, Calm
  <2>3. \A q \in Procs : pc[q] = "des" /\ loc[q].f = g =>
           pc'[q] = "des" /\ loc'[q].f = g
    BY <1>2 DEF DesKept
  <2> QED
    BY <2>1, <2>2, <2>3
<1>3. CountsSlots'
  <2> SUFFICES ASSUME Calm, NEW g \in Files
               PROVE  /\ file'[g].live =>
                           /\ file'[g].f_refcount = Cardinality(Slots(g)')
                           /\ \/ Slots(g)' # {}
                              \/ \E q \in Procs :
                                   pc'[q] = "des" /\ loc'[q].f = g
                      /\ ~file'[g].live => Slots(g)' = {}
    BY DEF CountsSlots, Calm, None
  <2>1. CASE g = f
    BY <2>1
  <2>2. CASE g # f
    BY <1>2, <2>2
  <2> QED
    BY <2>1, <2>2
<1> QED
  BY <1>1, <1>3

\* A step that opens, copies and closes nothing.
LEMMA FilesSame ==
  ASSUME env' = env, panic = "none", RefsFit, CountsSlots, TablesKept,
         \A g \in Files :
            /\ file'[g].live <=> file[g].live
            /\ file[g].live => file'[g].f_refcount = file[g].f_refcount,
         \A q \in Procs : pc[q] = "des" =>
            pc'[q] = "des" /\ loc'[q].f = loc[q].f
  PROVE  RefsFit' /\ CountsSlots'
<1>1. \A g : Slots(g)' = Slots(g)
  BY KeptSets
<1>2. RefsFit'
  BY <1>1 DEF RefsFit
<1>3. CountsSlots'
  BY <1>1 DEF CountsSlots, None
<1> QED
  BY <1>2, <1>3

\* A step that changes neither references nor counts of vnodes.
LEMMA VnodesSame ==
  ASSUME env' = env, panic = "none", VnodeEnough, VnodeCounted,
         UNCHANGED vn_refcount, \A v : References(v)' = References(v)
  PROVE  VnodeEnough' /\ VnodeCounted'
BY DEF VnodeEnough, VnodeCounted, None

\* A vnode is counted up and down with the references to it.
LEMMA VnodesMoved ==
  ASSUME env' = env, panic = "none", VnodeEnough, VnodeCounted, HeapTyped,
         NEW v \in Vnodes, NEW d \in {-1, 1, 2}, Adds(v, d),
         Cardinality(References(v)') = Cardinality(References(v)) + d,
         \A w \in Vnodes : w # v => References(w)' = References(w)
  PROVE  VnodeEnough' /\ VnodeCounted'
<1>1. PICK m \in Nat : m = Cardinality(References(v))
  BY ReferencesFinite DEF HeapTyped
<1>2. PICK n \in Nat : n = vn_refcount[v]
  BY DEF HeapTyped
<1>3. /\ vn_refcount'[v] = n + d /\ Cardinality(References(v)') = m + d
      /\ n >= m => n + d >= m + d
      /\ n = m => n + d = m + d
  BY <1>1, <1>2 DEF Adds
<1>4. ASSUME None({"dup2", "full", "stat"}), NEW w \in Vnodes
      PROVE  vn_refcount'[w] >= Cardinality(References(w)')
  BY <1>1, <1>2, <1>3, <1>4 DEF VnodeEnough, Adds
<1>5. ASSUME None(EnvEvents \ {"overlap", "badfd", "flags"}),
             NEW w \in Vnodes
      PROVE  vn_refcount'[w] = Cardinality(References(w)')
  BY <1>1, <1>2, <1>3, <1>5 DEF VnodeCounted, Adds
<1>6. VnodeEnough'
  BY <1>4 DEF VnodeEnough, None
<1>7. VnodeCounted'
  BY <1>5 DEF VnodeCounted, None
<1> QED
  BY <1>6, <1>7

\* k_open: one reference to the file, two to its vnode.
LEMMA OpenedCounts ==
  ASSUME Types, HeapTyped, CountsInv, env' = env, panic = "none",
         NEW p \in Procs, NEW v \in Vnodes, NEW flags \in Flags,
         NEW off \in {0, MaxOffset}, NEW f \in Files, NEW i \in Fds,
         Opened(p, v, f, i, flags, off)
  PROVE  CountsInv'
<1>1. /\ file'[f].live /\ file'[f].f_vnode = v /\ file'[f].f_refcount = 1
      /\ Alters(f) /\ ~file[f].live
  BY NewFileIs DEF Opened, Sets
<1>2. /\ Slots(f)' = Slots(f) \union {<<p, i>>}
      /\ Cardinality(Slots(f)') = Cardinality(Slots(f)) + 1
      /\ \A g \in Files \ {f} : Slots(g)' = Slots(g)
  BY FillSets DEF Opened
<1>3. PICK n \in Nat : n = Cardinality(Slots(f))
  BY Finite
<1>4. Calm => Slots(f) = {} /\ n = 0
  BY <1>1, <1>3, FS_EmptySet DEF CountsInv, CountsSlots, Calm
<1>5. 1 <= n + 1 /\ (n = 0 => n + 1 = 1)
  BY <1>3
<1>6. DesKept(f)
  BY DEF DesKept, Opened
<1>7. RefsFit' /\ CountsSlots'
  BY <1>1, <1>2, <1>3, <1>4, <1>5, <1>6, FileMoved DEF CountsInv
<1>8. VnodeEnough' /\ VnodeCounted'
  <2>d. PICK d \in {-1, 1, 2} : d = 2
    OBVIOUS
  <2>1. /\ Cardinality(References(v)') = Cardinality(References(v)) + d
        /\ \A w \in Vnodes : w # v => References(w)' = References(w)
    BY <1>1, <2>d, ReferencesOpen DEF HeapTyped
  <2>2. Adds(v, d)
    BY <2>d DEF Opened
  <2> QED
    BY <2>1, <2>2, VnodesMoved DEF CountsInv
<1> QED
  BY <1>7, <1>8 DEF CountsInv

\* A vnode closed twice has too few references, and one that stays open too
\* many.
LEMMA RecountedCounts ==
  ASSUME HeapTyped, CountsInv, env' = env, panic = "none",
         NEW p, NEW v \in Vnodes, NEW d \in {-1, 1, 2}, Recounted(p, v, d)
  PROVE  CountsInv'
<1>1. UNCHANGED <<fd_ofiles, file, pc, loc>>
  BY DEF Recounted, tables
<1>2. TablesKept /\ (\A w : References(w)' = References(w))
  BY <1>1, ReferencesKept DEF TablesKept
<1>3. RefsFit' /\ CountsSlots'
  BY <1>1, <1>2, FilesSame DEF CountsInv
<1>4. VnodeCounted'
  BY DEF Recounted, VnodeCounted, None, EnvEvents
<1>5. VnodeEnough'
  <2> SUFFICES ASSUME None({"dup2", "full", "stat"}), NEW w \in Vnodes
               PROVE  vn_refcount'[w] >= Cardinality(References(w)')
    BY DEF VnodeEnough, None
  <2>1. d # -1
    BY DEF Recounted, None
  <2>2. d = 1
    BY <2>1 DEF Recounted
  <2>3. PICK m \in Nat : m = Cardinality(References(w))
    BY ReferencesFinite DEF HeapTyped
  <2>4. PICK n \in Nat : n = vn_refcount[w] /\ n >= m
    BY <2>3 DEF HeapTyped, CountsInv, VnodeEnough
  <2>5. vn_refcount'[w] = n \/ vn_refcount'[w] = n + 1
    BY <2>2, <2>4 DEF Recounted, Adds
  <2> QED
    BY <1>2, <2>3, <2>4, <2>5
<1> QED
  BY <1>3, <1>4, <1>5 DEF CountsInv

\* What a step leaves of the struct files when it writes only the offset or
\* the lock of one.
LEMMA UseCounts ==
  ASSUME Types, HeapTyped, CountsInv, env' = env, panic = "none",
         NEW p \in Procs, NEW f \in Files, file[f].live,
         pc[p] # "des", NEW label, NEW l, Goes(p, label), Takes(p, l),
         UNCHANGED <<tables, vn_refcount>>,
         NEW r \in LiveFile, Sets(f, r), r.f_vnode = file[f].f_vnode,
         r.f_refcount = file[f].f_refcount
  PROVE  CountsInv'
<1>1. r.live /\ file'[f] = r /\ Alters(f) /\ TablesKept
  BY DEF LiveFile, Sets, tables, TablesKept
<1>2. \A g \in Files :
        /\ file'[g].live <=> file[g].live
        /\ file[g].live => file'[g].f_refcount = file[g].f_refcount
  BY <1>1 DEF Alters
<1>3. \A q \in Procs : pc[q] = "des" =>
         pc'[q] = "des" /\ loc'[q].f = loc[q].f
  BY DEF Goes, Takes
<1>4. RefsFit' /\ CountsSlots'
  BY <1>1, <1>2, <1>3, FilesSame DEF CountsInv
<1>5. \A v : References(v)' = References(v)
  BY <1>1, ReferencesSame
<1>6. VnodeEnough' /\ VnodeCounted'
  BY <1>5, VnodesSame DEF CountsInv
<1> QED
  BY <1>4, <1>6 DEF CountsInv

\* A step that changes no struct file and no vnode.
LEMMA StillCounts ==
  ASSUME CountsInv, env' = env, panic = "none",
         UNCHANGED <<file, vn_refcount>>, TablesKept,
         \A q \in Procs : pc[q] = "des" =>
            pc'[q] = "des" /\ loc'[q].f = loc[q].f
  PROVE  CountsInv'
<1>1. RefsFit' /\ CountsSlots'
  BY FilesSame DEF CountsInv
<1>2. VnodeEnough' /\ VnodeCounted'
  BY ReferencesKept, VnodesSame DEF CountsInv
<1> QED
  BY <1>1, <1>2 DEF CountsInv

\* A file has a reference to its vnode.
LEMMA LiveReferenced ==
  ASSUME HeapTyped, NEW f \in Files, file[f].live,
         NEW v \in Vnodes, v = file[f].f_vnode
  PROVE  Cardinality(References(v)) > 0
<1>1. 0 \in 0 .. file[f].f_refcount
  BY LiveIs DEF HeapTyped
<1>2. <<f, 0>> \in References(v)
  BY <1>1, ReferenceIs
<1>3. IsFiniteSet(References(v)) /\ Cardinality(References(v)) \in Nat
  BY ReferencesFinite DEF HeapTyped
<1>4. Cardinality(References(v)) # 0
  BY <1>2, <1>3, FS_EmptySet
<1> QED
  BY <1>3, <1>4

\* file_copy: a descriptor, a reference and one to the vnode.
LEMMA CopiedCounts ==
  ASSUME Types, HeapTyped, CountsInv, env' = env, panic = "none",
         NEW p \in Procs, NEW q \in Procs, NEW f \in Files, NEW i \in Fds,
         fd_ofiles[q][i] = NULL, Copied(p, i, q, f)
  PROVE  CountsInv'
<1>v. PICK v \in Vnodes : v = file[f].f_vnode
  BY LiveIs DEF Copied, HeapTyped
<1>0. file[f] \in LiveFile /\ file[f].live
  BY LiveIs DEF Copied, HeapTyped
<1>1. /\ file'[f].live /\ file'[f].f_vnode = v
      /\ file'[f].f_refcount = Uint16(file[f].f_refcount + 1)
      /\ Alters(f)
  BY <1>v, <1>0 DEF Copied, Sets, LiveFile
<1>2. /\ Slots(f)' = Slots(f) \union {<<q, i>>}
      /\ Cardinality(Slots(f)') = Cardinality(Slots(f)) + 1
      /\ \A g \in Files \ {f} : Slots(g)' = Slots(g)
  BY FillSets DEF Copied
<1>3. PICK n \in Nat : n = Cardinality(Slots(f))
  BY Finite
<1>4. PICK m \in Nat : m = file[f].f_refcount
  BY <1>0, LiveIs DEF HeapTyped
<1>5. n + 1 < WORD
  BY <1>2, <1>3, FiniteNext
<1>6. "dup2" \notin env => m <= n /\ Uint16(m + 1) = m + 1
  <2> SUFFICES ASSUME "dup2" \notin env
               PROVE  m <= n /\ Uint16(m + 1) = m + 1
    OBVIOUS
  <2>1. m <= n
    BY <1>0, <1>3, <1>4 DEF CountsInv, RefsFit
  <2>2. m + 1 < WORD /\ m + 1 \in Nat
    BY <1>5, <2>1, WordIs
  <2> QED
    BY <2>1, <2>2, WordIs
<1>7. Calm => m = n
  BY <1>0, <1>3, <1>4 DEF CountsInv, CountsSlots, Calm
<1>8. DesKept(f)
  BY DEF DesKept, Copied, Takes
<1>9. Calm => "dup2" \notin env
  BY DEF Calm, None
<1>a. /\ "dup2" \notin env => file'[f].f_refcount <= Cardinality(Slots(f)')
      /\ Calm => file'[f].f_refcount = Cardinality(Slots(f)')
  BY <1>1, <1>2, <1>3, <1>4, <1>6, <1>7, <1>9
<1>10. RefsFit' /\ CountsSlots'
  BY <1>1, <1>2, <1>8, <1>a, FileMoved DEF CountsInv
<1>11. VnodeEnough' /\ VnodeCounted'
  <2>1. CASE "dup2" \in env
    BY <2>1 DEF VnodeEnough, VnodeCounted, None, EnvEvents
  <2>2. CASE "dup2" \notin env
    <3>d. PICK d \in {-1, 1, 2} : d = 1
      OBVIOUS
    <3>0. file'[f].f_refcount = file[f].f_refcount + 1
      BY <1>1, <1>4, <1>6, <2>2
    <3>1. /\ Cardinality(References(v)') = Cardinality(References(v)) + d
          /\ \A w \in Vnodes : w # v => References(w)' = References(w)
      BY <1>v, <1>0, <1>1, <3>0, <3>d, ReferencesUp DEF HeapTyped
    <3>2. Adds(v, d)
      BY <1>v, <3>d DEF Copied
    <3> QED
      BY <3>1, <3>2, VnodesMoved DEF CountsInv
  <2> QED
    BY <2>1, <2>2
<1> QED
  BY <1>10, <1>11 DEF CountsInv

\* sys_close: a reference less, and no descriptor less.
LEMMA CloseBeganCounts ==
  ASSUME Types, HeapTyped, CountsInv, env' = env, panic = "none",
         NEW p \in Procs, NEW f \in Files, NEW i \in Fds, CloseBegan(p, i, f)
  PROVE  CountsInv'
<1>v. PICK v \in Vnodes : v = file[f].f_vnode
  BY LiveIs DEF CloseBegan, HeapTyped
<1>0. file[f] \in LiveFile /\ file[f].live
  BY LiveIs DEF CloseBegan, HeapTyped
<1>1. /\ file'[f].live /\ file'[f].f_vnode = v
      /\ file'[f].f_refcount = file[f].f_refcount - 1
      /\ file[f].f_refcount > 0 /\ Alters(f)
  BY <1>v, <1>0 DEF CloseBegan, Sets, LiveFile
<1>2. TablesKept /\ ~Calm /\ UNCHANGED vn_refcount
  BY DEF CloseBegan, tables, TablesKept, Calm, None
<1>3. \A g : Slots(g)' = Slots(g)
  BY <1>2, KeptSets
<1>4. DesKept(f)
  BY DEF DesKept, CloseBegan, Goes, Takes
<1>5. "dup2" \notin env => file'[f].f_refcount <= Cardinality(Slots(f)')
  <2>1. PICK m \in Nat : m = file[f].f_refcount
    BY <1>0, LiveIs DEF HeapTyped
  <2>2. PICK n \in Nat : n = Cardinality(Slots(f))
    BY Finite
  <2>3. "dup2" \notin env => m <= n
    BY <1>0, <2>1, <2>2 DEF CountsInv, RefsFit
  <2> QED
    BY <1>1, <1>3, <2>1, <2>2, <2>3
<1>6. RefsFit' /\ CountsSlots'
  BY <1>1, <1>2, <1>3, <1>4, <1>5, FileMoved DEF CountsInv
<1>7. VnodeCounted'
  BY DEF CloseBegan, VnodeCounted, None, EnvEvents
<1>8. VnodeEnough'
  <2>1. /\ Cardinality(References(v)') = Cardinality(References(v)) - 1
        /\ \A w \in Vnodes : w # v => References(w)' = References(w)
    BY <1>v, <1>0, <1>1, ReferencesDown DEF HeapTyped
  <2>2. PICK m \in Nat : m = Cardinality(References(v))
    BY ReferencesFinite DEF HeapTyped
  <2>3. PICK n \in Nat : n = vn_refcount[v]
    BY DEF HeapTyped
  <2>4. n >= m => n >= m - 1
    OBVIOUS
  <2>5. ASSUME None({"dup2", "full", "stat"}), NEW w \in Vnodes
        PROVE  vn_refcount'[w] >= Cardinality(References(w)')
    BY <1>2, <2>1, <2>2, <2>3, <2>4, <2>5 DEF CountsInv, VnodeEnough
  <2> QED
    BY <2>5 DEF VnodeEnough, None
<1> QED
  BY <1>6, <1>7, <1>8 DEF CountsInv

\* The last close frees the file and clears its own descriptor.
LEMMA CloseDoneCounts ==
  ASSUME Types, HeapTyped, CountsInv, EntryRight, env' = env, panic = "none",
         NEW p \in Procs, NEW f \in Files, CloseDone(p, f)
  PROVE  CountsInv'
<1>1. CASE UNCHANGED <<vn_refcount, fd_lk, file, fd_ofiles>>
  BY <1>1, StillCounts DEF CloseDone, Goes, Takes, TablesKept
<1>2. CASE /\ file[f].f_refcount = 0 /\ Adds(file[f].f_vnode, -1)
           /\ Sets(f, FreeFile) /\ Puts(p, loc[p].fd, NULL)
  <2>v. PICK v \in Vnodes : v = file[f].f_vnode
    BY LiveIs DEF CloseDone, HeapTyped
  <2>1. file[f].live /\ ~file'[f].live /\ Alters(f)
    BY <1>2 DEF CloseDone, Sets, FreeFile
  <2>2. PICK i \in Fds : i = loc[p].fd /\ fd_ofiles[p][i] = f
    BY DEF CloseDone, EntryRight, EntryOf
  <2>3. \A g \in Files \ {f} : Slots(g)' = Slots(g)
    BY <1>2, <2>2, ClearSets
  <2>4. DesKept(f) /\ ~Calm
    BY DEF DesKept, CloseDone, Goes, Takes, EntryRight, EntryOf, Calm, None
  <2>5. RefsFit' /\ CountsSlots'
    BY <2>1, <2>3, <2>4, FileMoved DEF CountsInv
  <2>6. VnodeEnough' /\ VnodeCounted'
    <3>d. PICK d \in {-1, 1, 2} : d = -1
      OBVIOUS
    <3>1. /\ Cardinality(References(v)') = Cardinality(References(v)) - 1
          /\ \A w \in Vnodes : w # v => References(w)' = References(w)
      BY <1>2, <2>v, <2>1, ReferencesDown DEF HeapTyped
    <3>2. Cardinality(References(v)) \in Nat
      BY ReferencesFinite DEF HeapTyped
    <3>3. Adds(v, d)
      BY <1>2, <2>v, <3>d
    <3>4. Cardinality(References(v)') = Cardinality(References(v)) + d
      BY <3>1, <3>2, <3>d
    <3> QED
      BY <3>1, <3>3, <3>4, VnodesMoved DEF CountsInv
  <2> QED
    BY <2>5, <2>6 DEF CountsInv
<1> QED
  BY <1>1, <1>2 DEF CloseDone

\* exit: a descriptor, a reference and one of the vnode less.
LEMMA DesBeganCounts ==
  ASSUME Types, HeapTyped, CountsInv, env' = env, panic = "none",
         NEW p \in Procs, NEW f \in Files, NEW i \in Fds, DesBegan(p, i, f)
  PROVE  CountsInv'
<1>v. PICK v \in Vnodes : v = file[f].f_vnode
  BY LiveIs DEF DesBegan, HeapTyped
<1>0. file[f] \in LiveFile /\ file[f].live
  BY LiveIs DEF DesBegan, HeapTyped
<1>1. /\ file'[f].live /\ file'[f].f_vnode = v
      /\ file'[f].f_refcount = file[f].f_refcount - 1
      /\ file[f].f_refcount > 0 /\ Alters(f)
  BY <1>v, <1>0 DEF DesBegan, Sets, LiveFile
<1>2. /\ Cardinality(Slots(f)') = Cardinality(Slots(f)) - 1
      /\ \A g \in Files \ {f} : Slots(g)' = Slots(g)
  BY ClearSets DEF DesBegan
<1>3. PICK n \in Nat : n = Cardinality(Slots(f))
  BY Finite
<1>4. PICK m \in Nat : m = file[f].f_refcount
  BY <1>0, LiveIs DEF HeapTyped
<1>5. "dup2" \notin env => m <= n
  BY <1>0, <1>3, <1>4 DEF CountsInv, RefsFit
<1>6. Calm => m = n
  BY <1>0, <1>3, <1>4 DEF CountsInv, CountsSlots, Calm
<1>7. DesKept(f) /\ pc'[p] = "des" /\ loc'[p].f = f
  BY DEF DesKept, DesBegan, Goes, Takes, NoLoc
<1>8. /\ "dup2" \notin env => file'[f].f_refcount <= Cardinality(Slots(f)')
      /\ Calm => file'[f].f_refcount = Cardinality(Slots(f)')
  BY <1>1, <1>2, <1>3, <1>4, <1>5, <1>6
<1>9. RefsFit' /\ CountsSlots'
  BY <1>1, <1>2, <1>7, <1>8, FileMoved DEF CountsInv
<1>10. VnodeEnough' /\ VnodeCounted'
  <2>d. PICK d \in {-1, 1, 2} : d = -1
    OBVIOUS
  <2>1. /\ Cardinality(References(v)') = Cardinality(References(v)) - 1
        /\ \A w \in Vnodes : w # v => References(w)' = References(w)
    BY <1>v, <1>0, <1>1, ReferencesDown DEF HeapTyped
  <2>2. Cardinality(References(v)) \in Nat
    BY ReferencesFinite DEF HeapTyped
  <2>3. Adds(v, d)
    BY <1>v, <2>d DEF DesBegan
  <2>4. Cardinality(References(v)') = Cardinality(References(v)) + d
    BY <2>1, <2>2, <2>d
  <2> QED
    BY <2>1, <2>3, <2>4, VnodesMoved DEF CountsInv
<1> QED
  BY <1>9, <1>10 DEF CountsInv

\* The file is freed if no descriptor is left, and unlocked otherwise.
LEMMA DesDoneCounts ==
  ASSUME Types, HeapTyped, CountsInv, env' = env, panic = "none",
         NEW p \in Procs, NEW f \in Files, DesDone(p, f)
  PROVE  CountsInv'
<1>v. PICK v \in Vnodes : v = file[f].f_vnode
  BY LiveIs DEF DesDone, HeapTyped
<1>0. file[f] \in LiveFile /\ file[f].live
  BY LiveIs DEF DesDone, HeapTyped
<1>1. TablesKept /\ DesKept(f)
  BY DEF DesDone, tables, TablesKept, DesKept, Goes, Takes
<1>2. \A g : Slots(g)' = Slots(g)
  BY <1>1, KeptSets
<1>3. Calm => (file[f].f_refcount = 0 <=> Slots(f) = {})
  BY <1>0, Finite, FS_EmptySet DEF CountsInv, CountsSlots, Calm
<1>4. CASE /\ file[f].f_refcount = 0 /\ Sets(f, FreeFile)
           /\ Adds(file[f].f_vnode, -1)
  <2>1. ~file'[f].live /\ Alters(f)
    BY <1>4 DEF Sets, FreeFile
  <2>2. RefsFit' /\ CountsSlots'
    BY <1>1, <1>2, <1>3, <1>4, <2>1, FileMoved DEF CountsInv
  <2>3. VnodeEnough' /\ VnodeCounted'
    <3>d. PICK d \in {-1, 1, 2} : d = -1
      OBVIOUS
    <3>1. /\ Cardinality(References(v)') = Cardinality(References(v)) - 1
          /\ \A w \in Vnodes : w # v => References(w)' = References(w)
      BY <1>v, <1>0, <1>4, <2>1, ReferencesDown DEF HeapTyped
    <3>2. Cardinality(References(v)) \in Nat
      BY ReferencesFinite DEF HeapTyped
    <3>3. Adds(v, d)
      BY <1>v, <1>4, <3>d
    <3>4. Cardinality(References(v)') = Cardinality(References(v)) + d
      BY <3>1, <3>2, <3>d
    <3> QED
      BY <3>1, <3>3, <3>4, VnodesMoved DEF CountsInv
  <2> QED
    BY <2>2, <2>3 DEF CountsInv
<1>5. CASE /\ file[f].f_refcount # 0
           /\ Sets(f, [file[f] EXCEPT !.f_lk = NULL]) /\ UNCHANGED vn_refcount
  <2>1. /\ file'[f].live /\ file'[f].f_vnode = file[f].f_vnode
        /\ file'[f].f_refcount = file[f].f_refcount /\ Alters(f)
    BY <1>0, <1>5 DEF Sets, LiveFile
  <2>2. RefsFit' /\ CountsSlots'
    BY <1>0, <1>1, <1>2, <1>3, <1>5, <2>1, FileMoved
       DEF CountsInv, RefsFit, CountsSlots, Calm
  <2>3. VnodeEnough' /\ VnodeCounted'
    BY <1>0, <1>5, <2>1, ReferencesSame, VnodesSame DEF CountsInv
  <2> QED
    BY <2>2, <2>3 DEF CountsInv
<1> QED
  BY <1>4, <1>5 DEF DesDone

\* What sys_dup2 leaves is not asked.
LEMMA Dup2Counts ==
  ASSUME "dup2" \in env, env' = env
  PROVE  CountsInv'
BY DEF CountsInv, RefsFit, VnodeEnough, CountsSlots, VnodeCounted, None,
       EnvEvents

-----------------------------------------------------------------------------
\* Each step keeps what holds while no program calls close or dup2.

\* With close or dup2 none of it is claimed.
LEMMA NotCalm ==
  ASSUME ~Calm, env' = env
  PROVE  CalmInv'
BY DEF CalmInv, Calm, OffsetsRight, OffsetCounts, OnlyKept, None

\* What leads to a file finds it.
LEMMA SlotLive ==
  ASSUME Calm, CountsSlots, panic = "none", NEW p \in Procs, NEW i \in Fds,
         NEW f \in Files, fd_ofiles[p][i] = f
  PROVE  file[f].live /\ Slots(f) # {}
<1>1. <<p, i>> \in Procs \X Fds /\ <<p, i>>[1] = p /\ <<p, i>>[2] = i
  OBVIOUS
<1>2. <<p, i>> \in Slots(f)
  BY <1>1 DEF Slots
<1> QED
  BY <1>2 DEF CountsSlots, Calm

\* p's step leaves what q, in a call, has found or locked.
Spares(q) ==
    pc'[q] \in {"io", "seek", "des"} =>
        /\ pc'[q] = pc[q] /\ loc'[q] = loc[q]
        /\ pc[q] = "des" => file'[loc[q].f].live
        /\ pc[q] \in {"seek", "des"} =>
              file'[loc[q].f].f_lk = file[loc[q].f].f_lk
        /\ pc[q] = "io" =>
              /\ file'[loc[q].f].f_oflags = file[loc[q].f].f_oflags
              /\ "overlap" \notin env =>
                    file'[loc[q].f].f_offset = file[loc[q].f].f_offset

\* What p in a call has found or locked.
OwnRight(p) ==
    /\ pc[p] = "des" => file[loc[p].f].live
    /\ pc[p] \in {"seek", "des"} => file[loc[p].f].f_lk = p
    /\ pc[p] = "io" =>
         /\ file[loc[p].f].f_oflags # Only(Against(loc[p].op))
         /\ "overlap" \notin env => file[loc[p].f].f_offset = loc[p].off

Apart(p) ==
    "overlap" \notin env /\ pc[p] \in {"io", "seek"} =>
        \A q \in Procs \ {p} :
            pc[q] \in {"io", "seek"} => loc[q].f # loc[p].f

\* What a step has to show: of the process that takes it, and that it
\* spares the files the others use.
LEMMA CalmKept ==
  ASSUME env' = env, Calm, panic = "none", panic' = "none", CalmInv,
         NEW p \in Procs, \A q \in Procs \ {p} : Spares(q),
         OwnRight(p)', Apart(p)', LkRight', OffsetCounts'
  PROVE  CalmInv'
<1>0. UsersRight /\ OffsetsRight /\ OnlyKept
  BY DEF CalmInv
<1>1. ASSUME NEW q \in Procs
      PROVE  OwnRight(q)'
  <2>1. CASE q = p
    BY <2>1
  <2>2. CASE q # p
    <3>1. CASE pc'[q] \notin {"io", "seek", "des"}
      BY <3>1 DEF OwnRight
    <3>2. CASE pc'[q] \in {"io", "seek", "des"}
      <4>1. /\ pc'[q] = pc[q] /\ loc'[q] = loc[q] /\ Spares(q)
            /\ q \in Procs
        BY <2>2, <3>2 DEF Spares
      <4>2. OwnRight(q)
        <5>1. "overlap" \notin env =>
                 None({"overlap", "close", "dup2"})
          BY DEF Calm, None
        <5> QED
          BY <1>0, <5>1 DEF OwnRight, UsersRight, OffsetsRight, OnlyKept, Calm
      <4> QED
        BY <3>2, <4>1, <4>2 DEF OwnRight, Spares
    <3> QED
      BY <3>1, <3>2
  <2> QED
    BY <2>1, <2>2
<1>2. UsersRight' /\ OnlyKept'
  BY <1>1 DEF UsersRight, OnlyKept, OwnRight
<1>3. OffsetsRight'
  <2> SUFFICES ASSUME None({"overlap", "close", "dup2"})
               PROVE  /\ \A q, r \in Procs :
                           /\ pc'[q] \in {"io", "seek"}
                           /\ pc'[r] \in {"io", "seek"}
                           /\ loc'[q].f = loc'[r].f
                           => q = r
                      /\ \A q \in Procs : pc'[q] = "io" =>
                           file'[loc'[q].f].f_offset = loc'[q].off
    BY DEF OffsetsRight, None
  <2>0. "overlap" \notin env
    BY DEF None
  <2>1. ASSUME NEW q \in Procs, NEW r \in Procs,
               pc'[q] \in {"io", "seek"}, pc'[r] \in {"io", "seek"},
               loc'[q].f = loc'[r].f
        PROVE  q = r
    <3>1. CASE q # p /\ r # p
      <4>1. /\ pc'[q] = pc[q] /\ loc'[q] = loc[q]
            /\ pc'[r] = pc[r] /\ loc'[r] = loc[r]
        BY <2>1, <3>1 DEF Spares
      <4> QED
        BY <1>0, <2>1, <4>1 DEF OffsetsRight
    <3>2. CASE q = p /\ r # p
      BY <2>0, <2>1, <3>2 DEF Apart
    <3>3. CASE q # p /\ r = p
      BY <2>0, <2>1, <3>3 DEF Apart
    <3>4. CASE q = p /\ r = p
      BY <3>4
    <3> QED
      BY <3>1, <3>2, <3>3, <3>4
  <2>2. \A q \in Procs : pc'[q] = "io" =>
           file'[loc'[q].f].f_offset = loc'[q].off
    BY <1>1, <2>0 DEF OwnRight
  <2> QED
    BY <2>1, <2>2
<1> QED
  BY <1>2, <1>3 DEF CalmInv

\* A step that changes no struct file, and begins no call.
LEMMA CalmStill ==
  ASSUME env' = env, Calm, panic = "none", panic' = "none", CalmInv,
         NEW p \in Procs, UNCHANGED file,
         \A q \in Procs : pc'[q] \in {"io", "seek", "des"} =>
             pc'[q] = pc[q] /\ loc'[q] = loc[q],
         pc'[p] \notin {"io", "seek", "des"}, LkRight'
  PROVE  CalmInv'
<1>1. \A q \in Procs \ {p} : Spares(q)
  <2> SUFFICES ASSUME NEW q \in Procs, pc'[q] \in {"io", "seek", "des"}
               PROVE  Spares(q)
    BY DEF Spares
  <2>1. pc[q] = "des" => file'[loc[q].f].live
    BY DEF CalmInv, UsersRight
  <2> QED
    BY <2>1 DEF Spares
<1>2. OwnRight(p)' /\ Apart(p)'
  BY DEF OwnRight, Apart
<1>3. OffsetCounts'
  BY DEF CalmInv, OffsetCounts, None
<1> QED
  BY <1>1, <1>2, <1>3, CalmKept

\* While p changes a call or a struct file, and no process comes or goes.
LEMMA LkStays ==
  ASSUME LkRight, NEW p \in Procs, NEW label, Goes(p, label),
         pc[p] # "none", label # "none", UNCHANGED fd_lk
  PROVE  LkRight'
BY DEF LkRight, Goes

\* What changes in the struct file at f is no business of those who use
\* another.
LEMMA SparesOthers ==
  ASSUME Calm, CalmInv, NEW q \in Procs, NEW f, Alters(f), EntryRight,
         pc'[q] = pc[q], loc'[q] = loc[q], loc[q].f # f
  PROVE  Spares(q)
<1> SUFFICES ASSUME pc[q] \in {"io", "seek", "des"}
             PROVE  Spares(q)
  BY DEF Spares
<1>1. file'[loc[q].f] = file[loc[q].f]
  BY DEF EntryRight, EntryOf, Alters
<1>2. pc[q] = "des" => file[loc[q].f].live
  BY DEF CalmInv, UsersRight
<1> QED
  BY <1>1, <1>2 DEF Spares

\* Only the struct file at f may have another offset.
LEMMA OffsetsMoved ==
  ASSUME env' = env, panic = "none", OffsetCounts, NEW f \in Files, Alters(f),
         None({"overlap", "close", "dup2"}) /\ file'[f].live =>
            file'[f].f_offset = file'[f].moved
  PROVE  OffsetCounts'
BY DEF OffsetCounts, Alters, None

Before ==
    /\ Types /\ HeapTyped /\ TablesInv /\ CountsInv /\ CalmInv
    /\ panic = "none" /\ panic' = "none" /\ env' = env

\* A file that is opened is new to everybody.
LEMMA OpenedCalm ==
  ASSUME Before, Calm, NEW p \in Procs, NEW v \in Vnodes, NEW flags \in Flags,
         NEW off \in {0, MaxOffset}, NEW f \in Files, NEW i \in Fds,
         Opened(p, v, f, i, flags, off)
  PROVE  CalmInv'
<1>1. /\ Alters(f) /\ ~file[f].live /\ UNCHANGED <<fd_lk, pc, loc>>
      /\ pc[p] = "run" /\ file'[f].f_offset = file'[f].moved
  BY NewFileIs DEF Opened, Sets
<1>2. ASSUME NEW q \in Procs \ {p}
      PROVE  Spares(q)
  <2>1. CASE pc[q] \notin {"io", "seek", "des"}
    BY <1>1, <2>1 DEF Spares
  <2>2. CASE pc[q] \in {"io", "seek"}
    <3>1. loc[q].fd \in Fds /\ fd_ofiles[q][loc[q].fd] = loc[q].f
          /\ loc[q].f \in Files
      BY <2>2 DEF Before, TablesInv, EntryRight, EntryOf
    <3>2. file[loc[q].f].live
      BY <3>1, SlotLive DEF Before, CountsInv
    <3> QED
      BY <1>1, <3>2, SparesOthers DEF Before, TablesInv
  <2>3. CASE pc[q] = "des"
    <3>1. file[loc[q].f].live
      BY <2>3 DEF Before, CalmInv, UsersRight
    <3> QED
      BY <1>1, <3>1, SparesOthers DEF Before, TablesInv
  <2> QED
    BY <2>1, <2>2, <2>3
<1>3. OwnRight(p)' /\ Apart(p)'
  BY <1>1 DEF OwnRight, Apart
<1>4. LkRight'
  BY <1>1 DEF Before, CalmInv, LkRight
<1>5. OffsetCounts'
  BY <1>1, OffsetsMoved DEF Before, CalmInv
<1> QED
  BY <1>2, <1>3, <1>4, <1>5, CalmKept DEF Before

\* A read or a write begins with the offset and the mode it finds.
LEMMA IoBeganCalm ==
  ASSUME Before, Calm, NEW p \in Procs, NEW fd \in Fds, NEW f \in Files,
         NEW op \in {"read", "write"}, IoBegan(p, fd, f, op)
  PROVE  CalmInv'
<1>1. PICK l : l = [NoLoc EXCEPT !.fd = fd, !.f = f, !.op = op,
                                 !.off = file[f].f_offset]
  OBVIOUS
<1>2. l.f = f /\ l.op = op /\ l.off = file[f].f_offset
  BY <1>1 DEF NoLoc
<1>3. /\ Goes(p, "io") /\ Takes(p, l) /\ pc[p] = "run"
      /\ UNCHANGED <<file, fd_lk>> /\ Permitted(f, op)
      /\ "overlap" \in env \/ ~Overlaps(p, f)
  BY <1>1 DEF IoBegan, tables
<1>4. ASSUME NEW q \in Procs \ {p}
      PROVE  Spares(q)
  <2>1. pc[q] = "des" => file[loc[q].f].live
    BY DEF Before, CalmInv, UsersRight
  <2> QED
    BY <1>3, <2>1 DEF Spares, Goes, Takes
<1>5. OwnRight(p)'
  BY <1>2, <1>3 DEF OwnRight, Goes, Takes, Permitted
<1>6. Apart(p)'
  BY <1>2, <1>3 DEF Apart, Goes, Takes, Overlaps, Before
<1>7. LkRight'
  BY <1>3, LkStays DEF Before, CalmInv
<1>8. OffsetCounts'
  BY <1>3 DEF Before, CalmInv, OffsetCounts, None
<1> QED
  BY <1>4, <1>5, <1>6, <1>7, <1>8, CalmKept DEF Before

\* It adds to the offset what it has moved, which is the offset it began
\* with unless another call came between.
LEMMA IoDoneCalm ==
  ASSUME Before, Calm, NEW p \in Procs, NEW f \in Files, NEW n \in 0 .. 1,
         IoDone(p, f, n)
  PROVE  CalmInv'
<1> DEFINE o == IF n = 0 THEN file[f].f_offset ELSE loc[p].off + n
<1>0. /\ file[f] \in LiveFile /\ file[f].moved \in Nat
      /\ file[f].f_offset \in 0 .. MaxOffset
  BY LiveIs DEF IoDone, Before, HeapTyped
<1>1. /\ Alters(f) /\ pc[p] = "io" /\ f = loc[p].f
      /\ Goes(p, "run") /\ Takes(p, NoLoc) /\ UNCHANGED fd_lk
      /\ file'[f].live /\ file'[f].f_lk = file[f].f_lk
      /\ file'[f].f_oflags = file[f].f_oflags
      /\ file'[f].f_offset = o /\ file'[f].moved = file[f].moved + n
  BY <1>0 DEF IoDone, Sets, LiveFile, tables
<1>2. ASSUME NEW q \in Procs \ {p}
      PROVE  Spares(q)
  <2>1. pc'[q] = pc[q] /\ loc'[q] = loc[q]
    BY <1>1 DEF Goes, Takes
  <2>2. CASE loc[q].f # f
    BY <1>1, <2>1, <2>2, SparesOthers DEF Before, TablesInv
  <2>3. CASE loc[q].f = f
    <3>1. "overlap" \notin env => pc[q] # "io"
      BY <1>1, <2>3 DEF Before, CalmInv, OffsetsRight, Calm, None
    <3> QED
      BY <1>1, <2>1, <2>3, <3>1 DEF Spares
  <2> QED
    BY <2>2, <2>3
<1>3. OwnRight(p)' /\ Apart(p)'
  BY <1>1 DEF OwnRight, Apart, Goes
<1>4. LkRight'
  BY <1>1, LkStays DEF Before, CalmInv
<1>5. ASSUME None({"overlap", "close", "dup2"})
      PROVE  file'[f].f_offset = file'[f].moved
  <2>1. file[f].f_offset = loc[p].off
    BY <1>1, <1>5 DEF Before, CalmInv, OffsetsRight
  <2>2. file[f].f_offset = file[f].moved
    BY <1>5 DEF Before, CalmInv, OffsetCounts, IoDone
  <2>3. PICK m \in Nat : m = file[f].moved
    BY <1>0
  <2>4. o = m + n
    BY <2>1, <2>2, <2>3
  <2> QED
    BY <1>1, <2>3, <2>4
<1>6. OffsetCounts'
  BY <1>1, <1>5, OffsetsMoved DEF Before, CalmInv
<1> QED
  BY <1>2, <1>3, <1>4, <1>6, CalmKept DEF Before

\* lseek holds the file's lock from its check to its assignment.
LEMMA SeekBeganCalm ==
  ASSUME Before, Calm, NEW p \in Procs, NEW fd \in Fds, NEW f \in Files,
         SeekBegan(p, fd, f)
  PROVE  CalmInv'
<1>1. PICK l : l = [NoLoc EXCEPT !.fd = fd, !.f = f]
  OBVIOUS
<1>2. l.f = f
  BY <1>1 DEF NoLoc
<1>0. file[f] \in LiveFile
  BY LiveIs DEF SeekBegan, Before, HeapTyped
<1>3. /\ Goes(p, "seek") /\ Takes(p, l) /\ pc[p] = "run" /\ UNCHANGED fd_lk
      /\ "overlap" \in env \/ ~Overlaps(p, f)
      /\ Alters(f) /\ file[f].live /\ file'[f].live /\ file[f].f_lk = NULL
      /\ file'[f].f_lk = p /\ file'[f].f_oflags = file[f].f_oflags
      /\ file'[f].f_offset = file[f].f_offset
      /\ file'[f].moved = file[f].moved
  BY <1>0, <1>1 DEF SeekBegan, Sets, LiveFile, tables
<1>4. ASSUME NEW q \in Procs \ {p}
      PROVE  Spares(q)
  <2>1. pc'[q] = pc[q] /\ loc'[q] = loc[q]
    BY <1>3 DEF Goes, Takes
  <2>2. CASE loc[q].f # f
    BY <1>3, <2>1, <2>2, SparesOthers DEF Before, TablesInv
  <2>3. CASE loc[q].f = f
    <3>1. pc[q] \notin {"seek", "des"}
      BY <1>3, <2>3, FileTableAssumptions DEF Before, CalmInv, UsersRight
    <3> QED
      BY <1>3, <2>1, <2>3, <3>1 DEF Spares
  <2> QED
    BY <2>2, <2>3
<1>5. OwnRight(p)'
  BY <1>2, <1>3 DEF OwnRight, Goes, Takes
<1>6. Apart(p)'
  BY <1>2, <1>3 DEF Apart, Goes, Takes, Overlaps, Before
<1>7. LkRight'
  BY <1>3, LkStays DEF Before, CalmInv
<1>8. OffsetCounts'
  BY <1>3, OffsetsMoved DEF Before, CalmInv, OffsetCounts
<1> QED
  BY <1>4, <1>5, <1>6, <1>7, <1>8, CalmKept DEF Before

\* sys_lseek leaves its file unlocked, at the offset it was moved to.
LEMMA SeekDoneCalm ==
  ASSUME Before, Calm, NEW p \in Procs, NEW f \in Files, SeekDone(p, f)
  PROVE  CalmInv'
<1>0. file[f] \in LiveFile
  BY LiveIs DEF SeekDone, Before, HeapTyped
<1>1. /\ Goes(p, "run") /\ Takes(p, NoLoc) /\ pc[p] = "seek"
      /\ f = loc[p].f /\ UNCHANGED fd_lk /\ file[f].live
  BY DEF SeekDone, tables
<1>2. /\ Alters(f) /\ file'[f].live /\ file'[f].f_oflags = file[f].f_oflags
      /\ \/ file'[f].f_offset = file'[f].moved
         \/ /\ file'[f].f_offset = file[f].f_offset
            /\ file'[f].moved = file[f].moved
  BY <1>0 DEF SeekDone, Sets, LiveFile
<1>3. file[f].f_lk = p
  BY <1>1 DEF Before, CalmInv, UsersRight
<1>4. ASSUME NEW q \in Procs \ {p}
      PROVE  Spares(q)
  <2>1. pc'[q] = pc[q] /\ loc'[q] = loc[q]
    BY <1>1 DEF Goes, Takes
  <2>2. CASE loc[q].f # f
    BY <1>2, <2>1, <2>2, SparesOthers DEF Before, TablesInv
  <2>3. CASE loc[q].f = f
    <3>1. pc[q] \notin {"seek", "des"}
      BY <1>3, <2>3 DEF Before, CalmInv, UsersRight
    <3>2. "overlap" \notin env => pc[q] # "io"
      BY <1>1, <2>3 DEF Before, CalmInv, OffsetsRight, Calm, None
    <3> QED
      BY <1>2, <2>1, <2>3, <3>1, <3>2 DEF Spares
  <2> QED
    BY <2>2, <2>3
<1>5. OwnRight(p)' /\ Apart(p)'
  BY <1>1 DEF OwnRight, Apart, Goes
<1>6. LkRight'
  BY <1>1, LkStays DEF Before, CalmInv
<1>7. OffsetCounts'
  BY <1>1, <1>2, OffsetsMoved DEF Before, CalmInv, OffsetCounts
<1> QED
  BY <1>4, <1>5, <1>6, <1>7, CalmKept DEF Before

\* A k_open that fails touches no struct file.
LEMMA RecountedCalm ==
  ASSUME Before, Calm, NEW p \in Procs, NEW v, NEW d, Recounted(p, v, d)
  PROVE  CalmInv'
<1>1. UNCHANGED <<file, fd_lk, pc, loc>> /\ pc[p] = "run"
  BY DEF Recounted, tables
<1>2. LkRight'
  BY <1>1 DEF Before, CalmInv, LkRight
<1> QED
  BY <1>1, <1>2, CalmStill DEF Before

\* fork gives the child its table.
LEMMA ForkedCalm ==
  ASSUME Before, Calm, NEW p \in Procs, NEW q \in Procs, Forked(p, q)
  PROVE  CalmInv'
<1>1. /\ UNCHANGED file /\ pc'[p] = "copy" /\ pc'[q] = "born"
      /\ \A r \in Procs \ {p, q} : pc'[r] = pc[r] /\ loc'[r] = loc[r]
  BY DEF Forked, Takes
<1>2. LkRight'
  BY DEF Forked, Before, CalmInv, LkRight
<1> QED
  BY <1>1, <1>2, CalmStill DEF Before

\* file_copy passes over a free entry.
LEMMA CopySkippedCalm ==
  ASSUME Before, Calm, NEW p \in Procs, CopySkipped(p)
  PROVE  CalmInv'
<1>1. /\ UNCHANGED <<file, pc, fd_lk>> /\ pc[p] = "copy"
      /\ \A r \in Procs \ {p} : loc'[r] = loc[r]
  BY DEF CopySkipped, Takes, tables
<1>2. LkRight'
  BY <1>1 DEF Before, CalmInv, LkRight
<1> QED
  BY <1>1, <1>2, CalmStill DEF Before

\* file_copy changes the file's count only.
LEMMA CopiedCalm ==
  ASSUME Before, Calm, NEW p \in Procs, NEW q \in Procs, NEW f \in Files,
         NEW i \in Fds, Copied(p, i, q, f)
  PROVE  CalmInv'
<1>0. file[f] \in LiveFile
  BY LiveIs DEF Copied, Before, HeapTyped
<1>1. /\ UNCHANGED <<pc, fd_lk>> /\ pc[p] = "copy"
      /\ \A r \in Procs \ {p} : loc'[r] = loc[r]
      /\ Alters(f) /\ file[f].live /\ file'[f].live
      /\ file'[f].f_lk = file[f].f_lk
      /\ file'[f].f_oflags = file[f].f_oflags
      /\ file'[f].f_offset = file[f].f_offset
      /\ file'[f].moved = file[f].moved
  BY <1>0 DEF Copied, Takes, Sets, LiveFile
<1>2. ASSUME NEW r \in Procs \ {p}
      PROVE  Spares(r)
  <2>1. CASE loc[r].f # f
    BY <1>1, <2>1, SparesOthers DEF Before, TablesInv
  <2>2. CASE loc[r].f = f
    BY <1>1, <2>2 DEF Spares
  <2> QED
    BY <2>1, <2>2
<1>3. OwnRight(p)' /\ Apart(p)'
  BY <1>1 DEF OwnRight, Apart
<1>4. LkRight'
  BY <1>1 DEF Before, CalmInv, LkRight
<1>5. OffsetCounts'
  BY <1>1, OffsetsMoved DEF Before, CalmInv, OffsetCounts
<1> QED
  BY <1>2, <1>3, <1>4, <1>5, CalmKept DEF Before

\* At the end of file_copy the child is a process like any other.
LEMMA CopyEndedCalm ==
  ASSUME Before, Calm, NEW p \in Procs, NEW q \in Procs, q = loc[p].child,
         CopyEnded(p, q)
  PROVE  CalmInv'
<1>0. pc[p] = "copy" /\ pc[q] = "born" /\ q # p
  BY DEF CopyEnded, Before, TablesInv, CopiesRight
<1>1. /\ UNCHANGED <<file, fd_lk>> /\ pc'[p] = "run"
      /\ pc'[q] \in {"run", "exit"}
      /\ \A r \in Procs \ {p, q} : pc'[r] = pc[r] /\ loc'[r] = loc[r]
  BY DEF CopyEnded, Takes, tables
<1>2. LkRight'
  BY <1>0, <1>1 DEF Before, CalmInv, LkRight
<1> QED
  BY <1>1, <1>2, CalmStill DEF Before

\* sys_exit uses no file as it begins.
LEMMA ExitsCalm ==
  ASSUME Before, Calm, NEW p \in Procs, Exits(p)
  PROVE  CalmInv'
<1>1. /\ UNCHANGED <<file, fd_lk, loc>> /\ pc[p] = "run" /\ Goes(p, "exit")
  BY DEF Exits, tables
<1>2. LkRight'
  BY <1>1, LkStays DEF Before, CalmInv
<1> QED
  BY <1>1, <1>2, CalmStill DEF Before, Goes

\* exit holds the file's lock while it gives up a descriptor, so nobody is
\* seeking in it.
LEMMA DesBeganCalm ==
  ASSUME Before, Calm, NEW p \in Procs, NEW f \in Files, NEW i \in Fds,
         DesBegan(p, i, f)
  PROVE  CalmInv'
<1>0. file[f] \in LiveFile /\ file[f].live
  BY LiveIs DEF DesBegan, Before, HeapTyped
<1>1. /\ Goes(p, "des") /\ pc[p] = "exit" /\ loc'[p].f = f
      /\ \A r \in Procs \ {p} : loc'[r] = loc[r]
      /\ UNCHANGED fd_lk /\ file[f].f_lk = NULL
  BY DEF DesBegan, Takes, NoLoc
<1>2. /\ Alters(f) /\ file'[f].live /\ file'[f].f_lk = p
      /\ file'[f].f_oflags = file[f].f_oflags
      /\ file'[f].f_offset = file[f].f_offset
      /\ file'[f].moved = file[f].moved
  BY <1>0 DEF DesBegan, Sets, LiveFile
<1>3. ASSUME NEW q \in Procs \ {p}
      PROVE  Spares(q)
  <2>1. pc'[q] = pc[q] /\ loc'[q] = loc[q]
    BY <1>1 DEF Goes
  <2>2. CASE loc[q].f # f
    BY <1>2, <2>1, <2>2, SparesOthers DEF Before, TablesInv
  <2>3. CASE loc[q].f = f
    <3>1. pc[q] \notin {"seek", "des"}
      BY <1>1, <2>3, FileTableAssumptions DEF Before, CalmInv, UsersRight
    <3> QED
      BY <1>2, <2>1, <2>3, <3>1 DEF Spares
  <2> QED
    BY <2>2, <2>3
<1>4. OwnRight(p)' /\ Apart(p)'
  BY <1>1, <1>2 DEF OwnRight, Apart, Goes
<1>5. LkRight'
  BY <1>1, LkStays DEF Before, CalmInv
<1>6. OffsetCounts'
  BY <1>0, <1>2, OffsetsMoved DEF Before, CalmInv, OffsetCounts
<1> QED
  BY <1>3, <1>4, <1>5, <1>6, CalmKept DEF Before

\* It frees a file that no descriptor leads to.
LEMMA DesDoneCalm ==
  ASSUME Before, Calm, NEW p \in Procs, NEW f \in Files, DesDone(p, f)
  PROVE  CalmInv'
<1>0. file[f] \in LiveFile /\ file[f].live
  BY LiveIs DEF DesDone, Before, HeapTyped
<1>1. /\ Goes(p, "exit") /\ Takes(p, NoLoc) /\ pc[p] = "des"
      /\ f = loc[p].f /\ UNCHANGED fd_lk
  BY DEF DesDone, tables
<1>2. /\ Alters(f)
      /\ \/ ~file'[f].live /\ file[f].f_refcount = 0
         \/ /\ file'[f].f_oflags = file[f].f_oflags
            /\ file'[f].f_offset = file[f].f_offset
            /\ file'[f].moved = file[f].moved
  <2>1. CASE file[f].f_refcount = 0 /\ Sets(f, FreeFile)
    BY <2>1 DEF Sets, FreeFile
  <2>2. CASE Sets(f, [file[f] EXCEPT !.f_lk = NULL])
    BY <1>0, <2>2 DEF Sets, LiveFile
  <2> QED
    BY <2>1, <2>2 DEF DesDone
<1>3. file[f].f_lk = p
  BY <1>1 DEF Before, CalmInv, UsersRight
<1>4. ASSUME NEW q \in Procs \ {p}
      PROVE  Spares(q)
  <2>1. pc'[q] = pc[q] /\ loc'[q] = loc[q]
    BY <1>1 DEF Goes, Takes
  <2>2. CASE loc[q].f # f
    BY <1>2, <2>1, <2>2, SparesOthers DEF Before, TablesInv
  <2>3. CASE loc[q].f = f
    <3>1. pc[q] \notin {"seek", "des"}
      BY <1>3, <2>3 DEF Before, CalmInv, UsersRight
    <3>2. file[f].f_refcount = 0 => pc[q] # "io"
      <4> SUFFICES ASSUME file[f].f_refcount = 0, pc[q] = "io"
                   PROVE  FALSE
        OBVIOUS
      <4>1. loc[q].fd \in Fds /\ fd_ofiles[q][loc[q].fd] = f
        BY <2>3 DEF Before, TablesInv, EntryRight, EntryOf
      <4>2. Slots(f) # {}
        BY <4>1, SlotLive DEF Before, CountsInv
      <4>3. Cardinality(Slots(f)) = 0
        BY <1>0 DEF Before, CountsInv, CountsSlots, Calm
      <4> QED
        BY <4>2, <4>3, Finite, FS_EmptySet
    <3> QED
      BY <1>2, <2>1, <2>3, <3>1, <3>2 DEF Spares
  <2> QED
    BY <2>2, <2>3
<1>5. OwnRight(p)' /\ Apart(p)'
  BY <1>1 DEF OwnRight, Apart, Goes
<1>6. LkRight'
  BY <1>1, LkStays DEF Before, CalmInv
<1>7. OffsetCounts'
  BY <1>0, <1>2, OffsetsMoved DEF Before, CalmInv, OffsetCounts
<1> QED
  BY <1>4, <1>5, <1>6, <1>7, CalmKept DEF Before

\* fd_destroy: the table goes with its process.
LEMMA DestroyedCalm ==
  ASSUME Before, Calm, NEW p \in Procs, Destroyed(p)
  PROVE  CalmInv'
<1>1. UNCHANGED <<file, loc>> /\ Goes(p, "none") /\ LosesLk(p)
  BY DEF Destroyed
<1>2. LkRight'
  BY <1>1 DEF Before, CalmInv, LkRight, Goes, LosesLk
<1> QED
  BY <1>1, <1>2, CalmStill DEF Before, Goes

-----------------------------------------------------------------------------
\* What fails is what Breaks lists.

\* A failure that the code of an event leads to.
LEMMA Allowed ==
  ASSUME env' = env, env \subseteq EnvEvents,
         \/ panic' = "none"
         \/ /\ "close" \in env
            /\ panic' \in {"freed fd_lk", "freed file", "refcount"}
         \/ /\ "dup2" \in env
            /\ panic' \in {"freed file", "freed fd_lk", "freed vnode",
                           "refcount", "nfiles", "nfiles differ"}
         \/ ~None({"full", "stat"}) /\ panic' = "freed vnode"
         \/ "nomem" \in env /\ panic' = "freed file"
         \/ "badfd" \in env /\ panic' = "past the table"
  PROVE  NoPanic'
<1>1. /\ "freed vnode" \in Breaks["full"] /\ "freed vnode" \in Breaks["stat"]
      /\ "freed file" \in Breaks["nomem"]
      /\ "past the table" \in Breaks["badfd"]
      /\ {"freed fd_lk", "freed file", "refcount"} \subseteq Breaks["close"]
      /\ {"freed file", "freed fd_lk", "freed vnode", "refcount", "nfiles",
          "nfiles differ"} \subseteq Breaks["dup2"]
  BY DEF Breaks
<1>2. panic' = "none" \/ \E e \in env : panic' \in Breaks[e]
  BY <1>1 DEF None
<1> QED
  BY <1>2 DEF NoPanic

Now ==
    /\ Types /\ HeapTyped /\ TablesInv /\ CountsInv /\ CalmInv
    /\ panic = "none" /\ env' = env

\* Only a close or a dup2 lets a step meet a table or a file that is gone.
LEMMA MeetsAllowed ==
  ASSUME Now, NEW p \in Procs, NEW f \in Files, Meets(p, f), pc[p] # "none",
         panic' \in {"none", "freed fd_lk", "freed file"},
         \/ \E i \in Fds : fd_ofiles[p][i] = f
         \/ pc[p] = "des" /\ loc[p].f = f
  PROVE  NoPanic'
<1>1. env' = env /\ env \subseteq EnvEvents
  BY DEF Now, Types
<1>2. CASE Calm
  <2>1. fd_lk[p]
    BY <1>2 DEF Now, CalmInv, LkRight
  <2>2. file[f].live
    <3>1. CASE \E i \in Fds : fd_ofiles[p][i] = f
      BY <1>2, <3>1, SlotLive DEF Now, CountsInv
    <3>2. CASE pc[p] = "des" /\ loc[p].f = f
      BY <1>2, <3>2 DEF Now, CalmInv, UsersRight
    <3> QED
      BY <3>1, <3>2
  <2>3. panic' = "none"
    BY <2>1, <2>2 DEF Meets
  <2> QED
    BY <1>1, <2>3, Allowed
<1>3. CASE ~Calm
  <2>1. "close" \in env \/ "dup2" \in env
    BY <1>3 DEF Calm, None
  <2> QED
    BY <1>1, <2>1, Allowed
<1> QED
  BY <1>2, <1>3

\* A count that is spent is below any that is not.
LEMMA NoneBelow ==
  ASSUME NEW a \in Nat, NEW b \in Nat, a <= 0, b > 0
  PROVE  ~(a >= b)
OBVIOUS

\* A file that is there has a reference to its vnode to give back, unless
\* open has closed the vnode twice or dup2 has lost count.
LEMMA VnodeAllowed ==
  ASSUME Now, NEW f \in Files, file[f].live,
         vn_refcount[file[f].f_vnode] <= 0, panic' = "freed vnode"
  PROVE  NoPanic'
<1>1. env' = env /\ env \subseteq EnvEvents
  BY DEF Now, Types
<1>2. PICK v \in Vnodes : v = file[f].f_vnode
  BY LiveIs DEF Now, HeapTyped
<1>3. PICK m \in Nat : m = Cardinality(References(v))
  BY ReferencesFinite DEF Now, HeapTyped
<1>4. PICK n \in Nat : n = vn_refcount[v]
  BY DEF Now, HeapTyped
<1>5. m > 0
  BY <1>2, <1>3, LiveReferenced DEF Now
<1>6. ~(n >= m)
  <2>1. n <= 0
    BY <1>2, <1>4
  <2>2. m > 0 /\ m \in Nat /\ n \in Nat
    BY <1>3, <1>4, <1>5
  <2> QED
    BY <2>1, <2>2, NoneBelow
<1>7. ~None({"dup2", "full", "stat"})
  BY <1>3, <1>4, <1>6 DEF Now, CountsInv, VnodeEnough
<1>8. "dup2" \in env \/ ~None({"full", "stat"})
  BY <1>7 DEF None
<1> QED
  BY <1>1, <1>8, Allowed

\* Types, counts and the rest make the invariant of the next state.
LEMMA Next_FileInv ==
  ASSUME Now, NoPanic', TablesTyped',
         panic' = "none" =>
            HeapTyped' /\ TablesInv' /\ CountsInv' /\ (Calm => CalmInv')
  PROVE  FileInv'
<1>1. Types'
  BY DEF Types, TypeOK, TablesTyped, HeapTyped
<1>2. panic' = "none" => CalmInv'
  BY NotCalm DEF Now
<1> QED
  BY <1>1, <1>2 DEF FileInv

\* The invariant, as the step finds it.
LEMMA NowIs ==
  ASSUME FileInv, panic = "none", env' = env
  PROVE  Now /\ (panic' = "none" => Before)
BY TypesAre DEF FileInv, Now, Before

-----------------------------------------------------------------------------
\* Each action keeps the invariant.

\* No step is taken after a panic, and the environment is one for good.
LEMMA EnvStays ==
  ASSUME NEW p \in Procs, Step(p) \/ Call(p)
  PROVE  panic = "none" /\ env' = env
BY DEF Step, Call, KOpen, KOpenUndone, KOpenNoMem, IoStart, CloseStart,
       Dup2Start, Dup2Past, Lookup, LseekStart, Fork, Exit, IoEnd,
       LseekEnd, CloseEnd, Dup2End, FileCopy, FileCopied, DesDescriptor,
       DesFile, FdDestroy, At

\* k_open.
LEMMA OpenKeeps ==
  ASSUME Now, panic' = "none" => Before, NEW p \in Procs, NEW v \in Vnodes,
         \/ \E flags \in Flags, off \in {0, MaxOffset} :
              KOpen(p, v, flags, off)
         \/ KOpenUndone(p, v)
         \/ KOpenNoMem(p, v)
  PROVE  FileInv'
<1>0. Types /\ env' = env /\ env \subseteq EnvEvents
  BY DEF Now, Types
<1>1. ASSUME NEW flags \in Flags, NEW off \in {0, MaxOffset},
             KOpen(p, v, flags, off)
      PROVE  FileInv'
  <2>1. /\ TablesTyped' /\ panic' \in {"none", "freed fd_lk"}
        /\ panic' = "freed fd_lk" => ~fd_lk[p] /\ pc[p] = "run"
        /\ panic' = "none" =>
             /\ HeapTyped'
             /\ \E f \in Files, i \in Fds : Opened(p, v, f, i, flags, off)
    BY <1>0, <1>1, KOpenDoes
  <2>2. NoPanic'
    <3>1. CASE panic' = "none"
      BY <1>0, <3>1, Allowed
    <3>2. CASE panic' = "freed fd_lk"
      <4>1. ~Calm
        BY <2>1, <3>2 DEF Now, CalmInv, LkRight
      <4>2. "close" \in env \/ "dup2" \in env
        BY <4>1 DEF Calm, None
      <4> QED
        BY <1>0, <3>2, <4>2, Allowed
    <3> QED
      BY <2>1, <3>1, <3>2
  <2>3. ASSUME panic' = "none"
        PROVE  HeapTyped' /\ TablesInv' /\ CountsInv' /\ (Calm => CalmInv')
    <3>1. PICK f \in Files, i \in Fds : Opened(p, v, f, i, flags, off)
      BY <2>1, <2>3
    <3>2. TablesInv'
      BY <3>1, OpenedTables DEF Now
    <3>3. CountsInv'
      BY <3>1, OpenedCounts DEF Now
    <3>4. Calm => CalmInv'
      BY <2>3, <3>1, OpenedCalm
    <3> QED
      BY <2>1, <2>3, <3>2, <3>3, <3>4
  <2> QED
    BY <2>1, <2>2, <2>3, Next_FileInv
<1>2. CASE KOpenUndone(p, v)
  <2>1. /\ TablesTyped' /\ panic' \in {"none", "freed vnode"}
        /\ ~None({"full", "stat"})
        /\ panic' = "none" => HeapTyped' /\ Recounted(p, v, -1)
    BY <1>0, <1>2, KOpenUndoneDoes
  <2>2. NoPanic'
    BY <1>0, <2>1, Allowed
  <2>d. PICK d \in {-1, 1, 2} : d = -1
    OBVIOUS
  <2>3. ASSUME panic' = "none"
        PROVE  HeapTyped' /\ TablesInv' /\ CountsInv' /\ (Calm => CalmInv')
    <3>1. HeapTyped' /\ Recounted(p, v, d)
      BY <2>1, <2>3, <2>d
    <3>2. TablesInv' /\ CountsInv'
      BY <3>1, RecountedTables, RecountedCounts DEF Now
    <3>3. Calm => CalmInv'
      BY <2>3, <3>1, RecountedCalm
    <3> QED
      BY <3>1, <3>2, <3>3
  <2> QED
    BY <2>1, <2>2, <2>3, Next_FileInv
<1>3. CASE KOpenNoMem(p, v)
  <2>1. /\ TablesTyped' /\ panic' \in {"none", "freed file"}
        /\ "nomem" \in env
        /\ panic' = "none" => HeapTyped' /\ Recounted(p, v, 1)
    BY <1>0, <1>3, KOpenNoMemDoes
  <2>2. NoPanic'
    BY <1>0, <2>1, Allowed
  <2>d. PICK d \in {-1, 1, 2} : d = 1
    OBVIOUS
  <2>3. ASSUME panic' = "none"
        PROVE  HeapTyped' /\ TablesInv' /\ CountsInv' /\ (Calm => CalmInv')
    <3>1. HeapTyped' /\ Recounted(p, v, d)
      BY <2>1, <2>3, <2>d
    <3>2. TablesInv' /\ CountsInv'
      BY <3>1, RecountedTables, RecountedCounts DEF Now
    <3>3. Calm => CalmInv'
      BY <2>3, <3>1, RecountedCalm
    <3> QED
      BY <3>1, <3>2, <3>3
  <2> QED
    BY <2>1, <2>2, <2>3, Next_FileInv
<1> QED
  BY <1>1, <1>2, <1>3

\* The struct file written by a read, a write or a seek.
LEMMA UseKeeps ==
  ASSUME Now, panic' = "none" => Before, TablesTyped',
         NEW p \in Procs, NEW f \in Files, Meets(p, f), pc[p] # "none",
         (\E i \in Fds : fd_ofiles[p][i] = f),
         panic' \in {"none", "freed fd_lk", "freed file"},
         panic' = "none" =>
            /\ HeapTyped'
            /\ \/ \E fd \in Fds, op \in {"read", "write"} :
                    IoBegan(p, fd, f, op)
               \/ \E n \in 0 .. 1 : IoDone(p, f, n)
               \/ \E fd \in Fds : SeekBegan(p, fd, f)
               \/ SeekDone(p, f)
  PROVE  FileInv'
<1>0. Types /\ env' = env /\ HeapTyped /\ CountsInv /\ panic = "none"
  BY DEF Now
<1>1. NoPanic'
  BY MeetsAllowed
<1>2. ASSUME panic' = "none"
      PROVE  HeapTyped' /\ TablesInv' /\ CountsInv' /\ (Calm => CalmInv')
  <2>0. Before /\ HeapTyped'
    BY <1>2
  <2>t. TablesInv'
    BY <1>2, UseTables DEF Now
  <2>1. ASSUME NEW fd \in Fds, NEW op \in {"read", "write"},
               IoBegan(p, fd, f, op)
        PROVE  CountsInv' /\ (Calm => CalmInv')
    <3>1. CountsInv'
      <4>1. /\ UNCHANGED <<file, vn_refcount>> /\ TablesKept
            /\ \A q \in Procs : pc[q] = "des" =>
                 pc'[q] = "des" /\ loc'[q].f = loc[q].f
        BY <2>1 DEF IoBegan, tables, TablesKept, Goes, Takes
      <4> QED
        BY <1>0, <4>1, StillCounts
    <3> QED
      BY <2>0, <2>1, <3>1, IoBeganCalm
  <2>2. ASSUME NEW n \in 0 .. 1, IoDone(p, f, n)
        PROVE  CountsInv' /\ (Calm => CalmInv')
    <3>1. CountsInv'
      <4>0. file[f].live /\ file[f] \in LiveFile
        BY <1>0, <2>2, LiveIs DEF IoDone, HeapTyped
      <4>r. PICK r : r = [file[f] EXCEPT
                            !.f_offset = IF n = 0 THEN file[f].f_offset
                                         ELSE loc[p].off + n,
                            !.moved = file[f].moved + n]
        OBVIOUS
      <4>1. /\ Sets(f, r) /\ r.f_vnode = file[f].f_vnode
            /\ r.f_refcount = file[f].f_refcount /\ r.live = file[f].live
        BY <2>2, <4>0, <4>r DEF IoDone, LiveFile
      <4>2. r \in LiveFile
        <5>1. file'[f] = r /\ FreeFile.live = FALSE
          BY <4>1 DEF Sets, FreeFile
        <5>2. file'[f] \in LiveFile \union {FreeFile}
          BY <2>0 DEF HeapTyped
        <5> QED
          BY <4>0, <4>1, <5>1, <5>2
      <4>3. /\ Goes(p, "run") /\ Takes(p, NoLoc) /\ pc[p] # "des"
            /\ UNCHANGED <<tables, vn_refcount>>
        BY <2>2 DEF IoDone
      <4> QED
        BY <1>0, <4>0, <4>1, <4>2, <4>3, UseCounts
    <3> QED
      BY <2>0, <2>2, <3>1, IoDoneCalm
  <2>3. ASSUME NEW fd \in Fds, SeekBegan(p, fd, f)
        PROVE  CountsInv' /\ (Calm => CalmInv')
    <3>1. CountsInv'
      <4>0. file[f].live /\ file[f] \in LiveFile
        BY <1>0, <2>3, LiveIs DEF SeekBegan, HeapTyped
      <4>r. PICK r : r = [file[f] EXCEPT !.f_lk = p]
        OBVIOUS
      <4>1. /\ Sets(f, r) /\ r.f_vnode = file[f].f_vnode
            /\ r.f_refcount = file[f].f_refcount /\ r.live = file[f].live
        BY <2>3, <4>0, <4>r DEF SeekBegan, LiveFile
      <4>2. r \in LiveFile
        <5>1. file'[f] = r /\ FreeFile.live = FALSE
          BY <4>1 DEF Sets, FreeFile
        <5>2. file'[f] \in LiveFile \union {FreeFile}
          BY <2>0 DEF HeapTyped
        <5> QED
          BY <4>0, <4>1, <5>1, <5>2
      <4>l. PICK l : l = [NoLoc EXCEPT !.fd = fd, !.f = f]
        OBVIOUS
      <4>3. /\ Goes(p, "seek") /\ Takes(p, l) /\ pc[p] # "des"
            /\ UNCHANGED <<tables, vn_refcount>>
        BY <2>3, <4>l DEF SeekBegan
      <4> QED
        BY <1>0, <4>0, <4>1, <4>2, <4>3, UseCounts
    <3> QED
      BY <2>0, <2>3, <3>1, SeekBeganCalm
  <2>4. ASSUME SeekDone(p, f)
        PROVE  CountsInv' /\ (Calm => CalmInv')
    <3>1. CountsInv'
      <4>0. file[f].live /\ file[f] \in LiveFile
        BY <1>0, <2>4, LiveIs DEF SeekDone, HeapTyped
      <4>1. PICK r : /\ Sets(f, r) /\ r.f_vnode = file[f].f_vnode
                     /\ r.f_refcount = file[f].f_refcount
                     /\ r.live = file[f].live
        <5>1. ASSUME NEW off, NEW r,
                     r = [file[f] EXCEPT !.f_offset = off, !.moved = off,
                                         !.f_lk = NULL]
                     \/ r = [file[f] EXCEPT !.f_lk = NULL]
              PROVE  /\ r.f_vnode = file[f].f_vnode
                     /\ r.f_refcount = file[f].f_refcount
                     /\ r.live = file[f].live
          BY <4>0, <5>1 DEF LiveFile
        <5> QED
          BY <2>4, <5>1 DEF SeekDone
      <4>2. r \in LiveFile
        <5>1. file'[f] = r /\ FreeFile.live = FALSE
          BY <4>1 DEF Sets, FreeFile
        <5>2. file'[f] \in LiveFile \union {FreeFile}
          BY <2>0 DEF HeapTyped
        <5> QED
          BY <4>0, <4>1, <5>1, <5>2
      <4>3. /\ Goes(p, "run") /\ Takes(p, NoLoc) /\ pc[p] # "des"
            /\ UNCHANGED <<tables, vn_refcount>>
        BY <2>4 DEF SeekDone
      <4> QED
        BY <1>0, <4>0, <4>1, <4>2, <4>3, UseCounts
    <3>2. Calm => CalmInv'
      BY <2>0, <2>4, SeekDoneCalm
    <3> QED
      BY <3>1, <3>2
  <2> QED
    BY <1>2, <2>0, <2>t, <2>1, <2>2, <2>3, <2>4
<1> QED
  BY <1>1, <1>2, Next_FileInv

\* sys_read, sys_write and sys_lseek.
LEMMA CallKeeps ==
  ASSUME Now, panic' = "none" => Before, NEW p \in Procs,
         \/ \E fd \in 0 .. OPEN_MAX + 1, op \in {"read", "write"} :
              IoStart(p, fd, op)
         \/ \E n \in 0 .. 1 : IoEnd(p, n)
         \/ \E fd \in Fds : LseekStart(p, fd)
         \/ \E off \in {0, MaxOffset} : LseekEnd(p, off)
  PROVE  FileInv'
<1>0. Types /\ env' = env /\ env \subseteq EnvEvents
  BY DEF Now, Types
<1>1. ASSUME NEW fd \in 0 .. OPEN_MAX + 1, NEW op \in {"read", "write"},
             IoStart(p, fd, op)
      PROVE  FileInv'
  <2>1. /\ TablesTyped'
        /\ \/ "badfd" \in env /\ panic' = "past the table"
           \/ \E i \in Fds, f \in Files :
                /\ fd_ofiles[p][i] = f
                /\ panic' \in {"none", "freed fd_lk", "freed file"}
                /\ Meets(p, f) /\ pc[p] = "run"
                /\ panic' = "none" => HeapTyped' /\ IoBegan(p, i, f, op)
    BY <1>0, <1>1, IoStartDoes
  <2>2. CASE "badfd" \in env /\ panic' = "past the table"
    <3>1. NoPanic'
      BY <1>0, <2>2, Allowed
    <3> QED
      BY <2>1, <2>2, <3>1, Next_FileInv
  <2>3. ASSUME NEW i \in Fds, NEW f \in Files, fd_ofiles[p][i] = f,
               panic' \in {"none", "freed fd_lk", "freed file"},
               Meets(p, f), pc[p] = "run",
               panic' = "none" => HeapTyped' /\ IoBegan(p, i, f, op)
        PROVE  FileInv'
    BY <2>1, <2>3, UseKeeps
  <2> QED
    BY <2>1, <2>2, <2>3
<1>2. ASSUME NEW n \in 0 .. 1, IoEnd(p, n)
      PROVE  FileInv'
  <2>0. pc[p] = "io"
    BY <1>2 DEF IoEnd, At
  <2>1. /\ loc[p].f \in Files /\ loc[p].fd \in Fds
        /\ fd_ofiles[p][loc[p].fd] = loc[p].f
    BY <2>0 DEF Now, TablesInv, EntryRight, EntryOf
  <2>2. PICK f \in Files : f = loc[p].f
    BY <2>1
  <2>3. /\ TablesTyped' /\ Meets(p, f)
        /\ panic' \in {"none", "freed fd_lk", "freed file"}
        /\ panic' = "none" => HeapTyped' /\ IoDone(p, f, n)
    BY <1>0, <1>2, <2>2, IoEndDoes
  <2> QED
    BY <2>0, <2>1, <2>2, <2>3, UseKeeps
<1>3. ASSUME NEW fd \in Fds, LseekStart(p, fd)
      PROVE  FileInv'
  <2>1. /\ TablesTyped' /\ pc[p] = "run"
        /\ \E f \in Files :
                /\ fd_ofiles[p][fd] = f
                /\ panic' \in {"none", "freed fd_lk", "freed file"}
                /\ Meets(p, f)
                /\ panic' = "none" => HeapTyped' /\ SeekBegan(p, fd, f)
    BY <1>0, <1>3, LseekStartDoes
  <2> QED
    BY <2>1, UseKeeps
<1>4. ASSUME NEW off \in {0, MaxOffset}, LseekEnd(p, off)
      PROVE  FileInv'
  <2>0. pc[p] = "seek"
    BY <1>4 DEF LseekEnd, At
  <2>1. /\ loc[p].f \in Files /\ loc[p].fd \in Fds
        /\ fd_ofiles[p][loc[p].fd] = loc[p].f
    BY <2>0 DEF Now, TablesInv, EntryRight, EntryOf
  <2>2. PICK f \in Files : f = loc[p].f
    BY <2>1
  <2>3. /\ TablesTyped' /\ Meets(p, f)
        /\ panic' \in {"none", "freed fd_lk", "freed file"}
        /\ panic' = "none" => HeapTyped' /\ SeekDone(p, f)
    BY <1>0, <1>4, <2>2, LseekEndDoes
  <2> QED
    BY <2>0, <2>1, <2>2, <2>3, UseKeeps
<1> QED
  BY <1>1, <1>2, <1>3, <1>4

\* sys_close.
LEMMA CloseKeeps ==
  ASSUME Now, panic' = "none" => Before, NEW p \in Procs,
         \/ \E fd \in 0 .. OPEN_MAX + 1 : CloseStart(p, fd)
         \/ CloseEnd(p)
  PROVE  FileInv'
<1>0. /\ Types /\ env' = env /\ env \subseteq EnvEvents /\ HeapTyped
      /\ CountsInv /\ TablesInv /\ panic = "none"
  BY DEF Now, Types
<1>1. ASSUME NEW fd \in 0 .. OPEN_MAX + 1, CloseStart(p, fd)
      PROVE  FileInv'
  <2>1. /\ TablesTyped' /\ "close" \in env
        /\ \/ panic' \in {"none", "freed fd_lk", "freed file", "refcount"}
           \/ "badfd" \in env /\ panic' = "past the table"
        /\ panic' = "none" =>
             /\ HeapTyped'
             /\ \E i \in Fds, f \in Files : CloseBegan(p, i, f)
    BY <1>0, <1>1, CloseStartDoes
  <2>2. NoPanic'
    BY <1>0, <2>1, Allowed
  <2>c. ~Calm
    BY <2>1 DEF Calm, None
  <2>3. ASSUME panic' = "none"
        PROVE  HeapTyped' /\ TablesInv' /\ CountsInv'
    <3>1. PICK i \in Fds, f \in Files : CloseBegan(p, i, f)
      BY <2>1, <2>3
    <3>2. TablesInv'
      BY <1>0, <3>1, UseTables
    <3>3. CountsInv'
      BY <1>0, <3>1, CloseBeganCounts
    <3> QED
      BY <2>1, <2>3, <3>2, <3>3
  <2> QED
    BY <2>1, <2>2, <2>c, <2>3, Next_FileInv
<1>2. CASE CloseEnd(p)
  <2>0. pc[p] = "close"
    BY <1>2 DEF CloseEnd, At
  <2>1. /\ loc[p].f \in Files /\ loc[p].fd \in Fds /\ "close" \in env
        /\ fd_ofiles[p][loc[p].fd] = loc[p].f
    BY <1>0, <2>0 DEF TablesInv, EntryRight, EntryOf
  <2>2. PICK f \in Files : f = loc[p].f
    BY <2>1
  <2>3. /\ TablesTyped'
        /\ panic' \in {"none", "freed fd_lk", "freed file", "freed vnode"}
        /\ panic' = "freed vnode" =>
              file[f].live /\ vn_refcount[file[f].f_vnode] <= 0
        /\ panic' = "none" => HeapTyped' /\ CloseDone(p, f)
    BY <1>0, <1>2, <2>1, <2>2, CloseEndDoes
  <2>4. NoPanic'
    <3>1. CASE panic' = "freed vnode"
      BY <2>3, <3>1, VnodeAllowed
    <3>2. CASE panic' # "freed vnode"
      BY <1>0, <2>1, <2>3, <3>2, Allowed
    <3> QED
      BY <3>1, <3>2
  <2>c. ~Calm
    BY <2>1 DEF Calm, None
  <2>5. ASSUME panic' = "none"
        PROVE  HeapTyped' /\ TablesInv' /\ CountsInv'
    <3>1. TablesInv'
      BY <1>0, <2>1, <2>3, <2>5, CloseTables
    <3>2. CountsInv'
      BY <1>0, <2>3, <2>5, CloseDoneCounts DEF TablesInv
    <3> QED
      BY <2>3, <2>5, <3>1, <3>2
  <2> QED
    BY <2>3, <2>4, <2>c, <2>5, Next_FileInv
<1> QED
  BY <1>1, <1>2

\* sys_dup2.
LEMMA Dup2Keeps ==
  ASSUME Now, panic' = "none" => Before, NEW p \in Procs,
         \/ \E old \in 0 .. OPEN_MAX - 1, new \in Fds :
              Dup2Start(p, old, new)
         \/ \E old \in Fds, new \in 0 .. OPEN_MAX - 1 :
              Dup2Past(p, old, new)
         \/ Dup2End(p)
  PROVE  FileInv'
<1>0. /\ Types /\ env' = env /\ env \subseteq EnvEvents /\ HeapTyped
      /\ CountsInv /\ TablesInv /\ panic = "none"
  BY DEF Now, Types
<1>1. ASSUME "dup2" \in env, TablesTyped', pc[p] \in {"run", "dup2"},
             \/ panic' \in {"none", "freed fd_lk", "freed file", "freed vnode"}
             \/ "badfd" \in env /\ panic' = "past the table",
             panic' = "none" => HeapTyped' /\ Dup2Did(p)
      PROVE  FileInv'
  <2>1. NoPanic'
    BY <1>0, <1>1, Allowed
  <2>2. ~Calm
    BY <1>1 DEF Calm, None
  <2>3. CountsInv'
    BY <1>0, <1>1, Dup2Counts
  <2>4. panic' = "none" => TablesInv'
    BY <1>0, <1>1, Dup2Tables
  <2> QED
    BY <1>1, <2>1, <2>2, <2>3, <2>4, Next_FileInv
<1>2. ASSUME NEW old \in 0 .. OPEN_MAX - 1, NEW new \in Fds,
             Dup2Start(p, old, new)
      PROVE  FileInv'
  <2>1. /\ TablesTyped' /\ "dup2" \in env
        /\ \/ panic' \in {"none", "freed fd_lk", "freed file"}
           \/ "badfd" \in env /\ panic' = "past the table"
        /\ panic' = "none" => HeapTyped' /\ Dup2Did(p) /\ pc[p] = "run"
    BY <1>0, <1>2, Dup2StartDoes
  <2>2. pc[p] = "run"
    BY <1>2 DEF Dup2Start, Lookup, At
  <2> QED
    BY <1>1, <2>1, <2>2
<1>p. ASSUME NEW old \in Fds, NEW new \in 0 .. OPEN_MAX - 1,
             Dup2Past(p, old, new)
      PROVE  FileInv'
  <2>1. "badfd" \in env /\ panic' = "past the table" /\ TablesTyped'
    BY <1>0, <1>p, TypesAre DEF Dup2Past, Panic, TablesTyped, tables
  <2>2. NoPanic'
    BY <1>0, <2>1, Allowed
  <2> QED
    BY <2>1, <2>2, Next_FileInv
<1>3. CASE Dup2End(p)
  <2>0. pc[p] = "dup2"
    BY <1>3 DEF Dup2End, At
  <2>1. loc[p].f \in Files /\ "dup2" \in env
    BY <1>0, <2>0 DEF TablesInv, EntryRight, EntryOf
  <2>2. PICK f \in Files : f = loc[p].f
    BY <2>1
  <2>3. /\ TablesTyped'
        /\ panic' \in {"none", "freed fd_lk", "freed file", "freed vnode"}
        /\ panic' = "none" => HeapTyped' /\ Dup2Did(p)
    BY <1>0, <1>3, <2>1, <2>2, Dup2EndDoes
  <2> QED
    BY <1>1, <2>0, <2>1, <2>3
<1> QED
  BY <1>2, <1>p, <1>3

\* fork and file_copy.
LEMMA ForkKeeps ==
  ASSUME Now, panic' = "none" => Before, NEW p \in Procs,
         \/ \E q \in Procs : Fork(p, q)
         \/ FileCopy(p)
         \/ FileCopied(p)
  PROVE  FileInv'
<1>0. /\ Types /\ env' = env /\ env \subseteq EnvEvents /\ HeapTyped
      /\ CountsInv /\ TablesInv /\ CalmInv /\ panic = "none"
  BY DEF Now, Types
<1>1. ASSUME NEW q \in Procs, Fork(p, q)
      PROVE  FileInv'
  <2>1. /\ TablesTyped' /\ panic' \in {"none", "freed fd_lk"}
        /\ panic' = "freed fd_lk" => ~fd_lk[p] /\ pc[p] = "run"
        /\ panic' = "none" => HeapTyped' /\ Forked(p, q)
    BY <1>0, <1>1, ForkDoes DEF TablesInv
  <2>2. NoPanic'
    <3>1. CASE panic' = "none"
      BY <1>0, <3>1, Allowed
    <3>2. CASE panic' = "freed fd_lk"
      <4>1. ~Calm
        BY <1>0, <2>1, <3>2 DEF CalmInv, LkRight
      <4>2. "close" \in env \/ "dup2" \in env
        BY <4>1 DEF Calm, None
      <4> QED
        BY <1>0, <3>2, <4>2, Allowed
    <3> QED
      BY <2>1, <3>1, <3>2
  <2>3. ASSUME panic' = "none"
        PROVE  HeapTyped' /\ TablesInv' /\ CountsInv' /\ (Calm => CalmInv')
    <3>1. Forked(p, q)
      BY <2>1, <2>3
    <3>2. TablesInv'
      BY <1>0, <3>1, ForkTables
    <3>3. CountsInv'
      <4>1. /\ UNCHANGED <<file, vn_refcount>> /\ TablesKept
            /\ \A r \in Procs : pc[r] = "des" =>
                 pc'[r] = "des" /\ loc'[r].f = loc[r].f
        BY <3>1 DEF Forked, Takes
      <4> QED
        BY <1>0, <4>1, StillCounts
    <3>4. Calm => CalmInv'
      BY <2>3, <3>1, ForkedCalm
    <3> QED
      BY <2>1, <2>3, <3>2, <3>3, <3>4
  <2> QED
    BY <2>1, <2>2, <2>3, Next_FileInv
<1>2. CASE FileCopy(p)
  <2>0. pc[p] = "copy" /\ loc[p].fd \in Fds
    BY <1>2 DEF FileCopy, At
  <2>1. PICK q \in Procs : q = loc[p].child
    BY <1>0, <2>0 DEF TablesInv, CopiesRight
  <2>2. /\ TablesTyped'
        /\ panic' \in {"none", "freed fd_lk", "freed file"}
        /\ panic' # "none" =>
             \E i \in Fds, f \in Files : fd_ofiles[p][i] = f /\ Meets(p, f)
        /\ panic' = "none" =>
             /\ HeapTyped'
             /\ \/ CopySkipped(p)
                \/ \E i \in Fds, f \in Files : Copied(p, i, q, f)
    BY <1>0, <1>2, <2>1, FileCopyDoes
  <2>3. NoPanic'
    <3>1. CASE panic' = "none"
      BY <1>0, <3>1, Allowed
    <3>2. CASE panic' # "none"
      <4>1. PICK i \in Fds, f \in Files : fd_ofiles[p][i] = f /\ Meets(p, f)
        BY <2>2, <3>2
      <4> QED
        BY <2>0, <2>2, <4>1, MeetsAllowed
    <3> QED
      BY <3>1, <3>2
  <2>4. ASSUME panic' = "none"
        PROVE  HeapTyped' /\ TablesInv' /\ CountsInv' /\ (Calm => CalmInv')
    <3>1. CASE CopySkipped(p)
      <4>1. TablesInv'
        <5>1. PICK i \in Fds : i = loc[p].fd
          BY <2>0
        <5>2. /\ Takes(p, [NoLoc EXCEPT !.fd = i + 1, !.child = q])
              /\ UNCHANGED <<fd_lk, pc>> /\ fd_ofiles[p][i] = NULL
              /\ UNCHANGED <<fd_ofiles, fd_nfiles>>
          BY <2>1, <3>1, <5>1 DEF CopySkipped, tables
        <5> QED
          BY <1>0, <2>0, <2>1, <5>1, <5>2, CopyTables
      <4>2. CountsInv'
        <5>1. /\ UNCHANGED <<file, vn_refcount>> /\ TablesKept
              /\ \A r \in Procs : pc[r] = "des" =>
                   pc'[r] = "des" /\ loc'[r].f = loc[r].f
          BY <2>0, <3>1 DEF CopySkipped, Takes, tables, TablesKept
        <5> QED
          BY <1>0, <5>1, StillCounts
      <4>3. Calm => CalmInv'
        BY <2>4, <3>1, CopySkippedCalm
      <4> QED
        BY <2>2, <2>4, <4>1, <4>2, <4>3
    <3>2. ASSUME NEW i \in Fds, NEW f \in Files, Copied(p, i, q, f)
          PROVE  TablesInv' /\ CountsInv' /\ (Calm => CalmInv')
      <4>1. TablesInv'
        <5>1. /\ Takes(p, [NoLoc EXCEPT !.fd = i + 1, !.child = q])
              /\ UNCHANGED <<fd_lk, pc>> /\ i = loc[p].fd
              /\ fd_ofiles[p][i] = f /\ Puts(q, i, f) /\ Numbers(q, 1)
          BY <3>2 DEF Copied
        <5> QED
          BY <1>0, <2>0, <2>1, <5>1, CopyTables
      <4>2. CountsInv'
        <5>1. fd_ofiles[q][i] = NULL
          <6>1. ~(i < i) /\ i = loc[p].fd
            BY <3>2, FileTableAssumptions DEF Fds, Copied
          <6> QED
            BY <1>0, <2>0, <2>1, <6>1 DEF TablesInv, CopiesRight
        <5> QED
          BY <1>0, <3>2, <5>1, CopiedCounts
      <4>3. Calm => CalmInv'
        BY <2>4, <3>2, CopiedCalm
      <4> QED
        BY <4>1, <4>2, <4>3
    <3> QED
      BY <2>2, <2>4, <3>1, <3>2
  <2> QED
    BY <2>2, <2>3, <2>4, Next_FileInv
<1>3. CASE FileCopied(p)
  <2>0. pc[p] = "copy"
    BY <1>3 DEF FileCopied, At
  <2>1. PICK q \in Procs : q = loc[p].child /\ q # p
    BY <1>0, <2>0 DEF TablesInv, CopiesRight
  <2>2. /\ TablesTyped' /\ HeapTyped' /\ CopyEnded(p, q)
        /\ panic' \in {"none", "nfiles differ"}
        /\ panic' = "nfiles differ" => fd_nfiles[p] # fd_nfiles[q]
    BY <1>0, <1>3, <2>1, FileCopiedDoes
  <2>3. TablesInv' /\ ("dup2" \notin env => fd_nfiles[p] = fd_nfiles[q])
    BY <1>0, <2>1, <2>2, CopyEndedTables
  <2>4. NoPanic'
    BY <1>0, <2>2, <2>3, Allowed
  <2>5. CountsInv'
    <3>0. pc[q] = "born"
      BY <1>0, <2>0, <2>1 DEF TablesInv, CopiesRight
    <3>1. /\ UNCHANGED <<file, vn_refcount>> /\ TablesKept
          /\ \A r \in Procs : pc[r] = "des" =>
               pc'[r] = "des" /\ loc'[r].f = loc[r].f
      BY <2>2, <3>0 DEF CopyEnded, Takes, tables, TablesKept
    <3> QED
      BY <1>0, <3>1, StillCounts
  <2>6. panic' = "none" /\ Calm => CalmInv'
    BY <2>1, <2>2, CopyEndedCalm
  <2> QED
    BY <2>2, <2>3, <2>4, <2>5, <2>6, Next_FileInv
<1> QED
  BY <1>1, <1>2, <1>3

\* sys_exit: the descriptors one by one, and then the table.
LEMMA ExitKeeps ==
  ASSUME Now, panic' = "none" => Before, NEW p \in Procs,
         Exit(p) \/ DesDescriptor(p) \/ DesFile(p) \/ FdDestroy(p)
  PROVE  FileInv'
<1>0. /\ Types /\ env' = env /\ env \subseteq EnvEvents /\ HeapTyped
      /\ CountsInv /\ TablesInv /\ CalmInv /\ panic = "none"
  BY DEF Now, Types
<1>c. ~Calm => "close" \in env \/ "dup2" \in env
  BY DEF Calm, None
<1>1. CASE Exit(p)
  <2>1. TablesTyped' /\ HeapTyped' /\ panic' = "none" /\ Exits(p)
    BY <1>0, <1>1, ExitDoes
  <2>2. NoPanic'
    BY <1>0, <2>1, Allowed
  <2>3. TablesInv'
    BY <1>0, <2>1, ExitsTables
  <2>4. CountsInv'
    <3>1. /\ UNCHANGED <<file, vn_refcount>> /\ TablesKept
          /\ \A r \in Procs : pc[r] = "des" =>
               pc'[r] = "des" /\ loc'[r].f = loc[r].f
      BY <2>1 DEF Exits, Goes, tables, TablesKept
    <3> QED
      BY <1>0, <3>1, StillCounts
  <2>5. Calm => CalmInv'
    BY <2>1, ExitsCalm
  <2> QED
    BY <2>1, <2>2, <2>3, <2>4, <2>5, Next_FileInv
<1>2. CASE DesDescriptor(p)
  <2>1. /\ TablesTyped' /\ pc[p] = "exit"
        /\ \E i \in Fds, f \in Files :
             /\ fd_ofiles[p][i] = f
             /\ panic' \in {"none", "freed fd_lk", "freed file", "refcount",
                            "freed vnode"}
             /\ Meets(p, f)
             /\ panic' = "refcount" => file[f].live /\ file[f].f_refcount = 0
             /\ panic' = "freed vnode" =>
                   file[f].live /\ vn_refcount[file[f].f_vnode] <= 0
             /\ panic' = "none" => HeapTyped' /\ DesBegan(p, i, f)
    BY <1>0, <1>2, DesDescriptorDoes
  <2>2. PICK i \in Fds, f \in Files :
             /\ fd_ofiles[p][i] = f
             /\ panic' \in {"none", "freed fd_lk", "freed file", "refcount",
                            "freed vnode"}
             /\ Meets(p, f)
             /\ panic' = "refcount" => file[f].live /\ file[f].f_refcount = 0
             /\ panic' = "freed vnode" =>
                   file[f].live /\ vn_refcount[file[f].f_vnode] <= 0
             /\ panic' = "none" => HeapTyped' /\ DesBegan(p, i, f)
    BY <2>1
  <2>3. NoPanic'
    <3>1. CASE panic' \in {"none", "freed fd_lk", "freed file"}
      BY <2>1, <2>2, <3>1, MeetsAllowed
    <3>2. CASE panic' = "freed vnode"
      BY <2>2, <3>2, VnodeAllowed
    <3>3. CASE panic' = "refcount"
      <4>1. ~Calm
        <5>1. SUFFICES ASSUME Calm
                       PROVE  FALSE
          OBVIOUS
        <5>2. file[f].live /\ Slots(f) # {}
          BY <1>0, <2>2, <5>1, SlotLive DEF CountsInv
        <5>3. Cardinality(Slots(f)) = 0
          BY <1>0, <2>2, <3>3, <5>1, <5>2
             DEF CountsInv, CountsSlots, Calm
        <5> QED
          BY <5>2, <5>3, Finite, FS_EmptySet
      <4> QED
        BY <1>0, <1>c, <3>3, <4>1, Allowed
    <3> QED
      BY <2>2, <3>1, <3>2, <3>3
  <2>4. ASSUME panic' = "none"
        PROVE  HeapTyped' /\ TablesInv' /\ CountsInv' /\ (Calm => CalmInv')
    <3>1. HeapTyped' /\ DesBegan(p, i, f)
      BY <2>2, <2>4
    <3>2. TablesInv'
      BY <1>0, <2>2, <3>1, DesBeganTables
    <3>3. CountsInv'
      BY <1>0, <2>2, <3>1, DesBeganCounts
    <3>4. Calm => CalmInv'
      BY <2>2, <2>4, <3>1, DesBeganCalm
    <3> QED
      BY <3>1, <3>2, <3>3, <3>4
  <2> QED
    BY <2>1, <2>3, <2>4, Next_FileInv
<1>3. CASE DesFile(p)
  <2>0. pc[p] = "des"
    BY <1>3 DEF DesFile, At
  <2>1. PICK f \in Files : f = loc[p].f
    BY <1>0, <2>0 DEF TablesInv, EntryRight, EntryOf
  <2>2. /\ TablesTyped' /\ Meets(p, f)
        /\ panic' \in {"none", "freed fd_lk", "freed file", "freed vnode"}
        /\ panic' = "freed vnode" =>
              file[f].live /\ vn_refcount[file[f].f_vnode] <= 0
        /\ panic' = "none" => HeapTyped' /\ DesDone(p, f)
    BY <1>0, <1>3, <2>1, DesFileDoes
  <2>3. NoPanic'
    <3>1. CASE panic' = "freed vnode"
      BY <2>1, <2>2, <3>1, VnodeAllowed
    <3>2. CASE panic' # "freed vnode"
      BY <2>0, <2>1, <2>2, <3>2, MeetsAllowed
    <3> QED
      BY <3>1, <3>2
  <2>4. ASSUME panic' = "none"
        PROVE  HeapTyped' /\ TablesInv' /\ CountsInv' /\ (Calm => CalmInv')
    <3>1. HeapTyped' /\ DesDone(p, f)
      BY <2>2, <2>4
    <3>2. TablesInv'
      BY <1>0, <3>1, DesDoneTables
    <3>3. CountsInv'
      BY <1>0, <2>1, <3>1, DesDoneCounts
    <3>4. Calm => CalmInv'
      BY <2>1, <2>4, <3>1, DesDoneCalm
    <3> QED
      BY <3>1, <3>2, <3>3, <3>4
  <2> QED
    BY <2>2, <2>3, <2>4, Next_FileInv
<1>4. CASE FdDestroy(p)
  <2>1. /\ TablesTyped' /\ HeapTyped' /\ Destroyed(p)
        /\ panic' \in {"none", "freed fd_lk", "nfiles"}
        /\ panic' = "freed fd_lk" => ~fd_lk[p]
        /\ panic' = "nfiles" => fd_lk[p] /\ fd_nfiles[p] # 0
    BY <1>0, <1>4, FdDestroyDoes
  <2>2. TablesInv' /\ ("dup2" \notin env /\ fd_lk[p] => fd_nfiles[p] = 0)
    BY <1>0, <2>1, DestroyedTables
  <2>3. NoPanic'
    <3>1. CASE panic' = "none"
      BY <1>0, <3>1, Allowed
    <3>2. CASE panic' = "freed fd_lk"
      <4>1. ~Calm
        BY <1>0, <2>1, <3>2 DEF CalmInv, LkRight, Destroyed
      <4> QED
        BY <1>0, <1>c, <3>2, <4>1, Allowed
    <3>3. CASE panic' = "nfiles"
      <4>1. "dup2" \in env
        BY <2>1, <2>2, <3>3
      <4> QED
        BY <1>0, <3>3, <4>1, Allowed
    <3> QED
      BY <2>1, <3>1, <3>2, <3>3
  <2>4. CountsInv'
    <3>1. /\ UNCHANGED <<file, vn_refcount>> /\ TablesKept
          /\ \A r \in Procs : pc[r] = "des" =>
               pc'[r] = "des" /\ loc'[r].f = loc[r].f
      BY <2>1 DEF Destroyed, Goes, TablesKept
    <3> QED
      BY <1>0, <3>1, StillCounts
  <2>5. panic' = "none" /\ Calm => CalmInv'
    BY <2>1, DestroyedCalm
  <2> QED
    BY <2>1, <2>2, <2>3, <2>4, <2>5, Next_FileInv
<1> QED
  BY <1>1, <1>2, <1>3, <1>4

-----------------------------------------------------------------------------
\* The theorems.

\* bootfs and proc_create of kproc: one table, and nothing in it.
LEMMA InitFileInv ==
  ASSUME Init
  PROVE  FileInv
<1>1. TypeOK
  <2>1. 0 \in 0 .. WORD - 1
    BY WordIs
  <2> QED
    BY <2>1, FileTableAssumptions DEF Init, TypeOK
<1>2. Types
  <2>1. loc \in [Procs -> Locs]
    BY LocsIs DEF Init
  <2>2. pc \in [Procs -> Labels]
    BY DEF Init, Labels
  <2>3. env \subseteq EnvEvents
    BY FileTableAssumptions DEF Init
  <2> QED
    BY <1>1, <2>1, <2>2, <2>3 DEF Types
<1>3. NoPanic
  BY DEF Init, NoPanic
<1>4. \A p \in Procs : Used(p) = {}
  BY DEF Init, Used
<1>5. \A f \in Files : Slots(f) = {} /\ ~file[f].live
  BY FileTableAssumptions DEF Init, Slots, FreeFile
<1>6. \A v \in Vnodes : References(v) = {} /\ vn_refcount[v] = 0
  BY <1>5 DEF Init, References
<1>7. \A p \in Procs : pc[p] \in {"run", "none"}
  BY DEF Init
<1>8. TablesInv
  <2>1. NfilesRight
    BY <1>4, FS_EmptySet DEF Init, NfilesRight
  <2>2. NoneEmpty /\ CopiesRight /\ EntryRight
    BY <1>4, <1>7 DEF NoneEmpty, CopiesRight, EntryRight, EntryOf
  <2> QED
    BY <2>1, <2>2 DEF TablesInv
<1>9. CountsInv
  <2>1. RefsFit /\ CountsSlots
    BY <1>5 DEF RefsFit, CountsSlots
  <2>2. VnodeEnough /\ VnodeCounted
    <3>1. \A v \in Vnodes : vn_refcount[v] = Cardinality(References(v))
      BY <1>6, FS_EmptySet
    <3>2. \A v \in Vnodes : vn_refcount[v] >= Cardinality(References(v))
      BY <1>6, FS_EmptySet
    <3> QED
      BY <3>1, <3>2 DEF VnodeEnough, VnodeCounted
  <2> QED
    BY <2>1, <2>2 DEF CountsInv
<1>10. CalmInv
  <2>1. LkRight
    BY DEF Init, LkRight
  <2>2. UsersRight /\ OffsetsRight /\ OnlyKept
    BY <1>7 DEF UsersRight, OffsetsRight, OnlyKept
  <2>3. OffsetCounts
    BY <1>5 DEF OffsetCounts
  <2> QED
    BY <2>1, <2>2, <2>3 DEF CalmInv
<1> QED
  BY <1>2, <1>3, <1>8, <1>9, <1>10 DEF FileInv

\* Every step keeps the invariant; after a panic there is none.
LEMMA NextFileInv ==
  ASSUME FileInv, [Next]_vars
  PROVE  FileInv'
<1>1. ASSUME NEW p \in Procs, Step(p) \/ Call(p)
      PROVE  FileInv'
  <2>1. panic = "none" /\ env' = env
    BY <1>1, EnvStays
  <2>2. Now /\ (panic' = "none" => Before)
    BY <2>1, NowIs
  <2>3. CASE Step(p)
    <3>1. CASE (\E n \in 0 .. 1 : IoEnd(p, n))
               \/ \E off \in {0, MaxOffset} : LseekEnd(p, off)
      BY <2>2, <3>1, CallKeeps
    <3>2. CASE CloseEnd(p)
      BY <2>2, <3>2, CloseKeeps
    <3>3. CASE Dup2End(p)
      BY <2>2, <3>3, Dup2Keeps
    <3>4. CASE FileCopy(p) \/ FileCopied(p)
      BY <2>2, <3>4, ForkKeeps
    <3>5. CASE DesDescriptor(p) \/ DesFile(p) \/ FdDestroy(p)
      BY <2>2, <3>5, ExitKeeps
    <3> QED
      BY <2>3, <3>1, <3>2, <3>3, <3>4, <3>5 DEF Step
  <2>4. CASE Call(p)
    <3>1. CASE \E v \in Vnodes :
                 \/ \E flags \in Flags, off \in {0, MaxOffset} :
                      KOpen(p, v, flags, off)
                 \/ KOpenUndone(p, v) \/ KOpenNoMem(p, v)
      BY <2>2, <3>1, OpenKeeps
    <3>2. CASE \E fd \in 0 .. OPEN_MAX + 1, op \in {"read", "write"} :
                 IoStart(p, fd, op)
      BY <2>2, <3>2, CallKeeps
    <3>3. CASE \E fd \in 0 .. OPEN_MAX + 1 : CloseStart(p, fd)
      BY <2>2, <3>3, CloseKeeps
    <3>4. CASE \/ \E old \in 0 .. OPEN_MAX - 1, new \in Fds :
                      Dup2Start(p, old, new)
               \/ \E old \in Fds, new \in 0 .. OPEN_MAX - 1 :
                      Dup2Past(p, old, new)
      BY <2>2, <3>4, Dup2Keeps
    <3>5. CASE \E fd \in Fds : LseekStart(p, fd)
      BY <2>2, <3>5, CallKeeps
    <3>6. CASE \E q \in Procs : Fork(p, q)
      BY <2>2, <3>6, ForkKeeps
    <3>7. CASE Exit(p)
      BY <2>2, <3>7, ExitKeeps
    <3> QED
      BY <2>4, <3>1, <3>2, <3>3, <3>4, <3>5, <3>6, <3>7 DEF Call
  <2> QED
    BY <1>1, <2>3, <2>4
<1>2. CASE UNCHANGED vars
  <2>0. UNCHANGED <<tables, file, vn_refcount, pc, loc, env, panic>>
    BY <1>2 DEF vars, tables
  <2>1. Types' = Types /\ NoPanic' = NoPanic
    BY <2>0 DEF tables, Types, TypeOK, NoPanic
  <2>2. /\ \A p : Used(p)' = Used(p)
        /\ \A f : Slots(f)' = Slots(f)
        /\ \A v : References(v)' = References(v)
    BY <2>0 DEF tables, Used, Slots, References
  <2>3. TablesInv' = TablesInv
    BY <2>0, <2>2 DEF tables, TablesInv, NoneEmpty, CopiesRight, EntryRight,
       EntryOf, NfilesRight
  <2>4. CountsInv' = CountsInv
    BY <2>0, <2>2 DEF CountsInv, RefsFit, VnodeEnough, CountsSlots,
       VnodeCounted, None
  <2>5. CalmInv' = CalmInv
    BY <2>0 DEF tables, CalmInv, Calm, None, LkRight, UsersRight,
       OffsetsRight, OffsetCounts, OnlyKept
  <2> QED
    BY <2>0, <2>1, <2>3, <2>4, <2>5 DEF FileInv
<1> QED
  BY <1>1, <1>2 DEF Next

\* The invariant of all that processes do with their files.
THEOREM FileTableInvariant == Spec => []FileInv
<1>1. Init => FileInv
  BY InitFileInv
<1>2. FileInv /\ [Next]_vars => FileInv'
  BY NextFileInv
<1> QED
  BY <1>1, <1>2, PTL DEF Spec

\* Whatever processes open, read, write, seek, fork and exit, in any order
\* and on shared files, no assertion of filedesc.c and file.c fails, no lock
\* or struct file is used after it was freed and no vnode is given back once
\* too often, but for what sys_close, sys_dup2, the error paths of k_open and
\* the check against OPEN_MAX get wrong.
THEOREM FileTableNoPanic == Spec => []NoPanic
<1>1. FileInv => NoPanic
  BY DEF FileInv
<1> QED
  BY <1>1, FileTableInvariant, PTL

-----------------------------------------------------------------------------
\* Struct files and vnodes are counted as often as descriptors lead to them,
\* f_offset is the sum of what all their users moved, and no call reads or
\* writes a file against the mode it was opened with; when it was opened with
\* further flags, which sys_read and sys_write compare too, nothing is refused.
THEOREM FileTableFilesRight == Spec => []FilesRight
<1>1. FileInv => FilesRight
  <2> SUFFICES ASSUME FileInv
               PROVE  FilesRight
    OBVIOUS
  <2>1. TypeOK
    BY DEF FileInv, Types
  <2>2. CASE panic = "none"
    <3>1. TypeOK /\ CountsSlots /\ VnodeCounted /\ OffsetCounts
      BY <2>1, <2>2 DEF FileInv, CountsInv, CalmInv
    <3>2. ASSUME Calm, NEW p \in Procs, pc[p] = "io",
                 file[loc[p].f].f_oflags.acc = Against(loc[p].op)
          PROVE  file[loc[p].f].f_oflags.more # {}
      <4>1. PICK f \in Files : f = loc[p].f
        BY <2>2, <3>2 DEF FileInv, TablesInv, EntryRight, EntryOf
      <4>2. file[f].live
        <5>1. loc[p].fd \in Fds /\ fd_ofiles[p][loc[p].fd] = f
          BY <2>2, <3>2, <4>1 DEF FileInv, TablesInv, EntryRight, EntryOf
        <5> QED
          BY <2>2, <3>2, <5>1, SlotLive DEF FileInv, CountsInv
      <4>3. file[f].f_oflags \in Flags
        BY <2>2, <4>2, LiveIs, TypesAre DEF FileInv, HeapTyped
      <4>4. file[f].f_oflags # Only(Against(loc[p].op))
        BY <2>2, <3>2, <4>1 DEF FileInv, CalmInv, OnlyKept, Calm
      <4> QED
        BY <3>2, <4>1, <4>3, <4>4 DEF Flags, Only
    <3> QED
      BY <2>2, <3>1, <3>2 DEF FilesRight, ModeKept, Calm
  <2>3. CASE panic # "none"
    BY <2>1, <2>3 DEF FilesRight, CountsSlots, VnodeCounted, OffsetCounts,
       ModeKept
  <2> QED
    BY <2>2, <2>3
<1> QED
  BY <1>1, FileTableInvariant, PTL

=============================================================================
