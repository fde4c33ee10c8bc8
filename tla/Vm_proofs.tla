--------------------------- MODULE Vm_proofs ---------------------------
(***************************************************************************)
(* Memory is kept apart: a page that dumbvm has handed out is in one       *)
(* place, an address space is of one process, and no TLB leads a process   *)
(* to a page that is not its own.  And the heap is sound: its blocks, its  *)
(* lists and the entries of its pageref pages agree.                       *)
(*                                                                         *)
(* The invariant of the first has three parts: what is on its way in the   *)
(* heap and in an address space, as far as pages go; who has which         *)
(* address space, from where each thread is in runprogram, execv, fork     *)
(* and exit; and, for the TLBs, what a thread has found out before it      *)
(* makes an entry.  A step is seen by the other threads through Acts, and  *)
(* by memory through Moves.  The second adds, in HeapInv, what the records *)
(* of kmalloc.c say of each other.  Last, in PanicInv, which program each  *)
(* address space is made from, as that says what may panic.                *)
(***************************************************************************)
EXTENDS Vm, FiniteSetTheorems, SequenceTheorems, TLAPS

-----------------------------------------------------------------------------
\* What the variables are, as far as it matters here.
IsRecord(f, fields) == f = [x \in fields |-> f[x]]

RamTypes ==
    /\ firstpaddr \in 0 .. LASTPADDR
    /\ \E s \in Settings : env = s.env
    /\ budget \in [heap : Nat, proc : Nat, copy : Nat, cpus : Nat,
                   errors : Nat, touched : SUBSET Nat]
HeapTypes ==
    /\ IsRecord(kheaproots, Roots)
    /\ \A i \in Roots : IsRecord(kheaproots[i], {"page", "inuse"})
    /\ IsRecord(pagerefs, DOMAIN pagerefs)
    /\ \A r \in DOMAIN pagerefs :
         IsRecord(pagerefs[r], {"page", "type", "free"})
    /\ IsRecord(held, Callers) /\ IsRecord(kloc, Callers)
    /\ \A t \in Callers : IsRecord(kloc[t], DOMAIN NoLoc)

Labels == {"new", "prepare", "load", "args", "create", "user", "copy",
           "printf", "fork", "copied", "child"}
AsOrNull == AsIds \union {NULL}
Locals == [prog : Programs \union {<< >>}, todo : Seq(Nat),
           fault : {<< >>} \union (Nat \X Nat), new : AsOrNull,
           old : AsOrNull, child : Threads \union {NULL}, exec : BOOLEAN]
Entry == [v : Nat, p : Nat]
AsTypes ==
    /\ as \in [AsIds -> Addrspace \union {NULL}]
    /\ t_addrspace \in [Threads -> AsOrNull]
    /\ c_curthread \in [Boards -> Threads \union {NULL}]
    /\ tlb \in [Boards -> Seq(Entry)]
    /\ pc \in [Threads -> Labels]
    /\ loc \in [Threads -> Locals]

-----------------------------------------------------------------------------
\* Address spaces.  What a thread has at each point.
Outside == {"user", "copy", "printf"}
Loading == {"prepare", "load", "args"}
Fits(prog) == "huge" \notin env =>
    \A i \in DOMAIN prog : ~Wraps(SegSize(prog[i]))
CallRight(t) ==
    LET l == loc[t]
        id == t_addrspace[t]
    IN
    /\ pc[t] = "new" => id = NULL /\ l = NoLocals
    /\ pc[t] \in Loading =>
         /\ id # NULL /\ l.new = id /\ l.prog \in Programs
         /\ l.exec <=> l.old # NULL
         /\ l.old # id
    /\ pc[t] = "args" => l.exec
    /\ pc[t] = "create" => /\ id # NULL /\ l.exec /\ l.old = id
                           /\ l.new = NULL /\ l.prog \in Programs
                           /\ Fits(l.prog)
    /\ pc[t] \in Outside => /\ id # NULL /\ ~l.exec /\ l.old = NULL
                            /\ l.new = NULL
    /\ pc[t] \in {"fork", "copied"} =>
         /\ id # NULL /\ ~l.exec /\ l.old = NULL
         /\ l.new # NULL /\ l.new # id /\ l.child \in Threads \ {t}
    /\ pc[t] = "child" => /\ id = NULL /\ ~l.exec /\ l.old = NULL
                          /\ l.new # NULL
    /\ l.fault # << >> => pc[t] \in {"user"} \union Copying

\* Who has an address space.
Has(t, id) == \/ t_addrspace[t] = id
              \/ loc[t].old = id
              \/ loc[t].new = id /\ pc[t] \in {"fork", "copied", "child"}
OwnRight ==
    \A id \in AsIds :
        /\ \A t, u \in Threads : Has(t, id) /\ Has(u, id) => t = u
        /\ as[id] # NULL <=> \E t \in Threads : Has(t, id)
ExecRight == \A t \in Threads : lk_exec = t <=> loc[t].exec

\* The sizes of its regions.
SizesFit(a) == "huge" \notin env => ~Wraps(a.npages1) /\ ~Wraps(a.npages2)
SizesRight == \A id \in AsIds : as[id] # NULL => SizesFit(as[id])

\* TLBs; and what a thread has found for the entry it is about to make.
OneBoard == \A c, d \in Boards : c_curthread[c] = c_curthread[d]
                                 /\ c_curthread[c] # NULL => c = d
EntriesRight(c) ==
    LET t == c_curthread[c] IN
    /\ t # NULL /\ t_addrspace[t] # NULL =>
         \A i \in DOMAIN tlb[c] :
            /\ tlb[c][i].p = Translate(as[t_addrspace[t]], tlb[c][i].v)
            /\ \A k \in DOMAIN tlb[c] : tlb[c][k].v = tlb[c][i].v => k = i
    /\ t # NULL /\ pc[t] = "prepare" => tlb[c] = << >>
FaultRight(t) ==
    loc[t].fault # << >> =>
        /\ loc[t].fault[2] = Translate(as[t_addrspace[t]], loc[t].fault[1])
        /\ ~Hit(t, loc[t].fault[1])

ThreadRight(t) == CallRight(t) /\ FaultRight(t)
AsRight ==
    /\ \A t \in Threads : ThreadRight(t)
    /\ OwnRight /\ ExecRight /\ SizesRight /\ OneBoard
    /\ \A c \in Boards : EntriesRight(c)

IInv == /\ RamTypes /\ HeapTypes /\ AsTypes /\ AsRight
        /\ "huge" \notin env => PagesOnce /\ FIRSTPADDR <= firstpaddr

-----------------------------------------------------------------------------
\* NULL is none of the things that fields are compared with.
LEMMA NullIs == /\ NULL \notin AsIds /\ NULL \notin Threads
                /\ NULL \notin Addrspace
BY RamAssumptions, AsAssumptions

\* vm_fault looks at the regions in order.
Start(a, k) == IF k = 1 THEN a.vbase1 ELSE IF k = 2 THEN a.vbase2
               ELSE USERSTACK - DUMBVM_STACKPAGES
Size(a, k) == IF k = 1 THEN a.npages1 ELSE IF k = 2 THEN a.npages2
              ELSE DUMBVM_STACKPAGES
Base(a, k) == IF k = 1 THEN a.pbase1 ELSE IF k = 2 THEN a.pbase2
              ELSE a.stackpbase
In(a, k, v) == /\ Start(a, k) <= v
               /\ v < (Start(a, k) + Size(a, k)) % ADDRPAGES

LEMMA RegionsAre ==
  ASSUME NEW a
  PROVE  \A k \in 1 .. 3 :
           /\ Regions(a)[k] = <<Start(a, k), Size(a, k), Base(a, k)>>
           /\ Regions(a)[k][1] = Start(a, k) /\ Regions(a)[k][2] = Size(a, k)
           /\ Regions(a)[k][3] = Base(a, k)
           /\ \A v : Holds(Regions(a)[k], v) <=> In(a, k, v)
<1>1. \A k \in 1 .. 3 :
           Regions(a)[k] = <<Start(a, k), Size(a, k), Base(a, k)>>
  BY DEF Regions, Start, Size, Base
<1> QED
  BY <1>1 DEF Holds, In

LEMMA StartNat ==
  ASSUME NEW a \in Addrspace, NEW k \in 1 .. 3
  PROVE  /\ Start(a, k) \in Nat /\ Size(a, k) \in Nat /\ Base(a, k) \in Nat
         /\ ADDRPAGES \in Nat
<1>1. /\ USERSTACK \in Nat /\ DUMBVM_STACKPAGES \in Nat
      /\ USERSTACK - DUMBVM_STACKPAGES \in Nat
  BY AsAssumptions, RamAssumptions
<1> QED
  BY <1>1, RamAssumptions DEF Start, Size, Base, Addrspace

\* A page that a region holds is one of its pages.
LEMMA InIs ==
  ASSUME NEW a \in Addrspace, NEW k \in 1 .. 3, NEW v \in Nat, In(a, k, v)
  PROVE  /\ Start(a, k) <= v /\ v - Start(a, k) < Size(a, k)
         /\ v - Start(a, k) \in Nat
<1> DEFINE s == Start(a, k)
           n == Size(a, k)
<1>1. s \in Nat /\ n \in Nat /\ ADDRPAGES \in Nat \ {0}
  BY StartNat, AsAssumptions, RamAssumptions
<1>2. s <= v /\ v < (s + n) % ADDRPAGES
  BY DEF In
<1> HIDE DEF s, n
<1>3. (s + n) % ADDRPAGES <= s + n
  BY <1>1
<1> QED
  BY <1>1, <1>2, <1>3 DEF s, n

LEMMA TranslateIs ==
  ASSUME NEW a, NEW v
  PROVE  Translate(a, v) =
           IF In(a, 1, v) THEN Base(a, 1) + (v - Start(a, 1))
           ELSE IF In(a, 2, v) THEN Base(a, 2) + (v - Start(a, 2))
           ELSE IF In(a, 3, v) THEN Base(a, 3) + (v - Start(a, 3))
           ELSE 0
<1> DEFINE in == {i \in 1 .. 3 : Holds(Regions(a)[i], v)}
           i == CHOOSE k \in in : \A m \in in : k <= m
           at == Regions(a)[i][3] + (v - Regions(a)[i][1])
<1>1. in = {k \in 1 .. 3 : In(a, k, v)}
  BY RegionsAre
<1>2. Translate(a, v) = IF in = {} THEN 0 ELSE at
  BY DEF Translate
<1>3. ASSUME NEW j \in in, \A m \in in : j <= m
      PROVE  /\ i = j /\ in # {}
             /\ at = Base(a, j) + (v - Start(a, j))
  <2>1. i \in in /\ \A m \in in : i <= m
    BY <1>3
  <2>2. i = j
    BY <2>1, <1>3
  <2>3. j \in 1 .. 3
    OBVIOUS
  <2> QED
    BY <2>2, <2>3, RegionsAre
<1>4. 1 \in in => \A m \in in : 1 <= m
  OBVIOUS
<1>5. 1 \notin in /\ 2 \in in => \A m \in in : 2 <= m
  OBVIOUS
<1>6. 1 \notin in /\ 2 \notin in /\ 3 \in in => \A m \in in : 3 <= m
  OBVIOUS
<1>7. 1 \notin in /\ 2 \notin in /\ 3 \notin in => in = {}
  OBVIOUS
<1>8. /\ 1 \in in <=> In(a, 1, v)
      /\ 2 \in in <=> In(a, 2, v)
      /\ 3 \in in <=> In(a, 3, v)
  BY <1>1
<1> HIDE DEF in, at
<1> QED
  BY <1>2, <1>3, <1>4, <1>5, <1>6, <1>7, <1>8

LEMMA TranslateNat ==
  ASSUME NEW a \in Addrspace, NEW v \in Nat
  PROVE  Translate(a, v) \in Nat
<1>1. \A k \in 1 .. 3 : /\ Start(a, k) \in Nat /\ Base(a, k) \in Nat
                        /\ In(a, k, v) => v - Start(a, k) \in Nat
  BY StartNat, InIs
<1> QED
  BY <1>1, TranslateIs

-----------------------------------------------------------------------------
\* A step of a thread as the others see it: their calls are as they were, and
\* of the address spaces the step changes at most one, which was nobody's or
\* is that thread's.
SameCall(u) == /\ pc'[u] = pc[u] /\ loc'[u] = loc[u]
               /\ t_addrspace'[u] = t_addrspace[u]
SameUse == env' = env /\ budget'.touched = budget.touched
Steady == c_curthread' = c_curthread /\ SameUse

LEMMA HasSame ==
  ASSUME NEW u, SameCall(u), NEW id
  PROVE  Has(u, id)' <=> Has(u, id)
BY DEF Has, SameCall

\* A thread's address spaces.
LEMMA HasIs ==
  ASSUME NEW t \in Threads, AsTypes, CallRight(t)
  PROVE  /\ t_addrspace[t] \in AsOrNull
         /\ loc[t].old \in AsOrNull /\ loc[t].new \in AsOrNull
         /\ t_addrspace[t] # NULL => Has(t, t_addrspace[t])
         /\ loc[t].old # NULL => Has(t, loc[t].old)
         /\ loc[t].new # NULL => Has(t, loc[t].new)
<1>1. /\ t_addrspace[t] \in AsOrNull
      /\ loc[t].old \in AsOrNull /\ loc[t].new \in AsOrNull
      /\ pc[t] \in Labels
  BY DEF AsTypes, Locals
<1>2. loc[t].new # NULL => Has(t, loc[t].new)
  BY <1>1 DEF CallRight, Has, Labels, Outside, Loading, NoLocals
<1> QED
  BY <1>1, <1>2 DEF Has

LEMMA ThreadKept ==
  ASSUME NEW u \in Threads, AsTypes, ThreadRight(u), Steady, SameCall(u),
         \A id \in AsIds : Has(u, id) => as'[id] = as[id],
         \A c \in On(u) : tlb'[c] = tlb[c]
  PROVE  ThreadRight(u)'
<1>1. /\ pc'[u] = pc[u] /\ loc'[u] = loc[u]
      /\ t_addrspace'[u] = t_addrspace[u]
  BY DEF SameCall
<1>2. /\ t_addrspace[u] # NULL =>
           t_addrspace[u] \in AsIds /\ as'[t_addrspace[u]] = as[t_addrspace[u]]
      /\ loc[u].old # NULL => as'[loc[u].old] = as[loc[u].old]
      /\ loc[u].new # NULL => as'[loc[u].new] = as[loc[u].new]
  BY HasIs DEF ThreadRight, AsOrNull
<1>3. On(u)' = On(u)
  BY DEF On, Steady, Boards
<1>5. CallRight(u)'
  BY <1>1 DEF ThreadRight, CallRight, Fits, Steady, SameUse
<1>7. \A v : Hit(u, v)' <=> Hit(u, v)
  BY <1>3 DEF Hit
<1>8. FaultRight(u)'
  <2>1. loc[u].fault # << >> => t_addrspace[u] # NULL
    BY DEF ThreadRight, CallRight, Copying, Outside, Loading
  <2> QED
    BY <1>1, <1>2, <1>7, <2>1 DEF ThreadRight, FaultRight
<1> QED
  BY <1>5, <1>8 DEF ThreadRight

LEMMA EntriesKept ==
  ASSUME NEW c \in Boards, EntriesRight(c), AsTypes,
         c_curthread' = c_curthread,
         tlb'[c] = tlb[c],
         c_curthread[c] # NULL => /\ SameCall(c_curthread[c])
                                  /\ \A id \in AsIds :
                                       Has(c_curthread[c], id) =>
                                         as'[id] = as[id]
  PROVE  EntriesRight(c)'
<1>1. PICK t : t = c_curthread[c]
  OBVIOUS
<1>2. CASE t = NULL
  BY <1>1, <1>2 DEF EntriesRight
<1>3. CASE t # NULL
  <2>1. t \in Threads
    BY <1>1, <1>3 DEF AsTypes
  <2>2. t_addrspace[t] # NULL => as'[t_addrspace[t]] = as[t_addrspace[t]]
    BY <2>1, <1>1, <1>3 DEF AsTypes, AsOrNull, Has
  <2>3. /\ c_curthread'[c] = t /\ t_addrspace'[t] = t_addrspace[t]
        /\ pc'[t] = pc[t] /\ tlb'[c] = tlb[c]
    BY <1>1, <1>3 DEF SameCall
  <2>4. CASE t_addrspace[t] = NULL
    BY <1>1, <2>3, <2>4 DEF EntriesRight
  <2>5. CASE t_addrspace[t] # NULL
    <3>1. as'[t_addrspace'[t]] = as[t_addrspace[t]]
      BY <2>2, <2>3, <2>5
    <3>2. \A i \in DOMAIN tlb[c] :
            /\ tlb[c][i].p = Translate(as[t_addrspace[t]], tlb[c][i].v)
            /\ \A k \in DOMAIN tlb[c] : tlb[c][k].v = tlb[c][i].v => k = i
      BY <1>1, <1>3, <2>5 DEF EntriesRight
    <3>3. \A i \in DOMAIN tlb'[c] :
            tlb'[c][i].p = Translate(as'[t_addrspace'[t]], tlb'[c][i].v)
      BY <3>1, <3>2, <2>3
    <3>4. pc[t] = "prepare" => tlb[c] = << >>
      BY <1>1, <1>3 DEF EntriesRight
    <3> HIDE <2>5
    <3> QED
      BY <2>3, <3>2, <3>3, <3>4 DEF EntriesRight
  <2> QED
    BY <2>4, <2>5
<1> QED
  BY <1>2, <1>3

\* One address space may come or go, or change.
Acts(t, a) ==
    /\ Steady
    /\ \A u \in Threads \ {t} : /\ SameCall(u)
                                /\ lk_exec' = u <=> lk_exec = u
    /\ \A c \in Boards \ On(t) : tlb'[c] = tlb[c]
    /\ \A id \in AsIds \ {a} : /\ as'[id] = as[id]
                               /\ Has(t, id)' <=> Has(t, id)
    /\ a \in AsIds => /\ as[a] = NULL \/ Has(t, a)
                      /\ Has(t, a)' <=> as'[a] # NULL
                      /\ as'[a] # NULL => SizesFit(as[a])'

LEMMA OwnKept ==
  ASSUME NEW t \in Threads, NEW a, OwnRight, Acts(t, a)
  PROVE  OwnRight'
<1> SUFFICES ASSUME NEW id \in AsIds
             PROVE  /\ \A r, u \in Threads :
                         Has(r, id)' /\ Has(u, id)' => r = u
                    /\ as'[id] # NULL <=> \E r \in Threads : Has(r, id)'
  BY DEF OwnRight
<1>1. \A u \in Threads \ {t} : Has(u, id)' <=> Has(u, id)
  BY HasSame DEF Acts
<1>2. /\ \A r, u \in Threads : Has(r, id) /\ Has(u, id) => r = u
      /\ as[id] # NULL <=> \E r \in Threads : Has(r, id)
  BY DEF OwnRight
<1>3. CASE id # a
  <2>1. as'[id] = as[id] /\ (Has(t, id)' <=> Has(t, id))
    BY <1>3 DEF Acts
  <2> QED
    BY <1>1, <1>2, <2>1
<1>4. CASE id = a
  <2>1. /\ as[id] = NULL \/ Has(t, id)
        /\ Has(t, id)' <=> as'[id] # NULL
    BY <1>4 DEF Acts
  <2>2. \A u \in Threads \ {t} : ~Has(u, id)
    BY <1>2, <2>1
  <2> QED
    BY <1>1, <2>1, <2>2
<1> QED
  BY <1>3, <1>4

LEMMA ActsKept ==
  ASSUME NEW t \in Threads, NEW a, AsTypes, AsRight, Acts(t, a),
         ThreadRight(t)', \A c \in On(t) : EntriesRight(c)',
         lk_exec' = t <=> loc'[t].exec
  PROVE  AsRight'
<1>1. ASSUME NEW u \in Threads \ {t}
      PROVE  /\ SameCall(u)
             /\ \A id \in AsIds : Has(u, id) => as'[id] = as[id]
  BY DEF Acts, AsRight, OwnRight
<1>2. ASSUME NEW u \in Threads
      PROVE  ThreadRight(u)'
  <2>1. CASE u = t
    BY <2>1
  <2>2. CASE u # t
    <3>1. \A c \in On(u) : c \in Boards \ On(t)
      BY <2>2 DEF On
    <3>2. \A c \in On(u) : tlb'[c] = tlb[c]
      BY <3>1 DEF Acts
    <3>3. ThreadRight(u) /\ Steady
      BY DEF AsRight, Acts
    <3> QED
      BY <1>1, <2>2, <3>2, <3>3, ThreadKept
  <2> QED
    BY <2>1, <2>2
<1>3. Boards' = Boards
  BY DEF Boards, Acts, Steady
<1>4. ASSUME NEW c \in Boards
      PROVE  EntriesRight(c)'
  <2>1. CASE c \in On(t)
    BY <2>1
  <2>2. CASE c \notin On(t)
    <3>1. tlb'[c] = tlb[c] /\ c_curthread' = c_curthread /\ EntriesRight(c)
      BY <2>2 DEF Acts, Steady, AsRight
    <3>2. c_curthread[c] # NULL => c_curthread[c] \in Threads \ {t}
      BY <2>2 DEF On, AsTypes
    <3> QED
      BY <1>1, <3>1, <3>2, EntriesKept
  <2> QED
    BY <2>1, <2>2
<1>5. OwnRight'
  BY OwnKept DEF AsRight
<1>6. ExecRight'
  <2>1. \A u \in Threads \ {t} : /\ loc'[u] = loc[u]
                                 /\ lk_exec' = u <=> lk_exec = u
    BY DEF Acts, SameCall
  <2> QED
    BY <2>1 DEF AsRight, ExecRight
<1>7. SizesRight'
  <2> SUFFICES ASSUME NEW id \in AsIds, as'[id] # NULL
               PROVE  SizesFit(as[id])'
    BY DEF SizesRight
  <2>1. CASE id = a
    BY <2>1 DEF Acts
  <2>2. CASE id # a
    BY <2>2 DEF Acts, Steady, SameUse, AsRight, SizesRight, SizesFit
  <2> QED
    BY <2>1, <2>2
<1>8. OneBoard'
  BY <1>3 DEF AsRight, OneBoard, Acts, Steady
<1> QED
  BY <1>2, <1>3, <1>4, <1>5, <1>6, <1>7, <1>8 DEF AsRight

-----------------------------------------------------------------------------
\* A thread is on one processor.
LEMMA OnIs ==
  ASSUME OneBoard, NEW t \in Threads, NEW c \in On(t)
  PROVE  /\ On(t) = {c} /\ (CHOOSE x \in On(t) : TRUE) = c
         /\ c \in Boards /\ c_curthread[c] = t
         /\ \A v : Hit(t, v) <=> \E i \in DOMAIN tlb[c] : tlb[c][i].v = v
         /\ \A v : Hit(t, v) => \E i \in DOMAIN tlb[c] :
                     tlb[c][i].v = v /\ Paddr(t, v) = tlb[c][i].p
<1>1. c \in Boards /\ c_curthread[c] = t
  BY DEF On
<1>2. \A d \in On(t) : d = c
  BY <1>1, NullIs DEF On, OneBoard
<1>3. On(t) = {c}
  BY <1>2
<1>4. (CHOOSE x \in On(t) : TRUE) = c
  BY <1>2
<1>5. \A v : Hit(t, v) <=> \E i \in DOMAIN tlb[c] : tlb[c][i].v = v
  BY <1>3 DEF Hit
<1>6. ASSUME NEW v, Hit(t, v)
      PROVE  \E i \in DOMAIN tlb[c] :
               tlb[c][i].v = v /\ Paddr(t, v) = tlb[c][i].p
  <2> DEFINE i == CHOOSE k \in DOMAIN tlb[c] : tlb[c][k].v = v
  <2>1. i \in DOMAIN tlb[c] /\ tlb[c][i].v = v
    BY <1>5, <1>6
  <2>2. Paddr(t, v) = tlb[c][i].p
    BY <1>4 DEF Paddr
  <2> QED
    BY <2>1, <2>2
<1> QED
  BY <1>1, <1>3, <1>4, <1>5, <1>6

\* Nothing happens to address spaces and processes.
LEMMA AsStays ==
  ASSUME AsTypes, AsRight, UNCHANGED avars, SameUse
  PROVE  AsTypes' /\ AsRight'
<1> USE DEF avars, asvars, hwvars, memvars, thvars
<1>1. Steady /\ Boards' = Boards
  BY DEF Steady, Boards
<1>2. AsTypes'
  BY <1>1 DEF AsTypes
<1>3. \A u \in Threads : SameCall(u)
  BY DEF SameCall
<1>4. \A u \in Threads : ThreadRight(u)'
  BY <1>1, <1>3, ThreadKept DEF AsRight
<1>5. \A c \in Boards : EntriesRight(c)'
  <2> SUFFICES ASSUME NEW c \in Boards
               PROVE  EntriesRight(c)'
    OBVIOUS
  <2>1. c_curthread[c] # NULL => c_curthread[c] \in Threads
    BY DEF AsTypes
  <2> QED
    BY <1>3, <2>1, EntriesKept DEF AsRight
<1>6. OwnRight'
  BY DEF AsRight, OwnRight, Has
<1>7. ExecRight' /\ OneBoard'
  BY <1>1 DEF AsRight, ExecRight, OneBoard
<1>8. SizesRight'
  BY DEF AsRight, SizesRight, SizesFit, SameUse
<1> QED
  BY <1>1, <1>2, <1>4, <1>5, <1>6, <1>7, <1>8 DEF AsRight

\* A step of a thread that changes only where it is in its call.
GotoLocals(t, label, l) ==
    /\ Goto(t, label, l) /\ SameUse
    /\ UNCHANGED <<asvars, hwvars>>
    /\ label \in Labels /\ l \in Locals

LEMMA LocalIs ==
  ASSUME AsTypes, NEW t \in Threads, NEW label, NEW l, GotoLocals(t, label, l)
  PROVE  /\ pc'[t] = label /\ loc'[t] = l /\ t_addrspace' = t_addrspace
         /\ as' = as /\ tlb' = tlb /\ Steady /\ On(t)' = On(t)
         /\ \A u \in Threads \ {t} : SameCall(u)
         /\ pc' \in [Threads -> Labels] /\ loc' \in [Threads -> Locals]
         /\ Boards' = Boards
         /\ \A v : Hit(t, v)' <=> Hit(t, v)
<1>1. /\ pc' = [pc EXCEPT ![t] = label] /\ loc' = [loc EXCEPT ![t] = l]
      /\ pc \in [Threads -> Labels] /\ loc \in [Threads -> Locals]
      /\ label \in Labels /\ l \in Locals
  BY DEF GotoLocals, Goto, AsTypes
<1>2. /\ t_addrspace' = t_addrspace /\ as' = as /\ tlb' = tlb
      /\ c_curthread' = c_curthread /\ SameUse
  BY DEF GotoLocals, asvars, hwvars
<1>3. Boards' = Boards /\ On(t)' = On(t)
  BY <1>2 DEF Boards, On
<1>4. \A v : Hit(t, v)' <=> Hit(t, v)
  BY <1>2, <1>3 DEF Hit
<1> QED
  BY <1>1, <1>2, <1>3, <1>4 DEF SameCall, Steady

LEMMA LocalStep ==
  ASSUME AsTypes, AsRight, NEW t \in Threads, NEW label, NEW l,
         GotoLocals(t, label, l), lk_exec' = lk_exec, l.exec = loc[t].exec,
         \A id \in AsIds : Has(t, id)' <=> Has(t, id),
         ThreadRight(t)', label = "prepare" => pc[t] = "prepare"
  PROVE  AsTypes' /\ AsRight'
<1>1. /\ pc'[t] = label /\ loc'[t] = l /\ t_addrspace' = t_addrspace
      /\ as' = as /\ tlb' = tlb /\ Steady /\ On(t)' = On(t)
      /\ \A u \in Threads \ {t} : SameCall(u)
      /\ pc' \in [Threads -> Labels] /\ loc' \in [Threads -> Locals]
      /\ Boards' = Boards
  BY LocalIs
<1>2. AsTypes'
  BY <1>1 DEF AsTypes, Steady
<1>3. Acts(t, NULL)
  BY <1>1, NullIs DEF Acts
<1>4. \A c \in On(t) : EntriesRight(c)'
  <2> SUFFICES ASSUME NEW c \in On(t)
               PROVE  EntriesRight(c)'
    OBVIOUS
  <2>1. c \in Boards /\ c_curthread[c] = t /\ c_curthread'[c] = t
    BY <1>1 DEF On, Steady
  <2>2. EntriesRight(c)
    BY <2>1 DEF AsRight
  <2> QED
    BY <1>1, <2>1, <2>2 DEF EntriesRight
<1>5. lk_exec' = t <=> loc'[t].exec
  BY <1>1 DEF AsRight, ExecRight
<1> QED
  BY <1>2, <1>3, <1>4, <1>5, ActsKept

-----------------------------------------------------------------------------
\* as_activate leaves no entry that could be wrong.
LEMMA FlushIs ==
  ASSUME AsTypes, NEW t \in Threads, Flush(t)
  PROVE  /\ c_curthread' = c_curthread /\ Boards' = Boards
         /\ tlb' \in [Boards -> Seq(Entry)]
         /\ \A c \in On(t) : tlb'[c] = << >> /\ EntriesRight(c)'
         /\ \A c \in Boards \ On(t) : tlb'[c] = tlb[c]
<1>1. /\ c_curthread' = c_curthread
      /\ tlb' = [c \in Boards |-> IF c \in On(t) THEN << >> ELSE tlb[c]]
  BY DEF Flush
<1>2. Boards' = Boards
  BY <1>1 DEF Boards
<1>3. On(t) \subseteq Boards
  BY DEF On
<1>4. tlb' \in [Boards -> Seq(Entry)]
  BY <1>1 DEF AsTypes
<1>5. \A c \in On(t) : tlb'[c] = << >>
  BY <1>1, <1>3
<1>6. \A c \in On(t) : EntriesRight(c)'
  BY <1>5 DEF EntriesRight
<1> QED
  BY <1>1, <1>2, <1>4, <1>5, <1>6

\* A thread whose TLB is emptied, with what it then has.
LEMMA FlushStep ==
  ASSUME AsTypes, AsRight, NEW t \in Threads, NEW a,
         NEW label \in Labels, NEW l \in Locals, NEW id \in AsOrNull,
         Flush(t), Goto(t, label, l),
         t_addrspace' = [t_addrspace EXCEPT ![t] = id],
         as' \in [AsIds -> Addrspace \union {NULL}],
         Acts(t, a), CallRight(t)', l.fault = << >>,
         lk_exec' = t <=> l.exec
  PROVE  AsTypes' /\ AsRight'
<1>1. /\ pc' \in [Threads -> Labels] /\ loc' \in [Threads -> Locals]
      /\ t_addrspace' \in [Threads -> AsOrNull]
      /\ loc'[t] = l
  BY DEF AsTypes, Goto
<1>2. AsTypes'
  BY <1>1, FlushIs DEF AsTypes
<1>3. ThreadRight(t)'
  BY <1>1 DEF ThreadRight, FaultRight
<1> QED
  BY <1>1, <1>2, <1>3, FlushIs, ActsKept

\* A thread gives up an address space.
LEMMA FreesIs ==
  ASSUME NEW t \in Threads, NEW a \in AsIds, Steady,
         \A u \in Threads \ {t} :
           SameCall(u) /\ (lk_exec' = u <=> lk_exec = u),
         \A c \in Boards \ On(t) : tlb'[c] = tlb[c],
         \A x \in AsIds \ {a} : as'[x] = as[x] /\ (Has(t, x)' <=> Has(t, x)),
         Has(t, a), ~Has(t, a)', as'[a] = NULL
  PROVE  Acts(t, a)
<1>1. Has(t, a)' <=> as'[a] # NULL
  OBVIOUS
<1>2. as'[a] # NULL => SizesFit(as[a])'
  OBVIOUS
<1> QED
  BY <1>1, <1>2 DEF Acts

LEMMA LabelsNoLocals == NoLocals \in Locals
BY DEF NoLocals, Locals, AsOrNull

\* What the step of a thread leaves of the others.
LEMMA OthersSame ==
  ASSUME AsTypes, NEW t \in Threads, NEW label, NEW l, NEW id,
         Goto(t, label, l),
         t_addrspace' = [t_addrspace EXCEPT ![t] = id]
  PROVE  /\ pc'[t] = label /\ loc'[t] = l /\ t_addrspace'[t] = id
         /\ \A u \in Threads \ {t} : SameCall(u)
BY DEF AsTypes, Goto, SameCall

\* thread_exit frees the address space.
LEMMA ExitKept ==
  ASSUME AsTypes, AsRight, SameUse, NEW t \in Threads, ThreadExit(t),
         pc[t] \in Loading \union Outside, ~loc[t].exec
  PROVE  AsTypes' /\ AsRight'
<1>0. PICK id : id = t_addrspace[t]
  OBVIOUS
<1>1. CallRight(t) /\ (lk_exec = t <=> loc[t].exec)
  BY DEF AsRight, ThreadRight, ExecRight
<1>2. id # NULL /\ loc[t].old = NULL
  BY <1>0, <1>1 DEF CallRight, Loading, Outside
<1>3. id \in AsIds
  BY <1>0, <1>2 DEF AsTypes, AsOrNull
<1>4. /\ t_addrspace' = [t_addrspace EXCEPT ![t] = NULL]
      /\ as' = [as EXCEPT ![id] = NULL]
      /\ Flush(t) /\ Goto(t, "new", NoLocals) /\ lk_exec' = lk_exec
  BY <1>0, <1>2 DEF ThreadExit
<1>5. /\ pc'[t] = "new" /\ loc'[t] = NoLocals /\ t_addrspace'[t] = NULL
      /\ \A u \in Threads \ {t} : SameCall(u)
  BY <1>4, OthersSame
<1>6. as' \in [AsIds -> Addrspace \union {NULL}] /\ as'[id] = NULL
      /\ \A x \in AsIds \ {id} : as'[x] = as[x]
  BY <1>3, <1>4 DEF AsTypes
<1>7. \A x \in AsIds : ~Has(t, x)'
  BY <1>5, NullIs DEF Has, NoLocals
<1>8. \A x \in AsIds \ {id} : ~Has(t, x)
  BY <1>0, <1>2, NullIs DEF Has, Loading, Outside
<1>9. Steady
  BY <1>4, FlushIs DEF Steady
<1>10. \A c \in Boards \ On(t) : tlb'[c] = tlb[c]
  BY <1>4, FlushIs
<1>15. Has(t, id) /\ ~Has(t, id)'
  BY <1>0, <1>3, <1>7 DEF Has
<1>16. \A u \in Threads \ {t} : SameCall(u) /\ (lk_exec' = u <=> lk_exec = u)
  BY <1>4, <1>5
<1>17. \A x \in AsIds \ {id} : as'[x] = as[x] /\ (Has(t, x)' <=> Has(t, x))
  BY <1>6, <1>7, <1>8
<1>11. Acts(t, id)
  BY <1>3, <1>6, <1>9, <1>10, <1>15, <1>16, <1>17, FreesIs
<1>12. CallRight(t)'
  BY <1>5 DEF CallRight, NoLocals, Loading, Outside
<1>13. /\ NoLocals \in Locals /\ "new" \in Labels /\ NULL \in AsOrNull
       /\ NoLocals.fault = << >> /\ NoLocals.exec = FALSE
  BY LabelsNoLocals DEF NoLocals, Labels, AsOrNull
<1>14. lk_exec' = t <=> NoLocals.exec
  BY <1>1, <1>4, <1>13
<1> QED
  BY <1>4, <1>6, <1>11, <1>12, <1>13, <1>14, FlushStep

\* sys_execv goes back to the address space it came from.
LEMMA ExecFailsKept ==
  ASSUME AsTypes, AsRight, SameUse, NEW t \in Threads, ExecFails(t),
         pc[t] \in Loading, loc[t].exec
  PROVE  AsTypes' /\ AsRight'
<1>0. PICK id, old : id = t_addrspace[t] /\ old = loc[t].old
  OBVIOUS
<1>1. CallRight(t) /\ ExecRight
  BY DEF AsRight, ThreadRight
<1>2. id # NULL /\ old # NULL /\ old # id
  BY <1>0, <1>1 DEF CallRight
<1>3. id \in AsIds /\ old \in AsIds
  BY <1>0, <1>2 DEF AsTypes, AsOrNull, Locals
<1>4. /\ t_addrspace' = [t_addrspace EXCEPT ![t] = old]
      /\ as' = [as EXCEPT ![id] = NULL]
      /\ Flush(t) /\ Goto(t, "user", NoLocals) /\ lk_exec' = NULL
  BY <1>0 DEF ExecFails
<1>5. /\ pc'[t] = "user" /\ loc'[t] = NoLocals /\ t_addrspace'[t] = old
      /\ \A u \in Threads \ {t} : SameCall(u)
  BY <1>4, OthersSame
<1>6. as' \in [AsIds -> Addrspace \union {NULL}] /\ as'[id] = NULL
      /\ \A x \in AsIds \ {id} : as'[x] = as[x]
  BY <1>3, <1>4 DEF AsTypes
<1>7. \A x \in AsIds : Has(t, x)' <=> x = old
  BY <1>5, NullIs DEF Has, NoLocals
<1>8. \A x \in AsIds \ {id} : Has(t, x) <=> x = old
  BY <1>0, <1>2 DEF Has, Loading
<1>9. Steady
  BY <1>4, FlushIs DEF Steady
<1>10. \A c \in Boards \ On(t) : tlb'[c] = tlb[c]
  BY <1>4, FlushIs
<1>11. lk_exec = t
  BY <1>1 DEF ExecRight
<1>12. \A u \in Threads \ {t} : lk_exec' = u <=> lk_exec = u
  BY <1>4, <1>11, NullIs
<1>13. Has(t, id)
  BY <1>0 DEF Has
<1>18. ~Has(t, id)'
  BY <1>2, <1>3, <1>7
<1>19. \A u \in Threads \ {t} : SameCall(u) /\ (lk_exec' = u <=> lk_exec = u)
  BY <1>5, <1>12
<1>20. \A x \in AsIds \ {id} : as'[x] = as[x] /\ (Has(t, x)' <=> Has(t, x))
  BY <1>6, <1>7, <1>8
<1>14. Acts(t, id)
  BY <1>3, <1>6, <1>9, <1>10, <1>13, <1>18, <1>19, <1>20, FreesIs
<1>15. CallRight(t)'
  BY <1>2, <1>5 DEF CallRight, NoLocals, Loading, Outside
<1>16. /\ NoLocals \in Locals /\ "user" \in Labels /\ old \in AsOrNull
       /\ NoLocals.fault = << >> /\ NoLocals.exec = FALSE
  BY <1>3, LabelsNoLocals DEF NoLocals, Labels, AsOrNull
<1>17. lk_exec' = t <=> NoLocals.exec
  BY <1>4, <1>16, NullIs
<1> QED
  BY <1>4, <1>6, <1>14, <1>15, <1>16, <1>17, FlushStep

\* load_elf returns an error, to runprogram or to sys_execv.
LEMMA LoadFailsKept ==
  ASSUME AsTypes, AsRight, SameUse, NEW t \in Threads, LoadFails(t),
         pc[t] \in Loading
  PROVE  AsTypes' /\ AsRight'
BY ExitKept, ExecFailsKept DEF LoadFails

-----------------------------------------------------------------------------
\* A fault, and the entry that is made for it, are of the process's own.
Using == {"user"} \union Copying
LEMMA OwnAs ==
  ASSUME AsTypes, AsRight, NEW t \in Threads, pc[t] \in Using \union Loading
  PROVE  /\ t_addrspace[t] \in AsIds /\ as[t_addrspace[t]] \in Addrspace
         /\ Has(t, t_addrspace[t])
<1>1. CallRight(t)
  BY DEF AsRight, ThreadRight
<1>2. t_addrspace[t] # NULL
  BY <1>1 DEF CallRight, Using, Copying, Loading, Outside
<1>3. t_addrspace[t] \in AsIds
  BY <1>2 DEF AsTypes, AsOrNull
<1>4. Has(t, t_addrspace[t])
  BY DEF Has
<1>5. as[t_addrspace[t]] # NULL
  BY <1>3, <1>4 DEF AsRight, OwnRight
<1> QED
  BY <1>3, <1>4, <1>5 DEF AsTypes

\* A call returns, or a program starts: the process is in its program.
LEMMA ToUserKept ==
  ASSUME AsTypes, AsRight, NEW t \in Threads, pc[t] \in Outside \union Loading,
         ~loc[t].exec, GotoLocals(t, "user", NoLocals), lk_exec' = lk_exec
  PROVE  AsTypes' /\ AsRight'
<1>1. CallRight(t) /\ pc'[t] = "user" /\ loc'[t] = NoLocals
      /\ t_addrspace' = t_addrspace
  BY LocalIs DEF AsRight, ThreadRight
<1>2. /\ NoLocals.exec = FALSE /\ NoLocals.old = NULL /\ NoLocals.new = NULL
      /\ NoLocals.fault = << >>
  BY DEF NoLocals
<1>3. t_addrspace[t] # NULL /\ loc[t].old = NULL
  BY <1>1 DEF CallRight, Outside, Loading
<1>4. \A id \in AsIds : Has(t, id)' <=> Has(t, id)
  BY <1>1, <1>2, <1>3 DEF Has, Outside, Loading
<1>5. CallRight(t)'
  BY <1>1, <1>2, <1>3 DEF CallRight, Loading, Outside
<1>6. ThreadRight(t)'
  BY <1>1, <1>2, <1>5 DEF ThreadRight, FaultRight
<1>7. NoLocals.exec = loc[t].exec
  BY <1>2 DEF AsTypes, Locals
<1> QED
  BY <1>4, <1>6, <1>7, LocalStep

LEMMA FaultFailsKept ==
  ASSUME AsTypes, AsRight, SameUse, NEW t \in Threads, FaultFails(t),
         pc[t] \in Using
  PROVE  AsTypes' /\ AsRight'
<1>1. CASE pc[t] \in {"load", "args"}
  BY <1>1, LoadFailsKept DEF FaultFails, Loading
<1>2. CASE pc[t] = "copy"
  <2>1. Goto(t, "user", NoLocals) /\ UNCHANGED <<asvars, hwvars, lk_exec>>
    BY <1>2 DEF FaultFails
  <2>2. ~loc[t].exec
    BY <1>2 DEF AsRight, ThreadRight, CallRight, Outside
  <2> QED
    BY <1>2, <2>1, <2>2, ToUserKept, LabelsNoLocals
    DEF GotoLocals, Labels, Outside
<1>3. CASE pc[t] \in {"printf", "user"}
  <2>1. UNCHANGED avars
    BY <1>3 DEF FaultFails, Panic
  <2> QED
    BY <2>1, AsStays
<1> QED
  BY <1>1, <1>2, <1>3 DEF Using, Copying

LEMMA VmFaultKept ==
  ASSUME AsTypes, AsRight, SameUse, NEW t \in Threads, NEW v \in Nat,
         VmFault(t, v), pc[t] \in Using
  PROVE  AsTypes' /\ AsRight'
<1>0. PICK p : p = Translate(as[t_addrspace[t]], v)
  OBVIOUS
<1> DEFINE l == [loc[t] EXCEPT !.fault = <<v, p>>]
<1>1. CASE Panic("as not set up")
  BY <1>1, AsStays DEF Panic
<1>2. CASE FaultFails(t)
  BY <1>2, FaultFailsKept
<1>3. CASE Goto(t, pc[t], l) /\ UNCHANGED <<asvars, hwvars, lk_exec>>
  <2>1. p \in Nat
    BY <1>0, OwnAs, TranslateNat
  <2>2. loc[t] \in Locals /\ pc[t] \in Labels
    BY DEF AsTypes
  <2>3. /\ l \in Locals
        /\ l.exec = loc[t].exec /\ l.old = loc[t].old /\ l.new = loc[t].new
        /\ l.prog = loc[t].prog /\ l.child = loc[t].child
        /\ l.fault = <<v, p>>
    BY <2>1, <2>2 DEF Locals
  <2>14. l.fault[1] = v /\ l.fault[2] = p
    BY <2>3
  <2> HIDE DEF l
  <2>4. GotoLocals(t, pc[t], l)
    BY <1>3, <2>2, <2>3 DEF GotoLocals
  <2>5. /\ pc'[t] = pc[t] /\ loc'[t] = l /\ t_addrspace' = t_addrspace
        /\ as' = as /\ \A w : Hit(t, w)' <=> Hit(t, w)
    BY <2>4, LocalIs
  <2>6. \A id \in AsIds : Has(t, id)' <=> Has(t, id)
    BY <2>3, <2>5 DEF Has
  <2>7. CallRight(t)
    BY DEF AsRight, ThreadRight
  <2>8. CallRight(t)'
    <3>1. pc[t] \notin {"new", "create", "prepare", "fork", "copied", "child"}
      BY DEF Using, Copying
    <3> QED
      BY <2>3, <2>5, <2>7, <3>1
      DEF CallRight, Loading, Outside, Using, Copying
  <2>9. ~Hit(t, v)
    BY DEF VmFault
  <2>11. /\ loc'[t].fault[1] = v
         /\ loc'[t].fault[2] = Translate(as'[t_addrspace'[t]], v)
    BY <1>0, <2>5, <2>14
  <2>12. ~Hit(t, v)'
    BY <2>5, <2>9
  <2>13. ~Hit(t, loc[t].fault[1])'
    BY <2>11, <2>12 DEF Hit
  <2>10. FaultRight(t)'
    BY <2>11, <2>13 DEF FaultRight
  <2> QED
    BY <1>3, <2>3, <2>4, <2>6, <2>8, <2>10, LocalStep DEF ThreadRight
<1> QED
  BY <1>0, <1>1, <1>2, <1>3 DEF VmFault

\* tlb_write.
LEMMA TlbWriteKept ==
  ASSUME AsTypes, AsRight, NEW t \in Threads, TlbWrite(t)
  PROVE  AsTypes' /\ AsRight'
<1> DEFINE c == CHOOSE x \in On(t) : TRUE
           f == loc[t].fault
           l == [loc[t] EXCEPT !.fault = << >>]
           e == [v |-> f[1], p |-> f[2]]
<1>1. pc[t] \in Using /\ SameUse /\ f # << >> /\ On(t) # {}
  BY DEF TlbWrite, AtAny, SameUse, Using
<1>2. CASE Full(c)
  <2>1. FaultFails(t)
    BY <1>2 DEF TlbWrite
  <2> QED
    BY <1>1, <2>1, FaultFailsKept
<1>3. CASE ~Full(c)
  <2>1. /\ tlb' = [tlb EXCEPT ![c] = Append(tlb[c], e)]
        /\ Goto(t, pc[t], l)
        /\ UNCHANGED <<c_curthread, asvars, lk_exec>>
    BY <1>3 DEF TlbWrite
  <2>2. c \in On(t)
    BY <1>1
  <2>3. PICK b : b = c /\ b \in On(t) /\ b \in Boards
                 /\ c_curthread[b] = t /\ On(t) = {b}
                 /\ \A v : Hit(t, v) <=>
                              \E i \in DOMAIN tlb[b] : tlb[b][i].v = v
    BY <2>2, OnIs DEF AsRight
  <2>4. loc[t] \in Locals /\ pc[t] \in Labels
    BY DEF AsTypes
  <2>5. /\ l \in Locals
        /\ l.exec = loc[t].exec /\ l.old = loc[t].old /\ l.new = loc[t].new
        /\ l.prog = loc[t].prog /\ l.child = loc[t].child
        /\ l.fault = << >>
    BY <2>4 DEF Locals
  <2>6. f \in Nat \X Nat
    BY <1>1, <2>4 DEF Locals
  <2>7. e \in Entry /\ e.v = f[1] /\ e.p = f[2]
    BY <2>6 DEF Entry
  <2>8. /\ e.p = Translate(as[t_addrspace[t]], e.v)
        /\ \A i \in DOMAIN tlb[b] : tlb[b][i].v # e.v
    BY <1>1, <2>3, <2>7 DEF AsRight, ThreadRight, FaultRight
  <2> HIDE DEF l, e, c, f
  <2>9. /\ pc'[t] = pc[t] /\ loc'[t] = l /\ t_addrspace' = t_addrspace
        /\ pc' \in [Threads -> Labels] /\ loc' \in [Threads -> Locals]
        /\ \A u \in Threads \ {t} : SameCall(u)
    BY <2>1, <2>4, <2>5 DEF AsTypes, Goto, SameCall, asvars
  <2>10. /\ Boards' = Boards /\ Steady /\ as' = as
         /\ tlb' \in [Boards -> Seq(Entry)]
         /\ tlb'[b] = Append(tlb[b], e)
         /\ \A d \in Boards \ {b} : tlb'[d] = tlb[d]
    BY <1>1, <2>1, <2>3, <2>7 DEF AsTypes, Boards, Steady, asvars
  <2>11. AsTypes'
    BY <2>1, <2>9, <2>10 DEF AsTypes, asvars
  <2>12. \A id \in AsIds : Has(t, id)' <=> Has(t, id)
    BY <2>5, <2>9 DEF Has
  <2>13. Acts(t, NULL)
    BY <2>1, <2>3, <2>9, <2>10, <2>12, NullIs DEF Acts
  <2>14. CallRight(t)
    BY DEF AsRight, ThreadRight
  <2>15. CallRight(t)'
    <3>1. pc[t] \notin {"new", "create", "prepare", "fork", "copied", "child"}
      BY <1>1 DEF Using, Copying
    <3> QED
      BY <2>5, <2>9, <2>14, <3>1
      DEF CallRight, Loading, Outside, Using, Copying
  <2>16. ThreadRight(t)'
    BY <2>5, <2>9, <2>15 DEF ThreadRight, FaultRight
  <2>17. EntriesRight(b)'
    <3>1. EntriesRight(b) /\ t_addrspace[t] # NULL /\ tlb[b] \in Seq(Entry)
      BY <1>1, <2>3, OwnAs, NullIs DEF AsRight, AsTypes
    <3>2. /\ \A i \in DOMAIN tlb[b] :
               /\ tlb[b][i].p = Translate(as[t_addrspace[t]], tlb[b][i].v)
               /\ \A k \in DOMAIN tlb[b] :
                    tlb[b][k].v = tlb[b][i].v => k = i
      BY <2>3, <3>1, NullIs DEF EntriesRight
    <3>3. /\ DOMAIN tlb'[b] = DOMAIN tlb[b] \union {Len(tlb[b]) + 1}
          /\ Len(tlb[b]) + 1 \notin DOMAIN tlb[b]
          /\ \A i \in DOMAIN tlb[b] : tlb'[b][i] = tlb[b][i]
          /\ tlb'[b][Len(tlb[b]) + 1] = e
      BY <2>10, <2>7, <3>1
    <3>4. \A i \in DOMAIN tlb'[b] :
            /\ tlb'[b][i].p = Translate(as[t_addrspace[t]], tlb'[b][i].v)
            /\ \A k \in DOMAIN tlb'[b] : tlb'[b][k].v = tlb'[b][i].v => k = i
      BY <2>8, <3>2, <3>3
    <3>5. \A i \in DOMAIN tlb'[b] :
            /\ tlb'[b][i].p = Translate(as'[t_addrspace'[t]], tlb'[b][i].v)
            /\ \A k \in DOMAIN tlb'[b] : tlb'[b][k].v = tlb'[b][i].v => k = i
      BY <3>4, <2>9, <2>10
    <3>6. c_curthread'[b] = t /\ pc'[t] # "prepare"
      BY <1>1, <2>1, <2>3, <2>9 DEF Using, Copying
    <3> QED
      BY <3>5, <3>6 DEF EntriesRight
  <2>18. lk_exec' = t <=> loc'[t].exec
    BY <2>1, <2>5, <2>9 DEF AsRight, ExecRight
  <2>19. \A d \in On(t) : EntriesRight(d)'
    BY <2>3, <2>17
  <2> QED
    BY <2>11, <2>13, <2>16, <2>18, <2>19, ActsKept
<1> QED
  BY <1>2, <1>3

LEMMA CopyFaultKept ==
  ASSUME AsTypes, AsRight, NEW t \in Threads, CopyFault(t)
  PROVE  AsTypes' /\ AsRight'
<1>1. /\ pc[t] \in Copying /\ loc[t].todo # << >> /\ SameUse
      /\ VmFault(t, Wanted(t))
  BY DEF CopyFault, AtAny, SameUse, VmFault
<1>2. Wanted(t) \in Nat
  BY <1>1 DEF Wanted, AsTypes, Locals
<1> QED
  BY <1>1, <1>2, VmFaultKept DEF Using

-----------------------------------------------------------------------------
\* A step of a thread that has one address space changed, or gone, and the
\* TLB of its processor left as it is.
LEMMA OwnStep ==
  ASSUME AsTypes, AsRight, NEW t \in Threads, NEW a,
         NEW label \in Labels, NEW l \in Locals,
         Goto(t, label, l), UNCHANGED <<t_addrspace, hwvars>>,
         as' \in [AsIds -> Addrspace \union {NULL}],
         Acts(t, a), CallRight(t)', l.fault = << >>,
         \A c \in On(t) : EntriesRight(c)', lk_exec' = t <=> l.exec
  PROVE  AsTypes' /\ AsRight'
<1>1. /\ pc' \in [Threads -> Labels] /\ loc' \in [Threads -> Locals]
      /\ loc'[t] = l
  BY DEF AsTypes, Goto
<1>2. AsTypes'
  BY <1>1 DEF AsTypes, Boards, hwvars
<1>3. ThreadRight(t)'
  BY <1>1 DEF ThreadRight, FaultRight
<1> QED
  BY <1>1, <1>2, <1>3, ActsKept

\* Its TLB stays right while its own address space stays.
LEMMA OwnEntries ==
  ASSUME NEW t \in Threads, NEW c \in Boards, EntriesRight(c),
         c_curthread[c] = t, c_curthread'[c] = t, tlb' = tlb,
         NEW id, t_addrspace[t] = id, t_addrspace'[t] = id, id # NULL,
         as'[id] = as[id], pc'[t] # "prepare"
  PROVE  EntriesRight(c)'
<1>1. \A i \in DOMAIN tlb[c] :
        /\ tlb[c][i].p = Translate(as[id], tlb[c][i].v)
        /\ \A k \in DOMAIN tlb[c] : tlb[c][k].v = tlb[c][i].v => k = i
  BY NullIs DEF EntriesRight
<1>2. as'[t_addrspace'[t]] = as[id]
  OBVIOUS
<1>3. \A i \in DOMAIN tlb'[c] :
        /\ tlb'[c][i].p = Translate(as'[t_addrspace'[t]], tlb'[c][i].v)
        /\ \A k \in DOMAIN tlb'[c] : tlb'[c][k].v = tlb'[c][i].v => k = i
  BY <1>1, <1>2
<1> QED
  BY <1>3 DEF EntriesRight

LEMMA NoLocalsAre ==
  /\ NoLocals \in Locals /\ NoLocals.exec = FALSE /\ NoLocals.old = NULL
  /\ NoLocals.new = NULL /\ NoLocals.fault = << >>
BY LabelsNoLocals DEF NoLocals

\* fork gives up what it has made of the child's address space.
LEMMA ForkFailsKept ==
  ASSUME AsTypes, AsRight, SameUse, NEW t \in Threads, ForkFails(t),
         pc[t] \in {"fork", "copied"}
  PROVE  AsTypes' /\ AsRight'
<1>0. PICK a : a = loc[t].new
  OBVIOUS
<1>1. CallRight(t) /\ ExecRight
  BY DEF AsRight, ThreadRight
<1>2. /\ a # NULL /\ t_addrspace[t] # NULL /\ a # t_addrspace[t]
      /\ ~loc[t].exec /\ loc[t].old = NULL
  BY <1>0, <1>1 DEF CallRight
<1>3. a \in AsIds
  BY <1>0, <1>2 DEF AsTypes, AsOrNull, Locals
<1>4. /\ as' = [as EXCEPT ![a] = NULL] /\ Goto(t, "user", NoLocals)
      /\ UNCHANGED <<t_addrspace, hwvars, lk_exec>>
  BY <1>0 DEF ForkFails
<1>5. /\ pc'[t] = "user" /\ loc'[t] = NoLocals /\ t_addrspace' = t_addrspace
      /\ \A u \in Threads \ {t} : SameCall(u)
  BY <1>4 DEF AsTypes, Goto, SameCall
<1>6. as' \in [AsIds -> Addrspace \union {NULL}] /\ as'[a] = NULL
      /\ \A x \in AsIds \ {a} : as'[x] = as[x]
  BY <1>3, <1>4 DEF AsTypes
<1>7. /\ Has(t, a) /\ ~Has(t, a)'
      /\ \A x \in AsIds \ {a} : Has(t, x)' <=> Has(t, x)
  BY <1>0, <1>2, <1>3, <1>5, NoLocalsAre, NullIs DEF Has
<1>8. Steady /\ tlb' = tlb
  BY <1>4 DEF Steady, hwvars
<1>9. Acts(t, a)
  BY <1>3, <1>4, <1>5, <1>6, <1>7, <1>8, FreesIs
<1>10. CallRight(t)'
  BY <1>2, <1>5, NoLocalsAre DEF CallRight, Loading, Outside
<1>11. ASSUME NEW c \in On(t)
       PROVE  EntriesRight(c)'
  <2>1. /\ c \in Boards /\ c_curthread[c] = t /\ c_curthread'[c] = t
        /\ EntriesRight(c)
    BY <1>4 DEF On, hwvars, AsRight
  <2>2. PICK x : /\ x = as[t_addrspace[t]]
                 /\ as'[t_addrspace'[t]] = x
    BY <1>2, <1>5, <1>6 DEF AsTypes, AsOrNull
  <2>3. t # NULL /\ pc'[t] # "prepare"
    BY <1>5, NullIs
  <2>4. \A i \in DOMAIN tlb[c] :
          /\ tlb[c][i].p = Translate(x, tlb[c][i].v)
          /\ \A k \in DOMAIN tlb[c] : tlb[c][k].v = tlb[c][i].v => k = i
    BY <1>2, <2>1, <2>2, <2>3 DEF EntriesRight
  <2> QED
    BY <1>8, <2>1, <2>2, <2>3, <2>4 DEF EntriesRight
<1>12. lk_exec' = t <=> NoLocals.exec
  BY <1>1, <1>2, <1>4, NoLocalsAre DEF ExecRight
<1>13. "user" \in Labels
  BY DEF Labels
<1> QED
  BY <1>4, <1>6, <1>9, <1>10, <1>11, <1>12, <1>13, NoLocalsAre, OwnStep

\* as_prepare_load gets the pages of one more region.
Prepares(t, label, next, todo) ==
    LET id == loc[t].new
        a == as[id]
    IN
    /\ as' = [as EXCEPT ![id] = [a EXCEPT ![Field(a)] = firstpaddr]]
    /\ \/ Goto(t, next, [loc[t] EXCEPT !.todo = todo])
       \/ UNCHANGED <<pc, loc>>
    /\ UNCHANGED <<t_addrspace, hwvars, lk_exec>>

LEMMA FieldIs ==
  ASSUME NEW a \in Addrspace, NEW p \in Nat
  PROVE  LET b == [a EXCEPT ![Field(a)] = p] IN
         /\ b \in Addrspace
         /\ b.npages1 = a.npages1 /\ b.npages2 = a.npages2
         /\ b.vbase1 = a.vbase1 /\ b.vbase2 = a.vbase2
<1>1. CASE Field(a) = "pbase1"
  BY <1>1 DEF Addrspace
<1>2. CASE Field(a) = "pbase2"
  BY <1>2 DEF Addrspace
<1>3. CASE Field(a) = "stackpbase"
  BY <1>3 DEF Addrspace
<1> QED
  BY <1>1, <1>2, <1>3 DEF Field

LEMMA PreparesKept ==
  ASSUME AsTypes, AsRight, SameUse, firstpaddr \in Nat, NEW t \in Threads,
         NEW label, NEW next, NEW todo \in Seq(Nat), pc[t] = label,
         \/ label = "prepare" /\ next = "load"
         \/ label = "fork" /\ next = "copied",
         Prepares(t, label, next, todo)
  PROVE  AsTypes' /\ AsRight'
<1>0. PICK id, now, l : /\ id = loc[t].new /\ now = pc'[t] /\ l = loc'[t]
  OBVIOUS
<1>1. CallRight(t) /\ ExecRight
  BY DEF AsRight, ThreadRight
<1>2. id # NULL /\ t_addrspace[t] # NULL /\ Has(t, id)
  BY <1>0, <1>1 DEF CallRight, Loading, Has
<1>3. id \in AsIds
  BY <1>0, <1>2 DEF AsTypes, AsOrNull, Locals
<1>4. as[id] \in Addrspace /\ SizesFit(as[id])
  BY <1>2, <1>3 DEF AsTypes, AsRight, OwnRight, SizesRight
<1>5. PICK b \in Addrspace : /\ as' = [as EXCEPT ![id] = b]
                             /\ b.npages1 = as[id].npages1
                             /\ b.npages2 = as[id].npages2
  BY <1>0, <1>4, FieldIs DEF Prepares
<1>6. as' \in [AsIds -> Addrspace \union {NULL}] /\ as'[id] = b /\ b # NULL
      /\ \A x \in AsIds \ {id} : as'[x] = as[x]
  BY <1>3, <1>5, NullIs DEF AsTypes
<1>7. loc[t] \in Locals /\ pc[t] \in Labels /\ loc[t].fault = << >>
  BY <1>1 DEF AsTypes, CallRight, Copying
<1>8. /\ now \in {label, next} /\ now \in Labels
      /\ l \in Locals /\ Goto(t, now, l)
      /\ l.exec = loc[t].exec /\ l.old = loc[t].old /\ l.new = loc[t].new
      /\ l.prog = loc[t].prog /\ l.child = loc[t].child
      /\ l.fault = loc[t].fault
  <2>1. CASE Goto(t, next, [loc[t] EXCEPT !.todo = todo])
    <3>1. now = next /\ l = [loc[t] EXCEPT !.todo = todo]
      BY <1>0, <2>1 DEF Goto, AsTypes
    <3>2. next \in Labels
      BY DEF Labels
    <3> QED
      BY <1>7, <2>1, <3>1, <3>2 DEF Locals
  <2>2. CASE UNCHANGED <<pc, loc>>
    <3>1. now = label /\ l = loc[t]
      BY <1>0, <2>2
    <3>2. Goto(t, now, l)
      BY <2>2, <3>1 DEF Goto, AsTypes
    <3> QED
      BY <1>7, <3>1, <3>2
  <2> QED
    BY <2>1, <2>2 DEF Prepares
<1>9. /\ pc'[t] = now /\ loc'[t] = l /\ t_addrspace' = t_addrspace
      /\ \A u \in Threads \ {t} : SameCall(u)
  BY <1>8 DEF AsTypes, Goto, SameCall, Prepares
<1>10. \A x \in AsIds : Has(t, x)' <=> Has(t, x)
  BY <1>8, <1>9 DEF Has
<1>11. SizesFit(as[id])'
  BY <1>4, <1>5, <1>6 DEF SizesFit, SameUse
<1>12. Steady /\ tlb' = tlb /\ lk_exec' = lk_exec
  BY DEF Steady, Prepares, hwvars
<1>13. Acts(t, id)
  BY <1>2, <1>3, <1>6, <1>9, <1>10, <1>11, <1>12 DEF Acts
<1>14. CallRight(t)'
  BY <1>1, <1>8, <1>9 DEF CallRight, Loading, Outside, Copying
<1>15. ASSUME NEW c \in On(t)
       PROVE  EntriesRight(c)'
  <2>1. /\ c \in Boards /\ c_curthread[c] = t /\ c_curthread'[c] = t
        /\ EntriesRight(c)
    BY <1>12 DEF On, Steady, AsRight
  <2>2. CASE label = "prepare"
    <3>1. tlb'[c] = << >>
      BY <1>12, <2>1, <2>2, NullIs DEF EntriesRight
    <3> QED
      BY <3>1 DEF EntriesRight
  <2>3. CASE label = "fork"
    <3>1. t_addrspace[t] # id /\ now # "prepare"
      BY <1>0, <1>1, <1>8, <2>3 DEF CallRight
    <3>2. as'[t_addrspace[t]] = as[t_addrspace[t]]
      BY <1>2, <1>6, <3>1 DEF AsTypes, AsOrNull
    <3> QED
      BY <1>9, <1>12, <2>1, <3>1, <3>2 DEF EntriesRight
  <2> QED
    BY <2>2, <2>3
<1>16. lk_exec' = t <=> l.exec
  BY <1>1, <1>8, <1>12 DEF ExecRight
<1> QED
  BY <1>6, <1>7, <1>8, <1>13, <1>14, <1>15, <1>16, OwnStep DEF Prepares

-----------------------------------------------------------------------------
\* Loading: what is to be copied is a sequence of pages.
LEMMA ProgIs ==
  ASSUME NEW prog \in Programs
  PROVE  /\ 1 \in DOMAIN prog
         /\ \A i \in DOMAIN prog : /\ prog[i].vaddr \in Nat
                                   /\ prog[i].memsz \in Nat
                                   /\ prog[i].filesz \in Nat
<1> DEFINE S == [vaddr : Nat, memsz : Nat, filesz : Nat]
<1>1. prog \in Seq(S) /\ Len(prog) \in 1 .. 3
  BY ProgramAssumptions
<1>2. \A s \in S : s.vaddr \in Nat /\ s.memsz \in Nat /\ s.filesz \in Nat
  OBVIOUS
<1> HIDE DEF S
<1>3. DOMAIN prog = 1 .. Len(prog) /\ \A i \in DOMAIN prog : prog[i] \in S
  BY <1>1
<1> QED
  BY <1>1, <1>2, <1>3

LEMMA DivIs ==
  ASSUME NEW x \in Nat, NEW p \in Nat, p > 0
  PROVE  x \div p \in Nat /\ p * (x \div p) <= x /\ x < p * (x \div p) + p
OBVIOUS

\* Pages from bytes.
LEMMA PagesAre ==
  ASSUME NEW x \in Nat
  PROVE  /\ x \div PAGE_SIZE \in Nat /\ x % PAGE_SIZE \in Nat
         /\ WholePages(x) \in Nat /\ RoundedPages(x) \in Nat
<1>1. PICK p : p = PAGE_SIZE /\ p \in Nat /\ p > 0
  BY RamAssumptions
<1>2. PICK m : m = ADDRPAGES * PAGE_SIZE /\ m \in Nat /\ m > 0
  <2>1. ADDRPAGES \in Nat /\ ADDRPAGES > 0
    BY RamAssumptions DEF Wraps
  <2> QED
    BY <1>1, <2>1
<1>3. PICK y : y = x + PAGE_SIZE - 1 /\ y \in Nat
  BY <1>1
<1>4. PICK z : z = y % m /\ z \in Nat
  BY <1>2, <1>3
<1>5. x \div PAGE_SIZE \in Nat /\ WholePages(x) \in Nat
  BY <1>1, <1>3, DivIs DEF WholePages
<1>6. RoundedPages(x) = z \div p /\ z \div p \in Nat
  BY <1>1, <1>2, <1>3, <1>4, DivIs DEF RoundedPages
<1> QED
  BY <1>1, <1>5, <1>6

LEMMA SegmentIs ==
  ASSUME NEW prog \in Programs, NEW i \in DOMAIN prog
  PROVE  /\ SegBase(prog[i]) \in Nat /\ SegSize(prog[i]) \in Nat
         /\ FilePages(prog[i]) \in Nat
<1>1. PICK v, m, f :
        /\ v = prog[i].vaddr /\ m = prog[i].memsz /\ f = prog[i].filesz
        /\ v \in Nat /\ m \in Nat /\ f \in Nat
  BY ProgIs
<1>2. PICK o : o = v % PAGE_SIZE /\ o \in Nat
  BY <1>1, PagesAre
<1>3. o + m \in Nat /\ o + f \in Nat
  BY <1>1, <1>2
<1>4. SegBase(prog[i]) = v \div PAGE_SIZE
  BY <1>1 DEF SegBase
<1>5. SegSize(prog[i]) = RoundedPages(o + m)
  BY <1>1, <1>2 DEF SegSize
<1>6. FilePages(prog[i]) = IF f = 0 THEN 0 ELSE WholePages(o + f)
  BY <1>1, <1>2 DEF FilePages
<1> QED
  BY <1>1, <1>3, <1>4, <1>5, <1>6, PagesAre

LEMMA LoadPagesAre ==
  ASSUME NEW prog \in Programs
  PROVE  LoadPages(prog) \in Seq(Nat)
<1>1. ASSUME NEW i \in Nat
      PROVE  SegmentPages(prog, i) \in Seq(Nat)
  <2>1. CASE i \in DOMAIN prog
    <3>1. PICK n, v : n = FilePages(prog[i]) /\ v = SegBase(prog[i])
                      /\ n \in Nat /\ v \in Nat
      BY <2>1, SegmentIs
    <3>2. [k \in 1 .. n |-> v + k - 1] \in [1 .. n -> Nat]
      BY <3>1
    <3>3. [k \in 1 .. n |-> v + k - 1] \in Seq(Nat)
      BY <3>1, <3>2, SeqDef
    <3> QED
      BY <2>1, <3>1, <3>3 DEF SegmentPages
  <2>2. CASE i \notin DOMAIN prog
    BY <2>2 DEF SegmentPages
  <2> QED
    BY <2>1, <2>2
<1>2. /\ SegmentPages(prog, 1) \in Seq(Nat)
      /\ SegmentPages(prog, 2) \in Seq(Nat)
      /\ SegmentPages(prog, 3) \in Seq(Nat)
  BY <1>1
<1>3. SegmentPages(prog, 1) \o SegmentPages(prog, 2) \in Seq(Nat)
  BY <1>2, ConcatProperties
<1> QED
  BY <1>2, <1>3, ConcatProperties DEF LoadPages

\* as_define_region makes a struct addrspace of the sizes the program has.
LEMMA DefineIs ==
  ASSUME NEW prog \in Programs, NEW a \in Addrspace, NEW i,
         Fits(prog) => SizesFit(a)
  PROVE  /\ Define(a, prog, i) \in Addrspace
         /\ Fits(prog) => SizesFit(Define(a, prog, i))
         /\ \A k \in 1 .. 3 : Base(Define(a, prog, i), k) = Base(a, k)
<1>1. CASE i \notin DOMAIN prog
  BY <1>1 DEF Define
<1>2. CASE i \in DOMAIN prog
  <2>1. PICK v, n : /\ v = SegBase(prog[i]) /\ n = SegSize(prog[i])
                    /\ v \in Nat /\ n \in Nat
    BY <1>2, SegmentIs
  <2>2. PICK b : /\ b = Define(a, prog, i)
                 /\ \/ b = [a EXCEPT !.vbase1 = v, !.npages1 = n]
                    \/ b = [a EXCEPT !.vbase2 = v, !.npages2 = n]
    BY <1>2, <2>1 DEF Define, AsDefineRegion
  <2>3. /\ b \in Addrspace
        /\ b.npages1 = a.npages1 \/ b.npages1 = n
        /\ b.npages2 = a.npages2 \/ b.npages2 = n
        /\ b.pbase1 = a.pbase1 /\ b.pbase2 = a.pbase2
        /\ b.stackpbase = a.stackpbase
    BY <2>1, <2>2 DEF Addrspace
  <2>4. Fits(prog) => SizesFit(b)
    BY <1>2, <2>1, <2>3 DEF Fits, SizesFit
  <2> QED
    BY <2>2, <2>3, <2>4 DEF Base
<1> QED
  BY <1>1, <1>2

LEMMA DefinedIs ==
  ASSUME NEW prog \in Programs
  PROVE  /\ Defined(prog) \in Addrspace
         /\ Fits(prog) => SizesFit(Defined(prog))
         /\ \A k \in 1 .. 3 : Base(Defined(prog), k) = 0
<1>1. NewAs \in Addrspace
  BY DEF NewAs, Addrspace
<1>2. NewAs.npages1 = 0 /\ NewAs.npages2 = 0
      /\ \A k \in 1 .. 3 : Base(NewAs, k) = 0
  BY DEF NewAs, Base
<1>3. SizesFit(NewAs)
  BY <1>2, RamAssumptions DEF Wraps, SizesFit
<1>4. PICK a, b, c : /\ a = Define(NewAs, prog, 1)
                     /\ b = Define(a, prog, 2) /\ c = Define(b, prog, 3)
  OBVIOUS
<1> QED
  BY <1>1, <1>2, <1>3, <1>4, DefineIs DEF Defined

LEMMA PrepareLoadKept ==
  ASSUME AsTypes, AsRight, firstpaddr \in Nat, NEW t \in Threads,
         PrepareLoad(t)
  PROVE  AsTypes' /\ AsRight'
<1>1. pc[t] = "prepare" /\ SameUse
  BY DEF PrepareLoad, Prepare, At, AtAny, SameUse
<1>2. CASE LoadFails(t)
  BY <1>1, <1>2, LoadFailsKept DEF Loading
<1>3. CASE Prepares(t, "prepare", "load", LoadPages(loc[t].prog))
  <2>1. loc[t].prog \in Programs
    BY <1>1 DEF AsRight, ThreadRight, CallRight, Loading
  <2> QED
    BY <1>1, <1>3, <2>1, LoadPagesAre, PreparesKept
<1> QED
  BY <1>2, <1>3 DEF PrepareLoad, Prepare, Prepares, memvars

LEMMA ForkPrepareKept ==
  ASSUME AsTypes, AsRight, firstpaddr \in Nat, NEW t \in Threads,
         ForkPrepare(t)
  PROVE  AsTypes' /\ AsRight'
<1>1. pc[t] = "fork" /\ SameUse
  BY DEF ForkPrepare, Prepare, At, AtAny, SameUse
<1>2. CASE ForkFails(t)
  BY <1>1, <1>2, ForkFailsKept
<1>3. CASE Prepares(t, "fork", "copied", << >>)
  <2>1. << >> \in Seq(Nat)
    OBVIOUS
  <2> QED
    BY <1>1, <1>3, <2>1, PreparesKept
<1> QED
  BY <1>2, <1>3 DEF ForkPrepare, Prepare, Prepares, memvars

LEMMA LoadErrorKept ==
  ASSUME AsTypes, AsRight, RamTypes, NEW t \in Threads, LoadError(t)
  PROVE  AsTypes' /\ AsRight'
<1>1. pc[t] \in Loading /\ SameUse /\ LoadFails(t)
  BY DEF LoadError, AtAny, Spend, SameUse, Loading, RamTypes
<1> QED
  BY <1>1, LoadFailsKept

\* A thread that goes on within its call, with the address spaces it had.
LEMMA GoesOn ==
  ASSUME AsTypes, AsRight, SameUse, NEW t \in Threads, NEW label, NEW l,
         Goto(t, label, l), UNCHANGED <<asvars, hwvars, lk_exec>>,
         l \in Locals, l.fault = << >> \/ l.fault = loc[t].fault,
         l.exec = loc[t].exec, l.old = loc[t].old, l.new = loc[t].new,
         \/ /\ label = pc[t] /\ pc[t] # "new" /\ l.prog = loc[t].prog
            /\ l.fault = loc[t].fault /\ l.child = loc[t].child
         \/ /\ pc[t] \in Outside /\ label \in {"copy", "printf"}
         \/ /\ pc[t] = "load" /\ label = "args" /\ l.exec
            /\ l.prog = loc[t].prog
  PROVE  AsTypes' /\ AsRight'
<1>1. pc[t] \in Labels /\ label \in Labels
  BY DEF AsTypes, Labels
<1>2. GotoLocals(t, label, l)
  BY <1>1 DEF GotoLocals
<1>3. /\ pc'[t] = label /\ loc'[t] = l /\ t_addrspace' = t_addrspace
      /\ as' = as /\ \A w : Hit(t, w)' <=> Hit(t, w)
  BY <1>2, LocalIs
<1>4. CallRight(t) /\ FaultRight(t)
  BY DEF AsRight, ThreadRight
<1>5. \A id \in AsIds : Has(t, id)' <=> Has(t, id)
  BY <1>3 DEF Has, Outside
<1>6. CallRight(t)'
  <2>1. CASE /\ label = pc[t] /\ pc[t] # "new" /\ l.prog = loc[t].prog
             /\ l.fault = loc[t].fault /\ l.child = loc[t].child
    BY <1>3, <1>4, <2>1 DEF CallRight, Fits, SameUse, Loading, Outside, Copying
  <2>2. CASE pc[t] \in Outside /\ label \in {"copy", "printf"}
    BY <1>3, <1>4, <2>2 DEF CallRight, Loading, Outside, Copying
  <2>3. CASE /\ pc[t] = "load" /\ label = "args" /\ l.exec
             /\ l.prog = loc[t].prog
    BY <1>3, <1>4, <2>3 DEF CallRight, Loading, Outside, Copying
  <2> QED
    BY <2>1, <2>2, <2>3
<1>7. FaultRight(t)'
  <2> SUFFICES ASSUME loc'[t].fault # << >>
               PROVE  FaultRight(t)'
    BY DEF FaultRight
  <2>1. l.fault = loc[t].fault
    BY <1>3
  <2>2. PICK v : v = loc[t].fault[1]
    OBVIOUS
  <2>3. ~Hit(t, v)
    BY <1>3, <1>4, <2>1, <2>2 DEF FaultRight
  <2>4. ~Hit(t, v)' /\ loc'[t].fault[1] = v
    BY <1>3, <2>1, <2>2, <2>3
  <2>5. ~Hit(t, loc[t].fault[1])'
    BY <2>4 DEF Hit
  <2> QED
    BY <1>3, <1>4, <2>1, <2>5 DEF FaultRight
<1> QED
  BY <1>2, <1>5, <1>6, <1>7, LocalStep DEF ThreadRight

-----------------------------------------------------------------------------
\* copyout, and the calls of a process.
LEMMA TodoIs ==
  ASSUME AsTypes, NEW t \in Threads, NEW todo \in Seq(Nat)
  PROVE  LET l == [loc[t] EXCEPT !.todo = todo] IN
         /\ l \in Locals /\ l.exec = loc[t].exec /\ l.old = loc[t].old
         /\ l.new = loc[t].new /\ l.prog = loc[t].prog
         /\ l.child = loc[t].child /\ l.fault = loc[t].fault
BY DEF AsTypes, Locals

LEMMA LastPageNat == LastPage \in Nat
BY AsAssumptions, RamAssumptions DEF LastPage

LEMMA CopyPageKept ==
  ASSUME AsTypes, AsRight, NEW t \in Threads, CopyPage(t)
  PROVE  AsTypes' /\ AsRight'
<1> DEFINE rest == Tail(loc[t].todo)
           l == [loc[t] EXCEPT !.todo = rest]
           m == [l EXCEPT !.todo = <<LastPage>>]
<1>1. /\ pc[t] \in {"load", "args", "copy"} /\ SameUse /\ loc[t].todo # << >>
      /\ \/ Panic("bus error")
         \/ /\ Copied(t, rest)
            /\ UNCHANGED <<asvars, hwvars, lk_exec>>
  BY DEF CopyPage, AtAny, SameUse
<1>9. loc[t].todo \in Seq(Nat)
  BY DEF AsTypes, Locals
<1>2. rest \in Seq(Nat)
  BY <1>1, <1>9, HeadTailProperties
<1>3. /\ l \in Locals /\ l.exec = loc[t].exec /\ l.old = loc[t].old
      /\ l.new = loc[t].new /\ l.prog = loc[t].prog
      /\ l.child = loc[t].child /\ l.fault = loc[t].fault
  BY <1>2, TodoIs
<1>4. CallRight(t)
  BY DEF AsRight, ThreadRight
<1>5. CASE Panic("bus error")
  BY <1>1, <1>5, AsStays DEF Panic
<1>6. CASE /\ Goto(t, pc[t], l)
           /\ UNCHANGED <<asvars, hwvars, lk_exec>>
  <2> HIDE DEF l
  <2> QED
    BY <1>1, <1>3, <1>6, GoesOn
<1>7. CASE /\ l.exec /\ pc[t] # "args" /\ Goto(t, "args", m)
           /\ UNCHANGED <<asvars, hwvars, lk_exec>>
  <2>1. pc[t] = "load"
    BY <1>1, <1>3, <1>4, <1>7 DEF CallRight, Outside
  <2>2. <<LastPage>> \in Seq(Nat)
    BY LastPageNat
  <2>3. /\ m \in Locals /\ m.exec = l.exec /\ m.old = l.old
        /\ m.new = l.new /\ m.prog = l.prog
        /\ m.child = l.child /\ m.fault = l.fault
    <3> HIDE DEF l
    <3> QED
      BY <1>3, <2>2 DEF Locals
  <2> HIDE DEF l, m
  <2> QED
    BY <1>1, <1>3, <1>7, <2>1, <2>3, GoesOn
<1>8. CASE /\ ~l.exec /\ Goto(t, "user", NoLocals)
           /\ UNCHANGED <<asvars, hwvars, lk_exec>>
  <2>1. ~loc[t].exec /\ pc[t] \in Outside \union Loading
    BY <1>1, <1>3, <1>8 DEF Outside, Loading
  <2> QED
    BY <1>1, <1>8, <2>1, ToUserKept, LabelsNoLocals DEF GotoLocals, Labels
<1> QED
  BY <1>1, <1>5, <1>6, <1>7, <1>8 DEF Copied

LEMMA PrintedKept ==
  ASSUME AsTypes, AsRight, NEW t \in Threads, Printed(t)
  PROVE  AsTypes' /\ AsRight'
<1>1. /\ pc[t] = "printf" /\ SameUse /\ Goto(t, "copy", loc[t])
      /\ UNCHANGED <<asvars, hwvars, lk_exec>> /\ loc[t] \in Locals
  BY DEF Printed, At, AtAny, SameUse, ramvars, AsTypes
<1> QED
  BY <1>1, GoesOn DEF Outside

LEMMA CopyCallKept ==
  ASSUME AsTypes, AsRight, RamTypes, NEW t \in Threads, NEW v \in Nat,
         NEW label, label = "copy" \/ label = "printf", CopyCall(t, v, label)
  PROVE  AsTypes' /\ AsRight'
<1> DEFINE l == [NoLocals EXCEPT !.todo = <<v>>]
<1>1. /\ pc[t] = "user" /\ SameUse /\ Goto(t, label, l)
      /\ UNCHANGED <<asvars, hwvars, lk_exec>>
  BY DEF CopyCall, At, AtAny, Spend, SameUse, RamTypes
<1>2. CallRight(t)
  BY DEF AsRight, ThreadRight
<1>3. ~loc[t].exec /\ loc[t].old = NULL /\ loc[t].new = NULL
  BY <1>1, <1>2 DEF CallRight, Outside
<1>4. loc[t].exec = FALSE
  BY <1>3 DEF AsTypes, Locals
<1>5. <<v>> \in Seq(Nat)
  OBVIOUS
<1>6. /\ l \in Locals /\ l.exec = FALSE /\ l.old = NULL /\ l.new = NULL
      /\ l.fault = << >>
  BY <1>5, NoLocalsAre DEF Locals
<1> HIDE DEF l
<1> QED
  BY <1>1, <1>3, <1>4, <1>6, GoesOn DEF Outside

LEMMA UserStepKept ==
  ASSUME AsTypes, AsRight, NEW t \in Threads, NEW v \in Nat,
         \/ UserStore(t, v) \/ UserFault(t, v) \/ Getcwd(t)
         \/ ExecvOverflows(t)
  PROVE  AsTypes' /\ AsRight'
<1>1. pc[t] = "user" /\ SameUse
  BY DEF UserStore, UserFault, VmFault, Getcwd, ExecvOverflows, At, AtAny,
         SameUse
<1>2. CASE UserFault(t, v)
  BY <1>1, <1>2, VmFaultKept DEF UserFault, Using
<1>3. CASE Getcwd(t) \/ ExecvOverflows(t)
  BY <1>1, <1>3, AsStays DEF Getcwd, ExecvOverflows, Panic
<1>4. CASE UserStore(t, v)
  <2>1. CASE Panic("bus error")
    BY <1>1, <2>1, AsStays DEF Panic
  <2>2. CASE UNCHANGED <<asvars, hwvars, thvars>>
    <3>1. Goto(t, pc[t], loc[t])
      BY <2>2 DEF Goto, AsTypes, thvars
    <3>2. loc[t] \in Locals
      BY DEF AsTypes
    <3> QED
      BY <1>1, <2>2, <3>1, <3>2, GoesOn DEF thvars
  <2> QED
    BY <1>4, <2>1, <2>2 DEF UserStore
<1> QED
  BY <1>2, <1>3, <1>4

LEMMA ExitStepKept ==
  ASSUME AsTypes, AsRight, NEW t \in Threads, Exit(t)
  PROVE  AsTypes' /\ AsRight'
<1>1. pc[t] = "user" /\ SameUse /\ ThreadExit(t)
  BY DEF Exit, At, AtAny, SameUse, ramvars
<1>2. ~loc[t].exec
  BY <1>1 DEF AsRight, ThreadRight, CallRight, Outside
<1> QED
  BY <1>1, <1>2, ExitKept DEF Outside

-----------------------------------------------------------------------------
\* execv and runprogram: a new address space.
LEMMA CreateKept ==
  ASSUME AsTypes, AsRight, SameUse, NEW t \in Threads, NEW prog \in Programs,
         Fits(prog), pc[t] \in {"new", "create"}, Create(t, prog, loc[t])
  PROVE  AsTypes' /\ AsRight'
<1>1. CallRight(t) /\ ExecRight
  BY DEF AsRight, ThreadRight
<1>2. PICK a \in FreshAs :
        /\ t_addrspace' = [t_addrspace EXCEPT ![t] = a]
        /\ Flush(t)
        /\ as' = [as EXCEPT ![a] = Defined(prog)]
        /\ Goto(t, "prepare", [loc[t] EXCEPT !.prog = prog, !.new = a])
        /\ lk_exec' = lk_exec
  BY DEF Create
<1>3. PICK old, id, l : /\ old = loc[t].old /\ id = t_addrspace[t]
                        /\ l = [loc[t] EXCEPT !.prog = prog, !.new = a]
  OBVIOUS
<1>4. a \in AsIds /\ as[a] = NULL
  BY DEF FreshAs
<1>5. /\ l \in Locals /\ l.exec = loc[t].exec /\ l.old = old /\ l.new = a
      /\ l.prog = prog /\ l.fault = loc[t].fault /\ l.child = loc[t].child
  BY <1>3, <1>4 DEF AsTypes, Locals, AsOrNull
<1>6. l.fault = << >> /\ old \in AsOrNull /\ (l.exec <=> old # NULL)
  BY <1>1, <1>3, <1>5, NoLocalsAre DEF CallRight, Copying, AsTypes, Locals
<1>7. /\ pc[t] = "new" => id = NULL /\ old = NULL
      /\ pc[t] = "create" => old = id
  BY <1>1, <1>3, NoLocalsAre DEF CallRight
<1>8. \A x \in AsIds : Has(t, x) <=> x = old
  BY <1>3, <1>7, NullIs DEF Has
<1>9. old # a
  <2>1. CASE old = NULL
    BY <1>4, <2>1, NullIs
  <2>2. CASE old # NULL
    BY <1>4, <1>6, <1>8, <2>2 DEF AsRight, OwnRight, AsOrNull
  <2> QED
    BY <2>1, <2>2
<1>10. /\ pc'[t] = "prepare" /\ loc'[t] = l /\ t_addrspace'[t] = a
       /\ \A u \in Threads \ {t} : SameCall(u)
  BY <1>2, <1>3, OthersSame
<1>11. \A x \in AsIds : Has(t, x)' <=> x = a \/ x = old
  BY <1>5, <1>10 DEF Has
<1>12. /\ as' \in [AsIds -> Addrspace \union {NULL}]
       /\ as'[a] = Defined(prog) /\ as'[a] # NULL
       /\ \A x \in AsIds \ {a} : as'[x] = as[x]
  BY <1>2, <1>4, DefinedIs, NullIs DEF AsTypes
<1>13. SizesFit(as[a])'
  BY <1>12, DefinedIs DEF SizesFit, SameUse
<1>14. Steady /\ \A c \in Boards \ On(t) : tlb'[c] = tlb[c]
  BY <1>2, FlushIs DEF Steady
<1>15. Acts(t, a)
  BY <1>2, <1>4, <1>8, <1>10, <1>11, <1>12, <1>13, <1>14 DEF Acts
<1>16. CallRight(t)'
  BY <1>4, <1>5, <1>6, <1>9, <1>10, NullIs
  DEF CallRight, Loading, Outside, Copying
<1>17. lk_exec' = t <=> l.exec
  BY <1>1, <1>2, <1>5 DEF ExecRight
<1>18. "prepare" \in Labels /\ a \in AsOrNull
  BY <1>4 DEF Labels, AsOrNull
<1> QED
  BY <1>2, <1>3, <1>5, <1>6, <1>12, <1>15, <1>16, <1>17, <1>18, FlushStep

LEMMA RunprogramKept ==
  ASSUME AsTypes, AsRight, RamTypes, NEW t \in Threads, NEW prog \in Programs,
         Runprogram(t, prog)
  PROVE  AsTypes' /\ AsRight'
<1>1. /\ pc[t] = "new" /\ SameUse /\ Create(t, prog, NoLocals) /\ MayRun(prog)
  BY DEF Runprogram, Call, At, AtAny, Spend, SameUse, RamTypes
<1>2. loc[t] = NoLocals
  BY <1>1 DEF AsRight, ThreadRight, CallRight
<1>3. Fits(prog)
  BY <1>1 DEF MayRun, Fits
<1> QED
  BY <1>1, <1>2, <1>3, CreateKept

\* A thread that enters or leaves execv, where it holds lk_exec.
LEMMA ExecStep ==
  ASSUME AsTypes, AsRight, SameUse, NEW t \in Threads, NEW label \in Labels,
         NEW l \in Locals, Goto(t, label, l),
         UNCHANGED <<asvars, hwvars>>, label # "prepare",
         \A id \in AsIds : Has(t, id)' <=> Has(t, id),
         CallRight(t)', l.fault = << >>, lk_exec' = t <=> l.exec,
         lk_exec \in {t, NULL}, lk_exec' \in {t, NULL}
  PROVE  AsTypes' /\ AsRight'
<1>1. /\ pc'[t] = label /\ \A u \in Threads \ {t} : SameCall(u)
  BY DEF AsTypes, Goto, SameCall, asvars
<1>2. Steady /\ tlb' = tlb /\ as' = as /\ t_addrspace' = t_addrspace
  BY DEF Steady, hwvars, asvars
<1>3. \A u \in Threads \ {t} : lk_exec' = u <=> lk_exec = u
  BY NullIs
<1>4. Acts(t, NULL)
  BY <1>1, <1>2, <1>3, NullIs DEF Acts
<1>5. ASSUME NEW c \in On(t)
      PROVE  EntriesRight(c)'
  <2>1. /\ c \in Boards /\ c_curthread[c] = t /\ c_curthread'[c] = t
        /\ EntriesRight(c)
    BY <1>2 DEF On, Steady, AsRight
  <2> QED
    BY <1>1, <1>2, <2>1 DEF EntriesRight
<1>6. as' \in [AsIds -> Addrspace \union {NULL}]
  BY <1>2 DEF AsTypes
<1> QED
  BY <1>2, <1>4, <1>5, <1>6, OwnStep DEF asvars

LEMMA ExecvKept ==
  ASSUME AsTypes, AsRight, RamTypes, NEW t \in Threads, NEW prog \in Programs,
         Execv(t, prog)
  PROVE  AsTypes' /\ AsRight'
<1> DEFINE l == [NoLocals EXCEPT !.prog = prog, !.exec = TRUE,
                                 !.old = t_addrspace[t]]
<1>1. /\ pc[t] = "user" /\ SameUse /\ MayRun(prog) /\ lk_exec = NULL
      /\ Goto(t, "create", l) /\ lk_exec' = t
      /\ UNCHANGED <<asvars, hwvars>>
  BY DEF Execv, Call, At, AtAny, Spend, SameUse, RamTypes, LockFree
<1>2. PICK id : id = t_addrspace[t]
  OBVIOUS
<1>3. id # NULL /\ loc[t].old = NULL
  BY <1>1, <1>2 DEF AsRight, ThreadRight, CallRight, Outside
<1>4. id \in AsIds
  BY <1>2, <1>3 DEF AsTypes, AsOrNull
<1>5. /\ l \in Locals /\ l.exec = TRUE /\ l.old = id /\ l.new = NULL
      /\ l.prog = prog /\ l.fault = << >>
  BY <1>2, <1>4, NoLocalsAre DEF Locals, AsOrNull
<1> HIDE DEF l
<1>6. pc'[t] = "create" /\ loc'[t] = l /\ t_addrspace'[t] = id
  BY <1>1, <1>2 DEF AsTypes, Goto, asvars
<1>7. \A x \in AsIds : Has(t, x)' <=> Has(t, x)
  BY <1>1, <1>2, <1>3, <1>5, <1>6, NullIs DEF Has
<1>8. CallRight(t)'
  BY <1>1, <1>3, <1>5, <1>6
  DEF CallRight, Loading, Outside, Copying, Fits, MayRun, SameUse
<1>9. "create" \in Labels
  BY DEF Labels
<1> QED
  BY <1>1, <1>5, <1>7, <1>8, <1>9, ExecStep

LEMMA ExecvCreateKept ==
  ASSUME AsTypes, AsRight, NEW t \in Threads, ExecvCreate(t)
  PROVE  AsTypes' /\ AsRight'
<1>1. pc[t] = "create" /\ SameUse
  BY DEF ExecvCreate, At, AtAny, SameUse
<1>2. CallRight(t) /\ ExecRight
  BY DEF AsRight, ThreadRight
<1>3. CASE Create(t, loc[t].prog, loc[t])
  BY <1>1, <1>2, <1>3, CreateKept DEF CallRight
<1>4. CASE /\ lk_exec' = NULL /\ Goto(t, "user", NoLocals)
           /\ UNCHANGED <<asvars, hwvars>>
  <2>1. PICK id : id = t_addrspace[t]
    OBVIOUS
  <2>2. id # NULL /\ loc[t].old = id /\ lk_exec = t
    BY <1>1, <1>2, <2>1 DEF CallRight, ExecRight
  <2>3. pc'[t] = "user" /\ loc'[t] = NoLocals /\ t_addrspace'[t] = id
    BY <1>4, <2>1 DEF AsTypes, Goto, asvars
  <2>4. \A x \in AsIds : Has(t, x)' <=> Has(t, x)
    BY <1>1, <2>1, <2>2, <2>3, NoLocalsAre, NullIs DEF Has
  <2>5. CallRight(t)'
    BY <2>2, <2>3, NoLocalsAre DEF CallRight, Loading, Outside
  <2>6. "user" \in Labels /\ (lk_exec' = t <=> NoLocals.exec)
    BY <1>4, NoLocalsAre, NullIs DEF Labels
  <2> QED
    BY <1>1, <1>4, <2>2, <2>4, <2>5, <2>6, NoLocalsAre, ExecStep
<1> QED
  BY <1>3, <1>4 DEF ExecvCreate

\* The end of execv: the old address space goes.
LEMMA ExecvEndKept ==
  ASSUME AsTypes, AsRight, NEW t \in Threads, ExecvEnd(t)
  PROVE  AsTypes' /\ AsRight'
<1>1. /\ pc[t] = "args" /\ SameUse /\ lk_exec' = NULL
      /\ Goto(t, "user", NoLocals)
      /\ UNCHANGED <<t_addrspace, hwvars>>
  BY DEF ExecvEnd, At, AtAny, SameUse, ramvars
<1>2. PICK old, id : old = loc[t].old /\ id = t_addrspace[t]
  OBVIOUS
<1>3. CallRight(t) /\ ExecRight
  BY DEF AsRight, ThreadRight
<1>4. old # NULL /\ id # NULL /\ old # id /\ lk_exec = t
  BY <1>1, <1>2, <1>3 DEF CallRight, ExecRight, Loading
<1>5. old \in AsIds /\ id \in AsIds
  BY <1>2, <1>4 DEF AsTypes, Locals, AsOrNull
<1>6. as' = [as EXCEPT ![old] = NULL]
  BY <1>2 DEF ExecvEnd, Destroyed
<1>7. /\ as' \in [AsIds -> Addrspace \union {NULL}] /\ as'[old] = NULL
      /\ \A x \in AsIds \ {old} : as'[x] = as[x]
  BY <1>5, <1>6 DEF AsTypes
<1>8. /\ pc'[t] = "user" /\ loc'[t] = NoLocals /\ t_addrspace'[t] = id
      /\ \A u \in Threads \ {t} : SameCall(u)
  BY <1>1, <1>2 DEF AsTypes, Goto, SameCall
<1>9. Has(t, old) /\ ~Has(t, old)'
  BY <1>2, <1>4, <1>5, <1>8, NoLocalsAre, NullIs DEF Has
<1>10. \A x \in AsIds \ {old} : Has(t, x)' <=> Has(t, x)
  BY <1>1, <1>2, <1>5, <1>8, NoLocalsAre, NullIs DEF Has
<1>11. Steady /\ tlb' = tlb
  BY <1>1 DEF Steady, hwvars
<1>12. \A u \in Threads \ {t} : SameCall(u) /\ (lk_exec' = u <=> lk_exec = u)
  BY <1>1, <1>4, <1>8, NullIs
<1>13. Acts(t, old)
  BY <1>5, <1>7, <1>9, <1>10, <1>11, <1>12, FreesIs
<1>14. CallRight(t)'
  BY <1>4, <1>8, NoLocalsAre DEF CallRight, Loading, Outside
<1>15. ASSUME NEW c \in On(t)
       PROVE  EntriesRight(c)'
  <2>1. /\ c \in Boards /\ c_curthread[c] = t /\ c_curthread'[c] = t
        /\ EntriesRight(c)
    BY <1>11 DEF On, Steady, AsRight
  <2> QED
    BY <1>2, <1>4, <1>5, <1>7, <1>8, <1>11, <2>1, OwnEntries
<1>16. "user" \in Labels /\ (lk_exec' = t <=> NoLocals.exec)
  BY <1>1, NoLocalsAre, NullIs DEF Labels
<1> QED
  BY <1>1, <1>7, <1>13, <1>14, <1>15, <1>16, NoLocalsAre, OwnStep

-----------------------------------------------------------------------------
\* fork: the address space of the child, which is the parent's until the child
\* returns from fork_child_return.
LEMMA ForkKept ==
  ASSUME AsTypes, AsRight, RamTypes, NEW t \in Threads, NEW u \in Threads,
         Fork(t, u)
  PROVE  AsTypes' /\ AsRight'
<1>1. /\ pc[t] = "user" /\ SameUse /\ u # t
      /\ UNCHANGED <<t_addrspace, hwvars, lk_exec>>
  BY DEF Fork, Call, At, AtAny, Spend, SameUse, RamTypes
<1>2. PICK id, old : id = t_addrspace[t] /\ old = as[t_addrspace[t]]
  OBVIOUS
<1>3. CallRight(t) /\ ExecRight
  BY DEF AsRight, ThreadRight
<1>4. id # NULL /\ ~loc[t].exec /\ loc[t].old = NULL
  BY <1>1, <1>2, <1>3 DEF CallRight, Outside
<1>5. /\ id \in AsIds /\ old = as[id] /\ old \in Addrspace /\ as[id] # NULL
      /\ SizesFit(old)
  BY <1>1, <1>2, OwnAs, NullIs DEF Using, AsRight, SizesRight
<1>6. PICK a \in FreshAs :
        /\ as' = [as EXCEPT ![a] = [NewAs EXCEPT
                     !.vbase1 = old.vbase1, !.npages1 = old.npages1,
                     !.vbase2 = old.vbase2, !.npages2 = old.npages2]]
        /\ Goto(t, "fork", [NoLocals EXCEPT !.new = a, !.child = u])
  BY <1>2 DEF Fork
<1>7. a \in AsIds /\ as[a] = NULL /\ a # id /\ a # NULL
  BY <1>5, NullIs DEF FreshAs
<1>8. PICK b, l : /\ b = [NewAs EXCEPT
                     !.vbase1 = old.vbase1, !.npages1 = old.npages1,
                     !.vbase2 = old.vbase2, !.npages2 = old.npages2]
                  /\ l = [NoLocals EXCEPT !.new = a, !.child = u]
  OBVIOUS
<1>9. b \in Addrspace /\ b.npages1 = old.npages1 /\ b.npages2 = old.npages2
  <2>1. NewAs \in Addrspace
    BY DEF NewAs, Addrspace
  <2> QED
    BY <1>5, <1>8, <2>1 DEF Addrspace
<1>10. /\ l \in Locals /\ l.exec = FALSE /\ l.old = NULL /\ l.new = a
       /\ l.child = u /\ l.fault = << >>
  BY <1>7, <1>8, NoLocalsAre DEF Locals, AsOrNull
<1>11. /\ as' \in [AsIds -> Addrspace \union {NULL}]
       /\ as'[a] = b /\ as'[a] # NULL
       /\ \A x \in AsIds \ {a} : as'[x] = as[x]
  BY <1>6, <1>7, <1>8, <1>9, NullIs DEF AsTypes
<1>12. /\ pc'[t] = "fork" /\ loc'[t] = l /\ t_addrspace'[t] = id
       /\ \A w \in Threads \ {t} : SameCall(w)
  BY <1>1, <1>2, <1>6, <1>8 DEF AsTypes, Goto, SameCall
<1>13. \A x \in AsIds : Has(t, x) <=> x = id
  BY <1>1, <1>2, <1>4, NullIs DEF Has
<1>14. \A x \in AsIds : Has(t, x)' <=> x = id \/ x = a
  BY <1>10, <1>12, NullIs DEF Has
<1>15. SizesFit(as[a])'
  BY <1>5, <1>9, <1>11, <1>1 DEF SizesFit, SameUse
<1>16. Steady /\ tlb' = tlb
  BY <1>1 DEF Steady, hwvars
<1>17. Acts(t, a)
  BY <1>1, <1>7, <1>11, <1>12, <1>13, <1>14, <1>15, <1>16 DEF Acts
<1>18. CallRight(t)'
  BY <1>1, <1>4, <1>7, <1>10, <1>12 DEF CallRight, Loading, Outside
<1>19. ASSUME NEW c \in On(t)
       PROVE  EntriesRight(c)'
  <2>1. /\ c \in Boards /\ c_curthread[c] = t /\ c_curthread'[c] = t
        /\ EntriesRight(c)
    BY <1>16 DEF On, Steady, AsRight
  <2> QED
    BY <1>2, <1>4, <1>5, <1>7, <1>11, <1>12, <1>16, <2>1, OwnEntries
<1>20. lk_exec' = t <=> l.exec
  BY <1>1, <1>3, <1>4, <1>10 DEF ExecRight
<1>21. "fork" \in Labels
  BY DEF Labels
<1> QED
  BY <1>1, <1>6, <1>8, <1>10, <1>11, <1>17, <1>18, <1>19, <1>20, <1>21, OwnStep

LEMMA ChildReturnKept ==
  ASSUME AsTypes, AsRight, NEW t \in Threads, ChildReturn(t)
  PROVE  AsTypes' /\ AsRight'
<1>1. PICK new : new = loc[t].new
  OBVIOUS
<1>2. /\ pc[t] = "child" /\ SameUse /\ Flush(t) /\ Goto(t, "user", NoLocals)
      /\ t_addrspace' = [t_addrspace EXCEPT ![t] = new]
      /\ as' = as /\ lk_exec' = lk_exec
  BY <1>1 DEF ChildReturn, At, AtAny, SameUse, ramvars
<1>3. CallRight(t) /\ ExecRight
  BY DEF AsRight, ThreadRight
<1>4. new # NULL /\ t_addrspace[t] = NULL /\ ~loc[t].exec /\ loc[t].old = NULL
  BY <1>1, <1>2, <1>3 DEF CallRight
<1>5. new \in AsOrNull /\ "user" \in Labels
  BY <1>1 DEF AsTypes, Locals, Labels
<1>6. /\ pc'[t] = "user" /\ loc'[t] = NoLocals /\ t_addrspace'[t] = new
      /\ \A u \in Threads \ {t} : SameCall(u)
  BY <1>2, OthersSame
<1>7. \A x \in AsIds : Has(t, x)' <=> Has(t, x)
  BY <1>1, <1>2, <1>4, <1>6, NoLocalsAre, NullIs DEF Has
<1>8. Steady /\ \A c \in Boards \ On(t) : tlb'[c] = tlb[c]
  BY <1>2, FlushIs DEF Steady
<1>9. Acts(t, NULL)
  BY <1>2, <1>6, <1>7, <1>8, NullIs DEF Acts
<1>10. CallRight(t)'
  BY <1>4, <1>6, NoLocalsAre DEF CallRight, Loading, Outside
<1>11. lk_exec' = t <=> NoLocals.exec
  BY <1>2, <1>3, <1>4, NoLocalsAre DEF ExecRight
<1>12. as' \in [AsIds -> Addrspace \union {NULL}]
  BY <1>2 DEF AsTypes
<1> QED
  BY <1>2, <1>5, <1>9, <1>10, <1>11, <1>12, NoLocalsAre, FlushStep

\* thread_fork hands the new address space to the child.
LEMMA HandedOver ==
  ASSUME AsTypes, AsRight, SameUse, NEW t \in Threads, NEW u \in Threads,
         pc[t] = "copied", pc[u] = "new", u = loc[t].child,
         pc' = [pc EXCEPT ![t] = "user", ![u] = "child"],
         loc' = [loc EXCEPT ![t] = NoLocals,
                            ![u] = [NoLocals EXCEPT !.new = loc[t].new]],
         UNCHANGED <<asvars, hwvars, lk_exec>>
  PROVE  AsTypes' /\ AsRight'
<1>1. PICK l : l = [NoLocals EXCEPT !.new = loc[t].new]
  OBVIOUS
<1>2. CallRight(t) /\ CallRight(u) /\ ExecRight /\ OwnRight
  BY DEF AsRight, ThreadRight
<1>3. PICK a : a = loc[t].new
  OBVIOUS
<1>4. /\ t_addrspace[t] # NULL /\ ~loc[t].exec /\ loc[t].old = NULL
      /\ a # NULL /\ u # t /\ a # t_addrspace[t]
      /\ t_addrspace[u] = NULL /\ loc[u] = NoLocals
  BY <1>2, <1>3 DEF CallRight
<1>5. a \in AsIds
  BY <1>3, <1>4 DEF AsTypes, Locals, AsOrNull
<1>6. /\ l \in Locals /\ l.exec = FALSE /\ l.old = NULL /\ l.new = a
      /\ l.fault = << >>
  BY <1>1, <1>3, <1>5, NoLocalsAre DEF Locals, AsOrNull
<1>7. /\ pc' \in [Threads -> Labels] /\ loc' \in [Threads -> Locals]
      /\ pc'[t] = "user" /\ loc'[t] = NoLocals
      /\ pc'[u] = "child" /\ loc'[u] = l
      /\ \A w \in Threads \ {t, u} : pc'[w] = pc[w] /\ loc'[w] = loc[w]
  <2>1. "user" \in Labels /\ "child" \in Labels
    BY DEF Labels
  <2> QED
    BY <1>1, <1>4, <1>6, <2>1, NoLocalsAre DEF AsTypes
<1>8. t_addrspace' = t_addrspace /\ as' = as /\ tlb' = tlb
      /\ Steady /\ Boards' = Boards
  BY DEF asvars, hwvars, Steady, Boards
<1>9. AsTypes'
  BY <1>7, <1>8 DEF AsTypes, Steady
<1>10. \A w \in Threads \ {t, u} : SameCall(w)
  BY <1>7, <1>8 DEF SameCall
<1>11. CallRight(t)' /\ CallRight(u)'
  BY <1>4, <1>6, <1>7, <1>8, NoLocalsAre DEF CallRight, Loading, Outside
<1>12. ASSUME NEW w \in Threads
       PROVE  ThreadRight(w)'
  <2>1. CASE w \notin {t, u}
    BY <1>8, <1>10, <2>1, ThreadKept DEF AsRight
  <2>2. CASE w \in {t, u}
    BY <1>6, <1>7, <1>11, <2>2, NoLocalsAre DEF ThreadRight, FaultRight
  <2> QED
    BY <2>1, <2>2
<1>13. \A x \in AsIds :
         /\ Has(t, x) <=> x = a \/ x = t_addrspace[t]
         /\ ~Has(u, x)
         /\ Has(t, x)' <=> x = t_addrspace[t]
         /\ Has(u, x)' <=> x = a
  BY <1>3, <1>4, <1>6, <1>7, <1>8, NoLocalsAre, NullIs DEF Has
<1>14. \A w \in Threads \ {t, u} : \A x \in AsIds : Has(w, x)' <=> Has(w, x)
  BY <1>10, HasSame
<1>15. OwnRight'
  <2> SUFFICES ASSUME NEW id \in AsIds
               PROVE  /\ \A r, w \in Threads :
                          Has(r, id)' /\ Has(w, id)' => r = w
                      /\ as'[id] # NULL <=> \E r \in Threads : Has(r, id)'
    BY DEF OwnRight
  <2>1. /\ \A r, w \in Threads : Has(r, id) /\ Has(w, id) => r = w
        /\ as[id] # NULL <=> \E r \in Threads : Has(r, id)
    BY <1>2 DEF OwnRight
  <2>2. CASE id = a
    BY <1>4, <1>8, <1>13, <1>14, <2>1, <2>2
  <2>3. CASE id # a
    BY <1>4, <1>8, <1>13, <1>14, <2>1, <2>3
  <2> QED
    BY <2>2, <2>3
<1>16. ExecRight'
  BY <1>2, <1>4, <1>6, <1>7, NoLocalsAre DEF ExecRight
<1>17. SizesRight' /\ OneBoard'
  BY <1>8 DEF AsRight, SizesRight, SizesFit, OneBoard, Steady, SameUse
<1>18. ASSUME NEW c \in Boards
       PROVE  EntriesRight(c)'
  <2>1. EntriesRight(c) /\ c_curthread' = c_curthread
    BY <1>8 DEF AsRight, Steady
  <2>2. c_curthread[c] # NULL => c_curthread[c] \in Threads
    BY DEF AsTypes
  <2>3. \A w \in Threads : pc'[w] = "prepare" => pc[w] = "prepare"
    BY <1>7
  <2> QED
    BY <1>8, <2>1, <2>2, <2>3 DEF EntriesRight
<1> QED
  BY <1>8, <1>9, <1>12, <1>15, <1>16, <1>17, <1>18 DEF AsRight

LEMMA ForkEndKept ==
  ASSUME AsTypes, AsRight, NEW t \in Threads, ForkEnd(t)
  PROVE  AsTypes' /\ AsRight'
<1>1. pc[t] = "copied" /\ SameUse
  BY DEF ForkEnd, At, AtAny, SameUse, ramvars
<1>2. CASE ForkFails(t)
  BY <1>1, <1>2, ForkFailsKept
<1>3. CASE ~ForkFails(t)
  <2>1. PICK u : u = loc[t].child
    OBVIOUS
  <2>2. u \in Threads
    BY <1>1, <2>1 DEF AsRight, ThreadRight, CallRight
  <2> QED
    BY <1>1, <1>3, <2>1, <2>2, HandedOver DEF ForkEnd
<1> QED
  BY <1>2, <1>3

-----------------------------------------------------------------------------
\* thread_switch: another thread on processor c, or none.
LEMMA BoardKept ==
  ASSUME AsTypes, AsRight, NEW c \in Boards, NEW t \in Threads \union {NULL},
         c_curthread' = [c_curthread EXCEPT ![c] = t],
         t # NULL => On(t) \subseteq {c},
         UNCHANGED <<asvars, memvars, thvars, ramvars>>,
         tlb' \in [Boards -> Seq(Entry)],
         \A d \in Boards \ {c} : tlb'[d] = tlb[d],
         t # NULL /\ t_addrspace[t] # NULL => tlb'[c] = << >>
  PROVE  AsTypes' /\ AsRight'
<1>1. /\ Boards' = Boards /\ c_curthread'[c] = t
      /\ \A d \in Boards \ {c} : c_curthread'[d] = c_curthread[d]
      /\ c_curthread' \in [Boards' -> Threads \union {NULL}]
  BY DEF AsTypes, Boards
<1>2. /\ as' = as /\ t_addrspace' = t_addrspace /\ pc' = pc /\ loc' = loc
      /\ lk_exec' = lk_exec /\ SameUse
  BY DEF asvars, thvars, ramvars, SameUse
<1>3. AsTypes'
  BY <1>1, <1>2 DEF AsTypes
<1>4. ASSUME NEW u \in Threads, t_addrspace[u] # NULL, NEW v, ~Hit(u, v)
      PROVE  ~Hit(u, v)'
  <2>1. CASE u = t
    <3>1. On(u)' \subseteq {c}
      BY <1>1, <2>1, NullIs DEF On
    <3>2. tlb'[c] = << >>
      BY <1>4, <2>1, NullIs
    <3> QED
      BY <3>1, <3>2 DEF Hit
  <2>2. CASE u # t
    <3>1. On(u)' \subseteq On(u) \ {c}
      BY <1>1, <2>2 DEF On
    <3>2. \A d \in On(u)' : tlb'[d] = tlb[d]
      BY <3>1 DEF On
    <3> QED
      BY <1>4, <3>1, <3>2 DEF Hit
  <2> QED
    BY <2>1, <2>2
<1>5. ASSUME NEW u \in Threads
      PROVE  ThreadRight(u)'
  <2>1. CallRight(u) /\ FaultRight(u)
    BY DEF AsRight, ThreadRight
  <2>2. CallRight(u)'
    BY <1>2, <2>1 DEF CallRight, Fits, SameUse
  <2>3. loc[u].fault # << >> => t_addrspace[u] # NULL
    BY <2>1 DEF CallRight, Copying, Outside, Loading
  <2>4. PICK v : v = loc[u].fault[1]
    OBVIOUS
  <2>5. loc[u].fault # << >> => ~Hit(u, v) /\ ~Hit(u, v)'
    BY <1>4, <2>1, <2>3, <2>4 DEF FaultRight
  <2>6. loc[u].fault # << >> => ~Hit(u, loc[u].fault[1])'
    BY <1>2, <2>4, <2>5 DEF Hit
  <2>7. FaultRight(u)'
    BY <1>2, <2>1, <2>6 DEF FaultRight
  <2> QED
    BY <2>2, <2>7 DEF ThreadRight
<1>6. OwnRight'
  BY <1>2 DEF AsRight, OwnRight, Has
<1>7. ExecRight' /\ SizesRight'
  BY <1>2 DEF AsRight, ExecRight, SizesRight, SizesFit, SameUse
<1>8. OneBoard'
  <2>1. \A d \in Boards \ {c} : t # NULL => c_curthread[d] # t
    BY DEF On
  <2> QED
    BY <1>1, <2>1 DEF AsRight, OneBoard
<1>9. ASSUME NEW d \in Boards
      PROVE  EntriesRight(d)'
  <2>1. CASE d = c
    <3>1. CASE t # NULL /\ t_addrspace[t] # NULL
      BY <2>1, <3>1 DEF EntriesRight
    <3>2. CASE t = NULL \/ t_addrspace[t] = NULL
      <4>1. t # NULL => pc[t] # "prepare"
        BY <3>2 DEF AsRight, ThreadRight, CallRight, Loading
      <4> QED
        BY <1>1, <1>2, <2>1, <3>2, <4>1 DEF EntriesRight
    <3> QED
      BY <3>1, <3>2
  <2>2. CASE d # c
    <3>1. /\ EntriesRight(d) /\ tlb'[d] = tlb[d]
          /\ c_curthread'[d] = c_curthread[d]
      BY <1>1, <2>2 DEF AsRight
    <3> QED
      BY <1>2, <3>1 DEF EntriesRight
  <2> QED
    BY <2>1, <2>2
<1> QED
  BY <1>1, <1>3, <1>5, <1>6, <1>7, <1>8, <1>9 DEF AsRight

LEMMA SwitchKept ==
  ASSUME AsTypes, AsRight, NEW c \in Boards, NEW t \in Threads, Switch(c, t)
  PROVE  AsTypes' /\ AsRight'
<1>1. /\ tlb' \in [Boards -> Seq(Entry)]
      /\ \A d \in Boards \ {c} : tlb'[d] = tlb[d]
      /\ t_addrspace[t] # NULL => tlb'[c] = << >>
  BY DEF Switch, Activates, AsTypes
<1>2. /\ c_curthread' = [c_curthread EXCEPT ![c] = t] /\ On(t) \subseteq {c}
      /\ UNCHANGED <<asvars, memvars, thvars, ramvars>>
  BY DEF Switch
<1> QED
  BY <1>1, <1>2, BoardKept

LEMMA IdleKept ==
  ASSUME AsTypes, AsRight, NEW c \in Boards, Idle(c)
  PROVE  AsTypes' /\ AsRight'
<1>1. /\ c_curthread' = [c_curthread EXCEPT ![c] = NULL]
      /\ UNCHANGED <<tlb, asvars, memvars, thvars, ramvars>>
  BY DEF Idle
<1>2. /\ tlb' \in [Boards -> Seq(Entry)]
      /\ \A d \in Boards \ {c} : tlb'[d] = tlb[d]
  BY <1>1 DEF AsTypes
<1> QED
  BY <1>1, <1>2, BoardKept

LEMMA ProcKept ==
  ASSUME RamTypes, AsTypes, AsRight, ProcNext
  PROVE  AsTypes' /\ AsRight'
<1>1. firstpaddr \in Nat /\ \A v \in budget.touched : v \in Nat
  BY RamAssumptions DEF RamTypes
<1>2. CASE \E c \in Boards : Idle(c) \/ \E t \in Threads : Switch(c, t)
  BY <1>2, IdleKept, SwitchKept
<1>3. ASSUME NEW t \in Threads,
             \/ TlbWrite(t) \/ CopyFault(t) \/ PrepareLoad(t)
             \/ CopyPage(t) \/ LoadError(t) \/ ExecvCreate(t)
      PROVE  AsTypes' /\ AsRight'
  BY <1>1, <1>3, TlbWriteKept, CopyFaultKept, PrepareLoadKept, CopyPageKept,
     LoadErrorKept, ExecvCreateKept
<1>4. ASSUME NEW t \in Threads,
             \/ ExecvEnd(t) \/ ForkPrepare(t) \/ ForkEnd(t) \/ ChildReturn(t)
             \/ Exit(t) \/ Printed(t)
      PROVE  AsTypes' /\ AsRight'
  BY <1>1, <1>4, ExecvEndKept, ForkPrepareKept, ForkEndKept, ChildReturnKept,
     ExitStepKept, PrintedKept
<1>5. ASSUME NEW t \in Threads,
             \/ Getcwd(t) \/ ExecvOverflows(t)
             \/ \E prog \in Programs : Runprogram(t, prog) \/ Execv(t, prog)
             \/ \E u \in Threads : Fork(t, u)
      PROVE  AsTypes' /\ AsRight'
  <2>1. CASE Getcwd(t) \/ ExecvOverflows(t)
    <3>1. 0 \in Nat
      OBVIOUS
    <3> QED
      BY <2>1, <3>1, UserStepKept
  <2> QED
    BY <1>5, <2>1, RunprogramKept, ExecvKept, ForkKept
<1>6. ASSUME NEW t \in Threads, NEW v \in budget.touched,
             \/ UserStore(t, v) \/ UserFault(t, v)
             \/ CopyCall(t, v, "copy") \/ CopyCall(t, v, "printf")
      PROVE  AsTypes' /\ AsRight'
  BY <1>1, <1>6, UserStepKept, CopyCallKept
<1> QED
  BY <1>2, <1>3, <1>4, <1>5, <1>6 DEF ProcNext

-----------------------------------------------------------------------------
\* ram_stealmem.
LEMMA AdvanceIs ==
  ASSUME RamTypes, NEW n \in Nat, Advance(n)
  PROVE  /\ firstpaddr' \in 0 .. LASTPADDR
         /\ ~Wraps(n) /\ FIRSTPADDR <= firstpaddr =>
              \/ Getppages(n) = 0 /\ firstpaddr' = firstpaddr
              \/ /\ Getppages(n) = firstpaddr /\ firstpaddr # 0
                 /\ firstpaddr' = firstpaddr + n
<1> DEFINE s == firstpaddr + n
<1>1. /\ firstpaddr \in Nat /\ firstpaddr <= LASTPADDR /\ LASTPADDR \in Nat
      /\ ADDRPAGES \in Nat /\ LASTPADDR < ADDRPAGES
      /\ FIRSTPADDR \in Nat \ {0}
  BY RamAssumptions DEF RamTypes, Wraps
<1>2. s % ADDRPAGES \in Nat
  BY <1>1
<1>3. firstpaddr' = IF s % ADDRPAGES <= LASTPADDR THEN s % ADDRPAGES
                    ELSE firstpaddr
  BY DEF Advance, Steals, Sum
<1>4. Getppages(n) = IF s % ADDRPAGES <= LASTPADDR THEN firstpaddr ELSE 0
  BY DEF Getppages, Steals, Sum
<1>5. ~Wraps(n) => s % ADDRPAGES = s
  BY <1>1 DEF Wraps
<1> QED
  BY <1>1, <1>2, <1>3, <1>4, <1>5

LEMMA SpendIs ==
  ASSUME RamTypes, NEW kind, kind \in {"proc", "copy", "errors"}, Spend(kind)
  PROVE  /\ budget' \in [heap : Nat, proc : Nat, copy : Nat, cpus : Nat,
                         errors : Nat, touched : SUBSET Nat]
         /\ budget'.touched = budget.touched
<1>1. /\ budget \in [heap : Nat, proc : Nat, copy : Nat, cpus : Nat,
                     errors : Nat, touched : SUBSET Nat]
      /\ budget[kind] > 0 /\ budget' = [budget EXCEPT ![kind] = @ - 1]
  BY DEF RamTypes, Spend
<1>2. CASE kind = "proc"
  BY <1>1, <1>2
<1>3. CASE kind = "copy"
  BY <1>1, <1>3
<1>4. CASE kind = "errors"
  BY <1>1, <1>4
<1> QED
  BY <1>2, <1>3, <1>4

\* The number of pages of a large block is counted in 32 bits, which does not
\* make it larger.
LEMMA RoundedPagesAre ==
  ASSUME NEW sz \in Nat
  PROVE  /\ RoundedPages(sz) \in Nat
         /\ ~Wraps(WholePages(sz)) => ~Wraps(RoundedPages(sz))
<1>1. PICK p : p = PAGE_SIZE /\ p \in Nat /\ p > 0
  BY RamAssumptions
<1>2. PICK m : m = ADDRPAGES * PAGE_SIZE /\ m \in Nat /\ m > 0
  <2>1. ADDRPAGES \in Nat /\ ADDRPAGES > 0
    BY RamAssumptions DEF Wraps
  <2> QED
    BY <1>1, <2>1
<1>3. PICK x : x = sz + PAGE_SIZE - 1 /\ x \in Nat
  BY <1>1
<1>4. PICK y : y = x % m /\ y \in Nat /\ y <= x
  BY <1>2, <1>3
<1>5. PICK q : q = y \div p /\ q \in Nat /\ p * q <= y
  BY <1>1, <1>4, DivIs
<1>6. PICK r : r = x \div p /\ r \in Nat /\ x < p * r + p
  BY <1>1, <1>3, DivIs
<1>7. q <= r
  <2> SUFFICES ASSUME q >= r + 1
               PROVE  FALSE
    BY <1>5, <1>6
  <2>1. PICK d \in Nat : q = r + 1 + d
    <3>1. q - (r + 1) \in Nat
      BY <1>5, <1>6
    <3> QED
      BY <1>5, <1>6, <3>1
  <2>2. p * q = p * r + p + p * d
    BY <1>1, <1>6, <2>1
  <2>3. p * d \in Nat /\ p * r \in Nat
    BY <1>1, <1>6
  <2> QED
    BY <1>1, <1>3, <1>4, <1>5, <1>6, <2>2, <2>3
<1>8. RoundedPages(sz) = q /\ WholePages(sz) = r
  BY <1>1, <1>2, <1>3, <1>4, <1>5, <1>6 DEF RoundedPages, WholePages
<1> QED
  BY <1>5, <1>6, <1>7, <1>8, RamAssumptions DEF Wraps

-----------------------------------------------------------------------------
\* The claim of a region on each of its pages.
LEMMA AsClaimIs ==
  ASSUME NEW spaces, NEW x
  PROVE  x \in AsClaims(spaces) <=>
           \E a \in AsIds, k \in 1 .. 3 :
             /\ spaces[a] # NULL /\ Base(spaces[a], k) # 0
             /\ \E i \in 0 .. (Size(spaces[a], k) - 1) :
                  x = [who |-> <<"as", a, k>>, page |-> Base(spaces[a], k) + i]
<1>1. \A a : \A k \in 1 .. 3 : /\ Regions(spaces[a])[k][2] = Size(spaces[a], k)
                               /\ Regions(spaces[a])[k][3] = Base(spaces[a], k)
  BY RegionsAre
<1> DEFINE Of(a, k) == {[who |-> <<"as", a, k>>,
                         page |-> Regions(spaces[a])[k][3] + i] :
                          i \in 0 .. (Regions(spaces[a])[k][2] - 1)}
           Whole(a) == UNION {Of(a, k) :
                        k \in {j \in 1 .. 3 : Regions(spaces[a])[j][3] # 0}}
<1>2. x \in AsClaims(spaces) <=>
        \E a \in {y \in AsIds : spaces[y] # NULL} : x \in Whole(a)
  BY DEF AsClaims
<1>3. \A a : x \in Whole(a) <=>
        \E k \in {j \in 1 .. 3 : Regions(spaces[a])[j][3] # 0} : x \in Of(a, k)
  OBVIOUS
<1>4. \A a, k : x \in Of(a, k) <=>
        \E i \in 0 .. (Regions(spaces[a])[k][2] - 1) :
          x = [who |-> <<"as", a, k>>, page |-> Regions(spaces[a])[k][3] + i]
  OBVIOUS
<1> HIDE DEF Of, Whole
<1> QED
  BY <1>1, <1>2, <1>3, <1>4

\* Pages that were claimed move from one place to another, or are handed out.
Whos == {y.who : y \in Claims}
LEMMA OnceMoved ==
  ASSUME "huge" \notin env, PagesOnce, env' = env, FIRSTPADDR <= firstpaddr,
         firstpaddr \in Nat, firstpaddr' \in Nat, firstpaddr <= firstpaddr',
         NEW f, NEW n,
         \A x \in Claims' : x.page # 0 =>
           \/ \E y \in Claims : y.page = x.page /\ x.who = f[y.who]
           \/ x.who = n /\ x.page \in firstpaddr .. (firstpaddr' - 1)
  PROVE  PagesOnce'
<1>0. FIRSTPADDR \in Nat
  BY RamAssumptions
<1>1. /\ \A y, z \in Claims : y.page # 0 /\ z.page # 0 /\ y.page = z.page =>
            y.who = z.who
      /\ \A y \in Claims : y.page # 0 =>
            y.page \in FIRSTPADDR .. (firstpaddr - 1)
  BY DEF PagesOnce
<1>2. ASSUME NEW x \in Claims', x.page # 0
      PROVE  x.page \in FIRSTPADDR .. (firstpaddr' - 1)
  <2>1. CASE \E y \in Claims : y.page = x.page /\ x.who = f[y.who]
    <3>1. x.page \in FIRSTPADDR .. (firstpaddr - 1)
      BY <1>1, <1>2, <2>1
    <3> QED
      BY <1>0, <3>1
  <2>2. CASE x.page \in firstpaddr .. (firstpaddr' - 1)
    BY <1>0, <2>2
  <2> QED
    BY <1>2, <2>1, <2>2
<1>3. ASSUME NEW x \in Claims', NEW w \in Claims', x.page # 0,
             x.page = w.page
      PROVE  x.who = w.who
  <2>1. CASE \E y \in Claims : y.page = x.page /\ x.who = f[y.who]
    <3>1. PICK y \in Claims : y.page = x.page /\ x.who = f[y.who]
      BY <2>1
    <3>2. x.page \in FIRSTPADDR .. (firstpaddr - 1)
      BY <1>1, <1>3, <3>1
    <3>3. x.page \notin firstpaddr .. (firstpaddr' - 1)
      BY <1>0, <3>2
    <3>4. PICK z \in Claims : z.page = w.page /\ w.who = f[z.who]
      BY <1>3, <3>3
    <3> QED
      BY <1>1, <1>3, <3>1, <3>4
  <2>2. CASE x.who = n /\ x.page \in firstpaddr .. (firstpaddr' - 1)
    <3>1. x.page \notin FIRSTPADDR .. (firstpaddr - 1)
      BY <1>0, <2>2
    <3>2. \A y \in Claims : y.page # w.page
      BY <1>1, <1>3, <3>1
    <3> QED
      BY <1>3, <2>2, <3>2
  <2> QED
    BY <1>3, <2>1, <2>2
<1> QED
  BY <1>2, <1>3 DEF PagesOnce

\* Without moves.
LEMMA OnceStays ==
  ASSUME "huge" \notin env, PagesOnce, env' = env, FIRSTPADDR <= firstpaddr,
         firstpaddr \in Nat, firstpaddr' \in Nat, firstpaddr <= firstpaddr',
         NEW n,
         \A x \in Claims' : x.page # 0 =>
           \/ x \in Claims
           \/ x.who = n /\ x.page \in firstpaddr .. (firstpaddr' - 1)
  PROVE  PagesOnce'
<1>1. PICK f : f = [w \in Whos |-> w]
  OBVIOUS
<1>2. \A y \in Claims : f[y.who] = y.who
  BY <1>1 DEF Whos
<1>3. \A x \in Claims' : x.page # 0 =>
        \/ \E y \in Claims : y.page = x.page /\ x.who = f[y.who]
        \/ x.who = n /\ x.page \in firstpaddr .. (firstpaddr' - 1)
  BY <1>2
<1> QED
  BY <1>3, OnceMoved

-----------------------------------------------------------------------------
\* Regions: they are given up with their address space, or as_prepare_load
\* gets one more.
Shrinks == /\ firstpaddr' = firstpaddr
           /\ \A a \in AsIds : as'[a] # NULL =>
                as'[a] = as[a] \/ \A k \in 1 .. 3 : Base(as'[a], k) = 0
Grows(id, j) ==
    /\ Base(as'[id], j) = firstpaddr
    /\ firstpaddr + Size(as'[id], j) = firstpaddr'
    /\ \A k \in (1 .. 3) \ {j} : /\ Base(as'[id], k) = Base(as[id], k)
                                 /\ Size(as'[id], k) = Size(as[id], k)
    /\ as[id] # NULL
    /\ \A a \in AsIds \ {id} : as'[a] = as[a]

LEMMA ShrinksOnce ==
  ASSUME "huge" \notin env, PagesOnce, env' = env, FIRSTPADDR <= firstpaddr,
         firstpaddr \in Nat, Shrinks, UNCHANGED kvars
  PROVE  PagesOnce'
<1>1. \A x \in AsClaims(as') : x \in AsClaims(as)
  <2> SUFFICES ASSUME NEW x \in AsClaims(as')
               PROVE  x \in AsClaims(as)
    OBVIOUS
  <2>1. PICK a \in AsIds, k \in 1 .. 3 :
          /\ as'[a] # NULL /\ Base(as'[a], k) # 0
          /\ \E i \in 0 .. (Size(as'[a], k) - 1) :
               x = [who |-> <<"as", a, k>>, page |-> Base(as'[a], k) + i]
    BY AsClaimIs
  <2>2. as'[a] = as[a]
    BY <2>1 DEF Shrinks
  <2> QED
    BY <2>1, <2>2, AsClaimIs
<1>2. Claims' \subseteq Claims
  BY <1>1 DEF Claims, AllHeld, kvars, heapvars, kthvars
<1>3. firstpaddr' \in Nat /\ firstpaddr <= firstpaddr'
  BY DEF Shrinks
<1> QED
  BY <1>2, <1>3, OnceStays

LEMMA GrowsOnce ==
  ASSUME "huge" \notin env, PagesOnce, env' = env, FIRSTPADDR <= firstpaddr,
         firstpaddr \in Nat, firstpaddr' \in Nat, firstpaddr <= firstpaddr',
         NEW id \in AsIds, NEW j \in 1 .. 3, Grows(id, j),
         as'[id] \in Addrspace, UNCHANGED kvars
  PROVE  PagesOnce'
<1> DEFINE n == <<"as", id, j>>
<1>1. ASSUME NEW x \in AsClaims(as')
      PROVE  \/ x \in AsClaims(as)
             \/ x.who = n /\ x.page \in firstpaddr .. (firstpaddr' - 1)
  <2>1. PICK a \in AsIds, k \in 1 .. 3 :
          /\ as'[a] # NULL /\ Base(as'[a], k) # 0
          /\ \E i \in 0 .. (Size(as'[a], k) - 1) :
               x = [who |-> <<"as", a, k>>, page |-> Base(as'[a], k) + i]
    BY AsClaimIs
  <2>2. CASE a = id /\ k = j
    <3>1. PICK i \in 0 .. (Size(as'[id], j) - 1) :
            x = [who |-> n, page |-> Base(as'[id], j) + i]
      BY <2>1, <2>2
    <3>2. Size(as'[id], j) \in Nat
      BY StartNat
    <3>3. x.page = firstpaddr + i /\ x.who = n
      BY <3>1 DEF Grows
    <3>4. firstpaddr' = firstpaddr + Size(as'[id], j)
      BY DEF Grows
    <3>5. i \in Nat /\ i < Size(as'[id], j)
      BY <3>2
    <3>6. firstpaddr + i \in firstpaddr .. (firstpaddr' - 1)
      BY <3>2, <3>4, <3>5
    <3> QED
      BY <3>3, <3>6
  <2>3. CASE ~(a = id /\ k = j)
    <3>1. /\ as[a] # NULL /\ Base(as[a], k) = Base(as'[a], k)
          /\ Size(as[a], k) = Size(as'[a], k)
      BY <2>1, <2>3 DEF Grows
    <3> QED
      BY <2>1, <3>1, AsClaimIs
  <2> QED
    BY <2>2, <2>3
<1>2. \A x \in Claims' :
        \/ x \in Claims
        \/ x.who = n /\ x.page \in firstpaddr .. (firstpaddr' - 1)
  BY <1>1 DEF Claims, AllHeld, kvars, heapvars, kthvars
<1> HIDE DEF n
<1> QED
  BY <1>2, OnceStays

\* What a step of a process does to memory.
Moves ==
    /\ env' = env
    /\ firstpaddr' \in 0 .. LASTPADDR
    /\ "huge" \notin env /\ FIRSTPADDR <= firstpaddr =>
         /\ FIRSTPADDR <= firstpaddr'
         /\ \/ Shrinks
            \/ \E id \in AsIds, j \in 1 .. 3 :
                 /\ Grows(id, j) /\ as'[id] \in Addrspace
                 /\ firstpaddr <= firstpaddr'

\* As most steps do.
Frees == \A a \in AsIds : as'[a] # NULL => as'[a] = as[a]
LEMMA FreesMoves ==
  ASSUME RamTypes, env' = env, firstpaddr' = firstpaddr, Frees
  PROVE  Moves
BY DEF RamTypes, Moves, Shrinks, Frees

LEMMA FailsFrees ==
  ASSUME AsTypes, NEW t \in Threads,
         LoadFails(t) \/ ForkFails(t) \/ ThreadExit(t)
  PROVE  Frees
<1>1. as' = as \/ \E x : as' = [as EXCEPT ![x] = NULL]
  BY DEF LoadFails, ExecFails, ThreadExit, ForkFails
<1> QED
  BY <1>1 DEF Frees, AsTypes

LEMMA FaultFrees ==
  ASSUME AsTypes, NEW t \in Threads, FaultFails(t)
  PROVE  Frees /\ firstpaddr' = firstpaddr
<1>1. CASE pc[t] \in {"load", "args"}
  BY <1>1, FailsFrees DEF FaultFails
<1>2. CASE pc[t] = "copy"
  BY <1>2 DEF FaultFails, Frees, asvars
<1>3. CASE pc[t] \notin {"load", "args", "copy"}
  BY <1>3 DEF FaultFails, Frees, Panic, avars, asvars
<1> QED
  BY <1>1, <1>2, <1>3

LEMMA VmFaultFrees ==
  ASSUME AsTypes, NEW t \in Threads, NEW v, VmFault(t, v)
  PROVE  Frees /\ firstpaddr' = firstpaddr /\ budget' = budget
BY FaultFrees DEF VmFault, Frees, Panic, avars, asvars

LEMMA PrepareMoves ==
  ASSUME RamTypes, AsTypes, AsRight, env' = env, NEW t \in Threads,
         pc[t] \in {"prepare", "fork"}, NEW id, id = loc[t].new,
         NEW n, n = Npages(as[id]), Advance(n),
         \/ Getppages(n) = 0 /\ Frees
         \/ /\ Getppages(n) # 0
            /\ as' = [as EXCEPT ![id] =
                        [as[id] EXCEPT ![Field(as[id])] = firstpaddr]]
  PROVE  Moves
<1>0. PICK a : a = as[id]
  OBVIOUS
<1>1. id # NULL /\ Has(t, id)
  BY DEF AsRight, ThreadRight, CallRight, Loading, Has
<1>2. id \in AsIds
  BY <1>1 DEF AsTypes, AsOrNull, Locals
<1>3. a \in Addrspace /\ SizesFit(a)
  BY <1>0, <1>1, <1>2 DEF AsTypes, AsRight, OwnRight, SizesRight
<1>4. PICK j \in 1 .. 3 :
        /\ n = Size(a, j)
        /\ \A p \in Nat : LET b == [a EXCEPT ![Field(a)] = p] IN
             /\ Base(b, j) = p
             /\ \A k \in (1 .. 3) \ {j} : Base(b, k) = Base(a, k)
             /\ \A k \in 1 .. 3 : Size(b, k) = Size(a, k)
  <2>1. CASE a.pbase1 = 0
    <3>1. Field(a) = "pbase1" /\ n = a.npages1
      BY <1>0, <2>1 DEF Field, Npages
    <3> QED
      BY <1>3, <3>1 DEF Addrspace, Base, Size
  <2>2. CASE a.pbase1 # 0 /\ a.pbase2 = 0
    <3>1. Field(a) = "pbase2" /\ n = a.npages2
      BY <1>0, <2>2 DEF Field, Npages
    <3> QED
      BY <1>3, <3>1 DEF Addrspace, Base, Size
  <2>3. CASE a.pbase1 # 0 /\ a.pbase2 # 0
    <3>1. Field(a) = "stackpbase" /\ n = DUMBVM_STACKPAGES
      BY <1>0, <2>3 DEF Field, Npages
    <3> QED
      BY <1>3, <3>1 DEF Addrspace, Base, Size
  <2> QED
    BY <2>1, <2>2, <2>3
<1>5. n \in Nat
  BY <1>3, <1>4, StartNat
<1>6. "huge" \notin env => ~Wraps(n)
  BY <1>3, <1>4, AsAssumptions DEF SizesFit, Size
<1>7. firstpaddr \in Nat /\ FIRSTPADDR \in Nat
  BY RamAssumptions DEF RamTypes
<1>8. firstpaddr' \in 0 .. LASTPADDR
  BY <1>5, AdvanceIs
<1>9. ASSUME "huge" \notin env, FIRSTPADDR <= firstpaddr
      PROVE  /\ FIRSTPADDR <= firstpaddr'
             /\ \/ Shrinks
                \/ \E x \in AsIds, k \in 1 .. 3 :
                     /\ Grows(x, k) /\ as'[x] \in Addrspace
                     /\ firstpaddr <= firstpaddr'
  <2>1. CASE Getppages(n) = 0 /\ firstpaddr' = firstpaddr
    <3>1. Frees
      BY <2>1
    <3> QED
      BY <1>9, <2>1, <3>1 DEF Shrinks, Frees
  <2>2. CASE Getppages(n) # 0 /\ firstpaddr' = firstpaddr + n
    <3>1. PICK b : b = [a EXCEPT ![Field(a)] = firstpaddr]
      OBVIOUS
    <3>2. as' = [as EXCEPT ![id] = b]
      BY <1>0, <2>2, <3>1
    <3>3. b \in Addrspace
      BY <1>3, <1>7, <3>1, FieldIs
    <3>4. as'[id] = b /\ \A x \in AsIds \ {id} : as'[x] = as[x]
      BY <1>2, <3>2 DEF AsTypes
    <3>5. /\ Base(b, j) = firstpaddr
          /\ \A k \in (1 .. 3) \ {j} : Base(b, k) = Base(a, k)
          /\ \A k \in 1 .. 3 : Size(b, k) = Size(a, k)
      BY <1>4, <1>7, <3>1
    <3>6. a # NULL
      BY <1>3, NullIs
    <3>7. Grows(id, j)
      BY <1>0, <1>4, <2>2, <3>4, <3>5, <3>6 DEF Grows
    <3>8. FIRSTPADDR <= firstpaddr' /\ firstpaddr <= firstpaddr'
      <4>1. PICK x, m \in Nat : x = firstpaddr /\ m = n
        BY <1>5, <1>7
      <4>2. firstpaddr' = x + m /\ FIRSTPADDR <= x
        BY <1>9, <2>2, <4>1
      <4>3. FIRSTPADDR <= x + m /\ x <= x + m
        BY <1>7, <4>2
      <4> QED
        BY <4>1, <4>2, <4>3
    <3> QED
      BY <1>2, <3>3, <3>4, <3>7, <3>8
  <2> QED
    BY <1>5, <1>6, <1>9, <2>1, <2>2, AdvanceIs
<1> QED
  BY <1>8, <1>9 DEF Moves

LEMMA CreateFrees ==
  ASSUME AsTypes, NEW t, NEW prog \in Programs, NEW l, Create(t, prog, l)
  PROVE  /\ firstpaddr' = firstpaddr
         /\ \A a \in AsIds : as'[a] # NULL =>
              as'[a] = as[a] \/ \A k \in 1 .. 3 : Base(as'[a], k) = 0
<1>1. PICK x \in AsIds : /\ as' = [as EXCEPT ![x] = Defined(prog)]
                         /\ firstpaddr' = firstpaddr
  BY DEF Create, FreshAs
<1>2. \A k \in 1 .. 3 : Base(Defined(prog), k) = 0
  BY DefinedIs
<1> QED
  BY <1>1, <1>2 DEF AsTypes

LEMMA ForkFrees ==
  ASSUME AsTypes, NEW t, NEW u, Fork(t, u)
  PROVE  /\ firstpaddr' = firstpaddr
         /\ \A a \in AsIds : as'[a] # NULL =>
              as'[a] = as[a] \/ \A k \in 1 .. 3 : Base(as'[a], k) = 0
<1>1. PICK old : old = as[t_addrspace[t]]
  OBVIOUS
<1>2. PICK b : b = [NewAs EXCEPT
                      !.vbase1 = old.vbase1, !.npages1 = old.npages1,
                      !.vbase2 = old.vbase2, !.npages2 = old.npages2]
  OBVIOUS
<1>3. PICK x \in AsIds : /\ as' = [as EXCEPT ![x] = b]
                         /\ firstpaddr' = firstpaddr
  BY <1>1, <1>2 DEF Fork, FreshAs
<1>4. \A k \in 1 .. 3 : Base(b, k) = 0
  BY <1>2 DEF NewAs, Base
<1> QED
  BY <1>3, <1>4 DEF AsTypes

\* The steps that need the most care come last.
LEMMA ProcMoves ==
  ASSUME RamTypes, AsTypes, AsRight, ProcNext
  PROVE  RamTypes' /\ Moves
<1> DEFINE Budgets == [heap : Nat, proc : Nat, copy : Nat, cpus : Nat,
                       errors : Nat, touched : SUBSET Nat]
<1>1. budget \in Budgets /\ firstpaddr \in 0 .. LASTPADDR
  BY DEF RamTypes
<1>2. ASSUME Moves, budget' \in Budgets
      PROVE  RamTypes'
  BY <1>2 DEF RamTypes, Moves
<1>3. ASSUME env' = env, firstpaddr' = firstpaddr, Frees, budget' \in Budgets
      PROVE  RamTypes' /\ Moves
  BY <1>2, <1>3, FreesMoves
<1> HIDE DEF Budgets
<1>4. ASSUME NEW c \in Boards, \/ Idle(c)
                               \/ \E t \in Threads : Switch(c, t)
      PROVE  RamTypes' /\ Moves
  <2>1. UNCHANGED <<as, ramvars>>
    BY <1>4 DEF Idle, Switch, asvars
  <2> QED
    BY <1>1, <1>3, <2>1 DEF Frees, ramvars
<1>5. ASSUME NEW t \in Threads,
             \/ TlbWrite(t) \/ CopyFault(t)
             \/ \E v \in budget.touched : UserFault(t, v)
      PROVE  RamTypes' /\ Moves
  <2>1. env' = env /\ budget' = budget
    BY <1>5 DEF TlbWrite, CopyFault, UserFault, VmFault, At, AtAny
  <2>2. Frees /\ firstpaddr' = firstpaddr
    BY <1>5, FaultFrees, VmFaultFrees
    DEF TlbWrite, CopyFault, UserFault, Frees, asvars
  <2> QED
    BY <1>1, <1>3, <2>1, <2>2
<1>6. ASSUME NEW t \in Threads, PrepareLoad(t) \/ ForkPrepare(t)
      PROVE  RamTypes' /\ Moves
  <2>1. PICK id : id = loc[t].new
    OBVIOUS
  <2>2. PICK n : n = Npages(as[id])
    OBVIOUS
  <2>3. /\ env' = env /\ budget' = budget /\ pc[t] \in {"prepare", "fork"}
        /\ Advance(n)
    BY <1>6, <2>1, <2>2 DEF PrepareLoad, ForkPrepare, Prepare, At, AtAny
  <2>4. \/ Getppages(n) = 0 /\ Frees
        \/ /\ Getppages(n) # 0
           /\ as' = [as EXCEPT ![id] =
                       [as[id] EXCEPT ![Field(as[id])] = firstpaddr]]
    BY <1>6, <2>1, <2>2, FailsFrees DEF PrepareLoad, ForkPrepare, Prepare
  <2>5. Moves
    BY <2>1, <2>2, <2>3, <2>4, PrepareMoves
  <2> QED
    BY <1>1, <1>2, <2>3, <2>5
<1>7. ASSUME NEW t \in Threads, CopyPage(t) \/ ExecvEnd(t) \/ ForkEnd(t)
                                \/ ChildReturn(t) \/ Exit(t) \/ Printed(t)
                                \/ Getcwd(t) \/ ExecvOverflows(t)
                                \/ \E v \in budget.touched : UserStore(t, v)
      PROVE  RamTypes' /\ Moves
  <2>1. env' = env /\ budget' = budget /\ firstpaddr' = firstpaddr
    BY <1>7 DEF CopyPage, ExecvEnd, ForkEnd, ChildReturn, Exit, Printed,
                Getcwd, ExecvOverflows, UserStore, At, AtAny, Panic, ramvars
  <2>2. Frees
    <3>1. CASE CopyPage(t) \/ ChildReturn(t) \/ Printed(t) \/ Getcwd(t)
               \/ ExecvOverflows(t)
               \/ \E v \in budget.touched : UserStore(t, v)
      BY <3>1 DEF CopyPage, ChildReturn, Printed, Getcwd, ExecvOverflows,
                  UserStore, Panic, Frees, avars, asvars
    <3>2. CASE ExecvEnd(t)
      BY <3>2 DEF ExecvEnd, Frees, AsTypes
    <3>3. CASE ForkEnd(t) \/ Exit(t)
      BY <3>3, FailsFrees DEF ForkEnd, Exit, Frees, asvars
    <3> QED
      BY <1>7, <3>1, <3>2, <3>3
  <2> QED
    BY <1>1, <1>3, <2>1, <2>2
<1>8. ASSUME NEW t \in Threads,
             \/ LoadError(t)
             \/ \E prog \in Programs : Execv(t, prog)
             \/ \E v \in budget.touched : CopyCall(t, v, "copy")
                                          \/ CopyCall(t, v, "printf")
      PROVE  RamTypes' /\ Moves
  <2>1. /\ env' = env /\ firstpaddr' = firstpaddr
        /\ Spend("errors") \/ Spend("proc") \/ Spend("copy")
    BY <1>8 DEF LoadError, Execv, CopyCall, Call, At, AtAny
  <2>2. budget' \in Budgets
    BY <2>1, SpendIs DEF Budgets
  <2>3. Frees
    BY <1>8, FailsFrees DEF LoadError, Execv, CopyCall, Frees, asvars
  <2> QED
    BY <1>3, <2>1, <2>2, <2>3
<1>9. ASSUME NEW t \in Threads,
             \/ ExecvCreate(t)
             \/ \E prog \in Programs : Runprogram(t, prog)
             \/ \E u \in Threads : Fork(t, u)
      PROVE  RamTypes' /\ Moves
  <2>1. /\ env' = env
        /\ budget' = budget \/ Spend("proc")
    BY <1>9 DEF ExecvCreate, Runprogram, Fork, Call, At, AtAny
  <2>2. budget' \in Budgets
    BY <1>1, <2>1, SpendIs DEF Budgets
  <2>0. ASSUME env' = env, budget' \in Budgets, Shrinks
        PROVE  RamTypes' /\ Moves
    <3>1. Moves
      BY <1>1, <2>0 DEF Moves, Shrinks
    <3> QED
      BY <1>2, <2>0, <3>1
  <2>3. CASE \E u \in Threads : Fork(t, u)
    <3>1. Shrinks
      BY <2>3, ForkFrees DEF Shrinks
    <3> QED
      BY <2>0, <2>1, <2>2, <3>1
  <2>4. CASE \E prog \in Programs : Runprogram(t, prog)
    <3>1. Shrinks
      BY <2>4, CreateFrees DEF Shrinks, Runprogram
    <3> QED
      BY <2>0, <2>1, <2>2, <3>1
  <2>5. CASE ExecvCreate(t)
    <3>1. pc[t] = "create"
      BY <2>5 DEF ExecvCreate, At, AtAny
    <3>2. loc[t].prog \in Programs
      BY <3>1 DEF AsRight, ThreadRight, CallRight
    <3>3. Shrinks
      BY <2>5, <3>2, CreateFrees DEF ExecvCreate, Shrinks, asvars
    <3> QED
      BY <2>0, <2>1, <2>2, <3>3
  <2> QED
    BY <1>9, <2>3, <2>4, <2>5
<1> QED
  BY <1>4, <1>5, <1>6, <1>7, <1>8, <1>9 DEF ProcNext

-----------------------------------------------------------------------------
\* The heap.  Its variables as functions.
Ref == {"page", "type", "free"}
LEMMA ExceptIs ==
  ASSUME NEW f, NEW S, IsRecord(f, S), NEW k, NEW v,
         NEW g, g = [f EXCEPT ![k] = v]
  PROVE  /\ IsRecord(g, S)
         /\ \A x \in S : g[x] = IF x = k THEN v ELSE f[x]
BY DEF IsRecord

LEMMA NoLocIs ==
  /\ IsRecord(NoLoc, DOMAIN NoLoc) /\ NoLoc.page = 0 /\ NoLoc.va = 0
  /\ DOMAIN NoLoc = {"type", "page", "root", "entry", "va"}
BY DEF IsRecord, NoLoc

LEMMA KGotoIs ==
  ASSUME HeapTypes, NEW t \in Callers, NEW label, NEW l, KGoto(t, label, l),
         IsRecord(l, DOMAIN NoLoc)
  PROVE  /\ IsRecord(kloc', Callers)
         /\ \A u \in Callers : IsRecord(kloc'[u], DOMAIN NoLoc)
         /\ kloc'[t] = l /\ \A u \in Callers \ {t} : kloc'[u] = kloc[u]
<1>0. kloc' = [kloc EXCEPT ![t] = l] /\ IsRecord(kloc, Callers)
  BY DEF KGoto, HeapTypes
<1>1. /\ IsRecord(kloc', Callers)
      /\ \A u \in Callers : kloc'[u] = IF u = t THEN l ELSE kloc[u]
  BY <1>0 DEF IsRecord
<1> QED
  BY <1>1 DEF HeapTypes

\* A block more, of those of one page.
LEMMA GetsIs ==
  ASSUME HeapTypes, NEW t \in Callers, NEW b, Gets(t, b)
  PROVE  IsRecord(held', Callers) /\ AllHeld' \subseteq AllHeld \union {b}
<1>0. /\ held' = [held EXCEPT ![t] = held[t] \union {b}]
      /\ IsRecord(held, Callers)
  BY DEF Gets, HeapTypes
<1>1. /\ IsRecord(held', Callers)
      /\ \A u \in Callers :
           held'[u] = IF u = t THEN held[t] \union {b} ELSE held[u]
  BY <1>0 DEF IsRecord
<1> QED
  BY <1>1 DEF AllHeld

LEMMA DoallocIs ==
  ASSUME HeapTypes, NEW t \in Callers, NEW r, NEW prs, Doalloc(t, r, prs),
         IsRecord(prs, DOMAIN prs),
         \A q \in DOMAIN prs : IsRecord(prs[q], Ref)
  PROVE  /\ IsRecord(pagerefs', DOMAIN pagerefs')
         /\ DOMAIN pagerefs' = DOMAIN prs
         /\ \A q \in DOMAIN prs : /\ IsRecord(pagerefs'[q], Ref)
                                  /\ pagerefs'[q].page = prs[q].page
         /\ IsRecord(held', Callers)
         /\ \A b \in AllHeld' : b \in AllHeld \/ b.npages = 0
         /\ IsRecord(kloc', Callers)
         /\ \A u \in Callers : IsRecord(kloc'[u], DOMAIN NoLoc)
         /\ kloc'[t] = NoLoc /\ \A u \in Callers \ {t} : kloc'[u] = kloc[u]
<1>1. PICK pr : pr = [prs[r] EXCEPT !.free = Tail(prs[r].free)]
  OBVIOUS
<1>2. pagerefs' = [prs EXCEPT ![r] = pr]
  BY <1>1 DEF Doalloc
<1>3. /\ IsRecord(pagerefs', DOMAIN prs)
      /\ \A q \in DOMAIN prs : pagerefs'[q] = IF q = r THEN pr ELSE prs[q]
  BY <1>2, ExceptIs
<1>4. r \in DOMAIN prs => IsRecord(pr, Ref) /\ pr.page = prs[r].page
  BY <1>1, ExceptIs DEF Ref
<1>5. DOMAIN pagerefs' = DOMAIN prs
  BY <1>3 DEF IsRecord
<1>6. PICK b : b = Block(prs[r].page, Head(prs[r].free))
  OBVIOUS
<1>7. b.npages = 0
  BY <1>6 DEF Block
<1>8. IsRecord(held', Callers) /\ AllHeld' \subseteq AllHeld \union {b}
  BY <1>6, GetsIs DEF Doalloc
<1>9. /\ IsRecord(kloc', Callers)
      /\ \A u \in Callers : IsRecord(kloc'[u], DOMAIN NoLoc)
      /\ kloc'[t] = NoLoc /\ \A u \in Callers \ {t} : kloc'[u] = kloc[u]
  BY KGotoIs, NoLocIs DEF Doalloc, KReturn
<1> QED
  BY <1>3, <1>4, <1>5, <1>7, <1>8, <1>9

LEMMA LargeClaimIs ==
  ASSUME NEW blocks, NEW x
  PROVE  x \in LargeClaims(blocks) <=>
           \E b \in blocks : \E i \in 0 .. (b.npages - 1) :
             x = [who |-> <<"large", b>>, page |-> b.page + i]
BY DEF LargeClaims

LEMMA AsClaimWho ==
  ASSUME NEW spaces, NEW x \in AsClaims(spaces)
  PROVE  \E a, k : x.who = <<"as", a, k>>
<1>1. PICK a \in AsIds, k \in 1 .. 3 :
        /\ spaces[a] # NULL /\ Base(spaces[a], k) # 0
        /\ \E i \in 0 .. (Size(spaces[a], k) - 1) :
             x = [who |-> <<"as", a, k>>, page |-> Base(spaces[a], k) + i]
  BY AsClaimIs
<1> QED
  BY <1>1

\* Somebody gets new pages at most.
LEMMA HeapOnce ==
  ASSUME "huge" \notin env, PagesOnce, env' = env, FIRSTPADDR <= firstpaddr,
         firstpaddr \in Nat, firstpaddr' \in Nat, firstpaddr <= firstpaddr',
         UNCHANGED as, NEW n,
         \A i \in Roots : kheaproots'[i].page = kheaproots[i].page,
         \A r \in DOMAIN pagerefs' : /\ r \in DOMAIN pagerefs
                                     /\ pagerefs'[r].page = pagerefs[r].page,
         \A u \in Callers :
           \/ kloc'[u].page \in {0, kloc[u].page}
           \/ /\ n = <<"new", u>>
              /\ kloc'[u].page \in firstpaddr .. (firstpaddr' - 1),
         \A u \in Callers :
           \/ kloc'[u].va \in {0, kloc[u].va}
           \/ /\ n = <<"ref", u>>
              /\ kloc'[u].va \in firstpaddr .. (firstpaddr' - 1),
         \A b \in AllHeld' :
           \/ b \in AllHeld \/ b.npages = 0
           \/ /\ n = <<"large", b>>
              /\ \A i \in 0 .. (b.npages - 1) :
                   b.page + i \in firstpaddr .. (firstpaddr' - 1)
  PROVE  PagesOnce'
<1> SUFFICES ASSUME NEW x \in Claims', x.page # 0
             PROVE  \/ x \in Claims
                    \/ x.who = n /\ x.page \in firstpaddr .. (firstpaddr' - 1)
  BY OnceStays
<1>1. CASE x \in RootClaims(kheaproots')
  BY <1>1 DEF RootClaims, Claims
<1>2. CASE x \in HeapClaims(pagerefs')
  BY <1>2 DEF HeapClaims, Claims
<1>3. CASE x \in NewClaims(kloc')
  <2>1. PICK u \in Callers : x = [who |-> <<"new", u>>, page |-> kloc'[u].page]
    BY <1>3 DEF NewClaims
  <2>2. x.who = <<"new", u>> /\ x.page = kloc'[u].page
    BY <2>1
  <2>3. kloc'[u].page = kloc[u].page => x \in Claims
    BY <2>1 DEF NewClaims, Claims
  <2> QED
    BY <2>2, <2>3
<1>4. CASE x \in RefClaims(kloc')
  <2>1. PICK u \in Callers : x = [who |-> <<"ref", u>>, page |-> kloc'[u].va]
    BY <1>4 DEF RefClaims
  <2>2. x.who = <<"ref", u>> /\ x.page = kloc'[u].va
    BY <2>1
  <2>3. kloc'[u].va = kloc[u].va => x \in Claims
    BY <2>1 DEF RefClaims, Claims
  <2> QED
    BY <2>2, <2>3
<1>5. CASE x \in LargeClaims(AllHeld')
  <2>1. PICK b \in AllHeld' : \E i \in 0 .. (b.npages - 1) :
               x = [who |-> <<"large", b>>, page |-> b.page + i]
    BY <1>5, LargeClaimIs
  <2>2. CASE b \in AllHeld
    <3>1. x \in LargeClaims(AllHeld)
      BY <2>1, <2>2, LargeClaimIs
    <3> QED
      BY <3>1 DEF Claims
  <2>3. b.npages # 0
    BY <2>1
  <2> QED
    BY <2>1, <2>2, <2>3
<1>6. CASE x \in AsClaims(as')
  BY <1>6 DEF Claims
<1> QED
  BY <1>1, <1>2, <1>3, <1>4, <1>5, <1>6 DEF Claims

\* The page of a thread becomes the heap's, and the other one that of a root
\* without one.
LEMMA NewPageOnce ==
  ASSUME "huge" \notin env, PagesOnce, env' = env, FIRSTPADDR <= firstpaddr,
         firstpaddr \in Nat, firstpaddr' = firstpaddr,
         UNCHANGED as, NEW t \in Callers, NEW r, NEW root,
         \A i \in Roots : \/ kheaproots'[i].page = kheaproots[i].page
                          \/ i = root /\ kheaproots'[i].page = kloc[t].va,
         \A q \in DOMAIN pagerefs' :
           \/ q = r /\ pagerefs'[q].page = kloc[t].page
           \/ q \in DOMAIN pagerefs /\ pagerefs'[q].page = pagerefs[q].page,
         kloc'[t] = NoLoc, \A u \in Callers \ {t} : kloc'[u] = kloc[u],
         \A b \in AllHeld' : b \in AllHeld \/ b.npages = 0
  PROVE  PagesOnce'
<1>1. PICK f : f = [w \in Whos |-> 
        IF w = <<"new", t>> THEN <<"heap", r>>
        ELSE IF w = <<"ref", t>> THEN <<"root", root>>
        ELSE w]
  OBVIOUS
<1>2. \A y \in Claims :
        f[y.who] = IF y.who = <<"new", t>> THEN <<"heap", r>>
                   ELSE IF y.who = <<"ref", t>> THEN <<"root", root>>
                   ELSE y.who
  BY <1>1 DEF Whos
<1> SUFFICES ASSUME NEW x \in Claims', x.page # 0
             PROVE  \E y \in Claims : y.page = x.page /\ x.who = f[y.who]
  BY OnceMoved
<1>3. ASSUME x \in Claims, x.who # <<"new", t>>, x.who # <<"ref", t>>
      PROVE  \E y \in Claims : y.page = x.page /\ x.who = f[y.who]
  BY <1>2, <1>3
<1>4. CASE x \in RootClaims(kheaproots')
  <2>1. PICK i \in Roots : x = [who |-> <<"root", i>>,
                                page |-> kheaproots'[i].page]
    BY <1>4 DEF RootClaims
  <2>2. CASE kheaproots'[i].page = kheaproots[i].page
    <3>1. x \in Claims
      BY <2>1, <2>2 DEF RootClaims, Claims
    <3> QED
      BY <1>3, <2>1, <3>1
  <2>3. CASE i = root /\ kheaproots'[i].page = kloc[t].va
    <3>1. PICK y : y = [who |-> <<"ref", t>>, page |-> kloc[t].va]
      OBVIOUS
    <3>2. y \in Claims
      BY <3>1 DEF RefClaims, Claims
    <3> QED
      BY <1>2, <2>1, <2>3, <3>1, <3>2
  <2> QED
    BY <2>2, <2>3
<1>5. CASE x \in HeapClaims(pagerefs')
  <2>1. PICK q \in DOMAIN pagerefs' : x = [who |-> <<"heap", q>>,
                                           page |-> pagerefs'[q].page]
    BY <1>5 DEF HeapClaims
  <2>2. CASE q \in DOMAIN pagerefs /\ pagerefs'[q].page = pagerefs[q].page
    <3>1. x \in Claims
      BY <2>1, <2>2 DEF HeapClaims, Claims
    <3> QED
      BY <1>3, <2>1, <3>1
  <2>3. CASE q = r /\ pagerefs'[q].page = kloc[t].page
    <3>1. PICK y : y = [who |-> <<"new", t>>, page |-> kloc[t].page]
      OBVIOUS
    <3>2. y \in Claims
      BY <3>1 DEF NewClaims, Claims
    <3> QED
      BY <1>2, <2>1, <2>3, <3>1, <3>2
  <2> QED
    BY <2>2, <2>3
<1>6. CASE x \in NewClaims(kloc')
  <2>1. PICK u \in Callers : x = [who |-> <<"new", u>>, page |-> kloc'[u].page]
    BY <1>6 DEF NewClaims
  <2>2. u # t
    BY <2>1, NoLocIs
  <2>3. x \in Claims
    BY <2>1, <2>2 DEF NewClaims, Claims
  <2> QED
    BY <1>3, <2>1, <2>2, <2>3
<1>7. CASE x \in RefClaims(kloc')
  <2>1. PICK u \in Callers : x = [who |-> <<"ref", u>>, page |-> kloc'[u].va]
    BY <1>7 DEF RefClaims
  <2>2. u # t
    BY <2>1, NoLocIs
  <2>3. x \in Claims
    BY <2>1, <2>2 DEF RefClaims, Claims
  <2> QED
    BY <1>3, <2>1, <2>2, <2>3
<1>8. CASE x \in LargeClaims(AllHeld')
  <2>1. PICK b \in AllHeld' : \E i \in 0 .. (b.npages - 1) :
               x = [who |-> <<"large", b>>, page |-> b.page + i]
    BY <1>8, LargeClaimIs
  <2>2. b \in AllHeld
    BY <2>1
  <2>3. x \in LargeClaims(AllHeld)
    BY <2>1, <2>2, LargeClaimIs
  <2>4. x \in Claims
    BY <2>3 DEF Claims
  <2> QED
    BY <1>3, <2>1, <2>4
<1>9. CASE x \in AsClaims(as')
  <2>1. x \in Claims
    BY <1>9 DEF Claims
  <2>2. PICK a, k : x.who = <<"as", a, k>>
    BY <1>9, AsClaimWho
  <2>4. x.who # <<"new", t>> /\ x.who # <<"ref", t>>
    BY <2>2
  <2> QED
    BY <1>3, <2>1, <2>4
<1> QED
  BY <1>4, <1>5, <1>6, <1>7, <1>8, <1>9 DEF Claims

-----------------------------------------------------------------------------
\* The steps of kmalloc and kfree.
HeapRight == /\ RamTypes /\ HeapTypes
             /\ "huge" \notin env => PagesOnce /\ FIRSTPADDR <= firstpaddr

\* Either there was a page, or nothing happens to memory.
LEMMA AdvanceOne ==
  ASSUME RamTypes, Advance(1), FIRSTPADDR <= firstpaddr
  PROVE  /\ firstpaddr \in Nat /\ firstpaddr' \in Nat
         /\ FIRSTPADDR <= firstpaddr' /\ firstpaddr <= firstpaddr'
         /\ \/ Getppages(1) = 0
            \/ Getppages(1) \in firstpaddr .. (firstpaddr' - 1)
<1>1. firstpaddr \in Nat /\ FIRSTPADDR \in Nat /\ ~Wraps(1) /\ 1 \in Nat
  BY RamAssumptions DEF RamTypes
<1>2. \/ Getppages(1) = 0 /\ firstpaddr' = firstpaddr
      \/ Getppages(1) = firstpaddr /\ firstpaddr' = firstpaddr + 1
  BY <1>1, AdvanceIs
<1> QED
  BY <1>1, <1>2

\* What a step that takes pages for t does to kloc.
LEMMA KmallocPageKept ==
  ASSUME HeapRight, NEW t \in Callers, KmallocPage(t), UNCHANGED as
  PROVE  HeapRight' /\ SameUse
<1>1. /\ env' = env /\ budget' = budget /\ UNCHANGED heapvars /\ held' = held
      /\ Advance(1)
  BY DEF KmallocPage, KAt
<1>2. RamTypes'
  BY <1>1, AdvanceIs DEF HeapRight, RamTypes
<1>3. PICK l : /\ KGoto(t, IF Getppages(1) # 0 THEN "ref" ELSE "idle", l)
               /\ l = IF Getppages(1) # 0
                      THEN [kloc[t] EXCEPT !.page = Getppages(1)] ELSE NoLoc
  BY DEF KmallocPage, KReturn
<1>4. /\ IsRecord(l, DOMAIN NoLoc) /\ l.page \in {0, Getppages(1)}
      /\ l.va \in {0, kloc[t].va}
  <2>1. IsRecord(kloc[t], DOMAIN NoLoc)
    BY DEF HeapRight, HeapTypes
  <2> QED
    BY <1>3, <2>1, NoLocIs DEF IsRecord
<1>5. /\ IsRecord(kloc', Callers)
      /\ \A u \in Callers : IsRecord(kloc'[u], DOMAIN NoLoc)
      /\ kloc'[t] = l /\ \A u \in Callers \ {t} : kloc'[u] = kloc[u]
  BY <1>3, <1>4, KGotoIs DEF HeapRight
<1>6. HeapTypes'
  BY <1>1, <1>5 DEF HeapRight, HeapTypes, heapvars
<1>7. ASSUME "huge" \notin env
      PROVE  PagesOnce' /\ FIRSTPADDR <= firstpaddr'
  <2>1. PagesOnce /\ FIRSTPADDR <= firstpaddr /\ RamTypes
    BY <1>7 DEF HeapRight
  <2>2. /\ firstpaddr \in Nat /\ firstpaddr' \in Nat
        /\ FIRSTPADDR <= firstpaddr' /\ firstpaddr <= firstpaddr'
        /\ \/ Getppages(1) = 0
           \/ Getppages(1) \in firstpaddr .. (firstpaddr' - 1)
    BY <1>1, <2>1, AdvanceOne
  <2>3. PICK n : n = <<"new", t>>
    OBVIOUS
  <2>4. \A u \in Callers :
          \/ kloc'[u].page \in {0, kloc[u].page}
          \/ /\ n = <<"new", u>>
             /\ kloc'[u].page \in firstpaddr .. (firstpaddr' - 1)
    BY <1>4, <1>5, <2>2, <2>3
  <2>5. \A u \in Callers : kloc'[u].va \in {0, kloc[u].va}
    BY <1>4, <1>5
  <2>6. /\ \A i \in Roots : kheaproots'[i].page = kheaproots[i].page
        /\ \A r \in DOMAIN pagerefs' : /\ r \in DOMAIN pagerefs
                                       /\ pagerefs'[r].page = pagerefs[r].page
        /\ \A b \in AllHeld' : b \in AllHeld
    BY <1>1 DEF heapvars, AllHeld
  <2>7. PagesOnce'
    BY <1>1, <1>7, <2>1, <2>2, <2>4, <2>5, <2>6, HeapOnce
  <2> QED
    BY <2>2, <2>7
<1> QED
  BY <1>1, <1>2, <1>6, <1>7 DEF HeapRight, SameUse

LEMMA RefPageKept ==
  ASSUME HeapRight, NEW t \in Callers, RefPage(t), UNCHANGED as
  PROVE  HeapRight' /\ SameUse
<1>1. /\ env' = env /\ budget' = budget /\ UNCHANGED heapvars /\ held' = held
      /\ Advance(1)
  BY DEF RefPage, KAt
<1>2. RamTypes'
  BY <1>1, AdvanceIs DEF HeapRight, RamTypes
<1>3. PICK l : /\ KGoto(t, "gotpage", l)
               /\ l = [kloc[t] EXCEPT !.va = Getppages(1)]
  BY DEF RefPage
<1>4. /\ IsRecord(l, DOMAIN NoLoc) /\ l.page = kloc[t].page
      /\ l.va = Getppages(1)
  <2>1. IsRecord(kloc[t], DOMAIN NoLoc)
    BY DEF HeapRight, HeapTypes
  <2> QED
    BY <1>3, <2>1, NoLocIs DEF IsRecord
<1>5. /\ IsRecord(kloc', Callers)
      /\ \A u \in Callers : IsRecord(kloc'[u], DOMAIN NoLoc)
      /\ kloc'[t] = l /\ \A u \in Callers \ {t} : kloc'[u] = kloc[u]
  BY <1>3, <1>4, KGotoIs DEF HeapRight
<1>6. HeapTypes'
  BY <1>1, <1>5 DEF HeapRight, HeapTypes, heapvars
<1>7. ASSUME "huge" \notin env
      PROVE  PagesOnce' /\ FIRSTPADDR <= firstpaddr'
  <2>1. PagesOnce /\ FIRSTPADDR <= firstpaddr /\ RamTypes
    BY <1>7 DEF HeapRight
  <2>2. /\ firstpaddr \in Nat /\ firstpaddr' \in Nat
        /\ FIRSTPADDR <= firstpaddr' /\ firstpaddr <= firstpaddr'
        /\ \/ Getppages(1) = 0
           \/ Getppages(1) \in firstpaddr .. (firstpaddr' - 1)
    BY <1>1, <2>1, AdvanceOne
  <2>3. PICK n : n = <<"ref", t>>
    OBVIOUS
  <2>4. \A u \in Callers :
          \/ kloc'[u].va \in {0, kloc[u].va}
          \/ /\ n = <<"ref", u>>
             /\ kloc'[u].va \in firstpaddr .. (firstpaddr' - 1)
    BY <1>4, <1>5, <2>2, <2>3
  <2>5. \A u \in Callers : kloc'[u].page \in {0, kloc[u].page}
    BY <1>4, <1>5
  <2>6. /\ \A i \in Roots : kheaproots'[i].page = kheaproots[i].page
        /\ \A r \in DOMAIN pagerefs' : /\ r \in DOMAIN pagerefs
                                       /\ pagerefs'[r].page = pagerefs[r].page
        /\ \A b \in AllHeld' : b \in AllHeld
    BY <1>1 DEF heapvars, AllHeld
  <2>7. PagesOnce'
    BY <1>1, <1>7, <2>1, <2>2, <2>4, <2>5, <2>6, HeapOnce
  <2> QED
    BY <2>2, <2>7
<1> QED
  BY <1>1, <1>2, <1>6, <1>7 DEF HeapRight, SameUse

LEMMA KmallocKept ==
  ASSUME HeapRight, NEW t \in Callers, NEW sz \in Requests, Kmalloc(t, sz),
         UNCHANGED as
  PROVE  HeapRight' /\ SameUse
<1>1. /\ env' = env /\ budget.heap > 0
      /\ budget' = [budget EXCEPT !.heap = @ - 1]
      /\ Wraps(WholePages(sz)) => "huge" \in env
  BY DEF Kmalloc, KAt
<1>2. /\ budget' \in [heap : Nat, proc : Nat, copy : Nat, cpus : Nat,
                      errors : Nat, touched : SUBSET Nat]
      /\ budget'.touched = budget.touched
  BY <1>1 DEF HeapRight, RamTypes
<1>3. SameUse
  BY <1>1, <1>2 DEF SameUse
<1>4. CASE KmallocLarge(t, sz)
  <2>1. PICK n : n = RoundedPages(sz) /\ n \in Nat
                 /\ (~Wraps(WholePages(sz)) => ~Wraps(n))
    BY RoundedPagesAre, KmallocAssumptions
  <2>2. /\ Advance(n) /\ UNCHANGED <<heapvars, kpc, kloc>>
        /\ IF Getppages(n) # 0 THEN Gets(t, Large(Getppages(n), n))
           ELSE UNCHANGED held
    BY <1>4, <2>1 DEF KmallocLarge
  <2>3. RamTypes'
    BY <1>1, <1>2, <2>1, <2>2, AdvanceIs DEF HeapRight, RamTypes
  <2>4. PICK b : b = Large(Getppages(n), n)
    OBVIOUS
  <2>5. b.page = Getppages(n) /\ b.npages = n
    BY <2>4 DEF Large
  <2>6. /\ IsRecord(held', Callers)
        /\ \A x \in AllHeld' : x \in AllHeld \/ (x = b /\ Getppages(n) # 0)
    <3>1. CASE Getppages(n) # 0
      BY <2>2, <2>4, <3>1, GetsIs DEF HeapRight
    <3>2. CASE Getppages(n) = 0
      BY <2>2, <3>2 DEF HeapRight, HeapTypes, AllHeld
    <3> QED
      BY <3>1, <3>2
  <2>7. HeapTypes'
    BY <2>2, <2>6 DEF HeapRight, HeapTypes, heapvars
  <2>8. ASSUME "huge" \notin env
        PROVE  PagesOnce' /\ FIRSTPADDR <= firstpaddr'
    <3>1. /\ PagesOnce /\ FIRSTPADDR <= firstpaddr /\ RamTypes /\ ~Wraps(n)
          /\ firstpaddr \in Nat /\ FIRSTPADDR \in Nat
      BY <1>1, <2>1, <2>8, RamAssumptions DEF HeapRight, RamTypes
    <3>2. \/ Getppages(n) = 0 /\ firstpaddr' = firstpaddr
          \/ /\ Getppages(n) = firstpaddr /\ firstpaddr # 0
             /\ firstpaddr' = firstpaddr + n
      BY <2>1, <2>2, <3>1, AdvanceIs
    <3>3. /\ firstpaddr' \in Nat /\ FIRSTPADDR <= firstpaddr'
          /\ firstpaddr <= firstpaddr'
      BY <2>1, <3>1, <3>2
    <3>4. PICK w : w = <<"large", b>>
      OBVIOUS
    <3>5. Getppages(n) # 0 =>
            \A i \in 0 .. (b.npages - 1) :
              b.page + i \in firstpaddr .. (firstpaddr' - 1)
      BY <2>1, <2>5, <3>1, <3>2
    <3>6. \A x \in AllHeld' :
            \/ x \in AllHeld \/ x.npages = 0
            \/ /\ w = <<"large", x>>
               /\ \A i \in 0 .. (x.npages - 1) :
                    x.page + i \in firstpaddr .. (firstpaddr' - 1)
      BY <2>6, <3>4, <3>5
    <3>7. /\ \A i \in Roots : kheaproots'[i].page = kheaproots[i].page
          /\ \A r \in DOMAIN pagerefs' :
               r \in DOMAIN pagerefs /\ pagerefs'[r].page = pagerefs[r].page
          /\ \A u \in Callers : kloc'[u].page = kloc[u].page
                                /\ kloc'[u].va = kloc[u].va
      BY <2>2 DEF heapvars
    <3>8. PagesOnce'
      BY <1>1, <2>8, <3>1, <3>3, <3>6, <3>7, HeapOnce
    <3> QED
      BY <3>3, <3>8
  <2> QED
    BY <1>1, <1>3, <2>3, <2>7, <2>8 DEF HeapRight
<1>5. CASE SubpageKmalloc(t, sz)
  <2>1. /\ firstpaddr' = firstpaddr
        /\ UNCHANGED <<kheaproots, sizebases, allbase>>
    BY <1>5 DEF SubpageKmalloc, heapvars
  <2>2. RamTypes'
    BY <1>1, <1>2, <2>1 DEF HeapRight, RamTypes
  <2>3. /\ HeapTypes'
        /\ \A r \in DOMAIN pagerefs' : /\ r \in DOMAIN pagerefs
                                       /\ pagerefs'[r].page = pagerefs[r].page
        /\ \A u \in Callers : /\ kloc'[u].page \in {0, kloc[u].page}
                              /\ kloc'[u].va \in {0, kloc[u].va}
        /\ \A b \in AllHeld' : b \in AllHeld \/ b.npages = 0
    <3>1. CASE \E r : Doalloc(t, r, pagerefs)
      <4>1. PICK r : Doalloc(t, r, pagerefs)
        BY <3>1
      <4>2. /\ IsRecord(pagerefs, DOMAIN pagerefs) /\ HeapTypes
            /\ \A q \in DOMAIN pagerefs : IsRecord(pagerefs[q], Ref)
        BY DEF HeapRight, HeapTypes, Ref
      <4>3. /\ IsRecord(pagerefs', DOMAIN pagerefs')
            /\ DOMAIN pagerefs' = DOMAIN pagerefs
            /\ \A q \in DOMAIN pagerefs :
                 IsRecord(pagerefs'[q], Ref)
                 /\ pagerefs'[q].page = pagerefs[q].page
            /\ IsRecord(held', Callers)
            /\ \A b \in AllHeld' : b \in AllHeld \/ b.npages = 0
            /\ IsRecord(kloc', Callers)
            /\ \A u \in Callers : IsRecord(kloc'[u], DOMAIN NoLoc)
            /\ kloc'[t] = NoLoc /\ \A u \in Callers \ {t} : kloc'[u] = kloc[u]
        BY <4>1, <4>2, DoallocIs
      <4>4. HeapTypes'
        BY <2>1, <4>2, <4>3 DEF HeapTypes, Ref
      <4> QED
        BY <4>3, <4>4, NoLocIs
    <3>2. CASE \E type : /\ KGoto(t, "page", [NoLoc EXCEPT !.type = type])
                         /\ UNCHANGED <<heapvars, held>>
      <4>1. PICK type : /\ KGoto(t, "page", [NoLoc EXCEPT !.type = type])
                        /\ UNCHANGED <<heapvars, held>>
        BY <3>2
      <4>2. PICK l : l = [NoLoc EXCEPT !.type = type]
        OBVIOUS
      <4>3. IsRecord(l, DOMAIN NoLoc) /\ l.page = 0 /\ l.va = 0
        BY <4>2 DEF NoLoc, IsRecord
      <4>4. /\ IsRecord(kloc', Callers)
            /\ \A u \in Callers : IsRecord(kloc'[u], DOMAIN NoLoc)
            /\ kloc'[t] = l /\ \A u \in Callers \ {t} : kloc'[u] = kloc[u]
        BY <4>1, <4>2, <4>3, KGotoIs DEF HeapRight
      <4>5. HeapTypes'
        BY <4>1, <4>4 DEF HeapRight, HeapTypes, heapvars
      <4> QED
        BY <4>1, <4>3, <4>4, <4>5 DEF heapvars, AllHeld
    <3> QED
      BY <1>5, <3>1, <3>2 DEF SubpageKmalloc
  <2>4. "huge" \notin env => PagesOnce' /\ FIRSTPADDR <= firstpaddr'
    <3> SUFFICES ASSUME "huge" \notin env
                 PROVE  PagesOnce' /\ FIRSTPADDR <= firstpaddr'
      OBVIOUS
    <3>1. /\ PagesOnce /\ FIRSTPADDR <= firstpaddr
          /\ firstpaddr \in Nat /\ firstpaddr' \in Nat
          /\ firstpaddr <= firstpaddr'
      BY <2>1, RamAssumptions DEF HeapRight, RamTypes
    <3>2. \A i \in Roots : kheaproots'[i].page = kheaproots[i].page
      BY <2>1
    <3>3. PagesOnce'
      BY <1>1, <2>3, <3>1, <3>2, HeapOnce
    <3> QED
      BY <2>1, <3>1, <3>3
  <2> QED
    BY <1>1, <1>3, <2>2, <2>3, <2>4 DEF HeapRight
<1> QED
  BY <1>4, <1>5 DEF Kmalloc

\* The roots are as they were, but for entries in use and one new page.
RootsKept(root, page) ==
    /\ IsRecord(kheaproots', Roots)
    /\ \A i \in Roots : IsRecord(kheaproots'[i], {"page", "inuse"})
    /\ \A i \in Roots : \/ kheaproots'[i].page = kheaproots[i].page
                        \/ i = root /\ kheaproots'[i].page = page

LEMMA NewPageKept ==
  ASSUME HeapRight, NEW t \in Callers, NEW r, NewPage(t, r), UNCHANGED as,
         env' = env, UNCHANGED <<firstpaddr, budget>>,
         NEW root, RootsKept(root, kloc[t].va)
  PROVE  HeapRight' /\ SameUse
<1>1. PICK pr : pr = [page |-> kloc[t].page, type |-> kloc[t].type,
                      free |-> Fresh(kloc[t].type)]
  OBVIOUS
<1>2. PICK prs : prs = [x \in DOMAIN pagerefs \union {r} |->
                          IF x = r THEN pr ELSE pagerefs[x]]
  OBVIOUS
<1>3. Doalloc(t, r, prs)
  BY <1>1, <1>2 DEF NewPage
<1>4. IsRecord(pr, Ref) /\ pr.page = kloc[t].page
  BY <1>1 DEF IsRecord, Ref
<1>5. HeapTypes /\ \A q \in DOMAIN pagerefs : IsRecord(pagerefs[q], Ref)
  BY DEF HeapRight, HeapTypes, Ref
<1>6. /\ DOMAIN prs = DOMAIN pagerefs \union {r}
      /\ \A q \in DOMAIN prs : prs[q] = IF q = r THEN pr ELSE pagerefs[q]
  BY <1>2
<1>7. IsRecord(prs, DOMAIN prs)
  BY <1>2 DEF IsRecord
<1>8. \A q \in DOMAIN prs : IsRecord(prs[q], Ref)
  BY <1>4, <1>5, <1>6
<1>9. /\ IsRecord(pagerefs', DOMAIN pagerefs')
      /\ DOMAIN pagerefs' = DOMAIN prs
      /\ \A q \in DOMAIN prs : /\ IsRecord(pagerefs'[q], Ref)
                               /\ pagerefs'[q].page = prs[q].page
      /\ IsRecord(held', Callers)
      /\ \A b \in AllHeld' : b \in AllHeld \/ b.npages = 0
      /\ IsRecord(kloc', Callers)
      /\ \A u \in Callers : IsRecord(kloc'[u], DOMAIN NoLoc)
      /\ kloc'[t] = NoLoc /\ \A u \in Callers \ {t} : kloc'[u] = kloc[u]
  BY <1>3, <1>5, <1>7, <1>8, DoallocIs
<1>10. \A q \in DOMAIN pagerefs' :
         \/ q = r /\ pagerefs'[q].page = kloc[t].page
         \/ q \in DOMAIN pagerefs /\ pagerefs'[q].page = pagerefs[q].page
  BY <1>4, <1>6, <1>9
<1>11. HeapTypes'
  BY <1>9 DEF HeapTypes, RootsKept, Ref
<1>12. RamTypes' /\ SameUse
  BY DEF HeapRight, RamTypes, SameUse
<1>13. ASSUME "huge" \notin env
       PROVE  PagesOnce' /\ FIRSTPADDR <= firstpaddr'
  <2>1. /\ PagesOnce /\ FIRSTPADDR <= firstpaddr /\ firstpaddr \in Nat
    BY <1>13, RamAssumptions DEF HeapRight, RamTypes
  <2>2. \A i \in Roots : \/ kheaproots'[i].page = kheaproots[i].page
                         \/ i = root /\ kheaproots'[i].page = kloc[t].va
    BY DEF RootsKept
  <2>3. PagesOnce'
    BY <1>9, <1>10, <1>13, <2>1, <2>2, NewPageOnce
  <2> QED
    BY <2>1, <2>3
<1> QED
  BY <1>11, <1>12, <1>13 DEF HeapRight

\* What a step that neither takes nor makes a page of the heap leaves.
LEMMA OthersKept ==
  ASSUME HeapRight, UNCHANGED as, env' = env, UNCHANGED <<firstpaddr, budget>>,
         RootsKept(0, 0),
         IsRecord(pagerefs', DOMAIN pagerefs'),
         \A r \in DOMAIN pagerefs' : /\ r \in DOMAIN pagerefs
                                     /\ IsRecord(pagerefs'[r], Ref)
                                     /\ pagerefs'[r].page = pagerefs[r].page,
         IsRecord(held', Callers), AllHeld' \subseteq AllHeld,
         IsRecord(kloc', Callers),
         \A u \in Callers : /\ IsRecord(kloc'[u], DOMAIN NoLoc)
                            /\ kloc'[u].page \in {0, kloc[u].page}
                            /\ kloc'[u].va \in {0, kloc[u].va}
  PROVE  HeapRight' /\ SameUse
<1>1. HeapTypes'
  BY DEF HeapTypes, RootsKept, Ref
<1>2. RamTypes' /\ SameUse
  BY DEF HeapRight, RamTypes, SameUse
<1>3. ASSUME "huge" \notin env
      PROVE  PagesOnce' /\ FIRSTPADDR <= firstpaddr'
  <2>1. /\ PagesOnce /\ FIRSTPADDR <= firstpaddr /\ firstpaddr \in Nat
        /\ firstpaddr' \in Nat /\ firstpaddr <= firstpaddr'
    BY <1>3, RamAssumptions DEF HeapRight, RamTypes
  <2>2. \A i \in Roots : kheaproots'[i].page = kheaproots[i].page
    BY DEF RootsKept, Roots
  <2>3. PagesOnce'
    BY <1>3, <2>1, <2>2, HeapOnce
  <2> QED
    BY <2>1, <2>3
<1> QED
  BY <1>1, <1>2, <1>3 DEF HeapRight

LEMMA UseIs ==
  ASSUME HeapTypes, NEW root, NEW inuse,
         kheaproots' = [kheaproots EXCEPT ![root].inuse = inuse]
  PROVE  RootsKept(0, 0) /\ \A p, q : RootsKept(p, q)
<1>1. PICK e : e = [kheaproots[root] EXCEPT !.inuse = inuse]
  OBVIOUS
<1>2. /\ kheaproots' = [kheaproots EXCEPT ![root] = e]
      /\ IsRecord(kheaproots, Roots)
  BY <1>1 DEF HeapTypes
<1>3. /\ IsRecord(kheaproots', Roots)
      /\ \A i \in Roots :
           kheaproots'[i] = IF i = root THEN e ELSE kheaproots[i]
  BY <1>2 DEF IsRecord
<1>4. root \in Roots => IsRecord(e, {"page", "inuse"})
                        /\ e.page = kheaproots[root].page
  BY <1>1, ExceptIs DEF HeapTypes
<1> QED
  BY <1>3, <1>4 DEF RootsKept, HeapTypes

\* A caller's own variables stay, or are those of the next one.
LEMMA NoRefKept ==
  ASSUME HeapRight, NEW t \in Callers, UNCHANGED as, env' = env,
         UNCHANGED <<firstpaddr, budget>>, RootsKept(0, 0),
         UNCHANGED <<pagerefs, held>>, NEW label, NEW l, KGoto(t, label, l),
         IsRecord(l, DOMAIN NoLoc), l.page \in {0, kloc[t].page},
         l.va \in {0, kloc[t].va}
  PROVE  HeapRight' /\ SameUse
<1>1. /\ IsRecord(kloc', Callers)
      /\ \A u \in Callers : IsRecord(kloc'[u], DOMAIN NoLoc)
      /\ kloc'[t] = l /\ \A u \in Callers \ {t} : kloc'[u] = kloc[u]
  BY KGotoIs DEF HeapRight
<1>2. \A u \in Callers : /\ kloc'[u].page \in {0, kloc[u].page}
                         /\ kloc'[u].va \in {0, kloc[u].va}
  BY <1>1
<1>3. /\ IsRecord(pagerefs', DOMAIN pagerefs')
      /\ \A r \in DOMAIN pagerefs' : /\ r \in DOMAIN pagerefs
                                     /\ IsRecord(pagerefs'[r], Ref)
                                     /\ pagerefs'[r].page = pagerefs[r].page
      /\ IsRecord(held', Callers) /\ AllHeld' \subseteq AllHeld
  BY DEF HeapRight, HeapTypes, Ref, AllHeld
<1> QED
  BY <1>1, <1>2, <1>3, OthersKept

LEMMA AllocpagerefKept ==
  ASSUME HeapRight, NEW t \in Callers, Allocpageref(t), UNCHANGED as
  PROVE  HeapRight' /\ SameUse
<1>1. /\ env' = env /\ UNCHANGED <<firstpaddr, budget>>
      /\ HeapTypes /\ IsRecord(kloc[t], DOMAIN NoLoc)
  BY DEF Allocpageref, KAt, HeapRight, HeapTypes
<1>2. CASE NoRef(t) /\ UNCHANGED kheaproots
  <2>1. RootsKept(0, 0)
    BY <1>1, <1>2 DEF RootsKept, HeapTypes
  <2> QED
    BY <1>1, <1>2, <2>1, NoRefKept, NoLocIs DEF NoRef, KReturn
<1>3. CASE ~(NoRef(t) /\ UNCHANGED kheaproots)
  <2>1. PICK root, entry, inuse :
          /\ kheaproots' = [kheaproots EXCEPT ![root].inuse = inuse]
          /\ \/ NewPage(t, <<kheaproots[root].page, entry>>)
             \/ /\ KGoto(t, "refpage", [kloc[t] EXCEPT !.root = root,
                                                       !.entry = entry])
                /\ UNCHANGED <<pagerefs, sizebases, allbase, held>>
    BY <1>3 DEF Allocpageref
  <2>2. RootsKept(0, 0) /\ \A p, q : RootsKept(p, q)
    BY <1>1, <2>1, UseIs
  <2>3. CASE NewPage(t, <<kheaproots[root].page, entry>>)
    <3>1. PICK r : r = <<kheaproots[root].page, entry>>
      OBVIOUS
    <3> QED
      BY <1>1, <2>2, <2>3, <3>1, NewPageKept
  <2>4. CASE /\ KGoto(t, "refpage", [kloc[t] EXCEPT !.root = root,
                                                    !.entry = entry])
             /\ UNCHANGED <<pagerefs, sizebases, allbase, held>>
    <3>1. PICK l : l = [kloc[t] EXCEPT !.root = root, !.entry = entry]
      OBVIOUS
    <3>2. /\ IsRecord(l, DOMAIN NoLoc) /\ l.page = kloc[t].page
          /\ l.va = kloc[t].va
      BY <1>1, <3>1, NoLocIs DEF IsRecord
    <3> QED
      BY <1>1, <2>2, <2>4, <3>1, <3>2, NoRefKept
  <2> QED
    BY <2>1, <2>3, <2>4
<1> QED
  BY <1>2, <1>3

LEMMA AllocpagerefpageKept ==
  ASSUME HeapRight, NEW t \in Callers, Allocpagerefpage(t), UNCHANGED as
  PROVE  HeapRight' /\ SameUse
<1>1. /\ env' = env /\ UNCHANGED <<firstpaddr, budget>>
      /\ HeapTypes /\ IsRecord(kloc[t], DOMAIN NoLoc)
      /\ IsRecord(kheaproots, Roots)
  BY DEF Allocpagerefpage, KAt, HeapRight, HeapTypes
<1>2. PICK root, page : /\ root = kloc[t].root
                        /\ page = Becomes(root, kloc[t].va)
  OBVIOUS
<1>3. /\ kheaproots' = [kheaproots EXCEPT ![root].page = page]
      /\ IF page = 0 THEN NoRef(t) ELSE NewPage(t, <<page, kloc[t].entry>>)
  BY <1>2 DEF Allocpagerefpage
<1>4. PICK e : e = [kheaproots[root] EXCEPT !.page = page]
  OBVIOUS
<1>5. kheaproots' = [kheaproots EXCEPT ![root] = e]
  BY <1>3, <1>4
<1>6. /\ IsRecord(kheaproots', Roots)
      /\ \A i \in Roots :
           kheaproots'[i] = IF i = root THEN e ELSE kheaproots[i]
  BY <1>1, <1>5 DEF IsRecord
<1>7. root \in Roots => IsRecord(e, {"page", "inuse"}) /\ e.page = page
  BY <1>1, <1>4, ExceptIs DEF HeapTypes, IsRecord
<1>8. page = kheaproots[root].page \/ page = kloc[t].va
  BY <1>2 DEF Becomes
<1>9. RootsKept(root, kloc[t].va)
  BY <1>1, <1>6, <1>7, <1>8 DEF RootsKept, HeapTypes
<1>10. CASE page # 0
  BY <1>1, <1>3, <1>9, <1>10, NewPageKept
<1>11. CASE page = 0
  <2>1. root \in Roots => kheaproots[root].page = page
    BY <1>2, <1>11 DEF Becomes
  <2>2. RootsKept(0, 0)
    BY <1>1, <1>6, <1>7, <2>1 DEF RootsKept, HeapTypes
  <2> QED
    BY <1>1, <1>3, <1>11, <2>2, NoRefKept, NoLocIs DEF NoRef, KReturn
<1> QED
  BY <1>10, <1>11

LEMMA KfreeKept ==
  ASSUME HeapRight, NEW t \in Callers, NEW b, Kfree(t, b), UNCHANGED as
  PROVE  HeapRight' /\ SameUse
<1>1. /\ env' = env /\ UNCHANGED <<firstpaddr, budget, kloc>>
      /\ HeapTypes /\ IsRecord(held, Callers)
      /\ held' = [held EXCEPT ![t] = held[t] \ {b}]
  BY DEF Kfree, KAt, HeapRight, HeapTypes
<1>2. IsRecord(held', Callers) /\ AllHeld' \subseteq AllHeld
  <2>1. /\ IsRecord(held', Callers)
        /\ \A u \in Callers :
             held'[u] = IF u = t THEN held[t] \ {b} ELSE held[u]
    BY <1>1 DEF IsRecord
  <2> QED
    BY <2>1 DEF AllHeld
<1>3. /\ IsRecord(kloc', Callers)
      /\ \A u \in Callers : /\ IsRecord(kloc'[u], DOMAIN NoLoc)
                            /\ kloc'[u].page = kloc[u].page
                            /\ kloc'[u].va = kloc[u].va
  BY <1>1 DEF HeapTypes
<1>4. \/ UNCHANGED heapvars
      \/ \E r, pr : /\ pr = [pagerefs[r] EXCEPT !.free = <<b.blk>> \o @]
                    /\ pagerefs' = [pagerefs EXCEPT ![r] = pr]
                    /\ UNCHANGED kheaproots
      \/ \E r : /\ Freepageref(r)
                /\ pagerefs' = Fns!Restrict(pagerefs, DOMAIN pagerefs \ {r})
  BY DEF Kfree, SubpageKfree
<1>5. CASE UNCHANGED heapvars
  <2>1. RootsKept(0, 0)
    BY <1>1, <1>5 DEF RootsKept, HeapTypes, heapvars
  <2>2. /\ IsRecord(pagerefs', DOMAIN pagerefs')
        /\ \A q \in DOMAIN pagerefs' : /\ q \in DOMAIN pagerefs
                                       /\ IsRecord(pagerefs'[q], Ref)
                                       /\ pagerefs'[q].page = pagerefs[q].page
    BY <1>1, <1>5 DEF HeapTypes, heapvars, Ref
  <2> QED
    BY <1>1, <1>2, <1>3, <2>1, <2>2, OthersKept
<1>6. CASE \E r, pr : /\ pr = [pagerefs[r] EXCEPT !.free = <<b.blk>> \o @]
                      /\ pagerefs' = [pagerefs EXCEPT ![r] = pr]
                      /\ UNCHANGED kheaproots
  <2>1. PICK r, pr : /\ pr = [pagerefs[r] EXCEPT !.free = <<b.blk>> \o @]
                     /\ pagerefs' = [pagerefs EXCEPT ![r] = pr]
                     /\ UNCHANGED kheaproots
    BY <1>6
  <2>2. RootsKept(0, 0)
    BY <1>1, <2>1 DEF RootsKept, HeapTypes
  <2>3. IsRecord(pagerefs, DOMAIN pagerefs)
    BY <1>1 DEF HeapTypes
  <2>4. /\ IsRecord(pagerefs', DOMAIN pagerefs)
        /\ \A q \in DOMAIN pagerefs :
             pagerefs'[q] = IF q = r THEN pr ELSE pagerefs[q]
    BY <2>1, <2>3 DEF IsRecord
  <2>5. ASSUME r \in DOMAIN pagerefs
        PROVE  IsRecord(pr, Ref) /\ pr.page = pagerefs[r].page
    <3>1. IsRecord(pagerefs[r], Ref)
      BY <1>1, <2>5 DEF HeapTypes, Ref
    <3>2. PICK free : pr = [pagerefs[r] EXCEPT !.free = free]
      BY <2>1
    <3> QED
      BY <3>1, <3>2 DEF IsRecord, Ref
  <2>6. /\ IsRecord(pagerefs', DOMAIN pagerefs')
        /\ \A q \in DOMAIN pagerefs' : /\ q \in DOMAIN pagerefs
                                       /\ IsRecord(pagerefs'[q], Ref)
                                       /\ pagerefs'[q].page = pagerefs[q].page
    <3>1. DOMAIN pagerefs' = DOMAIN pagerefs
      BY <2>4 DEF IsRecord
    <3>2. \A q \in DOMAIN pagerefs : IsRecord(pagerefs[q], Ref)
      BY <1>1 DEF HeapTypes, Ref
    <3> QED
      BY <2>4, <2>5, <3>1, <3>2
  <2> QED
    BY <1>1, <1>2, <1>3, <2>2, <2>6, OthersKept
<1>7. CASE \E r : /\ Freepageref(r)
                  /\ pagerefs' = Fns!Restrict(pagerefs, DOMAIN pagerefs \ {r})
  <2>1. PICK r : /\ Freepageref(r)
                 /\ pagerefs' = [q \in DOMAIN pagerefs \ {r} |-> pagerefs[q]]
    BY <1>7 DEF Fns!Restrict
  <2>2. kheaproots' = [i \in Roots |->
          IF i \in RootOf(r)
          THEN [kheaproots[i] EXCEPT !.inuse = kheaproots[i].inuse \ {r[2]}]
          ELSE kheaproots[i]]
    BY <2>1 DEF Freepageref
  <2>3. IsRecord(kheaproots', Roots)
    BY <2>2 DEF IsRecord
  <2>4. ASSUME NEW i \in Roots
        PROVE  /\ IsRecord(kheaproots'[i], {"page", "inuse"})
               /\ kheaproots'[i].page = kheaproots[i].page
    <3>1. PICK e : e = [kheaproots[i] EXCEPT !.inuse =
                          kheaproots[i].inuse \ {r[2]}]
      OBVIOUS
    <3>2. IsRecord(kheaproots[i], {"page", "inuse"})
      BY <1>1 DEF HeapTypes
    <3>3. IsRecord(e, {"page", "inuse"}) /\ e.page = kheaproots[i].page
      BY <3>1, <3>2, ExceptIs
    <3>4. kheaproots'[i] \in {e, kheaproots[i]}
      BY <2>2, <3>1
    <3> QED
      BY <3>2, <3>3, <3>4
  <2>5. RootsKept(0, 0)
    BY <2>3, <2>4 DEF RootsKept
  <2>6. /\ IsRecord(pagerefs', DOMAIN pagerefs')
        /\ \A q \in DOMAIN pagerefs' : /\ q \in DOMAIN pagerefs
                                       /\ IsRecord(pagerefs'[q], Ref)
                                       /\ pagerefs'[q].page = pagerefs[q].page
    <3>1. /\ DOMAIN pagerefs' = DOMAIN pagerefs \ {r}
          /\ \A q \in DOMAIN pagerefs' : pagerefs'[q] = pagerefs[q]
      BY <2>1
    <3>2. IsRecord(pagerefs', DOMAIN pagerefs')
      BY <2>1 DEF IsRecord
    <3>3. \A q \in DOMAIN pagerefs : IsRecord(pagerefs[q], Ref)
      BY <1>1 DEF HeapTypes, Ref
    <3> QED
      BY <3>1, <3>2, <3>3
  <2> QED
    BY <1>1, <1>2, <1>3, <2>5, <2>6, OthersKept
<1> QED
  BY <1>4, <1>5, <1>6, <1>7

LEMMA HeapKept ==
  ASSUME HeapRight, HeapNext, UNCHANGED as
  PROVE  HeapRight' /\ SameUse
BY KmallocKept, KmallocPageKept, AllocpagerefKept, RefPageKept,
   AllocpagerefpageKept, KfreeKept DEF HeapNext

-----------------------------------------------------------------------------
\* The invariant holds at first and after every step.
LEMMA InitRight ==
  ASSUME Init
  PROVE  IInv
<1> USE DEF Init, RamInit, KmallocInit, AsInit
<1>1. RamTypes
  <2>1. FIRSTPADDR \in 0 .. LASTPADDR
    BY RamAssumptions
  <2> QED
    BY <2>1, RamAssumptions DEF RamTypes
<1>2. HeapTypes
  BY NoLocIs DEF HeapTypes, IsRecord
<1>3. AsTypes
  <2>1. NoLocals \in Locals
    BY NullIs DEF NoLocals, Locals, AsOrNull
  <2>2. << >> \in Seq(Entry)
    OBVIOUS
  <2>3. PICK cs : /\ c_curthread = [c \in cs |-> NULL]
                  /\ tlb = [c \in cs |-> << >>]
    OBVIOUS
  <2> QED
    BY <2>1, <2>2, <2>3 DEF AsTypes, AsOrNull, Labels, Boards
<1>4. \A c \in Boards : c_curthread[c] = NULL
  BY DEF Boards
<1>5. /\ \A t \in Threads : /\ pc[t] = "new" /\ loc[t] = NoLocals
                            /\ t_addrspace[t] = NULL
      /\ \A a \in AsIds : as[a] = NULL
      /\ lk_exec = NULL
  OBVIOUS
<1>6. NoLocals.fault = << >> /\ NoLocals.old = NULL /\ NoLocals.exec = FALSE
  BY DEF NoLocals
<1>7. AsRight
  <2>1. \A t \in Threads : ThreadRight(t)
    BY <1>5, <1>6 DEF ThreadRight, CallRight, FaultRight, Outside, Loading
  <2>2. OwnRight /\ SizesRight
    BY <1>5, <1>6, NullIs DEF OwnRight, SizesRight, Has
  <2>3. ExecRight
    BY <1>5, <1>6, NullIs DEF ExecRight
  <2>4. OneBoard /\ \A c \in Boards : EntriesRight(c)
    BY <1>4 DEF OneBoard, EntriesRight
  <2> QED
    BY <2>1, <2>2, <2>3, <2>4 DEF AsRight
<1>8. \A x \in Claims : x.page = 0
  <2> SUFFICES ASSUME NEW x \in Claims
               PROVE  x.page = 0
    OBVIOUS
  <2>1. CASE x \in RootClaims(kheaproots)
    BY <2>1 DEF RootClaims
  <2>2. CASE x \in HeapClaims(pagerefs)
    BY <2>2 DEF HeapClaims
  <2>3. CASE x \in NewClaims(kloc)
    BY <2>3, NoLocIs DEF NewClaims
  <2>4. CASE x \in RefClaims(kloc)
    BY <2>4, NoLocIs DEF RefClaims
  <2>5. CASE x \in LargeClaims(AllHeld)
    <3>1. AllHeld = {}
      BY DEF AllHeld
    <3> QED
      BY <2>5, <3>1, LargeClaimIs
  <2>6. CASE x \in AsClaims(as)
    BY <1>5, <2>6, AsClaimIs
  <2> QED
    BY <2>1, <2>2, <2>3, <2>4, <2>5, <2>6 DEF Claims
<1>9. PagesOnce
  BY <1>8 DEF PagesOnce
<1>10. FIRSTPADDR <= firstpaddr
  BY RamAssumptions
<1> QED
  BY <1>1, <1>2, <1>3, <1>7, <1>9, <1>10 DEF IInv

LEMMA ProcOnce ==
  ASSUME IInv, ProcNext, UNCHANGED kvars
  PROVE  IInv'
<1>1. RamTypes' /\ Moves
  BY ProcMoves DEF IInv
<1>2. AsTypes' /\ AsRight'
  BY ProcKept DEF IInv
<1>3. HeapTypes'
  BY DEF IInv, HeapTypes, kvars, heapvars, kthvars
<1>4. ASSUME "huge" \notin env
      PROVE  PagesOnce' /\ FIRSTPADDR <= firstpaddr'
  <2>1. /\ PagesOnce /\ FIRSTPADDR <= firstpaddr
        /\ firstpaddr \in Nat /\ firstpaddr' \in Nat /\ env' = env
    BY <1>1, <1>4, RamAssumptions DEF IInv, RamTypes, Moves
  <2>2. /\ FIRSTPADDR <= firstpaddr'
        /\ \/ Shrinks
           \/ \E id \in AsIds, j \in 1 .. 3 :
                /\ Grows(id, j) /\ as'[id] \in Addrspace
                /\ firstpaddr <= firstpaddr'
    BY <1>1, <1>4, <2>1 DEF Moves
  <2>3. CASE Shrinks
    BY <1>4, <2>1, <2>2, <2>3, ShrinksOnce
  <2>4. CASE \E id \in AsIds, j \in 1 .. 3 :
               /\ Grows(id, j) /\ as'[id] \in Addrspace
               /\ firstpaddr <= firstpaddr'
    <3>1. PICK id \in AsIds, j \in 1 .. 3 :
            /\ Grows(id, j) /\ as'[id] \in Addrspace
            /\ firstpaddr <= firstpaddr'
      BY <2>4
    <3> QED
      BY <1>4, <2>1, <2>2, <3>1, GrowsOnce
  <2> QED
    BY <2>2, <2>3, <2>4
<1>5. env' = env
  BY <1>1 DEF Moves
<1> QED
  BY <1>1, <1>2, <1>3, <1>4, <1>5 DEF IInv

LEMMA Step ==
  ASSUME IInv, [Next]_vars
  PROVE  IInv'
<1>1. CASE HeapNext /\ UNCHANGED avars
  <2>1. HeapRight /\ UNCHANGED as
    BY <1>1 DEF IInv, HeapRight, avars, asvars
  <2>2. HeapRight' /\ SameUse
    BY <1>1, <2>1, HeapKept
  <2>3. AsTypes' /\ AsRight'
    BY <1>1, <2>2, AsStays DEF IInv
  <2> QED
    BY <2>2, <2>3 DEF IInv, HeapRight
<1>2. CASE ProcNext /\ UNCHANGED kvars
  BY <1>2, ProcOnce
<1>3. CASE UNCHANGED vars
  <2>1. UNCHANGED avars /\ SameUse
    BY <1>3 DEF vars, ramvars, SameUse
  <2>2. AsTypes' /\ AsRight'
    BY <2>1, AsStays DEF IInv
  <2>3. RamTypes' /\ HeapTypes'
    BY <1>3 DEF IInv, RamTypes, HeapTypes, vars, ramvars, kvars, heapvars,
                kthvars
  <2>4. Claims' = Claims
    BY <1>3 DEF vars, kvars, heapvars, kthvars, avars, asvars, Claims, AllHeld
  <2>5. env' = env /\ firstpaddr' = firstpaddr
    BY <1>3 DEF vars, ramvars
  <2>6. PagesOnce' <=> PagesOnce
    BY <2>4, <2>5 DEF PagesOnce
  <2> QED
    BY <2>2, <2>3, <2>5, <2>6 DEF IInv
<1> QED
  BY <1>1, <1>2, <1>3 DEF Next

-----------------------------------------------------------------------------
\* What it means for memory.
LEMMA Apart ==
  ASSUME IInv
  PROVE  MemoryApart
<1>1. PagesOnce
  BY DEF IInv, PagesOnce
<1>2. AsOwned
  <2>1. ASSUME NEW id \in AsIds
        PROVE  Cardinality(Owners(id)) = IF as[id] = NULL THEN 0 ELSE 1
    <3>1. \A t : t \in Owners(id) <=> t \in Threads /\ Has(t, id)
      BY DEF Owners, Has
    <3>2. /\ \A t, u \in Threads : Has(t, id) /\ Has(u, id) => t = u
          /\ as[id] # NULL <=> \E t \in Threads : Has(t, id)
      BY DEF IInv, AsRight, OwnRight
    <3>3. CASE as[id] = NULL
      <4>1. Owners(id) = {}
        BY <3>1, <3>2, <3>3
      <4> QED
        BY <3>3, <4>1, FS_EmptySet
    <3>4. CASE as[id] # NULL
      <4>1. PICK t \in Threads : Has(t, id)
        BY <3>2, <3>4
      <4>2. Owners(id) = {t}
        BY <3>1, <3>2, <4>1
      <4> QED
        BY <3>4, <4>2, FS_Singleton
    <3> QED
      BY <3>3, <3>4
  <2> QED
    BY <2>1 DEF AsOwned, IInv, AsRight, ExecRight
<1>3. TlbRight
  <2> SUFFICES ASSUME NEW c \in Boards, c_curthread[c] # NULL,
                      t_addrspace[c_curthread[c]] # NULL
               PROVE  \A i \in DOMAIN tlb[c] :
                        /\ tlb[c][i].p =
                             Translate(as[t_addrspace[c_curthread[c]]],
                                       tlb[c][i].v)
                        /\ \A k \in DOMAIN tlb[c] :
                             tlb[c][k].v = tlb[c][i].v => k = i
    BY DEF TlbRight
  <2> QED
    BY DEF IInv, AsRight, EntriesRight
<1> QED
  BY <1>1, <1>2, <1>3 DEF MemoryApart

\* A page that dumbvm has handed out is in one place of the kernel, whatever
\* kmalloc, fork and execv have done at the same time; an address space is of
\* one process, and sys_execv's lock is held by the process that is in it; an
\* entry of a processor's TLB is what vm_fault makes of the address space of
\* the thread that runs there (kmalloc.c, dumbvm.c, execv.c).
THEOREM VmMemoryApart == Spec => []MemoryApart
<1>1. Init => IInv
  BY InitRight
<1>2. IInv /\ [Next]_vars => IInv'
  BY Step
<1>3. IInv => MemoryApart
  BY Apart
<1> QED
  BY <1>1, <1>2, <1>3, PTL DEF Spec

-----------------------------------------------------------------------------
\* The heap.  What the variables are.
Records == [page : 1 .. LASTPADDR, type : Types, free : Seq(Nat)]
CallLabels == {"idle", "page", "ref", "refpage", "gotpage"}
HeapShape ==
    /\ kheaproots \in [Roots -> [page : 0 .. LASTPADDR,
                                 inuse : SUBSET Entries]]
    /\ kpc \in [Callers -> CallLabels]
    /\ kloc \in [Callers -> [type : Types \union {0}, page : 0 .. LASTPADDR,
                             root : Roots \union {0},
                             entry : Entries \union {0},
                             va : 0 .. LASTPADDR]]
    /\ \A t \in Callers :
         /\ kpc[t] # "idle" => kloc[t].type \in Types
         /\ kpc[t] \in {"refpage", "gotpage"} =>
              kloc[t].root \in Roots /\ kloc[t].entry \in Entries

\* Pagerefs are entries in use of the pages of the roots.
Page(i) == kheaproots[i].page
Inuse(i) == kheaproots[i].inuse
RefsRight ==
    \A r \in DOMAIN pagerefs :
        /\ r = <<r[1], r[2]>> /\ r[1] # 0
        /\ \E i \in Roots : Page(i) = r[1] /\ r[2] \in Inuse(i)

\* A call that has an entry for its page, and no page yet for the root.
OnWay == {t \in Callers : kpc[t] \in {"refpage", "gotpage"}}
AllBefore(j) == \A i \in Roots : i < j => Page(i) # 0
KcallRight(t) ==
    LET l == kloc[t] IN
    /\ kpc[t] \in {"ref", "refpage", "gotpage"} => l.page # 0
    /\ kpc[t] \in {"page", "ref", "refpage"} => l.va = 0
    /\ kpc[t] = "gotpage" /\ l.va = 0 => firstpaddr = LASTPADDR
    /\ t \in OnWay =>
         /\ l.entry \in Inuse(l.root)
         /\ \A r \in DOMAIN pagerefs : r[1] = Page(l.root) => r[2] # l.entry
         /\ \A u \in OnWay : u # t /\ kloc[u].root = l.root =>
                               kloc[u].entry # l.entry
         /\ firstpaddr < LASTPADDR \/ l.va # 0 => AllBefore(l.root)
RootsRight == \A j \in Roots : Page(j) # 0 => AllBefore(j)
HasRef(i, e) == \E r \in DOMAIN pagerefs : r[1] = Page(i) /\ r[2] = e
HasCall(i, e) == \E u \in OnWay : kloc[u].root = i /\ kloc[u].entry = e
CountRight == firstpaddr < LASTPADDR =>
    \A i \in Roots : \A e : e \in Inuse(i) <=> HasRef(i, e) \/ HasCall(i, e)

\* Lists without repetition, of all and of those of a type.
Once(s) == \A i, j \in DOMAIN s : s[i] = s[j] => i = j
Elements(s) == {s[i] : i \in DOMAIN s}
OfType(refs, type) == {r \in DOMAIN refs : refs[r].type = type}
Lists(all, bases, refs) ==
    /\ all \in Seq(DOMAIN refs) /\ Once(all) /\ Elements(all) = DOMAIN refs
    /\ bases \in [Types -> Seq(DOMAIN refs)]
    /\ \A type \in Types : /\ Once(bases[type])
                           /\ Elements(bases[type]) = OfType(refs, type)

\* Blocks, on the free list of their page or held.
IsBlock(b) == /\ b = [page |-> b.page, blk |-> b.blk, npages |-> b.npages]
              /\ b.page \in 1 .. LASTPADDR /\ b.npages \in Nat
PageRight(pr, on) ==
    /\ Once(pr.free) /\ Elements(pr.free) \cap on = {}
    /\ Elements(pr.free) \union on = 0 .. (NBlocks(pr.type) - 1)
    /\ Len(pr.free) < NBlocks(pr.type)
BlocksRight ==
    /\ pagerefs \in [DOMAIN pagerefs -> Records]
    /\ \A r \in DOMAIN pagerefs :
         PageRight(pagerefs[r], HeldOn(pagerefs[r].page))
    /\ \A t \in Callers : \A b \in held[t] :
         /\ IsBlock(b)
         /\ b.npages = 0 =>
              \E r \in DOMAIN pagerefs : pagerefs[r].page = b.page
         /\ \A u \in Callers \ {t} : b \notin held[u]

RefsInv == RefsRight /\ RootsRight /\ (\A t \in Callers : KcallRight(t))
             /\ CountRight
HeapInv ==
    /\ HeapShape
    /\ "huge" \notin env =>
         /\ RefsInv
         /\ Lists(allbase, sizebases, pagerefs)
         /\ BlocksRight
-----------------------------------------------------------------------------
\* Lists: what is put first, taken first and removed.
LEMMA Puts ==
  ASSUME NEW S, NEW s \in Seq(S), Once(s), NEW e \in S, e \notin Elements(s)
  PROVE  /\ <<e>> \o s \in Seq(S) /\ Once(<<e>> \o s)
         /\ Elements(<<e>> \o s) = Elements(s) \union {e}
         /\ Len(<<e>> \o s) = Len(s) + 1
<1>1. PICK u : u = <<e>> \o s
  OBVIOUS
<1>2. /\ u \in Seq(S) /\ Len(u) = Len(s) + 1 /\ Len(s) \in Nat
      /\ DOMAIN u = 1 .. Len(u) /\ DOMAIN s = 1 .. Len(s)
      /\ u[1] = e /\ \A i \in 2 .. Len(u) : u[i] = s[i - 1]
  BY <1>1
<1>3. \A i \in DOMAIN s : i + 1 \in 2 .. Len(u) /\ u[i + 1] = s[i]
  BY <1>2
<1>4. \A i \in DOMAIN u : i # 1 => i \in 2 .. Len(u) /\ i - 1 \in DOMAIN s
  BY <1>2
<1>5. Once(u)
  BY <1>2, <1>4 DEF Once, Elements
<1>6. Elements(u) = Elements(s) \union {e}
  <2>1. Elements(u) \subseteq Elements(s) \union {e}
    BY <1>2, <1>4 DEF Elements
  <2>2. e \in Elements(u)
    BY <1>2 DEF Elements
  <2>3. Elements(s) \subseteq Elements(u)
    BY <1>2, <1>3 DEF Elements
  <2> QED
    BY <2>1, <2>2, <2>3
<1> QED
  BY <1>1, <1>2, <1>5, <1>6

LEMMA Takes ==
  ASSUME NEW S, NEW s \in Seq(S), Once(s), s # << >>
  PROVE  /\ Tail(s) \in Seq(S) /\ Once(Tail(s))
         /\ Head(s) \in Elements(s) /\ Head(s) \in S
         /\ Elements(Tail(s)) = Elements(s) \ {Head(s)}
         /\ Len(Tail(s)) = Len(s) - 1 /\ Len(s) \in Nat
<1>1. PICK u : u = Tail(s)
  OBVIOUS
<1>2. /\ u \in Seq(S) /\ Len(u) = Len(s) - 1 /\ Len(s) \in Nat \ {0}
      /\ DOMAIN u = 1 .. Len(u) /\ DOMAIN s = 1 .. Len(s)
      /\ Head(s) = s[1] /\ \A i \in DOMAIN u : u[i] = s[i + 1]
  BY <1>1
<1>3. \A i \in DOMAIN u : i + 1 \in DOMAIN s
  BY <1>2
<1>4. \A i \in DOMAIN s : i # 1 => i - 1 \in DOMAIN u /\ u[i - 1] = s[i]
  <2>1. \A i \in DOMAIN s : i # 1 => i - 1 \in 1 .. Len(u)
    BY <1>2
  <2> QED
    BY <1>2, <2>1
<1>5. Once(u)
  BY <1>2, <1>3 DEF Once
<1>6. 1 \in DOMAIN s /\ s[1] \in S
  BY <1>2
<1>7. Elements(u) = Elements(s) \ {s[1]}
  <2>1. \A i \in DOMAIN u : u[i] \in Elements(s) /\ u[i] # s[1]
    BY <1>2, <1>3, <1>6 DEF Once, Elements
  <2>2. \A i \in DOMAIN s : s[i] # s[1] => s[i] \in Elements(u)
    BY <1>4 DEF Elements
  <2> QED
    BY <2>1, <2>2 DEF Elements
<1> QED
  <2>1. Head(s) \in Elements(s)
    BY <1>2, <1>6 DEF Elements
  <2> QED
    BY <1>1, <1>2, <1>5, <1>6, <1>7, <2>1

LEMMA Removes ==
  ASSUME NEW S, NEW s \in Seq(S), Once(s), NEW e
  PROVE  LET u == Seqs!RemoveFirst(s, e) IN
         /\ u \in Seq(S \ {e}) /\ Once(u) /\ Elements(u) = Elements(s) \ {e}
<1> DEFINE u == Seqs!RemoveFirst(s, e)
<1>1. /\ Len(s) \in Nat /\ DOMAIN s = 1 .. Len(s)
      /\ \A i \in DOMAIN s : s[i] \in S
  OBVIOUS
<1>2. CASE \A i \in 1 .. Len(s) : s[i] # e
  <2>1. u = s
    BY <1>2 DEF Seqs!RemoveFirst
  <2>2. \A i \in 1 .. Len(s) : s[i] \in S \ {e}
    BY <1>1, <1>2
  <2>3. s \in Seq(S \ {e})
    BY <2>2, <1>1
  <2>4. Elements(s) = Elements(s) \ {e}
    BY <1>1, <1>2 DEF Elements
  <2> QED
    BY <2>1, <2>3, <2>4
<1>3. ASSUME NEW k \in 1 .. Len(s), s[k] = e
      PROVE  /\ u \in Seq(S \ {e}) /\ Once(u)
             /\ Elements(u) = Elements(s) \ {e}
  <2>1. \A i \in 1 .. Len(s) : s[i] = e <=> i = k
    BY <1>1, <1>3 DEF Once
  <2>2. Seqs!SelectInSeq(s, LAMBDA v : v = e) = k
    <3>1. {i \in 1 .. Len(s) : s[i] = e} = {k}
      BY <2>1
    <3> HIDE DEF u
    <3> QED
      BY <3>1 DEF Seqs!SelectInSeq, Seqs!Min
  <2>3. u = SubSeq(s, 1, k - 1) \o SubSeq(s, k + 1, Len(s))
    BY <1>3, <2>2 DEF Seqs!RemoveFirst, Seqs!RemoveAt
  <2> DEFINE v == SubSeq(s, 1, k - 1)
             w == SubSeq(s, k + 1, Len(s))
  <2>4. /\ v \in Seq(S) /\ Len(v) = k - 1 /\ k \in Nat \ {0}
        /\ \A i \in 1 .. (k - 1) : v[i] = s[i]
    <3>1. /\ k \in Nat \ {0} /\ 1 \in Int /\ k - 1 \in Int
          /\ \A i \in 1 .. (k - 1) : s[i] \in S
      BY <1>1
    <3> HIDE DEF v
    <3>2. /\ v \in Seq(S)
          /\ Len(v) = IF 1 <= k - 1 THEN k - 1 - 1 + 1 ELSE 0
          /\ \A i \in 1 .. (k - 1 - 1 + 1) : v[i] = s[1 + i - 1]
      BY <3>1, SubSeqProperties DEF v
    <3> QED
      BY <3>1, <3>2
  <2>5. /\ w \in Seq(S) /\ Len(w) = Len(s) - k
        /\ \A i \in 1 .. (Len(s) - k) : w[i] = s[k + i]
    <3>1. /\ k + 1 \in Int /\ Len(s) \in Int
          /\ \A i \in (k + 1) .. Len(s) : s[i] \in S
      BY <1>1
    <3> HIDE DEF w
    <3>2. /\ w \in Seq(S)
          /\ Len(w) = IF k + 1 <= Len(s) THEN Len(s) - (k + 1) + 1 ELSE 0
          /\ \A i \in 1 .. (Len(s) - (k + 1) + 1) :
               w[i] = s[(k + 1) + i - 1]
      BY <3>1, SubSeqProperties DEF w
    <3>3. /\ Len(s) - (k + 1) + 1 = Len(s) - k
          /\ \A i \in Int : (k + 1) + i - 1 = k + i
      BY <1>1
    <3>4. Len(w) = Len(s) - k
      <4>1. PICK n \in Nat : n = Len(s) /\ k \in 1 .. n
        BY <1>1
      <4>2. Len(w) = IF k + 1 <= n THEN n - (k + 1) + 1 ELSE 0
        BY <3>2, <4>1
      <4> QED
        BY <4>1, <4>2
    <3>5. \A i \in 1 .. (Len(s) - k) : w[i] = s[k + i]
      <4>1. \A i \in 1 .. (Len(s) - k) : w[i] = s[(k + 1) + i - 1]
        BY <3>2, <3>3
      <4> QED
        BY <1>1, <3>3, <4>1
    <3> QED
      BY <3>2, <3>4, <3>5
  <2> HIDE DEF u, v, w
  <2>6. /\ u \in Seq(S) /\ Len(u) = Len(s) - 1
        /\ \A i \in 1 .. (Len(s) - 1) :
             u[i] = IF i < k THEN s[i] ELSE s[i + 1]
    <3>1. u = v \o w
      BY <2>3 DEF v, w
    <3>2. /\ u \in Seq(S) /\ Len(u) = Len(s) - 1
          /\ \A i \in 1 .. Len(u) :
               u[i] = IF i <= Len(v) THEN v[i] ELSE w[i - Len(v)]
      <4>1. /\ u \in Seq(S) /\ Len(u) = Len(v) + Len(w)
            /\ \A i \in 1 .. Len(v) + Len(w) :
                 u[i] = IF i <= Len(v) THEN v[i] ELSE w[i - Len(v)]
        BY <2>4, <2>5, <3>1, ConcatProperties
      <4> QED
        BY <1>1, <2>4, <2>5, <4>1
    <3>3. ASSUME NEW i \in 1 .. (Len(s) - 1)
          PROVE  u[i] = IF i < k THEN s[i] ELSE s[i + 1]
      <4>1. CASE i < k
        BY <1>1, <2>4, <3>2, <4>1
      <4>2. CASE i >= k
        <5>1. i - (k - 1) \in 1 .. (Len(s) - k) /\ k + (i - (k - 1)) = i + 1
          BY <1>1, <4>2
        <5>2. u[i] = w[i - (k - 1)]
          BY <1>1, <2>4, <3>2, <4>2
        <5> QED
          BY <2>5, <4>2, <5>1, <5>2
      <4> QED
        BY <1>1, <4>1, <4>2
    <3> QED
      BY <3>2, <3>3
  <2>7. DOMAIN u = 1 .. (Len(s) - 1)
    BY <1>1, <2>6
  <2> DEFINE at(i) == IF i < k THEN i ELSE i + 1
  <2>8. \A i \in DOMAIN u : /\ at(i) \in 1 .. Len(s) /\ at(i) # k
                            /\ u[i] = s[at(i)]
    BY <1>1, <2>4, <2>6, <2>7
  <2>9. \A i, j \in DOMAIN u : at(i) = at(j) => i = j
    BY <2>7
  <2>10. \A j \in 1 .. Len(s) : j # k => \E i \in DOMAIN u : at(i) = j
    <3> SUFFICES ASSUME NEW j \in 1 .. Len(s), j # k
                 PROVE  \E i \in DOMAIN u : at(i) = j
      OBVIOUS
    <3>1. CASE j < k
      BY <1>1, <2>7, <3>1
    <3>2. CASE j > k
      <4>1. j - 1 \in DOMAIN u /\ at(j - 1) = j
        BY <1>1, <2>7, <3>2
      <4> QED
        BY <4>1
    <3> QED
      BY <1>1, <3>1, <3>2
  <2> HIDE DEF at
  <2>11. Once(u)
    BY <1>1, <2>8, <2>9 DEF Once
  <2>12. \A i \in DOMAIN u : u[i] \in S \ {e}
    BY <1>1, <2>1, <2>8
  <2>13. u \in Seq(S \ {e})
    BY <2>6, <2>7, <2>12
  <2>14. Elements(u) = Elements(s) \ {e}
    <3>1. Elements(u) \subseteq Elements(s) \ {e}
      BY <1>1, <2>1, <2>8 DEF Elements
    <3>2. \A j \in 1 .. Len(s) : s[j] # e => s[j] \in Elements(u)
      BY <2>1, <2>8, <2>10 DEF Elements
    <3> QED
      BY <1>1, <3>1, <3>2 DEF Elements
  <2> QED
    BY <2>11, <2>13, <2>14
<1> QED
  BY <1>2, <1>3

LEMMA Counts ==
  ASSUME NEW S, NEW s \in Seq(S), Once(s)
  PROVE  /\ IsFiniteSet(Elements(s)) /\ Cardinality(Elements(s)) = Len(s)
<1>1. Len(s) \in Nat /\ DOMAIN s = 1 .. Len(s)
  OBVIOUS
<1>2. s \in [1 .. Len(s) -> Elements(s)]
  BY <1>1 DEF Elements
<1>3. s \in Bijection(1 .. Len(s), Elements(s))
  BY <1>1, <1>2
  DEF Bijection, Injection, Surjection, IsInjective, Once, Elements
<1>4. IsFiniteSet(1 .. Len(s)) /\ Cardinality(1 .. Len(s)) = Len(s)
  BY <1>1, FS_Interval
<1> QED
  BY <1>3, <1>4, FS_Bijection DEF ExistsBijection

-----------------------------------------------------------------------------
\* What is first, and where the first is.
LEMMA LeastIs ==
  ASSUME NEW S \in SUBSET Nat, S # {}
  PROVE  /\ (CHOOSE x \in S : \A y \in S : x <= y) \in S
         /\ \A n \in S : (CHOOSE x \in S : \A y \in S : x <= y) <= n
<1>1. IsWellFoundedOn(OpToRel(<, Nat), Nat)
  BY NatLessThanWellFounded
<1>2. PICK x \in S : \A y \in S : <<y, x>> \notin OpToRel(<, Nat)
  BY <1>1, WFMin
<1>3. \A y \in S : ~(y < x)
  BY <1>2 DEF OpToRel
<1>4. \A y \in S : x <= y
  BY <1>3
<1> QED
  BY <1>4

LEMMA WithRoomIs ==
  ASSUME NEW type, NEW S, sizebases[type] \in Seq(S), WithRoom(type) # 0
  PROVE  /\ sizebases[type][WithRoom(type)] \in Elements(sizebases[type])
         /\ pagerefs[sizebases[type][WithRoom(type)]].free # << >>
<1>1. PICK s : s = sizebases[type]
  OBVIOUS
<1> DEFINE I == {i \in 1 .. Len(s) : pagerefs[s[i]].free # << >>}
<1>2. I \in SUBSET Nat /\ DOMAIN s = 1 .. Len(s)
  BY <1>1
<1>3. WithRoom(type) = IF I # {} THEN CHOOSE x \in I : \A y \in I : x <= y
                       ELSE 0
  BY <1>1 DEF WithRoom, Seqs!SelectInSeq, Seqs!Min
<1> HIDE DEF I
<1>4. WithRoom(type) \in I
  BY <1>2, <1>3, LeastIs
<1> QED
  BY <1>1, <1>2, <1>4 DEF I, Elements

LEMMA OnPageIs ==
  ASSUME NEW b, NEW S, allbase \in Seq(S)
  PROVE  IF OnPage(b) = 0
         THEN \A r \in Elements(allbase) : pagerefs[r].page # b.page
         ELSE /\ allbase[OnPage(b)] \in Elements(allbase)
              /\ pagerefs[allbase[OnPage(b)]].page = b.page
<1> DEFINE I == {i \in 1 .. Len(allbase) : pagerefs[allbase[i]].page = b.page}
<1>1. /\ I \in SUBSET Nat /\ 0 \notin I
      /\ DOMAIN allbase = 1 .. Len(allbase)
  OBVIOUS
<1>2. OnPage(b) = IF I # {} THEN CHOOSE x \in I : \A y \in I : x <= y ELSE 0
  BY DEF OnPage, Seqs!SelectInSeq, Seqs!Min
<1>3. I = {} => \A r \in Elements(allbase) : pagerefs[r].page # b.page
  BY <1>1 DEF Elements
<1>4. \A i \in I : /\ allbase[i] \in Elements(allbase)
                   /\ pagerefs[allbase[i]].page = b.page
  BY <1>1 DEF Elements
<1> HIDE DEF I
<1>5. I # {} => OnPage(b) \in I
  BY <1>1, <1>2, LeastIs
<1> QED
  BY <1>1, <1>2, <1>3, <1>4, <1>5

\* What a page of the heap offers at first.
LEMMA FreshIs ==
  ASSUME NEW type \in Types
  PROVE  /\ NBlocks(type) \in Nat \ {0}
         /\ Fresh(type) \in Seq(Nat) /\ Once(Fresh(type))
         /\ Fresh(type) # << >> /\ Len(Fresh(type)) = NBlocks(type)
         /\ Elements(Fresh(type)) = 0 .. (NBlocks(type) - 1)
<1>1. /\ sizes[type] \in Nat \ {0} /\ PAGE_SIZE \in Nat
      /\ sizes[type] <= PAGE_SIZE
  BY KmallocAssumptions, RamAssumptions DEF Types
<1>2. PICK n : n = NBlocks(type)
  OBVIOUS
<1>3. /\ n \in Nat
      /\ PAGE_SIZE < sizes[type] * n + sizes[type]
  BY <1>1, <1>2, DivIs DEF NBlocks
<1>4. n # 0
  BY <1>1, <1>3
<1>5. PICK s : s = Fresh(type)
  OBVIOUS
<1>6. s = [i \in 1 .. n |-> n - i]
  BY <1>2, <1>5 DEF Fresh
<1>7. /\ s \in Seq(Nat) /\ Len(s) = n /\ DOMAIN s = 1 .. n
      /\ \A i \in 1 .. n : s[i] = n - i
  BY <1>3, <1>6
<1>8. Once(s)
  BY <1>3, <1>7 DEF Once
<1>9. Elements(s) = 0 .. (n - 1)
  <2>1. \A i \in 1 .. n : n - i \in 0 .. (n - 1)
    BY <1>3
  <2>2. \A k \in 0 .. (n - 1) : n - k \in 1 .. n /\ k = n - (n - k)
    BY <1>3
  <2>3. \A k \in 0 .. (n - 1) : n - k \in 1 .. n /\ k = s[n - k]
    BY <1>7, <2>2
  <2> QED
    BY <1>7, <2>1, <2>3 DEF Elements
<1>10. s # << >>
  BY <1>4, <1>7
<1> QED
  BY <1>2, <1>3, <1>4, <1>5, <1>7, <1>8, <1>9, <1>10

-----------------------------------------------------------------------------
\* What the steps of the heap are.  Pieces of them first.
Taken(inuse) == ~(Cardinality(inuse) < NPAGEREFS_PER_PAGE)
NewRef(t) == [page |-> kloc[t].page, type |-> kloc[t].type,
              free |-> Tail(Fresh(kloc[t].type))]
NewBlock(t) == Block(kloc[t].page, Head(Fresh(kloc[t].type)))
Adds(t, r) ==
    /\ DOMAIN pagerefs' = DOMAIN pagerefs \union {r}
    /\ \A q \in DOMAIN pagerefs' :
         pagerefs'[q] = IF q = r THEN NewRef(t) ELSE pagerefs[q]
    /\ pagerefs' = [q \in DOMAIN pagerefs' |-> pagerefs'[q]]
    /\ sizebases' = [sizebases EXCEPT
                       ![kloc[t].type] = <<r>> \o sizebases[kloc[t].type]]
    /\ allbase' = <<r>> \o allbase
    /\ held' = [held EXCEPT ![t] = held[t] \union {NewBlock(t)}]
    /\ KReturn(t)

LEMMA NewPageIs ==
  ASSUME NEW t \in Callers, NEW r, NewPage(t, r)
  PROVE  Adds(t, r)
<1>1. PICK l, pr : /\ l = kloc[t]
                   /\ pr = [page |-> l.page, type |-> l.type,
                            free |-> Fresh(l.type)]
  OBVIOUS
<1>2. PICK prs : prs = [x \in DOMAIN pagerefs \union {r} |->
                          IF x = r THEN pr ELSE pagerefs[x]]
  OBVIOUS
<1>3. /\ Doalloc(t, r, prs)
      /\ sizebases' = [sizebases EXCEPT ![l.type] = <<r>> \o sizebases[l.type]]
      /\ allbase' = <<r>> \o allbase
  BY <1>1, <1>2 DEF NewPage
<1>4. prs[r] = pr
  BY <1>2
<1>5. /\ pagerefs' = [prs EXCEPT ![r] = [pr EXCEPT !.free = Tail(pr.free)]]
      /\ held' = [held EXCEPT ![t] =
                    held[t] \union {Block(pr.page, Head(pr.free))}]
      /\ KReturn(t)
  BY <1>3, <1>4 DEF Doalloc, Gets
<1>6. [pr EXCEPT !.free = Tail(pr.free)] = NewRef(t)
  <2>1. PICK f, g : f = Fresh(l.type) /\ g = Tail(f)
    OBVIOUS
  <2>2. pr = [page |-> l.page, type |-> l.type, free |-> f] /\ pr.free = f
    BY <1>1, <2>1
  <2>3. [pr EXCEPT !.free = g] = [page |-> l.page, type |-> l.type, free |-> g]
    BY <2>2
  <2> QED
    BY <1>1, <2>1, <2>2, <2>3 DEF NewRef
<1>7. Block(pr.page, Head(pr.free)) = NewBlock(t)
  BY <1>1 DEF NewBlock
<1>8. pagerefs' = [x \in DOMAIN pagerefs \union {r} |->
                     IF x = r THEN NewRef(t) ELSE pagerefs[x]]
  BY <1>2, <1>5, <1>6
<1> QED
  BY <1>1, <1>3, <1>5, <1>7, <1>8 DEF Adds

\* An entry is taken, of the first root that has one.
Reserves(t, root, entry) ==
    /\ root \in Roots /\ entry \in Entries /\ entry \notin Inuse(root)
    /\ \A i \in Roots : i < root => Taken(Inuse(i))
    /\ kheaproots' = [kheaproots EXCEPT
                        ![root].inuse = Inuse(root) \union {entry}]
    /\ IF Page(root) # 0 THEN Adds(t, <<Page(root), entry>>)
       ELSE /\ KGoto(t, "refpage", [kloc[t] EXCEPT !.root = root,
                                                   !.entry = entry])
            /\ UNCHANGED <<pagerefs, sizebases, allbase, held>>
LEMMA AllocIs ==
  ASSUME HeapShape, NEW t \in Callers, Allocpageref(t)
  PROVE  /\ kpc[t] = "ref" /\ env' = env /\ UNCHANGED <<firstpaddr, panic>>
         /\ \/ NoRef(t) /\ UNCHANGED kheaproots
            \/ \E root, entry : Reserves(t, root, entry)
<1> DEFINE room == {i \in Roots :
                     Cardinality(kheaproots[i].inuse) < NPAGEREFS_PER_PAGE}
           root == CHOOSE i \in room : \A j \in room : i <= j
           unused == Entries \ kheaproots[root].inuse
           entry == CHOOSE e \in unused : \A f \in unused : e <= f
<1>1. /\ kpc[t] = "ref" /\ env' = env /\ UNCHANGED <<firstpaddr, panic>>
      /\ IF room = {} THEN NoRef(t) /\ UNCHANGED kheaproots
         ELSE /\ kheaproots' = [kheaproots EXCEPT ![root].inuse =
                                  kheaproots[root].inuse \union {entry}]
              /\ IF kheaproots[root].page # 0
                 THEN NewPage(t, <<kheaproots[root].page, entry>>)
                 ELSE /\ KGoto(t, "refpage", [kloc[t] EXCEPT !.root = root,
                                                             !.entry = entry])
                      /\ UNCHANGED <<pagerefs, sizebases, allbase, held>>
  BY DEF Allocpageref, KAt
<1>2. /\ NUM_PAGEREFPAGES \in Nat /\ NPAGEREFS_PER_PAGE \in Nat
      /\ \A i \in Roots : kheaproots[i].inuse \subseteq Entries
  BY KmallocAssumptions DEF HeapShape
<1>3. room \in SUBSET Nat /\ room \subseteq Roots
  BY <1>2 DEF Roots
<1>4. ASSUME room # {}
      PROVE  Reserves(t, root, entry)
    <2>1. root \in room /\ \A j \in room : root <= j
      <3> HIDE DEF room
      <3> QED
        BY <1>3, <1>4, LeastIs
    <2>2. root \in Roots /\ Cardinality(kheaproots[root].inuse)
                              < NPAGEREFS_PER_PAGE
      BY <2>1
    <2> HIDE DEF root
    <2>3. unused # {}
      <3>1. Cardinality(Entries) = NPAGEREFS_PER_PAGE
        BY <1>2, FS_Interval DEF Entries
      <3>2. ~(Cardinality(kheaproots[root].inuse) = Cardinality(Entries))
        <4>1. kheaproots[root].inuse \subseteq Entries
          BY <1>2, <2>2
        <4>2. IsFiniteSet(Entries)
          BY <1>2, FS_Interval DEF Entries
        <4>3. Cardinality(kheaproots[root].inuse) \in Nat
          BY <4>1, <4>2, FS_Subset, FS_CardinalityType
        <4> QED
          BY <1>2, <2>2, <3>1, <4>3
      <3>3. kheaproots[root].inuse # Entries
        BY <3>2
      <3> QED
        BY <1>2, <2>2, <3>3
    <2>4. unused \in SUBSET Nat
      BY <1>2 DEF Entries
    <2>5. entry \in unused
      <3> HIDE DEF unused
      <3> QED
        BY <2>3, <2>4, LeastIs
    <2> HIDE DEF entry
    <2>6. entry \in Entries /\ entry \notin Inuse(root)
      BY <2>5 DEF Inuse
    <2>7. \A i \in Roots : i < root => Taken(Inuse(i))
      <3> SUFFICES ASSUME NEW i \in Roots, i < root,
                          Cardinality(kheaproots[i].inuse)
                            < NPAGEREFS_PER_PAGE
                   PROVE  FALSE
        BY DEF Taken, Inuse
      <3>1. i \in room
        OBVIOUS
      <3>2. root <= i
        BY <2>1, <3>1
      <3>3. i \in Nat /\ root \in Nat
        BY <1>2, <2>2 DEF Roots
      <3> QED
        BY <3>2, <3>3
    <2>8. kheaproots' = [kheaproots EXCEPT
                           ![root].inuse = Inuse(root) \union {entry}]
      BY <1>1, <1>4 DEF Inuse
    <2>9. CASE Page(root) # 0
      <3>1. NewPage(t, <<Page(root), entry>>)
        BY <1>1, <1>4, <2>9 DEF Page
      <3>2. Adds(t, <<Page(root), entry>>)
        BY <3>1, NewPageIs
      <3> QED
        BY <2>2, <2>6, <2>7, <2>8, <2>9, <3>2 DEF Reserves
    <2>10. CASE Page(root) = 0
      BY <1>1, <1>4, <2>2, <2>6, <2>7, <2>8, <2>10 DEF Reserves, Page
    <2> QED
      BY <2>9, <2>10
<1> QED
  BY <1>1, <1>4

LEMMA RefPageIs ==
  ASSUME NEW t \in Callers, Allocpagerefpage(t)
  PROVE  LET root == kloc[t].root
             page == IF Page(root) # 0 THEN Page(root) ELSE kloc[t].va
         IN
         /\ kpc[t] = "gotpage" /\ env' = env /\ UNCHANGED <<firstpaddr, panic>>
         /\ kheaproots' = [kheaproots EXCEPT ![root].page = page]
         /\ IF page = 0 THEN NoRef(t) ELSE Adds(t, <<page, kloc[t].entry>>)
BY NewPageIs DEF Allocpagerefpage, KAt, Becomes, Page

\* kmalloc takes whole pages, a free block, or goes for a page.
TakesLarge(t, sz) ==
    LET n == RoundedPages(sz)
        p == Getppages(n)
    IN
    /\ Advance(n)
    /\ held' = IF p # 0 THEN [held EXCEPT ![t] = held[t] \union {Large(p, n)}]
               ELSE held
    /\ sz >= LARGEST_SUBPAGE_SIZE
    /\ UNCHANGED <<heapvars, kpc, kloc>>
TakesBlock(t, r) ==
    LET pr == pagerefs[r] IN
    /\ pr.free # << >>
    /\ pagerefs' = [pagerefs EXCEPT ![r] = [pr EXCEPT !.free = Tail(pr.free)]]
    /\ held' = [held EXCEPT ![t] =
                  held[t] \union {Block(pr.page, Head(pr.free))}]
    /\ KReturn(t)
    /\ UNCHANGED <<kheaproots, sizebases, allbase, firstpaddr>>
LEMMA KmallocIs ==
  ASSUME NEW t \in Callers, NEW sz \in Requests, Kmalloc(t, sz)
  PROVE  /\ kpc[t] = "idle" /\ env' = env /\ UNCHANGED panic
         /\ Wraps(WholePages(sz)) => "huge" \in env
         /\ \/ TakesLarge(t, sz)
            \/ \E type \in Types :
                 /\ KGoto(t, "page", [NoLoc EXCEPT !.type = type])
                 /\ UNCHANGED <<heapvars, held, firstpaddr>>
            \/ \E type \in Types :
                 /\ \A S : sizebases[type] \in Seq(S) =>
                      \E r \in Elements(sizebases[type]) : TakesBlock(t, r)
                 /\ \E r : /\ pagerefs' = [pagerefs EXCEPT ![r].free = Tail(@)]
                           /\ KReturn(t)
                           /\ UNCHANGED <<kheaproots, firstpaddr>>
<1>1. /\ kpc[t] = "idle" /\ env' = env /\ UNCHANGED panic
      /\ Wraps(WholePages(sz)) => "huge" \in env
      /\ KmallocLarge(t, sz) \/ SubpageKmalloc(t, sz)
  BY DEF Kmalloc, KAt
<1>2. ASSUME KmallocLarge(t, sz)
      PROVE  TakesLarge(t, sz)
  BY <1>2 DEF KmallocLarge, TakesLarge, Gets
<1>3. ASSUME SubpageKmalloc(t, sz)
      PROVE  /\ Blocktype(sz) \in Types
             /\ \/ /\ KGoto(t, "page", [NoLoc EXCEPT !.type = Blocktype(sz)])
                   /\ UNCHANGED <<heapvars, held, firstpaddr>>
                \/ LET type == Blocktype(sz)
                       r == sizebases[type][WithRoom(type)]
                   IN  /\ WithRoom(type) # 0
                       /\ Doalloc(t, r, pagerefs)
                       /\ UNCHANGED <<kheaproots, sizebases, allbase,
                                      firstpaddr>>
  <2>1. Blocktype(sz) \in Types
    <3> DEFINE I == {i \in Types : sz <= sizes[i]}
    <3>1. /\ Len(sizes) \in Nat /\ Len(sizes) # 0
          /\ Types = 1 .. Len(sizes) /\ sz < sizes[Len(sizes)]
          /\ \A i \in Types : sizes[i] \in Nat
          /\ sz \in Nat
      BY <1>3, KmallocAssumptions
         DEF Types, SubpageKmalloc, LARGEST_SUBPAGE_SIZE
    <3>2. Len(sizes) \in I /\ I \in SUBSET Nat
      BY <3>1
    <3>3. PICK k \in I : \A j \in I : k <= j
      <4> HIDE DEF I
      <4> QED
        BY <3>2, LeastIs
    <3>4. \E i \in Types : /\ sz <= sizes[i]
                           /\ \A j \in Types : sz <= sizes[j] => i <= j
      BY <3>3
    <3> QED
      BY <3>4 DEF Blocktype
  <2> QED
    BY <1>3, <2>1 DEF SubpageKmalloc
<1>4. ASSUME NEW type \in Types, WithRoom(type) # 0,
             Doalloc(t, sizebases[type][WithRoom(type)], pagerefs),
             UNCHANGED <<kheaproots, sizebases, allbase, firstpaddr>>
      PROVE  /\ \A S : sizebases[type] \in Seq(S) =>
                  \E r \in Elements(sizebases[type]) : TakesBlock(t, r)
             /\ \E r : /\ pagerefs' = [pagerefs EXCEPT ![r].free = Tail(@)]
                       /\ KReturn(t)
                       /\ UNCHANGED <<kheaproots, firstpaddr>>
  <2>1. PICK r : r = sizebases[type][WithRoom(type)]
    OBVIOUS
  <2>2. /\ pagerefs' = [pagerefs EXCEPT ![r].free = Tail(@)]
        /\ held' = [held EXCEPT ![t] = held[t]
             \union {Block(pagerefs[r].page, Head(pagerefs[r].free))}]
        /\ KReturn(t)
    BY <1>4, <2>1 DEF Doalloc, Gets
  <2>3. ASSUME NEW S, sizebases[type] \in Seq(S)
        PROVE  r \in Elements(sizebases[type]) /\ pagerefs[r].free # << >>
    BY <1>4, <2>1, <2>3, WithRoomIs
  <2> QED
    BY <1>4, <2>2, <2>3 DEF TakesBlock
<1> QED
  BY <1>1, <1>2, <1>3, <1>4

\* kfree gives a block back to its page, if it has one.
LEMMA KfreeIs ==
  ASSUME NEW t \in Callers, NEW b, Kfree(t, b)
  PROVE  /\ kpc[t] = "idle" /\ env' = env /\ b \in held[t]
         /\ held' = [held EXCEPT ![t] = held[t] \ {b}]
         /\ UNCHANGED <<kpc, kloc, firstpaddr>>
         /\ \/ /\ UNCHANGED <<heapvars, panic>>
               /\ \A S : allbase \in Seq(S) =>
                    \A r \in Elements(allbase) : pagerefs[r].page # b.page
            \/ \E r : /\ SubpageKfree(r, b.blk)
                      /\ \A S : allbase \in Seq(S) =>
                           /\ r \in Elements(allbase)
                           /\ pagerefs[r].page = b.page
<1>1. /\ kpc[t] = "idle" /\ env' = env /\ b \in held[t]
      /\ held' = [held EXCEPT ![t] = held[t] \ {b}]
      /\ UNCHANGED <<kpc, kloc, firstpaddr>>
  BY DEF Kfree, KAt
<1>2. CASE OnPage(b) = 0
  <2>1. UNCHANGED <<heapvars, panic>>
    BY <1>2 DEF Kfree
  <2>2. \A S : allbase \in Seq(S) =>
          \A r \in Elements(allbase) : pagerefs[r].page # b.page
    BY <1>2, OnPageIs
  <2> QED
    BY <1>1, <2>1, <2>2
<1>3. CASE OnPage(b) # 0
  <2>1. PICK r : r = allbase[OnPage(b)]
    OBVIOUS
  <2>2. SubpageKfree(r, b.blk)
    BY <1>3, <2>1 DEF Kfree
  <2>3. \A S : allbase \in Seq(S) => /\ r \in Elements(allbase)
                                     /\ pagerefs[r].page = b.page
    BY <1>3, <2>1, OnPageIs
  <2> QED
    BY <1>1, <2>2, <2>3
<1> QED
  BY <1>2, <1>3

\* The three ways that may end.
WithBlock(r, blk) == [pagerefs[r] EXCEPT !.free = <<blk>> \o pagerefs[r].free]
PageGoes(r) ==
    /\ RemoveLists(r) /\ Freepageref(r)
    /\ pagerefs' = [q \in DOMAIN pagerefs \ {r} |-> pagerefs[q]]
    /\ UNCHANGED panic
LEMMA SubpageKfreeIs ==
  ASSUME NEW r, NEW blk, SubpageKfree(r, blk)
  PROVE  LET pr == WithBlock(r, blk)
             n == NBlocks(pr.type)
         IN
         \/ /\ \/ Len(pr.free) > n
               \/ Len(pr.free) > 1 /\ pr.free[1] = pr.free[2]
               \/ Len(pr.free) = n /\ FreepagerefFails(r)
            /\ panic' = "heap" /\ UNCHANGED heapvars
         \/ Len(pr.free) = n /\ PageGoes(r)
         \/ /\ ~(Len(pr.free) > n) /\ Len(pr.free) # n
            /\ pagerefs' = [pagerefs EXCEPT ![r] = pr]
            /\ UNCHANGED <<kheaproots, sizebases, allbase, panic>>
<1>1. PICK pr, n : pr = WithBlock(r, blk) /\ n = NBlocks(pr.type)
  OBVIOUS
<1>2. IF Len(pr.free) > n
         \/ (Len(pr.free) > 1 /\ pr.free[1] = pr.free[2])
         \/ (Len(pr.free) = n /\ FreepagerefFails(r))
      THEN /\ panic' = "heap"
           /\ UNCHANGED heapvars
      ELSE IF Len(pr.free) = n
      THEN /\ RemoveLists(r)
           /\ Freepageref(r)
           /\ pagerefs' = Fns!Restrict(pagerefs, DOMAIN pagerefs \ {r})
           /\ UNCHANGED panic
      ELSE /\ pagerefs' = [pagerefs EXCEPT ![r] = pr]
           /\ UNCHANGED <<kheaproots, sizebases, allbase, panic>>
  BY <1>1 DEF SubpageKfree, WithBlock
<1>3. Fns!Restrict(pagerefs, DOMAIN pagerefs \ {r})
        = [q \in DOMAIN pagerefs \ {r} |-> pagerefs[q]]
  BY DEF Fns!Restrict
<1> QED
  BY <1>1, <1>2, <1>3 DEF PageGoes

-----------------------------------------------------------------------------
\* The variables keep their shape.
Locs == [type : Types \union {0}, page : 0 .. LASTPADDR,
         root : Roots \union {0}, entry : Entries \union {0},
         va : 0 .. LASTPADDR]
RootShape == [page : 0 .. LASTPADDR, inuse : SUBSET Entries]

LEMMA NoLocIn ==
  NoLoc \in Locs /\ \A type \in Types : [NoLoc EXCEPT !.type = type] \in Locs
<1>1. 0 \in 0 .. LASTPADDR
  BY RamAssumptions
<1>2. NoLoc \in Locs
  BY <1>1 DEF NoLoc, Locs
<1> QED
  BY <1>2 DEF Locs

LEMMA GoesIs ==
  ASSUME HeapShape, NEW t \in Callers, NEW label, NEW l, KGoto(t, label, l)
  PROVE  /\ kpc'[t] = label /\ kloc'[t] = l
         /\ \A u \in Callers \ {t} : kpc'[u] = kpc[u] /\ kloc'[u] = kloc[u]
BY DEF KGoto, HeapShape

LEMMA GoesShape ==
  ASSUME HeapShape, NEW t \in Callers, NEW label \in CallLabels,
         NEW l \in Locs, KGoto(t, label, l),
         label # "idle" => l.type \in Types,
         label \in {"refpage", "gotpage"} => l.root \in Roots
                                             /\ l.entry \in Entries,
         kheaproots' \in [Roots -> RootShape]
  PROVE  HeapShape'
<1>1. /\ kpc' \in [Callers -> CallLabels] /\ kloc' \in [Callers -> Locs]
      /\ kpc'[t] = label /\ kloc'[t] = l
      /\ \A u \in Callers \ {t} : kpc'[u] = kpc[u] /\ kloc'[u] = kloc[u]
  BY DEF KGoto, HeapShape, Locs
<1>2. \A u \in Callers :
        /\ kpc'[u] # "idle" => kloc'[u].type \in Types
        /\ kpc'[u] \in {"refpage", "gotpage"} =>
             kloc'[u].root \in Roots /\ kloc'[u].entry \in Entries
  BY <1>1 DEF HeapShape
<1> QED
  BY <1>1, <1>2 DEF HeapShape, RootShape, Locs

LEMMA StaysShape ==
  ASSUME HeapShape, UNCHANGED <<kpc, kloc>>,
         kheaproots' \in [Roots -> RootShape]
  PROVE  HeapShape'
BY DEF HeapShape, RootShape

LEMMA GetIn ==
  ASSUME RamTypes, NEW n
  PROVE  Getppages(n) \in 0 .. LASTPADDR
<1>1. 0 \in 0 .. LASTPADDR
  BY RamAssumptions
<1> QED
  BY <1>1 DEF RamTypes, Getppages

LEMMA HeapShapeKept ==
  ASSUME HeapShape, RamTypes, HeapNext
  PROVE  HeapShape'
<1>0. /\ kheaproots \in [Roots -> RootShape] /\ kloc \in [Callers -> Locs]
      /\ NoLoc \in Locs
  BY NoLocIn DEF HeapShape, Locs, RootShape
<1>1. ASSUME NEW t \in Callers, NEW sz \in Requests, Kmalloc(t, sz)
      PROVE  HeapShape'
  <2>1. CASE TakesLarge(t, sz)
    BY <1>0, <2>1, StaysShape DEF TakesLarge, heapvars
  <2>2. CASE \E type \in Types :
               /\ KGoto(t, "page", [NoLoc EXCEPT !.type = type])
               /\ UNCHANGED <<heapvars, held, firstpaddr>>
    <3>1. PICK type \in Types :
            /\ KGoto(t, "page", [NoLoc EXCEPT !.type = type])
            /\ UNCHANGED <<heapvars, held, firstpaddr>>
      BY <2>2
    <3>2. PICK l \in Locs : l = [NoLoc EXCEPT !.type = type]
      BY NoLocIn
    <3>3. l.type = type
      BY <1>0, <3>2 DEF Locs
    <3>4. kheaproots' \in [Roots -> RootShape]
      BY <1>0, <3>1 DEF heapvars
    <3> QED
      BY <3>1, <3>2, <3>3, <3>4, GoesShape DEF CallLabels
  <2>3. CASE KReturn(t) /\ UNCHANGED <<kheaproots, firstpaddr>>
    BY <1>0, <2>3, GoesShape DEF KReturn, CallLabels
  <2> QED
    BY <1>1, <2>1, <2>2, <2>3, KmallocIs
<1>2. ASSUME NEW t \in Callers, KmallocPage(t)
      PROVE  HeapShape'
  <2>1. kpc[t] = "page" /\ UNCHANGED heapvars
    BY <1>2 DEF KmallocPage, KAt
  <2>2. kloc[t].type \in Types /\ kloc[t] \in Locs
    BY <1>0, <2>1 DEF HeapShape
  <2>3. PICK l : l = [kloc[t] EXCEPT !.page = Getppages(1)]
    OBVIOUS
  <2>4. l \in Locs /\ l.type \in Types
    BY <2>2, <2>3, GetIn DEF Locs
  <2>5. kheaproots' \in [Roots -> RootShape]
    BY <1>0, <2>1 DEF heapvars
  <2>6. KGoto(t, "ref", l) \/ KGoto(t, "idle", NoLoc)
    BY <1>2, <2>3 DEF KmallocPage, KReturn
  <2> QED
    BY <1>0, <2>4, <2>5, <2>6, GoesShape DEF CallLabels
<1>3. ASSUME NEW t \in Callers, Allocpageref(t)
      PROVE  HeapShape'
  <2>1. CASE NoRef(t) /\ UNCHANGED kheaproots
    BY <1>0, <2>1, GoesShape DEF NoRef, KReturn, CallLabels
  <2>2. ASSUME NEW root, NEW entry, Reserves(t, root, entry)
        PROVE  HeapShape'
    <3>1. /\ root \in Roots /\ entry \in Entries
          /\ kheaproots' = [kheaproots EXCEPT
                              ![root].inuse = Inuse(root) \union {entry}]
      BY <2>2 DEF Reserves
    <3>2. kheaproots' \in [Roots -> RootShape]
      BY <1>0, <3>1 DEF Inuse, RootShape
    <3>3. CASE Adds(t, <<Page(root), entry>>)
      BY <1>0, <3>2, <3>3, GoesShape DEF Adds, KReturn, CallLabels
    <3>4. CASE KGoto(t, "refpage", [kloc[t] EXCEPT !.root = root,
                                                   !.entry = entry])
      <4>1. PICK l : l = [kloc[t] EXCEPT !.root = root, !.entry = entry]
        OBVIOUS
      <4>2. kpc[t] = "ref"
        BY <1>3, AllocIs
      <4>3. kloc[t] \in Locs /\ kloc[t].type \in Types
        BY <1>0, <4>2 DEF HeapShape
      <4>4. /\ l \in Locs /\ l.root = root /\ l.entry = entry
            /\ l.type = kloc[t].type
        BY <3>1, <4>1, <4>3 DEF Locs
      <4> QED
        BY <3>1, <3>2, <3>4, <4>1, <4>3, <4>4, GoesShape DEF CallLabels
    <3> QED
      BY <2>2, <3>3, <3>4 DEF Reserves
  <2> QED
    BY <1>3, <2>1, <2>2, AllocIs
<1>4. ASSUME NEW t \in Callers, RefPage(t)
      PROVE  HeapShape'
  <2>1. kpc[t] = "refpage" /\ UNCHANGED heapvars
    BY <1>4 DEF RefPage, KAt
  <2>2. /\ kloc[t].type \in Types /\ kloc[t] \in Locs
        /\ kloc[t].root \in Roots /\ kloc[t].entry \in Entries
    BY <1>0, <2>1 DEF HeapShape
  <2>3. PICK l : l = [kloc[t] EXCEPT !.va = Getppages(1)]
    OBVIOUS
  <2>4. /\ l \in Locs /\ l.type = kloc[t].type /\ l.root = kloc[t].root
        /\ l.entry = kloc[t].entry
    BY <2>2, <2>3, GetIn DEF Locs
  <2>5. kheaproots' \in [Roots -> RootShape]
    BY <1>0, <2>1 DEF heapvars
  <2>6. KGoto(t, "gotpage", l)
    BY <1>4, <2>3 DEF RefPage
  <2> QED
    BY <2>2, <2>4, <2>5, <2>6, GoesShape DEF CallLabels
<1>5. ASSUME NEW t \in Callers, Allocpagerefpage(t)
      PROVE  HeapShape'
  <2>1. PICK page : /\ page = IF Page(kloc[t].root) # 0 THEN Page(kloc[t].root)
                              ELSE kloc[t].va
                    /\ kheaproots' = [kheaproots EXCEPT
                                        ![kloc[t].root].page = page]
                    /\ kpc[t] = "gotpage" /\ KReturn(t)
    BY <1>5, RefPageIs DEF Adds, NoRef
  <2>2. kloc[t].root \in Roots /\ kloc[t] \in Locs
    BY <1>0, <2>1 DEF HeapShape
  <2>3. page \in 0 .. LASTPADDR
    BY <1>0, <2>1, <2>2 DEF Page, Locs, RootShape
  <2>4. kheaproots' \in [Roots -> RootShape]
    BY <1>0, <2>1, <2>2, <2>3 DEF RootShape
  <2> QED
    BY <1>0, <2>1, <2>4, GoesShape DEF KReturn, CallLabels
<1>6. ASSUME NEW t \in Callers, NEW b, Kfree(t, b)
      PROVE  HeapShape'
  <2>1. UNCHANGED <<kpc, kloc>>
    BY <1>6, KfreeIs
  <2>2. CASE UNCHANGED kheaproots
    BY <1>0, <2>1, <2>2, StaysShape
  <2>3. ASSUME NEW r, Freepageref(r)
        PROVE  HeapShape'
    <3>1. kheaproots' \in [Roots -> RootShape]
      <4>1. ASSUME NEW i \in Roots
            PROVE  [kheaproots[i] EXCEPT
                      !.inuse = kheaproots[i].inuse \ {r[2]}] \in RootShape
        BY <1>0 DEF RootShape
      <4> QED
        BY <1>0, <2>3, <4>1 DEF Freepageref
    <3> QED
      BY <2>1, <3>1, StaysShape
  <2>4. UNCHANGED kheaproots \/ \E r : Freepageref(r)
    BY <1>6, KfreeIs, SubpageKfreeIs DEF heapvars, PageGoes
  <2> QED
    BY <2>2, <2>3, <2>4
<1> QED
  BY <1>1, <1>2, <1>3, <1>4, <1>5, <1>6 DEF HeapNext

-----------------------------------------------------------------------------
\* What it means for the heap that a page has one owner.
LEMMA OnceIs ==
  ASSUME PagesOnce, "huge" \notin env
  PROVE  /\ \A i, j \in Roots : Page(i) = Page(j) /\ Page(i) # 0 => i = j
         /\ \A r, q \in DOMAIN pagerefs :
              pagerefs[r].page = pagerefs[q].page /\ pagerefs[r].page # 0 =>
                r = q
         /\ \A t \in Callers, i \in Roots :
              kloc[t].va # 0 => Page(i) # kloc[t].va
         /\ \A t \in Callers, r \in DOMAIN pagerefs :
              kloc[t].page # 0 => pagerefs[r].page # kloc[t].page
         /\ \A b \in AllHeld :
              b.page \in Nat \ {0} /\ b.npages \in Nat \ {0} =>
                /\ b.page \in FIRSTPADDR .. (firstpaddr - 1)
                /\ \A r \in DOMAIN pagerefs : pagerefs[r].page # b.page
<1> DEFINE RootClaim(i) == [who |-> <<"root", i>>, page |-> Page(i)]
           HeapClaim(r) == [who |-> <<"heap", r>>, page |-> pagerefs[r].page]
           NewClaim(t) == [who |-> <<"new", t>>, page |-> kloc[t].page]
           RefClaim(t) == [who |-> <<"ref", t>>, page |-> kloc[t].va]
           LargeClaim(b) == [who |-> <<"large", b>>, page |-> b.page]
<1>1. \A x, y \in Claims : x.page = y.page /\ x.page # 0 => x.who = y.who
  BY DEF PagesOnce
<1>2. \A x \in Claims : x.page # 0 => x.page \in FIRSTPADDR .. (firstpaddr - 1)
  BY DEF PagesOnce
<1>3. \A i \in Roots : RootClaim(i) \in Claims
  BY DEF Claims, RootClaims, Page
<1>4. \A r \in DOMAIN pagerefs : HeapClaim(r) \in Claims
  BY DEF Claims, HeapClaims
<1>5. \A t \in Callers : NewClaim(t) \in Claims /\ RefClaim(t) \in Claims
  BY DEF Claims, NewClaims, RefClaims
<1>6. ASSUME NEW b \in AllHeld, b.page \in Nat \ {0}, b.npages \in Nat \ {0}
      PROVE  LargeClaim(b) \in Claims
  <2>1. 0 \in 0 .. (b.npages - 1) /\ b.page = b.page + 0
    BY <1>6
  <2>2. LargeClaim(b) \in LargeClaims(AllHeld)
    BY <2>1, LargeClaimIs
  <2> QED
    BY <2>2 DEF Claims
<1>7. \A i, j \in Roots : Page(i) = Page(j) /\ Page(i) # 0 => i = j
  <2>1. ASSUME NEW i \in Roots, NEW j \in Roots, Page(i) = Page(j),
               Page(i) # 0
        PROVE  i = j
    <3>1. RootClaim(i).who = RootClaim(j).who
      BY <1>1, <1>3, <2>1
    <3> QED
      BY <3>1
  <2> QED
    BY <2>1
<1>8. \A r, q \in DOMAIN pagerefs :
        pagerefs[r].page = pagerefs[q].page /\ pagerefs[r].page # 0 => r = q
  <2>1. ASSUME NEW r \in DOMAIN pagerefs, NEW q \in DOMAIN pagerefs,
               pagerefs[r].page = pagerefs[q].page, pagerefs[r].page # 0
        PROVE  r = q
    <3>1. HeapClaim(r).who = HeapClaim(q).who
      BY <1>1, <1>4, <2>1
    <3> QED
      BY <3>1
  <2> QED
    BY <2>1
<1>9. ASSUME NEW t \in Callers, NEW i \in Roots, kloc[t].va # 0,
             Page(i) = kloc[t].va
      PROVE  FALSE
  <2>1. RefClaim(t).who = RootClaim(i).who
    BY <1>1, <1>3, <1>5, <1>9
  <2> QED
    BY <2>1
<1>10. ASSUME NEW t \in Callers, NEW r \in DOMAIN pagerefs, kloc[t].page # 0,
              pagerefs[r].page = kloc[t].page
       PROVE  FALSE
  <2>1. NewClaim(t).who = HeapClaim(r).who
    BY <1>1, <1>4, <1>5, <1>10
  <2> QED
    BY <2>1
<1>11. ASSUME NEW b \in AllHeld, b.page \in Nat \ {0}, b.npages \in Nat \ {0}
       PROVE  /\ b.page \in FIRSTPADDR .. (firstpaddr - 1)
              /\ \A r \in DOMAIN pagerefs : pagerefs[r].page # b.page
  <2>1. LargeClaim(b) \in Claims
    BY <1>6, <1>11
  <2>2. b.page \in FIRSTPADDR .. (firstpaddr - 1)
    BY <1>2, <1>11, <2>1
  <2>3. ASSUME NEW r \in DOMAIN pagerefs, pagerefs[r].page = b.page
        PROVE  FALSE
    <3>1. HeapClaim(r).who = LargeClaim(b).who
      BY <1>1, <1>4, <1>11, <2>1, <2>3
    <3> QED
      BY <3>1
  <2> QED
    BY <2>2, <2>3
<1> QED
  BY <1>7, <1>8, <1>9, <1>10, <1>11

\* There is a page if there is memory.
LEMMA OneMore ==
  ASSUME RamTypes
  PROVE  /\ Getppages(1) # 0 => firstpaddr < LASTPADDR
         /\ firstpaddr < LASTPADDR /\ FIRSTPADDR <= firstpaddr =>
              Getppages(1) # 0
<1>1. /\ firstpaddr \in Nat /\ firstpaddr <= LASTPADDR /\ LASTPADDR \in Nat
      /\ ADDRPAGES \in Nat /\ LASTPADDR < ADDRPAGES - 1
      /\ FIRSTPADDR \in Nat \ {0}
  BY RamAssumptions DEF RamTypes, Wraps
<1>2. (firstpaddr + 1) % ADDRPAGES = firstpaddr + 1
  BY <1>1
<1> QED
  BY <1>1, <1>2 DEF Getppages, Steals, Sum

-----------------------------------------------------------------------------
\* The entries of pagerefs: one by one.
LEMMA CountedIs ==
  ASSUME CountRight
  PROVE  RefsCounted
<1>1. \A i \in Roots : \A e :
        /\ e \in {r[2] : r \in {x \in DOMAIN pagerefs :
                                   x[1] = kheaproots[i].page}} <=> HasRef(i, e)
        /\ e \in {kloc[t].entry : t \in {u \in Callers :
                    kpc[u] \in {"refpage", "gotpage"} /\ kloc[u].root = i}}
             <=> HasCall(i, e)
  BY DEF HasRef, HasCall, OnWay, Page
<1>2. \A i \in Roots :
        (kheaproots[i].inuse =
            {r[2] : r \in {x \in DOMAIN pagerefs : x[1] = kheaproots[i].page}}
            \union {kloc[t].entry : t \in {u \in Callers :
                       kpc[u] \in {"refpage", "gotpage"} /\ kloc[u].root = i}})
          <=> \A e : e \in Inuse(i) <=> HasRef(i, e) \/ HasCall(i, e)
  BY <1>1 DEF Inuse
<1> QED
  BY <1>2 DEF RefsCounted, CountRight

\* Calls of others.
LEMMA CallStays ==
  ASSUME NEW u \in Callers, KcallRight(u), RamTypes, RamTypes',
         kpc'[u] = kpc[u], kloc'[u] = kloc[u], firstpaddr <= firstpaddr',
         \A i \in Roots : Page(i) # 0 => Page(i)' # 0,
         NEW l, l = kloc[u],
         u \in OnWay =>
           /\ l.entry \in Inuse(l.root)'
           /\ \A r \in DOMAIN pagerefs' :
                r[1] = Page(l.root)' => r[2] # l.entry
           /\ \A v \in OnWay' : v # u /\ kloc'[v].root = l.root =>
                                  kloc'[v].entry # l.entry
  PROVE  KcallRight(u)'
<1>1. /\ firstpaddr' < LASTPADDR => firstpaddr < LASTPADDR
      /\ firstpaddr = LASTPADDR => firstpaddr' = LASTPADDR
  BY RamAssumptions DEF RamTypes
<1>2. AllBefore(l.root) => AllBefore(l.root)'
  BY DEF AllBefore
<1>3. u \in OnWay' <=> u \in OnWay
  BY DEF OnWay
<1>4. /\ kpc'[u] \in {"ref", "refpage", "gotpage"} => l.page # 0
      /\ kpc'[u] \in {"page", "ref", "refpage"} => l.va = 0
      /\ kpc'[u] = "gotpage" /\ l.va = 0 => firstpaddr' = LASTPADDR
  BY <1>1 DEF KcallRight
<1>5. u \in OnWay => (firstpaddr' < LASTPADDR \/ l.va # 0 =>
                        AllBefore(l.root)')
  BY <1>1, <1>2 DEF KcallRight
<1> QED
  BY <1>3, <1>4, <1>5 DEF KcallRight

\* No entry is taken, but one may be lost when memory is out.
LEMMA RefsStay ==
  ASSUME RefsInv, "huge" \notin env, env' = env, RamTypes, RamTypes',
         firstpaddr <= firstpaddr', kheaproots' = kheaproots,
         DOMAIN pagerefs' = DOMAIN pagerefs, NEW t \in Callers,
         \A u \in Callers \ {t} : kpc'[u] = kpc[u] /\ kloc'[u] = kloc[u],
         KcallRight(t)',
         t \in OnWay' => /\ t \in OnWay /\ kloc'[t].root = kloc[t].root
                         /\ kloc'[t].entry = kloc[t].entry,
         t \in OnWay /\ t \notin OnWay' => firstpaddr' = LASTPADDR
  PROVE  RefsInv'
<1>1. /\ \A i : Page(i)' = Page(i) /\ Inuse(i)' = Inuse(i)
      /\ \A i : AllBefore(i)' <=> AllBefore(i)
  BY DEF Page, Inuse, AllBefore
<1>2. RefsRight' /\ RootsRight'
  BY <1>1 DEF RefsInv, RefsRight, RootsRight
<1>3. \A v \in OnWay' : /\ v \in OnWay /\ kloc'[v].root = kloc[v].root
                        /\ kloc'[v].entry = kloc[v].entry
  BY DEF OnWay
<1>4. ASSUME NEW u \in Callers \ {t}
      PROVE  KcallRight(u)'
  <2>1. KcallRight(u)
    BY DEF RefsInv
  <2>2. u \in OnWay =>
          /\ kloc[u].entry \in Inuse(kloc[u].root)
          /\ \A r \in DOMAIN pagerefs :
               r[1] = Page(kloc[u].root) => r[2] # kloc[u].entry
          /\ \A v \in OnWay : v # u /\ kloc[v].root = kloc[u].root =>
                                kloc[v].entry # kloc[u].entry
    BY <2>1 DEF KcallRight
  <2> QED
    BY <1>1, <1>3, <2>1, <2>2, CallStays
<1>5. CountRight'
  <2> SUFFICES ASSUME firstpaddr' < LASTPADDR, NEW i \in Roots, NEW e
               PROVE  e \in Inuse(i)' <=> HasRef(i, e)' \/ HasCall(i, e)'
    BY DEF CountRight
  <2>1. /\ firstpaddr < LASTPADDR /\ firstpaddr' # LASTPADDR
    BY RamAssumptions DEF RamTypes
  <2>2. e \in Inuse(i) <=> HasRef(i, e) \/ HasCall(i, e)
    BY <2>1 DEF RefsInv, CountRight
  <2>3. HasRef(i, e)' <=> HasRef(i, e)
    BY <1>1 DEF HasRef
  <2>4. \A v \in OnWay : v \in OnWay'
    BY <2>1 DEF OnWay
  <2>5. HasCall(i, e)' <=> HasCall(i, e)
    BY <1>3, <2>4 DEF HasCall
  <2> QED
    BY <1>1, <2>2, <2>3, <2>5
<1> QED
  BY <1>2, <1>4, <1>5 DEF RefsInv


\* While there is memory, a root that is full has its page.
LEMMA FullIs ==
  ASSUME HeapShape, RefsInv, firstpaddr < LASTPADDR, NEW i \in Roots,
         Taken(Inuse(i))
  PROVE  Page(i) # 0
<1> SUFFICES ASSUME Page(i) = 0
             PROVE  FALSE
  OBVIOUS
<1> DEFINE f == [u \in Callers |-> kloc[u].entry]
           E == {f[u] : u \in Callers}
<1>1. Inuse(i) \subseteq E
  <2>1. \A e : ~HasRef(i, e)
    BY DEF HasRef, RefsInv, RefsRight
  <2>2. \A e : e \in Inuse(i) => HasCall(i, e)
    BY <2>1 DEF RefsInv, CountRight
  <2> QED
    BY <2>2 DEF HasCall, OnWay
<1>2. IsFiniteSet(E) /\ Cardinality(E) <= Cardinality(Callers)
  <2>1. f \in Surjection(Callers, E)
    BY DEF Surjection
  <2>2. IsFiniteSet(Callers)
    BY KmallocAssumptions
  <2> HIDE DEF E, f
  <2> QED
    BY <2>1, <2>2, FS_Surjection
<1> HIDE DEF E, f
<1>3. Cardinality(Inuse(i)) <= Cardinality(E)
  BY <1>1, <1>2, FS_Subset
<1>4. /\ Cardinality(Inuse(i)) \in Nat /\ Cardinality(E) \in Nat
      /\ Cardinality(Callers) \in Nat
  BY <1>1, <1>2, KmallocAssumptions, FS_Subset, FS_CardinalityType
<1> QED
  BY <1>2, <1>3, <1>4, KmallocAssumptions DEF Taken

\* An entry is taken, for a page to come.
LEMMA RefsReserve ==
  ASSUME HeapShape, RefsInv, RamTypes, RamTypes', firstpaddr' = firstpaddr,
         NEW t \in Callers, kpc[t] = "ref", NEW root, NEW entry,
         Page(root) = 0, Reserves(t, root, entry)
  PROVE  RefsInv'
<1>1. /\ root \in Roots /\ entry \in Entries /\ entry \notin Inuse(root)
      /\ \A i \in Roots : i < root => Taken(Inuse(i))
      /\ kheaproots' = [kheaproots EXCEPT
                          ![root].inuse = Inuse(root) \union {entry}]
      /\ KGoto(t, "refpage", [kloc[t] EXCEPT !.root = root, !.entry = entry])
      /\ pagerefs' = pagerefs
  BY DEF Reserves
<1>2. \A i \in Roots :
        /\ Page(i)' = Page(i)
        /\ Inuse(i)' = IF i = root THEN Inuse(root) \union {entry}
                       ELSE Inuse(i)
  BY <1>1 DEF HeapShape, Page, Inuse
<1>3. PICK l : l = [kloc[t] EXCEPT !.root = root, !.entry = entry]
  OBVIOUS
<1>4. /\ kloc[t] \in Locs
      /\ l.root = root /\ l.entry = entry /\ l.page = kloc[t].page
      /\ l.va = kloc[t].va
  <2>1. kloc[t] \in Locs
    BY DEF HeapShape, Locs
  <2> QED
    BY <1>3, <2>1 DEF Locs
<1>5. /\ kpc'[t] = "refpage" /\ kloc'[t] = l
      /\ \A u \in Callers \ {t} : kpc'[u] = kpc[u] /\ kloc'[u] = kloc[u]
  BY <1>1, <1>3, GoesIs
<1>6. t \notin OnWay /\ OnWay' = OnWay \union {t}
  BY <1>5 DEF OnWay
<1>7. /\ KcallRight(t) /\ \A r \in DOMAIN pagerefs : r[1] # 0
      /\ \A u \in OnWay : kloc[u].root \in Roots
                          /\ kloc[u].entry \in Inuse(kloc[u].root)
  BY DEF RefsInv, RefsRight, KcallRight, OnWay, HeapShape
<1>8. RefsRight' /\ RootsRight'
  BY <1>1, <1>2 DEF RefsInv, RefsRight, RootsRight, AllBefore
<1>9. ASSUME NEW u \in Callers \ {t}
      PROVE  KcallRight(u)'
  <2>1. KcallRight(u)
    BY DEF RefsInv
  <2>2. PICK m : m = kloc[u]
    OBVIOUS
  <2>3. ASSUME u \in OnWay
        PROVE  /\ m.entry \in Inuse(m.root)'
               /\ \A r \in DOMAIN pagerefs' :
                    r[1] = Page(m.root)' => r[2] # m.entry
               /\ \A v \in OnWay' : v # u /\ kloc'[v].root = m.root =>
                                      kloc'[v].entry # m.entry
    <3>1. /\ m.entry \in Inuse(m.root) /\ m.root \in Roots
          /\ \A r \in DOMAIN pagerefs : r[1] = Page(m.root) => r[2] # m.entry
          /\ \A v \in OnWay : v # u /\ kloc[v].root = m.root =>
                                kloc[v].entry # m.entry
      BY <1>7, <2>1, <2>2, <2>3 DEF KcallRight
    <3>2. /\ m.entry \in Inuse(m.root)' /\ Page(m.root)' = Page(m.root)
          /\ DOMAIN pagerefs' = DOMAIN pagerefs
      BY <1>1, <1>2, <3>1
    <3>3. ASSUME NEW v \in OnWay', v # u, kloc'[v].root = m.root
          PROVE  kloc'[v].entry # m.entry
      <4>1. CASE v = t
        BY <1>1, <1>4, <1>5, <3>1, <3>3, <4>1
      <4>2. CASE v # t
        BY <1>5, <1>6, <3>1, <3>3, <4>2 DEF OnWay
      <4> QED
        BY <4>1, <4>2
    <3> QED
      BY <3>1, <3>2, <3>3
  <2>4. /\ kpc'[u] = kpc[u] /\ kloc'[u] = kloc[u] /\ firstpaddr <= firstpaddr'
        /\ \A i \in Roots : Page(i) # 0 => Page(i)' # 0
    BY <1>2, <1>5 DEF RamTypes
  <2> QED
    BY <2>1, <2>2, <2>3, <2>4, CallStays
<1>10. KcallRight(t)'
  <2>1. /\ l.page # 0 /\ l.va = 0
    BY <1>4, <1>7 DEF KcallRight
  <2>2. /\ l.entry \in Inuse(l.root)'
        /\ \A r \in DOMAIN pagerefs' : r[1] = Page(l.root)' => r[2] # l.entry
    BY <1>1, <1>2, <1>4, <1>7
  <2>3. \A u \in OnWay' : u # t /\ kloc'[u].root = l.root =>
                            kloc'[u].entry # l.entry
    BY <1>1, <1>4, <1>5, <1>6, <1>7 DEF OnWay
  <2>4. firstpaddr < LASTPADDR => AllBefore(l.root)'
    <3>1. firstpaddr < LASTPADDR =>
            \A i \in Roots : i < root => Page(i) # 0
      BY <1>1, FullIs
    <3> QED
      BY <1>2, <1>4, <3>1 DEF AllBefore
  <2> QED
    BY <1>5, <2>1, <2>2, <2>3, <2>4 DEF KcallRight
<1>11. CountRight'
  <2> SUFFICES ASSUME firstpaddr < LASTPADDR, NEW i \in Roots, NEW e
               PROVE  e \in Inuse(i)' <=> HasRef(i, e)' \/ HasCall(i, e)'
    BY DEF CountRight
  <2>1. e \in Inuse(i) <=> HasRef(i, e) \/ HasCall(i, e)
    BY DEF RefsInv, CountRight
  <2>2. HasRef(i, e)' <=> HasRef(i, e)
    BY <1>1, <1>2 DEF HasRef
  <2>3. HasCall(i, e)' <=> HasCall(i, e) \/ (i = root /\ e = entry)
    <3>1. \A u \in OnWay : u \in OnWay' /\ kloc'[u] = kloc[u]
      BY <1>5, <1>6 DEF OnWay
    <3>2. \A u \in OnWay' : u \in OnWay \/ u = t
      BY <1>6
    <3>3. kloc'[t].root = root /\ kloc'[t].entry = entry /\ t \in OnWay'
      BY <1>4, <1>5, <1>6
    <3> QED
      BY <3>1, <3>2, <3>3 DEF HasCall
  <2> QED
    BY <1>2, <2>1, <2>2, <2>3
<1> QED
  BY <1>8, <1>9, <1>10, <1>11 DEF RefsInv

\* An entry of a page becomes a pageref.
LEMMA RefsAdd ==
  ASSUME HeapShape, RefsInv, RamTypes, RamTypes', firstpaddr' = firstpaddr,
         NEW t \in Callers, NEW root \in Roots, NEW entry, NEW page, page # 0,
         \A i \in Roots \ {root} :
           /\ Page(i) # page /\ Page(i)' = Page(i) /\ Inuse(i)' = Inuse(i),
         Page(root) \in {0, page}, Page(root)' = page, AllBefore(root),
         Inuse(root)' = Inuse(root) \union {entry},
         NEW r, r = <<page, entry>>,
         DOMAIN pagerefs' = DOMAIN pagerefs \union {r},
         kpc'[t] = "idle",
         \A u \in Callers \ {t} : kpc'[u] = kpc[u] /\ kloc'[u] = kloc[u],
         \A u \in OnWay : u # t /\ kloc[u].root = root =>
                            kloc[u].entry # entry,
         t \in OnWay => kloc[t].root = root /\ kloc[t].entry = entry
  PROVE  RefsInv'
<1>1. /\ \A q \in DOMAIN pagerefs : /\ q = <<q[1], q[2]>> /\ q[1] # 0
                                    /\ \E i \in Roots : Page(i) = q[1]
                                                        /\ q[2] \in Inuse(i)
      /\ r[1] = page /\ r[2] = entry
      /\ \A i \in Roots : Page(i) # 0 => Page(i)' # 0
  BY DEF RefsInv, RefsRight
<1>2. \A i \in Roots : Page(i) # 0 => Page(i)' = Page(i)
  OBVIOUS
<1>3. RefsRight'
  <2>1. ASSUME NEW q \in DOMAIN pagerefs
        PROVE  \E i \in Roots : Page(i)' = q[1] /\ q[2] \in Inuse(i)'
    <3>1. PICK i \in Roots : Page(i) = q[1] /\ q[2] \in Inuse(i)
      BY <1>1
    <3>2. Page(i)' = q[1]
      BY <1>1, <1>2, <3>1
    <3>3. q[2] \in Inuse(i)'
      BY <3>1
    <3> QED
      BY <3>2, <3>3
  <2>2. Page(root)' = r[1] /\ r[2] \in Inuse(root)'
    BY <1>1
  <2>3. \A q \in DOMAIN pagerefs' : /\ q = <<q[1], q[2]>> /\ q[1] # 0
                                    /\ \E i \in Roots : Page(i)' = q[1]
                                                        /\ q[2] \in Inuse(i)'
    BY <1>1, <2>1, <2>2
  <2> QED
    BY <2>3 DEF RefsRight
<1>4. RootsRight'
  <2>1. \A j : AllBefore(j) => AllBefore(j)'
    BY <1>1 DEF AllBefore
  <2>2. \A j \in Roots : Page(j)' # 0 => AllBefore(j)
    BY DEF RefsInv, RootsRight
  <2> QED
    BY <2>1, <2>2 DEF RootsRight
<1>5. /\ t \notin OnWay'
      /\ \A u \in Callers : u # t => (u \in OnWay' <=> u \in OnWay)
      /\ \A u \in OnWay' : u \in OnWay /\ u # t /\ kloc'[u] = kloc[u]
  BY DEF OnWay
<1>6. KcallRight(t)'
  BY <1>5 DEF KcallRight
<1>7. \A i \in Roots : \A e :
        HasRef(i, e)' <=> HasRef(i, e) \/ (i = root /\ e = entry)
  <2> SUFFICES ASSUME NEW i \in Roots, NEW e
               PROVE  HasRef(i, e)'
                        <=> HasRef(i, e) \/ (i = root /\ e = entry)
    OBVIOUS
  <2>1. CASE i # root
    <3>1. Page(i)' = Page(i) /\ Page(i) # page
      BY <2>1
    <3> QED
      BY <1>1, <2>1, <3>1 DEF HasRef
  <2>2. CASE i = root
    <3>1. \A q \in DOMAIN pagerefs : q[1] = page <=> q[1] = Page(root)
      BY <1>1
    <3>2. HasRef(root, e)' <=> \E q \in DOMAIN pagerefs' :
                                 q[1] = page /\ q[2] = e
      BY DEF HasRef
    <3> QED
      BY <1>1, <2>2, <3>1, <3>2 DEF HasRef
  <2> QED
    BY <2>1, <2>2
<1>8. ASSUME NEW u \in Callers \ {t}
      PROVE  KcallRight(u)'
  <2>1. KcallRight(u)
    BY DEF RefsInv
  <2>2. PICK m : m = kloc[u]
    OBVIOUS
  <2>3. ASSUME u \in OnWay
        PROVE  /\ m.entry \in Inuse(m.root)'
               /\ \A q \in DOMAIN pagerefs' :
                    q[1] = Page(m.root)' => q[2] # m.entry
               /\ \A v \in OnWay' : v # u /\ kloc'[v].root = m.root =>
                                      kloc'[v].entry # m.entry
    <3>1. /\ m.entry \in Inuse(m.root) /\ m.root \in Roots
          /\ \A q \in DOMAIN pagerefs : q[1] = Page(m.root) => q[2] # m.entry
          /\ \A v \in OnWay : v # u /\ kloc[v].root = m.root =>
                                kloc[v].entry # m.entry
      BY <2>1, <2>2, <2>3 DEF KcallRight, OnWay, HeapShape
    <3>2. m.root = root => m.entry # entry
      BY <2>2, <2>3
    <3>3. ~HasRef(m.root, m.entry)
      BY <3>1 DEF HasRef
    <3>4. ~HasRef(m.root, m.entry)'
      BY <1>7, <3>1, <3>2, <3>3
    <3>5. \A q \in DOMAIN pagerefs' : q[1] = Page(m.root)' => q[2] # m.entry
      BY <3>4 DEF HasRef
    <3>6. m.entry \in Inuse(m.root)'
      BY <3>1
    <3>7. \A v \in OnWay' : v # u /\ kloc'[v].root = m.root =>
                              kloc'[v].entry # m.entry
      BY <1>5, <3>1
    <3> QED
      BY <3>5, <3>6, <3>7
  <2>4. /\ kpc'[u] = kpc[u] /\ kloc'[u] = kloc[u] /\ firstpaddr <= firstpaddr'
    BY DEF RamTypes
  <2> QED
    BY <1>1, <2>1, <2>2, <2>3, <2>4, CallStays
<1>9. CountRight'
  <2> SUFFICES ASSUME firstpaddr < LASTPADDR, NEW i \in Roots, NEW e
               PROVE  e \in Inuse(i)' <=> HasRef(i, e)' \/ HasCall(i, e)'
    BY DEF CountRight
  <2>1. e \in Inuse(i) <=> HasRef(i, e) \/ HasCall(i, e)
    BY DEF RefsInv, CountRight
  <2>2. HasCall(i, e)' => HasCall(i, e)
    BY <1>5 DEF HasCall
  <2>3. HasCall(i, e) => HasCall(i, e)' \/ (i = root /\ e = entry)
    <3> SUFFICES ASSUME NEW u \in OnWay, kloc[u].root = i, kloc[u].entry = e
                 PROVE  HasCall(i, e)' \/ (i = root /\ e = entry)
      BY DEF HasCall
    <3>1. CASE u = t
      BY <3>1
    <3>2. CASE u # t
      <4>1. u \in OnWay' /\ kloc'[u] = kloc[u]
        BY <1>5, <3>2 DEF OnWay
      <4> QED
        BY <4>1 DEF HasCall
    <3> QED
      BY <3>1, <3>2
  <2>4. e \in Inuse(i)' <=> e \in Inuse(i) \/ (i = root /\ e = entry)
    OBVIOUS
  <2> QED
    BY <1>7, <2>1, <2>2, <2>3, <2>4
<1> QED
  BY <1>3, <1>4, <1>6, <1>8, <1>9 DEF RefsInv

\* A pageref is given back.
LEMMA RefsRemove ==
  ASSUME HeapShape, RefsInv, RamTypes, RamTypes', firstpaddr' = firstpaddr,
         \A i, j \in Roots : Page(i) = Page(j) /\ Page(i) # 0 => i = j,
         NEW r \in DOMAIN pagerefs, PageGoes(r), UNCHANGED <<kpc, kloc>>
  PROVE  RefsInv'
<1>1. /\ \A q \in DOMAIN pagerefs : /\ q = <<q[1], q[2]>> /\ q[1] # 0
                                    /\ \E i \in Roots : Page(i) = q[1]
                                                        /\ q[2] \in Inuse(i)
      /\ DOMAIN pagerefs' = DOMAIN pagerefs \ {r}
      /\ kpc' = kpc /\ kloc' = kloc /\ OnWay' = OnWay
  BY DEF RefsInv, RefsRight, PageGoes, OnWay
<1>2. PICK j \in Roots : Page(j) = r[1]
  BY <1>1
<1>3. ASSUME NEW i \in Roots
      PROVE  /\ Page(i)' = Page(i)
             /\ Inuse(i)' = IF i = j THEN Inuse(i) \ {r[2]} ELSE Inuse(i)
  <2>1. i \in RootOf(r) <=> i = j
    BY <1>1, <1>2 DEF RootOf, Page
  <2>2. kheaproots'[i] = IF i = j
          THEN [kheaproots[i] EXCEPT !.inuse = kheaproots[i].inuse \ {r[2]}]
          ELSE kheaproots[i]
    BY <2>1 DEF PageGoes, Freepageref
  <2>3. kheaproots[i] \in RootShape
    BY DEF HeapShape, RootShape
  <2> QED
    BY <2>2, <2>3 DEF Page, Inuse, RootShape
<1>4. \A i \in Roots : \A e :
        HasRef(i, e)' <=> HasRef(i, e) /\ ~(i = j /\ e = r[2])
  <2> SUFFICES ASSUME NEW i \in Roots, NEW e
               PROVE  HasRef(i, e)' <=> HasRef(i, e) /\ ~(i = j /\ e = r[2])
    OBVIOUS
  <2>1. HasRef(i, e)' <=> \E q \in DOMAIN pagerefs :
                            q # r /\ q[1] = Page(i) /\ q[2] = e
    BY <1>1, <1>3 DEF HasRef
  <2>2. \A q \in DOMAIN pagerefs : q[1] = r[1] /\ q[2] = r[2] => q = r
    BY <1>1
  <2>3. Page(i) = r[1] => i = j
    BY <1>1, <1>2
  <2> QED
    BY <1>2, <2>1, <2>2, <2>3 DEF HasRef
<1>5. \A u \in OnWay : ~(kloc[u].root = j /\ kloc[u].entry = r[2])
  BY <1>2 DEF RefsInv, KcallRight, OnWay
<1>6. RefsRight'
  <2>1. ASSUME NEW q \in DOMAIN pagerefs, q # r
        PROVE  \E i \in Roots : Page(i)' = q[1] /\ q[2] \in Inuse(i)'
    <3>1. PICK i \in Roots : Page(i) = q[1] /\ q[2] \in Inuse(i)
      BY <1>1
    <3>2. i = j => q[2] # r[2]
      BY <1>1, <1>2, <2>1, <3>1
    <3> QED
      BY <1>3, <3>1, <3>2
  <2>2. \A q \in DOMAIN pagerefs' : /\ q = <<q[1], q[2]>> /\ q[1] # 0
                                    /\ \E i \in Roots : Page(i)' = q[1]
                                                        /\ q[2] \in Inuse(i)'
    BY <1>1, <2>1
  <2> QED
    BY <2>2 DEF RefsRight
<1>7. RootsRight'
  BY <1>3 DEF RefsInv, RootsRight, AllBefore
<1>8. ASSUME NEW u \in Callers
      PROVE  KcallRight(u)'
  <2>1. KcallRight(u)
    BY DEF RefsInv
  <2>2. PICK m : m = kloc[u]
    OBVIOUS
  <2>3. ASSUME u \in OnWay
        PROVE  /\ m.entry \in Inuse(m.root)'
               /\ \A q \in DOMAIN pagerefs' :
                    q[1] = Page(m.root)' => q[2] # m.entry
               /\ \A v \in OnWay' : v # u /\ kloc'[v].root = m.root =>
                                      kloc'[v].entry # m.entry
    <3>1. /\ m.entry \in Inuse(m.root) /\ m.root \in Roots
          /\ \A q \in DOMAIN pagerefs : q[1] = Page(m.root) => q[2] # m.entry
          /\ \A v \in OnWay : v # u /\ kloc[v].root = m.root =>
                                kloc[v].entry # m.entry
      BY <2>1, <2>2, <2>3 DEF KcallRight, OnWay, HeapShape
    <3>2. m.entry \in Inuse(m.root)'
      BY <1>3, <1>5, <2>2, <2>3, <3>1
    <3> QED
      BY <1>1, <1>3, <3>1, <3>2
  <2>4. /\ kpc'[u] = kpc[u] /\ kloc'[u] = kloc[u] /\ firstpaddr <= firstpaddr'
        /\ \A i \in Roots : Page(i) # 0 => Page(i)' # 0
    BY <1>1, <1>3 DEF RamTypes
  <2> QED
    BY <2>1, <2>2, <2>3, <2>4, CallStays
<1>9. CountRight'
  <2> SUFFICES ASSUME firstpaddr < LASTPADDR, NEW i \in Roots, NEW e
               PROVE  e \in Inuse(i)' <=> HasRef(i, e)' \/ HasCall(i, e)'
    BY DEF CountRight
  <2>1. e \in Inuse(i) <=> HasRef(i, e) \/ HasCall(i, e)
    BY DEF RefsInv, CountRight
  <2>2. HasCall(i, e)' <=> HasCall(i, e)
    BY <1>1 DEF HasCall
  <2>3. ~(i = j /\ e = r[2] /\ HasCall(i, e))
    BY <1>5 DEF HasCall
  <2>4. e \in Inuse(i)' <=> e \in Inuse(i) /\ ~(i = j /\ e = r[2])
    BY <1>3
  <2> QED
    BY <1>4, <2>1, <2>2, <2>3, <2>4
<1> QED
  BY <1>6, <1>7, <1>8, <1>9 DEF RefsInv

-----------------------------------------------------------------------------
\* What holds on both sides of a step of the heap.
Ready == /\ HeapRight /\ HeapRight' /\ HeapInv /\ HeapShape'
         /\ "huge" \notin env /\ env' = env

LEMMA ReadyIs ==
  ASSUME Ready
  PROVE  /\ RamTypes /\ RamTypes' /\ FIRSTPADDR <= firstpaddr /\ PagesOnce
         /\ HeapShape /\ RefsInv /\ Lists(allbase, sizebases, pagerefs)
         /\ BlocksRight /\ PagesOnce'
         /\ firstpaddr \in Nat /\ firstpaddr <= LASTPADDR /\ LASTPADDR \in Nat
         /\ firstpaddr' \in Nat /\ firstpaddr' <= LASTPADDR
BY RamAssumptions DEF Ready, HeapRight, HeapInv, RamTypes

\* Memory is handed out from below.
LEMMA LargeGrows ==
  ASSUME Ready, NEW t \in Callers, NEW sz \in Requests, TakesLarge(t, sz),
         ~Wraps(WholePages(sz))
  PROVE  LET n == RoundedPages(sz) IN
         /\ n \in Nat
         /\ \/ Getppages(n) = 0 /\ firstpaddr' = firstpaddr
            \/ /\ Getppages(n) = firstpaddr /\ firstpaddr # 0
               /\ firstpaddr' = firstpaddr + n
<1>1. sz \in Nat
  BY KmallocAssumptions
<1>2. PICK n : n = RoundedPages(sz)
  OBVIOUS
<1>3. n \in Nat /\ ~Wraps(n)
  BY <1>1, <1>2, RoundedPagesAre
<1>4. Advance(n)
  BY <1>2 DEF TakesLarge
<1>5. RamTypes /\ FIRSTPADDR <= firstpaddr
  BY ReadyIs
<1> QED
  BY <1>2, <1>3, <1>4, <1>5, AdvanceIs

LEMMA KmallocRefs ==
  ASSUME Ready, NEW t \in Callers, NEW sz \in Requests, Kmalloc(t, sz)
  PROVE  RefsInv'
<1>1. /\ kpc[t] = "idle"
      /\ Wraps(WholePages(sz)) => "huge" \in env
      /\ RefsInv /\ HeapShape /\ RamTypes /\ RamTypes'
      /\ env' = env /\ "huge" \notin env /\ firstpaddr \in Nat
      /\ t \notin OnWay
  BY KmallocIs, ReadyIs DEF Ready, OnWay
<1>2. CASE TakesLarge(t, sz)
  <2>1. firstpaddr <= firstpaddr'
    <3>1. PICK n \in Nat :
            \/ Getppages(n) = 0 /\ firstpaddr' = firstpaddr
            \/ firstpaddr' = firstpaddr + n
      BY <1>1, <1>2, LargeGrows
    <3> QED
      BY <1>1, <3>1
  <2>2. /\ kheaproots' = kheaproots /\ pagerefs' = pagerefs
        /\ kpc' = kpc /\ kloc' = kloc
    BY <1>2 DEF TakesLarge, heapvars
  <2>3. KcallRight(t)'
    BY <1>1, <2>2 DEF KcallRight, OnWay
  <2>4. t \notin OnWay'
    BY <1>1, <2>2 DEF OnWay
  <2> QED
    BY <1>1, <2>1, <2>2, <2>3, <2>4, RefsStay
<1>3. ASSUME NEW type \in Types,
             KGoto(t, "page", [NoLoc EXCEPT !.type = type]),
             UNCHANGED <<heapvars, held, firstpaddr>>
      PROVE  RefsInv'
  <2>1. /\ kheaproots' = kheaproots /\ pagerefs' = pagerefs
        /\ firstpaddr <= firstpaddr'
    BY <1>1, <1>3 DEF heapvars
  <2>2. PICK l : l = [NoLoc EXCEPT !.type = type]
    OBVIOUS
  <2>3. /\ kpc'[t] = "page" /\ kloc'[t] = l
        /\ \A u \in Callers \ {t} : kpc'[u] = kpc[u] /\ kloc'[u] = kloc[u]
    BY <1>1, <1>3, <2>2, GoesIs
  <2>4. l.va = 0
    BY <2>2 DEF NoLoc
  <2>5. KcallRight(t)' /\ t \notin OnWay'
    BY <2>3, <2>4 DEF KcallRight, OnWay
  <2> QED
    BY <1>1, <2>1, <2>3, <2>5, RefsStay
<1>4. ASSUME NEW r, pagerefs' = [pagerefs EXCEPT ![r].free = Tail(@)],
             KReturn(t), UNCHANGED <<kheaproots, firstpaddr>>
      PROVE  RefsInv'
  <2>1. /\ DOMAIN pagerefs' = DOMAIN pagerefs /\ firstpaddr <= firstpaddr'
    BY <1>1, <1>4
  <2>2. /\ kpc'[t] = "idle"
        /\ \A u \in Callers \ {t} : kpc'[u] = kpc[u] /\ kloc'[u] = kloc[u]
    BY <1>1, <1>4, GoesIs DEF KReturn
  <2>3. KcallRight(t)' /\ t \notin OnWay'
    BY <2>2 DEF KcallRight, OnWay
  <2> QED
    BY <1>1, <1>4, <2>1, <2>2, <2>3, RefsStay
<1> QED
  BY <1>2, <1>3, <1>4, KmallocIs

LEMMA KmallocPageRefs ==
  ASSUME Ready, NEW t \in Callers, KmallocPage(t)
  PROVE  RefsInv'
<1>1. /\ kpc[t] = "page" /\ RefsInv /\ HeapShape /\ RamTypes /\ RamTypes'
      /\ env' = env /\ "huge" \notin env /\ Advance(1)
      /\ FIRSTPADDR <= firstpaddr /\ t \notin OnWay
      /\ UNCHANGED heapvars
  BY ReadyIs DEF Ready, KmallocPage, KAt, OnWay
<1>2. firstpaddr <= firstpaddr'
  BY <1>1, AdvanceOne
<1>3. PICK l : l = [kloc[t] EXCEPT !.page = Getppages(1)]
  OBVIOUS
<1>4. kloc[t] \in Locs
  BY <1>1 DEF HeapShape, Locs
<1>5. l.page = Getppages(1) /\ l.va = 0
  <2>1. kloc[t].va = 0
    BY <1>1 DEF RefsInv, KcallRight
  <2> QED
    BY <1>3, <1>4, <2>1 DEF Locs
<1>6. /\ kheaproots' = kheaproots /\ pagerefs' = pagerefs
  BY <1>1 DEF heapvars
<1>7. /\ \/ Getppages(1) # 0 /\ kpc'[t] = "ref" /\ kloc'[t] = l
         \/ kpc'[t] = "idle"
      /\ \A u \in Callers \ {t} : kpc'[u] = kpc[u] /\ kloc'[u] = kloc[u]
  <2>1. IF Getppages(1) # 0 THEN KGoto(t, "ref", l)
                            ELSE KGoto(t, "idle", NoLoc)
    BY <1>3 DEF KmallocPage, KReturn
  <2> QED
    BY <1>1, <2>1, GoesIs
<1>8. KcallRight(t)' /\ t \notin OnWay'
  BY <1>5, <1>7 DEF KcallRight, OnWay
<1> QED
  BY <1>1, <1>2, <1>6, <1>7, <1>8, RefsStay

LEMMA RefPageRefs ==
  ASSUME Ready, NEW t \in Callers, RefPage(t)
  PROVE  RefsInv'
<1>1. /\ kpc[t] = "refpage" /\ RefsInv /\ HeapShape /\ RamTypes /\ RamTypes'
      /\ env' = env /\ "huge" \notin env /\ Advance(1)
      /\ FIRSTPADDR <= firstpaddr /\ firstpaddr <= LASTPADDR
      /\ firstpaddr' <= LASTPADDR /\ t \in OnWay /\ UNCHANGED heapvars
      /\ LASTPADDR \in Nat
  BY ReadyIs DEF Ready, RefPage, KAt, OnWay
<1>2. firstpaddr <= firstpaddr' /\ firstpaddr \in Nat /\ firstpaddr' \in Nat
  BY <1>1, AdvanceOne
<1>3. PICK l : l = [kloc[t] EXCEPT !.va = Getppages(1)]
  OBVIOUS
<1>4. /\ l.page = kloc[t].page /\ l.va = Getppages(1)
      /\ l.root = kloc[t].root /\ l.entry = kloc[t].entry
  <2>1. kloc[t] \in Locs
    BY <1>1 DEF HeapShape, Locs
  <2> QED
    BY <1>3, <2>1 DEF Locs
<1>5. /\ kheaproots' = kheaproots /\ pagerefs' = pagerefs
  BY <1>1 DEF heapvars
<1>6. /\ kpc'[t] = "gotpage" /\ kloc'[t] = l
      /\ \A u \in Callers \ {t} : kpc'[u] = kpc[u] /\ kloc'[u] = kloc[u]
  <2>1. KGoto(t, "gotpage", l)
    BY <1>3 DEF RefPage
  <2> QED
    BY <1>1, <2>1, GoesIs
<1>7. KcallRight(t)
  BY <1>1 DEF RefsInv
<1>8. /\ l.va = 0 => firstpaddr' = LASTPADDR
      /\ firstpaddr' < LASTPADDR \/ l.va # 0 => firstpaddr < LASTPADDR
  BY <1>1, <1>2, <1>4, OneMore
<1>9. /\ OnWay' = OnWay
      /\ \A i : /\ Page(i)' = Page(i) /\ Inuse(i)' = Inuse(i)
                /\ AllBefore(i)' <=> AllBefore(i)
  BY <1>1, <1>5, <1>6 DEF OnWay, Page, Inuse, AllBefore
<1>10. KcallRight(t)'
  <2>1. /\ l.page # 0 /\ l.entry \in Inuse(l.root)
        /\ \A r \in DOMAIN pagerefs : r[1] = Page(l.root) => r[2] # l.entry
        /\ \A u \in OnWay : u # t /\ kloc[u].root = l.root =>
                              kloc[u].entry # l.entry
        /\ firstpaddr < LASTPADDR => AllBefore(l.root)
    BY <1>1, <1>4, <1>7 DEF KcallRight
  <2>2. \A u \in OnWay' : u # t => u \in OnWay /\ kloc'[u] = kloc[u]
    BY <1>6, <1>9 DEF OnWay
  <2>3. /\ l.entry \in Inuse(l.root)'
        /\ \A r \in DOMAIN pagerefs' : r[1] = Page(l.root)' => r[2] # l.entry
        /\ \A u \in OnWay' : u # t /\ kloc'[u].root = l.root =>
                              kloc'[u].entry # l.entry
        /\ firstpaddr' < LASTPADDR \/ l.va # 0 => AllBefore(l.root)'
    BY <1>5, <1>8, <1>9, <2>1, <2>2
  <2> QED
    BY <1>6, <1>8, <2>1, <2>3 DEF KcallRight
<1>11. kloc'[t].root = kloc[t].root /\ kloc'[t].entry = kloc[t].entry
  BY <1>4, <1>6
<1> QED
  BY <1>1, <1>2, <1>5, <1>6, <1>9, <1>10, <1>11, RefsStay

LEMMA NoRefRefs ==
  ASSUME Ready, NEW t \in Callers, NoRef(t), kheaproots' = kheaproots,
         firstpaddr' = firstpaddr, t \in OnWay => firstpaddr = LASTPADDR
  PROVE  RefsInv'
<1>1. /\ RefsInv /\ HeapShape /\ RamTypes /\ RamTypes' /\ firstpaddr \in Nat
      /\ env' = env /\ "huge" \notin env /\ pagerefs' = pagerefs /\ KReturn(t)
  BY ReadyIs DEF Ready, NoRef
<1>2. /\ kpc'[t] = "idle"
      /\ \A u \in Callers \ {t} : kpc'[u] = kpc[u] /\ kloc'[u] = kloc[u]
  BY <1>1, GoesIs DEF KReturn
<1>3. KcallRight(t)' /\ t \notin OnWay'
  BY <1>2 DEF KcallRight, OnWay
<1> QED
  BY <1>1, <1>2, <1>3, RefsStay

LEMMA AllocRefs ==
  ASSUME Ready, NEW t \in Callers, Allocpageref(t)
  PROVE  RefsInv'
<1>1. /\ kpc[t] = "ref" /\ RefsInv /\ HeapShape /\ RamTypes /\ RamTypes'
      /\ "huge" \notin env /\ PagesOnce /\ t \notin OnWay
      /\ firstpaddr' = firstpaddr
  BY AllocIs, ReadyIs DEF Ready, OnWay
<1>2. CASE NoRef(t) /\ UNCHANGED kheaproots
  BY <1>1, <1>2, NoRefRefs
<1>3. ASSUME NEW root, NEW entry, Reserves(t, root, entry)
      PROVE  RefsInv'
  <2>1. CASE Page(root) = 0
    BY <1>1, <1>3, <2>1, RefsReserve
  <2>2. CASE Page(root) # 0
    <3>1. PICK page, r : page = Page(root) /\ r = <<page, entry>>
      OBVIOUS
    <3>2. /\ root \in Roots /\ entry \notin Inuse(root)
          /\ kheaproots' = [kheaproots EXCEPT
                              ![root].inuse = Inuse(root) \union {entry}]
          /\ Adds(t, r)
      BY <1>3, <2>2, <3>1 DEF Reserves
    <3>3. \A i \in Roots :
            /\ Page(i)' = Page(i)
            /\ Inuse(i)' = IF i = root THEN Inuse(root) \union {entry}
                           ELSE Inuse(i)
      BY <1>1, <3>2 DEF HeapShape, Page, Inuse
    <3>4. \A i \in Roots \ {root} : Page(i) # page
      BY <1>1, <2>2, <3>1, <3>2, OnceIs
    <3>5. AllBefore(root)
      BY <1>1, <2>2, <3>2 DEF RefsInv, RootsRight
    <3>6. /\ DOMAIN pagerefs' = DOMAIN pagerefs \union {r} /\ kpc'[t] = "idle"
          /\ \A u \in Callers \ {t} : kpc'[u] = kpc[u] /\ kloc'[u] = kloc[u]
      BY <1>1, <3>2, GoesIs DEF Adds, KReturn
    <3>7. \A u \in OnWay : u # t /\ kloc[u].root = root =>
                             kloc[u].entry # entry
      BY <1>1, <3>2 DEF RefsInv, KcallRight, OnWay
    <3> QED
      BY <1>1, <2>2, <3>1, <3>2, <3>3, <3>4, <3>5, <3>6, <3>7, RefsAdd
  <2> QED
    BY <2>1, <2>2
<1> QED
  BY <1>1, <1>2, <1>3, AllocIs

\* The page and the entry of allocpagerefpage.
GotPage(t, root, entry, page) ==
    /\ root = kloc[t].root /\ root \in Roots
    /\ entry = kloc[t].entry /\ entry \in Inuse(root)
    /\ page = IF Page(root) # 0 THEN Page(root) ELSE kloc[t].va
    /\ \A i \in Roots : /\ Inuse(i)' = Inuse(i)
                        /\ Page(i)' = IF i = root THEN page ELSE Page(i)
    /\ page # 0 => /\ Adds(t, <<page, entry>>)
                   /\ <<page, entry>> \notin DOMAIN pagerefs
                   /\ AllBefore(root)
                   /\ \A i \in Roots \ {root} : Page(i) # page
    /\ page = 0 => /\ NoRef(t) /\ kheaproots' = kheaproots
                   /\ firstpaddr = LASTPADDR
LEMMA GotPageIs ==
  ASSUME Ready, NEW t \in Callers, Allocpagerefpage(t)
  PROVE  \E root, entry, page : GotPage(t, root, entry, page)
<1>1. PICK root, entry, page :
        /\ root = kloc[t].root /\ entry = kloc[t].entry
        /\ page = IF Page(root) # 0 THEN Page(root) ELSE kloc[t].va
  OBVIOUS
<1>2. /\ kpc[t] = "gotpage" /\ RefsInv /\ HeapShape /\ PagesOnce
      /\ t \in OnWay /\ KcallRight(t) /\ "huge" \notin env
      /\ kheaproots' = [kheaproots EXCEPT ![root].page = page]
      /\ IF page = 0 THEN NoRef(t) ELSE Adds(t, <<page, entry>>)
  BY <1>1, RefPageIs, ReadyIs DEF Ready, RefsInv, OnWay
<1>3. /\ root \in Roots /\ entry \in Inuse(root)
      /\ \A r \in DOMAIN pagerefs : r[1] = Page(root) => r[2] # entry
      /\ kloc[t].va # 0 => AllBefore(root)
      /\ kloc[t].va = 0 => firstpaddr = LASTPADDR
  BY <1>1, <1>2 DEF KcallRight, HeapShape, OnWay
<1>4. /\ \A i \in Roots : kheaproots[i] \in RootShape
      /\ kheaproots = [i \in Roots |-> kheaproots[i]]
  BY <1>2 DEF HeapShape, RootShape
<1>5. \A i \in Roots : /\ Inuse(i)' = Inuse(i)
                       /\ Page(i)' = IF i = root THEN page ELSE Page(i)
  BY <1>2, <1>4 DEF Inuse, Page, RootShape
<1>6. ASSUME page # 0
      PROVE  /\ AllBefore(root) /\ <<page, entry>> \notin DOMAIN pagerefs
             /\ \A i \in Roots \ {root} : Page(i) # page
  <2>1. AllBefore(root)
    BY <1>1, <1>2, <1>3, <1>6 DEF RefsInv, RootsRight
  <2>2. \A i \in Roots \ {root} : Page(i) # page
    BY <1>1, <1>2, <1>3, <1>6, OnceIs
  <2>3. ASSUME <<page, entry>> \in DOMAIN pagerefs
        PROVE  FALSE
    <3>1. \E i \in Roots : Page(i) = page
      BY <1>2, <2>3 DEF RefsInv, RefsRight
    <3>2. Page(root) = page
      BY <2>2, <3>1
    <3> QED
      BY <1>3, <2>3, <3>2
  <2> QED
    BY <2>1, <2>2, <2>3
<1>7. ASSUME page = 0
      PROVE  kheaproots' = kheaproots /\ firstpaddr = LASTPADDR
  <2>1. Page(root) = 0 /\ kloc[t].va = 0
    BY <1>1, <1>7
  <2>2. [kheaproots[root] EXCEPT !.page = 0] = kheaproots[root]
    BY <1>3, <1>4, <2>1 DEF Page, RootShape
  <2>3. kheaproots' = kheaproots
    BY <1>2, <1>4, <1>7, <2>2
  <2> QED
    BY <1>3, <2>1, <2>3
<1>8. GotPage(t, root, entry, page)
  BY <1>1, <1>2, <1>3, <1>5, <1>6, <1>7 DEF GotPage
<1> QED
  BY <1>8

LEMMA AllocPageRefs ==
  ASSUME Ready, NEW t \in Callers, Allocpagerefpage(t)
  PROVE  RefsInv'
<1>1. PICK root, entry, page : GotPage(t, root, entry, page)
  BY GotPageIs
<1>2. /\ t \in OnWay /\ RefsInv /\ HeapShape /\ RamTypes /\ RamTypes'
      /\ firstpaddr' = firstpaddr
  BY RefPageIs, ReadyIs DEF Ready, OnWay
<1>3. CASE page = 0
  BY <1>1, <1>2, <1>3, NoRefRefs DEF GotPage
<1>4. CASE page # 0
  <2>1. PICK r : r = <<page, entry>>
    OBVIOUS
  <2>2. Adds(t, r)
    BY <1>1, <1>4, <2>1 DEF GotPage
  <2>3. /\ DOMAIN pagerefs' = DOMAIN pagerefs \union {r} /\ kpc'[t] = "idle"
        /\ \A u \in Callers \ {t} : kpc'[u] = kpc[u] /\ kloc'[u] = kloc[u]
    BY <1>2, <2>2, GoesIs DEF Adds, KReturn
  <2>4. KcallRight(t)
    BY <1>2 DEF RefsInv
  <2>5. \A u \in OnWay : u # t /\ kloc[u].root = root =>
                           kloc[u].entry # entry
    BY <1>1, <1>2, <2>4 DEF KcallRight, GotPage
  <2>6. /\ \A i \in Roots \ {root} :
             Page(i) # page /\ Page(i)' = Page(i) /\ Inuse(i)' = Inuse(i)
        /\ Page(root) \in {0, page} /\ Page(root)' = page
        /\ Inuse(root)' = Inuse(root) \union {entry}
    BY <1>1, <1>4 DEF GotPage
  <2> QED
    BY <1>1, <1>2, <1>4, <2>1, <2>3, <2>5, <2>6, RefsAdd DEF GotPage
<1> QED
  BY <1>3, <1>4

LEMMA KfreeRefs ==
  ASSUME Ready, NEW t \in Callers, NEW b, Kfree(t, b)
  PROVE  RefsInv'
<1>1. /\ kpc[t] = "idle" /\ UNCHANGED <<kpc, kloc, firstpaddr>>
      /\ RefsInv /\ HeapShape /\ RamTypes /\ RamTypes' /\ PagesOnce
      /\ env' = env /\ "huge" \notin env /\ t \notin OnWay
      /\ firstpaddr \in Nat
  BY KfreeIs, ReadyIs DEF Ready, OnWay
<1>2. KcallRight(t)' /\ t \notin OnWay'
  BY <1>1 DEF KcallRight, OnWay
<1>3. ASSUME kheaproots' = kheaproots, DOMAIN pagerefs' = DOMAIN pagerefs
      PROVE  RefsInv'
  BY <1>1, <1>2, <1>3, RefsStay
<1>4. ASSUME NEW r, SubpageKfree(r, b.blk), r \in Elements(allbase)
      PROVE  RefsInv'
  <2>1. CASE UNCHANGED heapvars
    BY <1>3, <2>1 DEF heapvars
  <2>2. CASE PageGoes(r)
    <3>1. r \in DOMAIN pagerefs
      BY <1>4, ReadyIs DEF Lists
    <3> QED
      BY <1>1, <2>2, <3>1, OnceIs, RefsRemove
  <2>3. CASE /\ pagerefs' = [pagerefs EXCEPT ![r] = WithBlock(r, b.blk)]
             /\ UNCHANGED <<kheaproots, sizebases, allbase, panic>>
    BY <1>3, <2>3
  <2> QED
    BY <1>4, <2>1, <2>2, <2>3, SubpageKfreeIs
<1>5. allbase \in Seq(DOMAIN pagerefs)
  BY ReadyIs DEF Lists
<1>6. CASE UNCHANGED <<heapvars, panic>>
  BY <1>3, <1>6 DEF heapvars
<1> QED
  BY <1>4, <1>5, <1>6, KfreeIs

-----------------------------------------------------------------------------
\* The lists of pages.
LEMMA ListsStay ==
  ASSUME Lists(allbase, sizebases, pagerefs), UNCHANGED <<allbase, sizebases>>,
         DOMAIN pagerefs' = DOMAIN pagerefs,
         \A r \in DOMAIN pagerefs : pagerefs'[r].type = pagerefs[r].type
  PROVE  Lists(allbase', sizebases', pagerefs')
<1>1. \A type : OfType(pagerefs', type) = OfType(pagerefs, type)
  BY DEF OfType
<1> QED
  BY <1>1 DEF Lists

LEMMA ListsAdd ==
  ASSUME Lists(allbase, sizebases, pagerefs), NEW t \in Callers, NEW r,
         Adds(t, r), r \notin DOMAIN pagerefs, kloc[t].type \in Types
  PROVE  Lists(allbase', sizebases', pagerefs')
<1>1. PICK D, E, ty : /\ D = DOMAIN pagerefs /\ E = DOMAIN pagerefs'
                      /\ ty = kloc[t].type
  OBVIOUS
<1>2. /\ E = D \union {r} /\ r \notin D /\ ty \in Types
      /\ \A q \in D : pagerefs'[q].type = pagerefs[q].type
      /\ pagerefs'[r].type = ty
      /\ sizebases' = [sizebases EXCEPT ![ty] = <<r>> \o sizebases[ty]]
      /\ allbase' = <<r>> \o allbase
  <2>1. /\ DOMAIN pagerefs' = D \union {r}
        /\ \A q \in DOMAIN pagerefs' :
             pagerefs'[q] = IF q = r THEN NewRef(t) ELSE pagerefs[q]
        /\ sizebases' = [sizebases EXCEPT ![ty] = <<r>> \o sizebases[ty]]
        /\ allbase' = <<r>> \o allbase
    BY <1>1 DEF Adds
  <2>2. NewRef(t).type = ty
    BY <1>1 DEF NewRef
  <2> QED
    BY <1>1, <2>1, <2>2
<1>3. /\ allbase \in Seq(E) /\ Once(allbase) /\ Elements(allbase) = D
      /\ \A type \in Types : sizebases[type] \in Seq(E)
                             /\ Once(sizebases[type])
                             /\ Elements(sizebases[type])
                                  = OfType(pagerefs, type)
      /\ sizebases = [type \in Types |-> sizebases[type]]
  <2>1. allbase \in Seq(D) /\ sizebases \in [Types -> Seq(D)]
    BY <1>1 DEF Lists
  <2>2. \A s \in Seq(D) : s \in Seq(E)
    BY <1>2
  <2> QED
    BY <1>1, <2>1, <2>2 DEF Lists
<1>4. /\ allbase' \in Seq(E) /\ Once(allbase') /\ Elements(allbase') = E
  <2>1. r \in E /\ r \notin Elements(allbase)
    BY <1>2, <1>3
  <2> QED
    BY <1>2, <1>3, <2>1, Puts
<1>5. \A type \in Types :
        OfType(pagerefs', type) = IF type = ty
                                  THEN OfType(pagerefs, type) \union {r}
                                  ELSE OfType(pagerefs, type)
  BY <1>1, <1>2 DEF OfType
<1>6. ASSUME NEW type \in Types
      PROVE  /\ sizebases'[type] \in Seq(E) /\ Once(sizebases'[type])
             /\ Elements(sizebases'[type]) = OfType(pagerefs', type)
  <2>1. CASE type = ty
    <3>1. PICK s : s = sizebases[ty]
      OBVIOUS
    <3>2. /\ s \in Seq(E) /\ Once(s) /\ Elements(s) = OfType(pagerefs, ty)
          /\ sizebases'[type] = <<r>> \o s
      BY <1>2, <1>3, <2>1, <3>1
    <3>3. r \in E /\ r \notin Elements(s)
      BY <1>1, <1>2, <3>2 DEF OfType
    <3>4. /\ <<r>> \o s \in Seq(E) /\ Once(<<r>> \o s)
          /\ Elements(<<r>> \o s) = Elements(s) \union {r}
      BY <3>2, <3>3, Puts
    <3> QED
      BY <1>5, <2>1, <3>2, <3>4
  <2>2. CASE type # ty
    BY <1>2, <1>3, <1>5, <2>2
  <2> QED
    BY <2>1, <2>2
<1>7. sizebases' \in [Types -> Seq(E)]
  BY <1>2, <1>3, <1>6
<1> QED
  BY <1>1, <1>4, <1>6, <1>7 DEF Lists

LEMMA ListsGo ==
  ASSUME Lists(allbase, sizebases, pagerefs), NEW r \in DOMAIN pagerefs,
         PageGoes(r), pagerefs[r].type \in Types
  PROVE  Lists(allbase', sizebases', pagerefs')
<1>1. PICK D, E, ty : /\ D = DOMAIN pagerefs /\ E = DOMAIN pagerefs'
                      /\ ty = pagerefs[r].type
  OBVIOUS
<1>2. /\ E = D \ {r} /\ ty \in Types
      /\ \A q \in E : pagerefs'[q] = pagerefs[q]
      /\ sizebases' = [sizebases EXCEPT
                         ![ty] = Seqs!RemoveFirst(sizebases[ty], r)]
      /\ allbase' = Seqs!RemoveFirst(allbase, r)
  BY <1>1 DEF PageGoes, RemoveLists
<1>3. /\ allbase \in Seq(D) /\ Once(allbase) /\ Elements(allbase) = D
      /\ \A type \in Types : sizebases[type] \in Seq(D)
                             /\ Once(sizebases[type])
                             /\ Elements(sizebases[type])
                                  = OfType(pagerefs, type)
      /\ sizebases = [type \in Types |-> sizebases[type]]
  BY <1>1 DEF Lists
<1>4. /\ allbase' \in Seq(E) /\ Once(allbase') /\ Elements(allbase') = E
  BY <1>2, <1>3, Removes
<1>5. \A type \in Types :
        OfType(pagerefs', type) = IF type = ty
                                  THEN OfType(pagerefs, type) \ {r}
                                  ELSE OfType(pagerefs, type)
  BY <1>1, <1>2 DEF OfType
<1>6. ASSUME NEW type \in Types
      PROVE  /\ sizebases'[type] \in Seq(E) /\ Once(sizebases'[type])
             /\ Elements(sizebases'[type]) = OfType(pagerefs', type)
  <2>1. PICK s : s = sizebases[type]
    OBVIOUS
  <2>2. /\ s \in Seq(D) /\ Once(s) /\ Elements(s) = OfType(pagerefs, type)
    BY <1>3, <2>1
  <2>3. CASE type = ty
    <3>1. sizebases'[type] = Seqs!RemoveFirst(s, r)
      BY <1>2, <1>3, <2>1, <2>3
    <3>2. PICK v : v = Seqs!RemoveFirst(s, r)
      OBVIOUS
    <3>3. v \in Seq(D \ {r}) /\ Once(v) /\ Elements(v) = Elements(s) \ {r}
      BY <2>2, <3>2, Removes
    <3> QED
      BY <1>2, <1>5, <2>2, <2>3, <3>1, <3>2, <3>3
  <2>4. CASE type # ty
    <3>1. sizebases'[type] = s
      BY <1>2, <1>3, <2>1, <2>4
    <3>2. r \notin Elements(s)
      BY <1>1, <2>2, <2>4 DEF OfType
    <3>3. s \in Seq(E)
      <4>1. \A i \in 1 .. Len(s) : s[i] \in E
        BY <1>2, <2>2, <3>2 DEF Elements
      <4> QED
        BY <2>2, <4>1
    <3> QED
      BY <1>5, <2>2, <2>4, <3>1, <3>3
  <2> QED
    BY <2>3, <2>4
<1>7. sizebases' \in [Types -> Seq(E)]
  BY <1>2, <1>3, <1>6
<1> QED
  BY <1>1, <1>4, <1>6, <1>7 DEF Lists

-----------------------------------------------------------------------------
\* The blocks of a page.
LEMMA HeldIs ==
  ASSUME \A u \in Callers : \A b \in held[u] : IsBlock(b)
  PROVE  \A p : \A k : k \in HeldOn(p) <=>
                         \E u \in Callers : Block(p, k) \in held[u]
<1> SUFFICES ASSUME NEW p, NEW k
             PROVE  k \in HeldOn(p) <=>
                      \E u \in Callers : Block(p, k) \in held[u]
  OBVIOUS
<1>1. ASSUME k \in HeldOn(p)
      PROVE  \E u \in Callers : Block(p, k) \in held[u]
  <2>1. PICK u \in Callers : \E b \in held[u] :
          b.npages = 0 /\ b.page = p /\ b.blk = k
    BY <1>1 DEF HeldOn, AllHeld
  <2>2. PICK b \in held[u] : b.npages = 0 /\ b.page = p /\ b.blk = k
    BY <2>1
  <2>3. b = Block(p, k)
    BY <2>2 DEF IsBlock, Block
  <2> QED
    BY <2>2, <2>3
<1>2. ASSUME NEW u \in Callers, Block(p, k) \in held[u]
      PROVE  k \in HeldOn(p)
  <2>1. PICK b : b = Block(p, k)
    OBVIOUS
  <2>2. b.npages = 0 /\ b.page = p /\ b.blk = k /\ b \in AllHeld
    BY <1>2, <2>1 DEF Block, AllHeld
  <2> QED
    BY <2>2 DEF HeldOn
<1> QED
  BY <1>1, <1>2

\* The first free block is taken.
LEMMA TakeIs ==
  ASSUME NEW n \in Nat, NEW f \in Seq(Nat), NEW on, Once(f), f # << >>,
         Elements(f) \cap on = {}, Elements(f) \union on = 0 .. (n - 1),
         Len(f) <= n
  PROVE  /\ Head(f) \notin on /\ Tail(f) \in Seq(Nat) /\ Once(Tail(f))
         /\ Elements(Tail(f)) \cap (on \union {Head(f)}) = {}
         /\ Elements(Tail(f)) \union (on \union {Head(f)}) = 0 .. (n - 1)
         /\ Len(Tail(f)) < n
<1>1. /\ Tail(f) \in Seq(Nat) /\ Once(Tail(f)) /\ Head(f) \in Elements(f)
      /\ Elements(Tail(f)) = Elements(f) \ {Head(f)}
      /\ Len(Tail(f)) = Len(f) - 1 /\ Len(f) \in Nat
  BY Takes
<1>2. Len(Tail(f)) < n
  BY <1>1
<1>3. PICK h, T : h = Head(f) /\ T = Elements(Tail(f))
  OBVIOUS
<1>4. /\ h \notin on /\ T \cap (on \union {h}) = {}
      /\ T \union (on \union {h}) = 0 .. (n - 1)
  BY <1>1, <1>3
<1> QED
  BY <1>1, <1>2, <1>3, <1>4

\* A block that was held is put back, unless it was the last.
LEMMA PutIs ==
  ASSUME NEW n \in Nat, NEW f \in Seq(Nat), NEW on, Once(f),
         Elements(f) \cap on = {}, Elements(f) \union on = 0 .. (n - 1),
         Len(f) < n, NEW k \in on
  PROVE  LET g == <<k>> \o f IN
         /\ g \in Seq(Nat) /\ Once(g) /\ Elements(g) \cap (on \ {k}) = {}
         /\ Elements(g) \union (on \ {k}) = 0 .. (n - 1)
         /\ Len(g) \in Nat /\ Len(g) <= n
         /\ ~(Len(g) > 1 /\ g[1] = g[2])
         /\ Len(g) = n => on = {k}
<1>1. k \in Nat /\ k \notin Elements(f)
  OBVIOUS
<1>2. PICK g : g = <<k>> \o f
  OBVIOUS
<1>3. /\ g \in Seq(Nat) /\ Once(g) /\ Elements(g) = Elements(f) \union {k}
      /\ Len(g) = Len(f) + 1 /\ Len(f) \in Nat
  BY <1>1, <1>2, Puts
<1>4. ~(Len(g) > 1 /\ g[1] = g[2])
  <2>1. Len(g) > 1 => 1 \in DOMAIN g /\ 2 \in DOMAIN g
    BY <1>3
  <2>2. 1 \in DOMAIN g /\ 2 \in DOMAIN g /\ g[1] = g[2] => 1 = 2
    BY <1>3 DEF Once
  <2> QED
    BY <2>1, <2>2
<1>5. /\ Elements(g) \cap (on \ {k}) = {}
      /\ Elements(g) \union (on \ {k}) = 0 .. (n - 1)
  BY <1>3
<1>6. ASSUME Len(g) = n
      PROVE  on = {k}
  <2>1. Cardinality(Elements(g)) = n
    BY <1>3, <1>6, Counts
  <2>2. Elements(g) \subseteq 0 .. (n - 1)
    BY <1>5
  <2>3. IsFiniteSet(0 .. (n - 1)) /\ Cardinality(0 .. (n - 1)) = n
    BY FS_Interval
  <2>4. Elements(g) = 0 .. (n - 1)
    BY <2>1, <2>2, <2>3, FS_Subset
  <2> QED
    BY <1>5, <2>4
<1> QED
  BY <1>2, <1>3, <1>4, <1>5, <1>6

HeldRight == \A t \in Callers : \A b \in held[t] :
               IsBlock(b) /\ \A u \in Callers \ {t} : b \notin held[u]

\* Somebody gets a block that nobody had.
LEMMA BlockGot ==
  ASSUME HeldRight, IsRecord(held, Callers), NEW t \in Callers, NEW b,
         IsBlock(b), \A u \in Callers : b \notin held[u],
         held' = [held EXCEPT ![t] = held[t] \union {b}]
  PROVE  /\ HeldRight' /\ \A u \in Callers : \A x \in held'[u] :
                            x \in held[u] \/ x = b
         /\ \A p : HeldOn(p)' = IF b.npages = 0 /\ p = b.page
                                THEN HeldOn(p) \union {b.blk} ELSE HeldOn(p)
<1>1. \A u \in Callers : held'[u] = IF u = t THEN held[t] \union {b}
                                    ELSE held[u]
  BY DEF IsRecord
<1>2. HeldRight'
  <2>1. ASSUME NEW u \in Callers, NEW x \in held'[u]
        PROVE  IsBlock(x) /\ \A v \in Callers \ {u} : x \notin held'[v]
    <3>1. CASE x = b
      <4>1. u = t
        BY <1>1, <3>1
      <4> QED
        BY <1>1, <3>1, <4>1
    <3>2. CASE x # b
      <4>1. x \in held[u]
        BY <1>1, <3>2
      <4> QED
        BY <1>1, <3>2, <4>1 DEF HeldRight
    <3> QED
      BY <3>1, <3>2
  <2> QED
    BY <2>1 DEF HeldRight, IsBlock
<1>3. \A x : x \in AllHeld' <=> x \in AllHeld \/ x = b
  BY <1>1 DEF AllHeld
<1>4. ASSUME NEW p
      PROVE  HeldOn(p)' = IF b.npages = 0 /\ p = b.page
                          THEN HeldOn(p) \union {b.blk} ELSE HeldOn(p)
  <2>1. \A k : k \in HeldOn(p) <=> \E x \in AllHeld :
                                     x.npages = 0 /\ x.page = p /\ x.blk = k
    BY DEF HeldOn
  <2>2. \A k : k \in HeldOn(p)' <=> \E x \in AllHeld' :
                                      x.npages = 0 /\ x.page = p /\ x.blk = k
    BY DEF HeldOn
  <2>3. CASE b.npages = 0 /\ p = b.page
    <3>1. \A k : k \in HeldOn(p)' <=> k \in HeldOn(p) \/ k = b.blk
      BY <1>3, <2>1, <2>2, <2>3
    <3> QED
      BY <2>3, <3>1
  <2>4. CASE ~(b.npages = 0 /\ p = b.page)
    <3>1. \A k : k \in HeldOn(p)' <=> k \in HeldOn(p)
      BY <1>3, <2>1, <2>2, <2>4
    <3> QED
      BY <2>4, <3>1
  <2> QED
    BY <2>3, <2>4
<1> QED
  BY <1>1, <1>2, <1>4

\* Somebody gives a block back.
LEMMA BlockLost ==
  ASSUME HeldRight, IsRecord(held, Callers), NEW t \in Callers,
         NEW b \in held[t], held' = [held EXCEPT ![t] = held[t] \ {b}]
  PROVE  /\ HeldRight'
         /\ \A u \in Callers : \A x \in held'[u] : x \in held[u] /\ x # b
         /\ \A p : HeldOn(p)' = IF b.npages = 0 /\ p = b.page
                                THEN HeldOn(p) \ {b.blk} ELSE HeldOn(p)
<1>1. \A u \in Callers : held'[u] = IF u = t THEN held[t] \ {b} ELSE held[u]
  BY DEF IsRecord
<1>2. \A u \in Callers : \A x \in held'[u] : x \in held[u] /\ x # b
  BY <1>1 DEF HeldRight
<1>3. HeldRight'
  <2>1. \A u \in Callers : \A x \in held'[u] :
          IsBlock(x) /\ \A v \in Callers \ {u} : x \notin held'[v]
    BY <1>1, <1>2 DEF HeldRight
  <2> QED
    BY <2>1 DEF HeldRight, IsBlock
<1>4. \A x : x \in AllHeld' <=> x \in AllHeld /\ x # b
  <2>1. \A x : x \in AllHeld' => x \in AllHeld /\ x # b
    BY <1>2 DEF AllHeld
  <2>2. \A x : x \in AllHeld /\ x # b => x \in AllHeld'
    BY <1>1 DEF AllHeld
  <2> QED
    BY <2>1, <2>2
<1>5. ASSUME NEW p
      PROVE  HeldOn(p)' = IF b.npages = 0 /\ p = b.page
                          THEN HeldOn(p) \ {b.blk} ELSE HeldOn(p)
  <2>1. \A k : k \in HeldOn(p) <=> \E x \in AllHeld :
                                     x.npages = 0 /\ x.page = p /\ x.blk = k
    BY DEF HeldOn
  <2>2. \A k : k \in HeldOn(p)' <=> \E x \in AllHeld' :
                                      x.npages = 0 /\ x.page = p /\ x.blk = k
    BY DEF HeldOn
  <2>3. \A x \in AllHeld : x.npages = 0 /\ x.page = b.page /\ x.blk = b.blk
                           /\ b.npages = 0 => x = b
    BY DEF HeldRight, IsBlock, AllHeld
  <2>4. CASE b.npages = 0 /\ p = b.page
    <3>1. \A k : k \in HeldOn(p)' <=> k \in HeldOn(p) /\ k # b.blk
      BY <1>4, <2>1, <2>2, <2>3, <2>4
    <3> QED
      BY <2>4, <3>1
  <2>5. CASE ~(b.npages = 0 /\ p = b.page)
    <3>1. \A k : k \in HeldOn(p)' <=> k \in HeldOn(p)
      BY <1>4, <2>1, <2>2, <2>5
    <3> QED
      BY <2>5, <3>1
  <2> QED
    BY <2>4, <2>5
<1> QED
  BY <1>2, <1>3, <1>5

\* What BlocksRight says, and what there is to show for it.
LEMMA BlocksAre ==
  ASSUME BlocksRight
  PROVE  /\ HeldRight
         /\ \A r \in DOMAIN pagerefs :
              /\ pagerefs[r] \in Records
              /\ PageRight(pagerefs[r], HeldOn(pagerefs[r].page))
         /\ pagerefs = [r \in DOMAIN pagerefs |-> pagerefs[r]]
         /\ \A p : (\A r \in DOMAIN pagerefs : pagerefs[r].page # p) =>
                     HeldOn(p) = {}
         /\ \A u \in Callers : \A b \in held[u] : b.npages = 0 =>
              \E r \in DOMAIN pagerefs : pagerefs[r].page = b.page
BY DEF BlocksRight, HeldRight, IsBlock, HeldOn, AllHeld

LEMMA BlocksFrom ==
  ASSUME HeldRight', pagerefs' \in [DOMAIN pagerefs' -> Records],
         \A r \in DOMAIN pagerefs' : \A pr, p :
           pr = pagerefs'[r] /\ p = pr.page => PageRight(pr, HeldOn(p)'),
         \A u \in Callers : \A b \in held'[u] : b.npages = 0 =>
           \E r \in DOMAIN pagerefs' : pagerefs'[r].page = b.page
  PROVE  BlocksRight'
<1>1. ASSUME NEW r \in DOMAIN pagerefs'
      PROVE  PageRight(pagerefs'[r], HeldOn(pagerefs[r].page)')
  <2>1. PICK pr, p : pr = pagerefs'[r] /\ p = pr.page
    OBVIOUS
  <2>2. HeldOn(p)' = HeldOn(pagerefs[r].page)'
    BY <2>1 DEF HeldOn
  <2> QED
    BY <2>1, <2>2
<1>2. \A r \in DOMAIN pagerefs' :
        PageRight(pagerefs[r], HeldOn(pagerefs[r].page))'
  BY <1>1 DEF PageRight
<1> QED
  BY <1>2 DEF BlocksRight, HeldRight, IsBlock

LEMMA BlocksTake ==
  ASSUME BlocksRight, IsRecord(held, Callers), NEW t \in Callers,
         \A r, q \in DOMAIN pagerefs :
           pagerefs[r].page = pagerefs[q].page /\ pagerefs[r].page # 0
             => r = q,
         NEW r \in DOMAIN pagerefs, TakesBlock(t, r)
  PROVE  BlocksRight'
<1>1. PICK pr, f, on, n, k, b :
        /\ pr = pagerefs[r] /\ f = pr.free /\ on = HeldOn(pr.page)
        /\ n = NBlocks(pr.type) /\ k = Head(f) /\ b = Block(pr.page, k)
  OBVIOUS
<1>2. /\ f # << >>
      /\ pagerefs' = [pagerefs EXCEPT ![r] = [pr EXCEPT !.free = Tail(f)]]
      /\ held' = [held EXCEPT ![t] = held[t] \union {b}]
  BY <1>1 DEF TakesBlock
<1>3. /\ pr \in Records /\ n \in Nat /\ f \in Seq(Nat)
      /\ HeldRight
  <2>1. pr \in Records
    BY <1>1, BlocksAre
  <2>2. pr.type \in Types /\ f \in Seq(Nat)
    BY <1>1, <2>1 DEF Records
  <2> QED
    BY <1>1, <2>1, <2>2, FreshIs, BlocksAre
<1>4. /\ Once(f) /\ Elements(f) \cap on = {}
      /\ Elements(f) \union on = 0 .. (n - 1) /\ Len(f) <= n
  <2>1. PageRight(pr, on)
    BY <1>1, BlocksAre
  <2>2. Len(f) < n /\ Len(f) \in Nat
    BY <1>1, <1>3, <2>1 DEF PageRight
  <2> QED
    BY <1>1, <1>3, <2>1, <2>2 DEF PageRight
<1>5. /\ k \notin on /\ Tail(f) \in Seq(Nat) /\ Once(Tail(f))
      /\ Elements(Tail(f)) \cap (on \union {k}) = {}
      /\ Elements(Tail(f)) \union (on \union {k}) = 0 .. (n - 1)
      /\ Len(Tail(f)) < n
  <2>1. /\ Head(f) \notin on /\ Tail(f) \in Seq(Nat) /\ Once(Tail(f))
        /\ Elements(Tail(f)) \cap (on \union {Head(f)}) = {}
        /\ Elements(Tail(f)) \union (on \union {Head(f)}) = 0 .. (n - 1)
        /\ Len(Tail(f)) < n
    BY <1>2, <1>3, <1>4, TakeIs
  <2>2. k = Head(f)
    BY <1>1
  <2> QED
    BY <2>1, <2>2
<1>6. /\ IsBlock(b) /\ b.npages = 0 /\ b.page = pr.page /\ b.blk = k
      /\ \A u \in Callers : b \notin held[u]
  <2>1. IsBlock(b) /\ b.npages = 0 /\ b.page = pr.page /\ b.blk = k
    BY <1>1, <1>3 DEF IsBlock, Block, Records
  <2>2. \A u \in Callers : \A x \in held[u] : IsBlock(x)
    BY <1>3 DEF HeldRight
  <2> QED
    BY <1>1, <1>5, <2>1, <2>2, HeldIs
<1>7. /\ HeldRight'
      /\ \A u \in Callers : \A x \in held'[u] : x \in held[u] \/ x = b
      /\ \A p : HeldOn(p)' = IF p = pr.page THEN HeldOn(p) \union {k}
                             ELSE HeldOn(p)
  BY <1>2, <1>3, <1>6, BlockGot
<1>8. PICK qr : qr = [pr EXCEPT !.free = Tail(f)]
  OBVIOUS
<1>9. /\ qr \in Records /\ qr.page = pr.page /\ qr.type = pr.type
      /\ qr.free = Tail(f)
  BY <1>3, <1>5, <1>8 DEF Records
<1>10. /\ DOMAIN pagerefs' = DOMAIN pagerefs
       /\ \A q \in DOMAIN pagerefs : pagerefs'[q] = IF q = r THEN qr
                                                    ELSE pagerefs[q]
       /\ pagerefs' = [q \in DOMAIN pagerefs |-> pagerefs'[q]]
  BY <1>2, <1>8, BlocksAre
<1>11. pagerefs' \in [DOMAIN pagerefs' -> Records]
  BY <1>9, <1>10, BlocksAre
<1>12. ASSUME NEW q \in DOMAIN pagerefs', NEW qs, NEW p,
              qs = pagerefs'[q], p = qs.page
       PROVE  PageRight(qs, HeldOn(p)')
  <2>1. CASE q = r
    <3>1. qs = qr /\ p = pr.page /\ HeldOn(p)' = on \union {k}
      BY <1>1, <1>7, <1>9, <1>10, <1>12, <2>1
    <3> QED
      BY <1>1, <1>5, <1>9, <3>1 DEF PageRight
  <2>2. CASE q # r
    <3>1. qs = pagerefs[q] /\ p # pr.page
      <4>1. pagerefs[q].page # 0
        BY <1>10, BlocksAre, RamAssumptions DEF Records
      <4> QED
        BY <1>1, <1>10, <1>12, <2>2, <4>1
    <3>2. HeldOn(p)' = HeldOn(p)
      BY <1>7, <3>1
    <3> QED
      BY <1>10, <1>12, <3>1, <3>2, BlocksAre
  <2> QED
    BY <2>1, <2>2
<1>13. \A u \in Callers : \A x \in held'[u] : x.npages = 0 =>
         \E q \in DOMAIN pagerefs' : pagerefs'[q].page = x.page
  <2>1. \A q \in DOMAIN pagerefs : pagerefs'[q].page = pagerefs[q].page
    BY <1>1, <1>9, <1>10
  <2>2. r \in DOMAIN pagerefs' /\ pagerefs'[r].page = b.page
    BY <1>6, <1>9, <1>10
  <2> QED
    BY <1>7, <1>10, <2>1, <2>2, BlocksAre
<1> QED
  BY <1>7, <1>11, <1>12, <1>13, BlocksFrom

\* A page comes, with one block taken.
LEMMA BlocksAdd ==
  ASSUME BlocksRight, IsRecord(held, Callers), NEW t \in Callers, NEW r,
         r \notin DOMAIN pagerefs, kloc[t].type \in Types,
         kloc[t].page \in 1 .. LASTPADDR, Adds(t, r),
         \A q \in DOMAIN pagerefs : pagerefs[q].page # kloc[t].page
  PROVE  BlocksRight'
<1>1. PICK page, ty, f, n, k, b, qr :
        /\ page = kloc[t].page /\ ty = kloc[t].type /\ f = Fresh(ty)
        /\ n = NBlocks(ty) /\ k = Head(f) /\ b = NewBlock(t) /\ qr = NewRef(t)
  OBVIOUS
<1>2. /\ n \in Nat /\ f \in Seq(Nat) /\ Once(f) /\ f # << >> /\ Len(f) = n
      /\ Elements(f) = 0 .. (n - 1) /\ page \in 1 .. LASTPADDR /\ ty \in Types
  BY <1>1, FreshIs
<1>3. HeldOn(page) = {} /\ HeldRight
  BY <1>1, BlocksAre
<1>4. /\ Tail(f) \in Seq(Nat) /\ Once(Tail(f))
      /\ Elements(Tail(f)) \cap {k} = {}
      /\ Elements(Tail(f)) \union {k} = 0 .. (n - 1)
      /\ Len(Tail(f)) < n
  <2>1. PICK on : on = {}
    OBVIOUS
  <2>2. /\ Elements(f) \cap on = {} /\ Elements(f) \union on = 0 .. (n - 1)
        /\ Len(f) <= n
    BY <1>2, <2>1
  <2>3. /\ Tail(f) \in Seq(Nat) /\ Once(Tail(f))
        /\ Elements(Tail(f)) \cap (on \union {Head(f)}) = {}
        /\ Elements(Tail(f)) \union (on \union {Head(f)}) = 0 .. (n - 1)
        /\ Len(Tail(f)) < n
    BY <1>2, <2>2, TakeIs
  <2>4. on \union {Head(f)} = {k}
    BY <1>1, <2>1
  <2> QED
    BY <2>3, <2>4
<1>5. /\ IsBlock(b) /\ b.npages = 0 /\ b.page = page /\ b.blk = k
      /\ \A u \in Callers : b \notin held[u]
  <2>1. b = Block(page, k)
    BY <1>1 DEF NewBlock
  <2>2. IsBlock(b) /\ b.npages = 0 /\ b.page = page /\ b.blk = k
    BY <1>2, <2>1 DEF IsBlock, Block
  <2>3. \A u \in Callers : \A x \in held[u] : IsBlock(x)
    BY <1>3 DEF HeldRight
  <2> QED
    BY <1>3, <2>1, <2>2, <2>3, HeldIs
<1>6. /\ DOMAIN pagerefs' = DOMAIN pagerefs \union {r}
      /\ \A q \in DOMAIN pagerefs' :
           pagerefs'[q] = IF q = r THEN qr ELSE pagerefs[q]
      /\ pagerefs' = [q \in DOMAIN pagerefs' |-> pagerefs'[q]]
      /\ held' = [held EXCEPT ![t] = held[t] \union {b}]
  BY <1>1 DEF Adds
<1>7. /\ HeldRight'
      /\ \A u \in Callers : \A x \in held'[u] : x \in held[u] \/ x = b
      /\ \A p : HeldOn(p)' = IF p = page THEN HeldOn(p) \union {k}
                             ELSE HeldOn(p)
  BY <1>3, <1>5, <1>6, BlockGot
<1>8. /\ qr \in Records /\ qr.page = page /\ qr.type = ty
      /\ qr.free = Tail(f)
  BY <1>1, <1>2, <1>4 DEF Records, NewRef
<1>9. pagerefs' \in [DOMAIN pagerefs' -> Records]
  BY <1>6, <1>8, BlocksAre
<1>10. ASSUME NEW q \in DOMAIN pagerefs', NEW qs, NEW p,
              qs = pagerefs'[q], p = qs.page
       PROVE  PageRight(qs, HeldOn(p)')
  <2>1. CASE q = r
    <3>1. qs = qr /\ p = page /\ HeldOn(p)' = {k}
      BY <1>3, <1>6, <1>7, <1>8, <1>10, <2>1
    <3> QED
      BY <1>1, <1>4, <1>8, <3>1 DEF PageRight
  <2>2. CASE q # r
    <3>1. q \in DOMAIN pagerefs /\ qs = pagerefs[q] /\ p # page
      BY <1>1, <1>6, <1>10, <2>2
    <3>2. HeldOn(p)' = HeldOn(p)
      BY <1>7, <3>1
    <3> QED
      BY <1>10, <3>1, <3>2, BlocksAre
  <2> QED
    BY <2>1, <2>2
<1>11. \A u \in Callers : \A x \in held'[u] : x.npages = 0 =>
         \E q \in DOMAIN pagerefs' : pagerefs'[q].page = x.page
  <2>1. \A q \in DOMAIN pagerefs :
          q \in DOMAIN pagerefs' /\ pagerefs'[q].page = pagerefs[q].page
    BY <1>6
  <2>2. r \in DOMAIN pagerefs' /\ pagerefs'[r].page = b.page
    BY <1>5, <1>6, <1>8
  <2> QED
    BY <1>7, <2>1, <2>2, BlocksAre
<1> QED
  BY <1>7, <1>9, <1>10, <1>11, BlocksFrom

\* Blocks of whole pages come and go.
LEMMA BlocksLarge ==
  ASSUME BlocksRight, pagerefs' = pagerefs, HeldRight',
         \A p : HeldOn(p)' = HeldOn(p),
         \A u \in Callers : \A x \in held'[u] :
           x \in held[u] \/ x.npages # 0
  PROVE  BlocksRight'
<1>1. pagerefs' \in [DOMAIN pagerefs' -> Records]
  BY BlocksAre
<1>2. \A r \in DOMAIN pagerefs' : \A pr, p :
        pr = pagerefs'[r] /\ p = pr.page => PageRight(pr, HeldOn(p)')
  BY BlocksAre
<1>3. \A u \in Callers : \A b \in held'[u] : b.npages = 0 =>
        \E r \in DOMAIN pagerefs' : pagerefs'[r].page = b.page
  BY BlocksAre
<1> QED
  BY <1>1, <1>2, <1>3, BlocksFrom

LEMMA BlocksStay ==
  ASSUME BlocksRight, pagerefs' = pagerefs, held' = held
  PROVE  BlocksRight'
BY DEF BlocksRight, IsBlock, HeldOn, AllHeld

\* The page with a block that comes back.
LEMMA BackIs ==
  ASSUME BlocksRight, NEW t \in Callers, NEW b \in held[t],
         b.npages = 0, NEW r \in DOMAIN pagerefs, pagerefs[r].page = b.page
  PROVE  LET pr == WithBlock(r, b.blk)
             n == NBlocks(pr.type)
             on == HeldOn(b.page)
         IN
         /\ pr \in Records /\ pr.page = b.page /\ pr.type = pagerefs[r].type
         /\ b.blk \in on /\ n \in Nat /\ Len(pr.free) \in Nat
         /\ Len(pr.free) <= n /\ ~(Len(pr.free) > 1 /\ pr.free[1] = pr.free[2])
         /\ Once(pr.free) /\ Elements(pr.free) \cap (on \ {b.blk}) = {}
         /\ Elements(pr.free) \union (on \ {b.blk}) = 0 .. (n - 1)
         /\ Len(pr.free) = n => on = {b.blk}
<1>1. PICK qr, f, on, n, k :
        /\ qr = pagerefs[r] /\ f = qr.free /\ on = HeldOn(b.page)
        /\ n = NBlocks(qr.type) /\ k = b.blk
  OBVIOUS
<1>2. /\ qr \in Records /\ n \in Nat /\ f \in Seq(Nat) /\ PageRight(qr, on)
  <2>1. qr \in Records /\ PageRight(qr, on)
    BY <1>1, BlocksAre
  <2>2. qr.type \in Types /\ f \in Seq(Nat)
    BY <1>1, <2>1 DEF Records
  <2> QED
    BY <1>1, <2>1, <2>2, FreshIs
<1>3. k \in on
  <2>1. \A u \in Callers : \A x \in held[u] : IsBlock(x)
    BY BlocksAre DEF HeldRight
  <2>2. b = Block(b.page, k)
    BY <1>1, <2>1 DEF IsBlock, Block
  <2> QED
    BY <1>1, <2>1, <2>2, HeldIs
<1>4. PICK g : g = <<k>> \o f
  OBVIOUS
<1>5. /\ g \in Seq(Nat) /\ Once(g) /\ Elements(g) \cap (on \ {k}) = {}
      /\ Elements(g) \union (on \ {k}) = 0 .. (n - 1)
      /\ Len(g) \in Nat /\ Len(g) <= n
      /\ ~(Len(g) > 1 /\ g[1] = g[2])
      /\ Len(g) = n => on = {k}
  <2>1. /\ Once(f) /\ Elements(f) \cap on = {}
        /\ Elements(f) \union on = 0 .. (n - 1) /\ Len(f) < n
    BY <1>1, <1>2 DEF PageRight
  <2>2. LET h == <<k>> \o f IN
        /\ h \in Seq(Nat) /\ Once(h) /\ Elements(h) \cap (on \ {k}) = {}
        /\ Elements(h) \union (on \ {k}) = 0 .. (n - 1)
        /\ Len(h) \in Nat /\ Len(h) <= n
        /\ ~(Len(h) > 1 /\ h[1] = h[2])
        /\ Len(h) = n => on = {k}
    BY <1>2, <1>3, <2>1, PutIs
  <2> QED
    BY <1>4, <2>2
<1>6. PICK pr : pr = WithBlock(r, b.blk)
  OBVIOUS
<1>7. /\ pr \in Records /\ pr.page = b.page /\ pr.type = qr.type /\ pr.free = g
  <2>1. pr = [qr EXCEPT !.free = g]
    BY <1>1, <1>4, <1>6 DEF WithBlock
  <2> QED
    BY <1>1, <1>2, <1>5, <2>1 DEF Records
<1> QED
  BY <1>1, <1>3, <1>2, <1>5, <1>6, <1>7

LEMMA BlocksPut ==
  ASSUME BlocksRight, IsRecord(held, Callers), NEW t \in Callers,
         \A r, q \in DOMAIN pagerefs :
           pagerefs[r].page = pagerefs[q].page /\ pagerefs[r].page # 0
             => r = q,
         NEW b \in held[t], b.npages = 0, NEW r \in DOMAIN pagerefs,
         pagerefs[r].page = b.page,
         held' = [held EXCEPT ![t] = held[t] \ {b}],
         NEW pr, pr = WithBlock(r, b.blk), Len(pr.free) # NBlocks(pr.type),
         pagerefs' = [pagerefs EXCEPT ![r] = pr]
  PROVE  BlocksRight'
<1>1. PICK n, on : n = NBlocks(pr.type) /\ on = HeldOn(b.page)
  OBVIOUS
<1>2. /\ pr \in Records /\ pr.page = b.page
      /\ n \in Nat /\ Len(pr.free) \in Nat /\ Len(pr.free) <= n
      /\ Once(pr.free) /\ Elements(pr.free) \cap (on \ {b.blk}) = {}
      /\ Elements(pr.free) \union (on \ {b.blk}) = 0 .. (n - 1)
  BY <1>1, BackIs
<1>3. /\ HeldRight'
      /\ \A u \in Callers : \A x \in held'[u] : x \in held[u] /\ x # b
      /\ \A p : HeldOn(p)' = IF p = b.page THEN HeldOn(p) \ {b.blk}
                             ELSE HeldOn(p)
  BY BlocksAre, BlockLost
<1>4. /\ DOMAIN pagerefs' = DOMAIN pagerefs
      /\ \A q \in DOMAIN pagerefs : pagerefs'[q] = IF q = r THEN pr
                                                   ELSE pagerefs[q]
      /\ pagerefs' = [q \in DOMAIN pagerefs |-> pagerefs'[q]]
  BY BlocksAre
<1>5. pagerefs' \in [DOMAIN pagerefs' -> Records]
  BY <1>2, <1>4, BlocksAre
<1>6. ASSUME NEW q \in DOMAIN pagerefs', NEW qs, NEW p,
             qs = pagerefs'[q], p = qs.page
      PROVE  PageRight(qs, HeldOn(p)')
  <2>1. CASE q = r
    <3>1. qs = pr /\ p = b.page
      BY <1>2, <1>4, <1>6, <2>1
    <3>2. HeldOn(p)' = on \ {b.blk}
      BY <1>1, <1>3, <3>1
    <3>3. Len(pr.free) < n
      BY <1>1, <1>2
    <3> QED
      BY <1>1, <1>2, <3>1, <3>2, <3>3 DEF PageRight
  <2>2. CASE q # r
    <3>1. qs = pagerefs[q] /\ p # b.page
      <4>1. pagerefs[q].page # 0
        BY <1>4, BlocksAre, RamAssumptions DEF Records
      <4> QED
        BY <1>4, <1>6, <2>2, <4>1
    <3>2. HeldOn(p)' = HeldOn(p)
      BY <1>3, <3>1
    <3> QED
      BY <1>4, <1>6, <3>1, <3>2, BlocksAre
  <2> QED
    BY <2>1, <2>2
<1>7. \A u \in Callers : \A x \in held'[u] : x.npages = 0 =>
         \E q \in DOMAIN pagerefs' : pagerefs'[q].page = x.page
  <2>1. \A q \in DOMAIN pagerefs : pagerefs'[q].page = pagerefs[q].page
    BY <1>2, <1>4
  <2> QED
    BY <1>3, <1>4, <2>1, BlocksAre
<1> QED
  BY <1>3, <1>5, <1>6, <1>7, BlocksFrom

LEMMA BlocksGo ==
  ASSUME BlocksRight, IsRecord(held, Callers), NEW t \in Callers,
         \A r, q \in DOMAIN pagerefs :
           pagerefs[r].page = pagerefs[q].page /\ pagerefs[r].page # 0
             => r = q,
         NEW b \in held[t], b.npages = 0, NEW r \in DOMAIN pagerefs,
         pagerefs[r].page = b.page,
         held' = [held EXCEPT ![t] = held[t] \ {b}],
         NEW pr, pr = WithBlock(r, b.blk), Len(pr.free) = NBlocks(pr.type),
         PageGoes(r)
  PROVE  BlocksRight'
<1>1. HeldOn(b.page) = {b.blk}
  BY BackIs
<1>2. /\ HeldRight'
      /\ \A u \in Callers : \A x \in held'[u] : x \in held[u] /\ x # b
      /\ \A p : HeldOn(p)' = IF p = b.page THEN HeldOn(p) \ {b.blk}
                             ELSE HeldOn(p)
  BY BlocksAre, BlockLost
<1>3. /\ DOMAIN pagerefs' = DOMAIN pagerefs \ {r}
      /\ pagerefs' = [q \in DOMAIN pagerefs \ {r} |-> pagerefs[q]]
      /\ \A q \in DOMAIN pagerefs' : pagerefs'[q] = pagerefs[q]
  BY DEF PageGoes
<1>4. pagerefs' \in [DOMAIN pagerefs' -> Records]
  BY <1>3, BlocksAre
<1>5. ASSUME NEW q \in DOMAIN pagerefs', NEW qs, NEW p,
             qs = pagerefs'[q], p = qs.page
      PROVE  PageRight(qs, HeldOn(p)')
  <2>1. q \in DOMAIN pagerefs /\ q # r /\ qs = pagerefs[q]
    BY <1>3, <1>5
  <2>2. p # b.page
    <3>1. pagerefs[q].page # 0
      BY <2>1, BlocksAre, RamAssumptions DEF Records
    <3> QED
      BY <1>5, <2>1, <3>1
  <2>3. HeldOn(p)' = HeldOn(p)
    BY <1>2, <2>2
  <2> QED
    BY <1>5, <2>1, <2>3, BlocksAre
<1>6. ASSUME NEW u \in Callers, NEW x \in held'[u], x.npages = 0
      PROVE  \E q \in DOMAIN pagerefs' : pagerefs'[q].page = x.page
  <2>1. x \in held[u] /\ x # b
    BY <1>2
  <2>2. PICK q \in DOMAIN pagerefs : pagerefs[q].page = x.page
    BY <1>6, <2>1, BlocksAre
  <2>3. q # r
    <3> SUFFICES ASSUME q = r
                 PROVE  FALSE
      OBVIOUS
    <3>1. x.page = b.page
      BY <2>2
    <3>2. x.blk \in HeldOn(b.page)
      BY <1>6, <2>1, <3>1 DEF HeldOn, AllHeld
    <3>3. x.blk = b.blk
      BY <1>1, <3>2
    <3>4. IsBlock(x) /\ IsBlock(b)
      BY <2>1, BlocksAre DEF HeldRight
    <3> QED
      BY <1>6, <2>1, <3>1, <3>3, <3>4 DEF IsBlock
  <2> QED
    BY <1>3, <2>2, <2>3
<1> QED
  BY <1>2, <1>4, <1>5, <1>6, BlocksFrom

-----------------------------------------------------------------------------
\* The steps keep lists and blocks right, and none of them panics.
Kept == /\ Lists(allbase', sizebases', pagerefs') /\ BlocksRight'
        /\ panic' = panic

LEMMA LargeOne ==
  ASSUME NEW sz \in Nat, sz >= LARGEST_SUBPAGE_SIZE, ~Wraps(WholePages(sz))
  PROVE  RoundedPages(sz) # 0
<1>1. PICK p : p = PAGE_SIZE /\ p \in Nat /\ p > 0
  BY RamAssumptions
<1>2. sz > 0
  <2>1. Len(sizes) \in Nat /\ Len(sizes) \in DOMAIN sizes
    BY KmallocAssumptions
  <2>2. LARGEST_SUBPAGE_SIZE \in Nat \ {0}
    BY <2>1, KmallocAssumptions DEF LARGEST_SUBPAGE_SIZE
  <2> QED
    BY <2>2
<1>3. PICK x : x = sz + PAGE_SIZE - 1 /\ x \in Nat /\ x >= p
  BY <1>1, <1>2
<1>4. PICK a : a = ADDRPAGES /\ a \in Nat /\ a > 0
  BY RamAssumptions DEF Wraps
<1>5. PICK q : q = x \div p /\ q \in Nat /\ p * q <= x /\ x < p * q + p
  BY <1>1, <1>3, DivIs
<1>6. q # 0
  BY <1>1, <1>3, <1>5
<1>7. q < a
  BY <1>1, <1>3, <1>4, <1>5, RamAssumptions DEF Wraps, WholePages
<1>8. x < a * p
  <2>1. PICK d \in Nat : a = q + 1 + d
    <3>1. a - (q + 1) \in Nat
      BY <1>4, <1>5, <1>7
    <3> QED
      BY <1>4, <1>5, <3>1
  <2>2. a * p = p * q + p + d * p
    BY <1>1, <1>5, <2>1
  <2>3. d * p \in Nat /\ p * q \in Nat
    BY <1>1, <1>5, <2>1
  <2> QED
    BY <1>1, <1>3, <1>5, <2>2, <2>3
<1>9. x % (a * p) = x
  <2>1. PICK m : m = a * p /\ m \in Nat
    BY <1>1, <1>4
  <2> QED
    BY <1>3, <1>8, <2>1
<1> QED
  BY <1>1, <1>3, <1>4, <1>5, <1>6, <1>9 DEF RoundedPages

\* What the claims on pages and the records of the heap have in common.
LEMMA HeapFacts ==
  ASSUME Ready
  PROVE  /\ \A r, q \in DOMAIN pagerefs :
              pagerefs[r].page = pagerefs[q].page /\ pagerefs[r].page # 0 =>
                r = q
         /\ \A i, j \in Roots : Page(i) = Page(j) /\ Page(i) # 0 => i = j
         /\ IsRecord(held, Callers) /\ HeldRight
         /\ \A u \in Callers : \A b \in held[u] :
              b.npages # 0 => /\ b.page \in FIRSTPADDR .. (firstpaddr - 1)
                              /\ \A r \in DOMAIN pagerefs :
                                   pagerefs[r].page # b.page
<1>1. PagesOnce /\ "huge" \notin env /\ BlocksRight
  BY ReadyIs DEF Ready
<1>2. IsRecord(held, Callers)
  BY DEF Ready, HeapRight, HeapTypes
<1>3. HeldRight
  BY <1>1, BlocksAre
<1>4. ASSUME NEW u \in Callers, NEW b \in held[u], b.npages # 0
      PROVE  /\ b.page \in FIRSTPADDR .. (firstpaddr - 1)
             /\ \A r \in DOMAIN pagerefs : pagerefs[r].page # b.page
  <2>1. b \in AllHeld
    BY DEF AllHeld
  <2>2. IsBlock(b)
    BY <1>3 DEF HeldRight
  <2>3. b.page \in Nat \ {0} /\ b.npages \in Nat \ {0}
    BY <1>4, <2>2, RamAssumptions DEF IsBlock
  <2> QED
    BY <1>1, <2>1, <2>3, OnceIs
<1> QED
  BY <1>1, <1>2, <1>3, <1>4, OnceIs

LEMMA KmallocSound ==
  ASSUME Ready, NEW t \in Callers, NEW sz \in Requests, Kmalloc(t, sz)
  PROVE  Kept
<1>1. /\ Wraps(WholePages(sz)) => "huge" \in env
      /\ "huge" \notin env /\ panic' = panic /\ sz \in Nat
      /\ Lists(allbase, sizebases, pagerefs) /\ BlocksRight
      /\ firstpaddr \in Nat /\ firstpaddr <= LASTPADDR /\ LASTPADDR \in Nat
  BY KmallocIs, ReadyIs, KmallocAssumptions DEF Ready
<1>2. CASE TakesLarge(t, sz)
  <2>1. /\ pagerefs' = pagerefs /\ UNCHANGED <<allbase, sizebases>>
    BY <1>2 DEF TakesLarge, heapvars
  <2>2. Lists(allbase', sizebases', pagerefs')
    BY <1>1, <2>1, ListsStay
  <2>3. PICK n, p : n = RoundedPages(sz) /\ p = Getppages(n)
    OBVIOUS
  <2>4. CASE p = 0
    <3>1. held' = held
      BY <1>2, <2>3, <2>4 DEF TakesLarge
    <3> QED
      BY <1>1, <2>1, <2>2, <3>1, BlocksStay DEF Kept
  <2>5. CASE p # 0
    <3>1. PICK b : b = Large(p, n)
      OBVIOUS
    <3>2. held' = [held EXCEPT ![t] = held[t] \union {b}]
      BY <1>2, <2>3, <2>5, <3>1 DEF TakesLarge
    <3>3. n \in Nat /\ n # 0 /\ p = firstpaddr /\ p \in 1 .. LASTPADDR
      <4>1. sz >= LARGEST_SUBPAGE_SIZE
        BY <1>2 DEF TakesLarge
      <4> QED
        BY <1>1, <1>2, <2>3, <2>5, <4>1, LargeGrows, LargeOne
    <3>4. IsBlock(b) /\ b.npages # 0 /\ b.page = firstpaddr
      BY <3>1, <3>3 DEF IsBlock, Large
    <3>5. \A u \in Callers : b \notin held[u]
      <4>1. firstpaddr \notin FIRSTPADDR .. (firstpaddr - 1)
        BY <1>1, RamAssumptions
      <4> QED
        BY <3>4, <4>1, HeapFacts
    <3>6. /\ HeldRight' /\ \A u \in Callers : \A x \in held'[u] :
                             x \in held[u] \/ x = b
          /\ \A q : HeldOn(q)' = HeldOn(q)
      BY <3>2, <3>4, <3>5, HeapFacts, BlockGot
    <3> QED
      BY <1>1, <2>1, <2>2, <3>4, <3>6, BlocksLarge DEF Kept
  <2> QED
    BY <2>4, <2>5
<1>3. ASSUME NEW type \in Types, UNCHANGED <<heapvars, held, firstpaddr>>
      PROVE  Kept
  <2>1. /\ pagerefs' = pagerefs /\ UNCHANGED <<allbase, sizebases, held>>
    BY <1>3 DEF heapvars
  <2> QED
    BY <1>1, <2>1, ListsStay, BlocksStay DEF Kept
<1>4. ASSUME NEW type \in Types,
             \A S : sizebases[type] \in Seq(S) =>
               \E r \in Elements(sizebases[type]) : TakesBlock(t, r)
      PROVE  Kept
  <2>1. /\ sizebases[type] \in Seq(DOMAIN pagerefs)
        /\ Elements(sizebases[type]) \subseteq DOMAIN pagerefs
    BY <1>1 DEF Lists, OfType
  <2>2. PICK r \in DOMAIN pagerefs : TakesBlock(t, r)
    BY <1>4, <2>1
  <2>3. BlocksRight'
    BY <1>1, <2>2, HeapFacts, BlocksTake
  <2>4. \A q \in DOMAIN pagerefs : pagerefs[q] \in Records
    BY <1>1, BlocksAre
  <2>5. /\ DOMAIN pagerefs' = DOMAIN pagerefs
        /\ \A q \in DOMAIN pagerefs : pagerefs'[q].type = pagerefs[q].type
    BY <2>2, <2>4 DEF TakesBlock, Records
  <2>6. UNCHANGED <<allbase, sizebases>>
    BY <2>2 DEF TakesBlock
  <2> QED
    BY <1>1, <2>3, <2>5, <2>6, ListsStay DEF Kept
<1> QED
  BY <1>2, <1>3, <1>4, KmallocIs

LEMMA PageSound ==
  ASSUME Ready, NEW t \in Callers, KmallocPage(t) \/ RefPage(t)
  PROVE  Kept
<1>1. /\ UNCHANGED <<heapvars, held, panic>>
  BY DEF KmallocPage, RefPage
<1>2. /\ pagerefs' = pagerefs /\ UNCHANGED <<allbase, sizebases, held, panic>>
  BY <1>1 DEF heapvars
<1> QED
  BY <1>2, ReadyIs, ListsStay, BlocksStay DEF Kept

LEMMA NoRefSound ==
  ASSUME Ready, NEW t \in Callers, NoRef(t), panic' = panic
  PROVE  Kept
BY ReadyIs, ListsStay, BlocksStay DEF Kept, NoRef

LEMMA AddsSound ==
  ASSUME Ready, NEW t \in Callers, NEW r, Adds(t, r), r \notin DOMAIN pagerefs,
         kpc[t] \in {"ref", "gotpage"}, panic' = panic
  PROVE  Kept
<1>1. /\ Lists(allbase, sizebases, pagerefs) /\ BlocksRight /\ PagesOnce
      /\ "huge" \notin env /\ HeapShape /\ KcallRight(t)
  BY ReadyIs DEF Ready, RefsInv
<1>2. /\ kloc[t].type \in Types /\ kloc[t].page \in 1 .. LASTPADDR
  <2>1. kloc[t].type \in Types /\ kloc[t].page \in 0 .. LASTPADDR
    BY <1>1 DEF HeapShape
  <2>2. kloc[t].page # 0
    BY <1>1 DEF KcallRight
  <2> QED
    BY <2>1, <2>2, RamAssumptions
<1>3. \A q \in DOMAIN pagerefs : pagerefs[q].page # kloc[t].page
  BY <1>1, <1>2, OnceIs, RamAssumptions
<1> QED
  BY <1>1, <1>2, <1>3, HeapFacts, ListsAdd, BlocksAdd DEF Kept

LEMMA AllocSound ==
  ASSUME Ready, NEW t \in Callers, Allocpageref(t)
  PROVE  Kept
<1>1. kpc[t] = "ref" /\ panic' = panic /\ HeapShape /\ RefsInv
      /\ BlocksRight /\ Lists(allbase, sizebases, pagerefs)
      /\ PagesOnce /\ "huge" \notin env
  BY AllocIs, ReadyIs DEF Ready
<1>2. CASE NoRef(t)
  BY <1>1, <1>2, NoRefSound
<1>3. ASSUME NEW root, NEW entry, Reserves(t, root, entry)
      PROVE  Kept
  <2>1. CASE Page(root) = 0
    BY <1>1, <1>3, <2>1, ListsStay, BlocksStay DEF Kept, Reserves
  <2>2. CASE Page(root) # 0
    <3>1. PICK r : r = <<Page(root), entry>>
      OBVIOUS
    <3>2. Adds(t, r) /\ root \in Roots /\ entry \notin Inuse(root)
      BY <1>3, <2>2, <3>1 DEF Reserves
    <3>3. r \notin DOMAIN pagerefs
      <4> SUFFICES ASSUME r \in DOMAIN pagerefs
                   PROVE  FALSE
        OBVIOUS
      <4>1. PICK i \in Roots : Page(i) = Page(root) /\ entry \in Inuse(i)
        BY <1>1, <3>1 DEF RefsInv, RefsRight
      <4>2. i = root
        BY <2>2, <3>2, <4>1, HeapFacts
      <4> QED
        BY <3>2, <4>1, <4>2
    <3> QED
      BY <1>1, <3>2, <3>3, AddsSound
  <2> QED
    BY <2>1, <2>2
<1> QED
  BY <1>1, <1>2, <1>3, AllocIs

LEMMA AllocPageSound ==
  ASSUME Ready, NEW t \in Callers, Allocpagerefpage(t)
  PROVE  Kept
<1>1. PICK root, entry, page : GotPage(t, root, entry, page)
  BY GotPageIs
<1>2. kpc[t] = "gotpage" /\ panic' = panic
  BY RefPageIs
<1>3. CASE page = 0
  BY <1>1, <1>2, <1>3, NoRefSound DEF GotPage
<1>4. CASE page # 0
  <2>1. PICK r : r = <<page, entry>>
    OBVIOUS
  <2>2. Adds(t, r) /\ r \notin DOMAIN pagerefs
    BY <1>1, <1>4, <2>1 DEF GotPage
  <2> QED
    BY <1>2, <2>2, AddsSound
<1> QED
  BY <1>3, <1>4

LEMMA KfreeSound ==
  ASSUME Ready, NEW t \in Callers, NEW b, Kfree(t, b)
  PROVE  Kept
<1>1. /\ b \in held[t] /\ held' = [held EXCEPT ![t] = held[t] \ {b}]
      /\ BlocksRight /\ Lists(allbase, sizebases, pagerefs) /\ RefsInv
  BY KfreeIs, ReadyIs DEF Ready
<1>2. allbase \in Seq(DOMAIN pagerefs) /\ Elements(allbase) = DOMAIN pagerefs
  BY <1>1 DEF Lists
<1>3. ASSUME UNCHANGED <<heapvars, panic>>,
             \A r \in DOMAIN pagerefs : pagerefs[r].page # b.page
      PROVE  Kept
  <2>1. pagerefs' = pagerefs /\ UNCHANGED <<allbase, sizebases, panic>>
    BY <1>3 DEF heapvars
  <2>2. b.npages # 0
    BY <1>1, <1>3, BlocksAre
  <2>3. /\ HeldRight' /\ \A u \in Callers : \A x \in held'[u] : x \in held[u]
        /\ \A p : HeldOn(p)' = HeldOn(p)
    BY <1>1, <2>2, HeapFacts, BlockLost
  <2> QED
    BY <1>1, <2>1, <2>3, ListsStay, BlocksLarge DEF Kept
<1>4. ASSUME NEW r \in DOMAIN pagerefs, SubpageKfree(r, b.blk),
             pagerefs[r].page = b.page
      PROVE  Kept
  <2>1. b.npages = 0
    BY <1>1, <1>4, HeapFacts
  <2>2. PICK pr, n : pr = WithBlock(r, b.blk) /\ n = NBlocks(pr.type)
    OBVIOUS
  <2>3. /\ pr \in Records /\ pr.type = pagerefs[r].type
        /\ Len(pr.free) \in Nat /\ n \in Nat
        /\ Len(pr.free) <= n /\ ~(Len(pr.free) > 1 /\ pr.free[1] = pr.free[2])
    BY <1>1, <1>4, <2>1, <2>2, BackIs
  <2>4. ~FreepagerefFails(r)
    <3>1. PICK i \in Roots : Page(i) = r[1] /\ r[1] # 0
      BY <1>1, <1>4 DEF RefsInv, RefsRight
    <3>2. i \in RootOf(r)
      BY <3>1 DEF RootOf, Page
    <3>3. \A j \in Roots : j < i => kheaproots[j].page # 0
      BY <1>1, <3>1 DEF RefsInv, RootsRight, AllBefore, Page
    <3> QED
      BY <3>2, <3>3 DEF FreepagerefFails
  <2>5. \/ Len(pr.free) = n /\ PageGoes(r)
        \/ /\ ~(Len(pr.free) > n) /\ Len(pr.free) # n
           /\ pagerefs' = [pagerefs EXCEPT ![r] = pr]
           /\ UNCHANGED <<kheaproots, sizebases, allbase, panic>>
    BY <1>4, <2>2, <2>3, <2>4, SubpageKfreeIs
  <2>6. CASE Len(pr.free) = n /\ PageGoes(r)
    <3>1. BlocksRight'
      BY <1>1, <1>4, <2>1, <2>2, <2>6, HeapFacts, BlocksGo
    <3>2. pagerefs[r].type \in Types
      BY <2>3 DEF Records
    <3>3. Lists(allbase', sizebases', pagerefs')
      BY <1>1, <1>4, <2>6, <3>2, ListsGo
    <3> QED
      BY <2>6, <3>1, <3>3 DEF Kept, PageGoes
  <2>7. CASE /\ Len(pr.free) # n
             /\ pagerefs' = [pagerefs EXCEPT ![r] = pr]
             /\ UNCHANGED <<kheaproots, sizebases, allbase, panic>>
    <3>1. BlocksRight'
      BY <1>1, <1>4, <2>1, <2>2, <2>7, HeapFacts, BlocksPut
    <3>2. /\ DOMAIN pagerefs' = DOMAIN pagerefs
          /\ \A q \in DOMAIN pagerefs : pagerefs'[q].type = pagerefs[q].type
      BY <1>4, <2>3, <2>7
    <3> QED
      BY <1>1, <2>7, <3>1, <3>2, ListsStay DEF Kept
  <2> QED
    BY <2>5, <2>6, <2>7
<1> QED
  BY <1>2, <1>3, <1>4, KfreeIs

-----------------------------------------------------------------------------
\* What processes leave of TLBs, memory and lk_exec.
Bounded == /\ \A c \in Boards : Len(tlb[c]) <= NUM_TLB
           /\ DOMAIN mem = Pages
           /\ lk_exec \in Threads \union {NULL}
TlbMoves ==
    /\ Boards' = Boards
    /\ \A c \in Boards : \/ tlb'[c] = tlb[c] \/ tlb'[c] = << >>
                         \/ \E e : tlb'[c] = Append(tlb[c], e) /\ ~Full(c)
Rests == /\ TlbMoves
         /\ DOMAIN mem' \in {DOMAIN mem, Pages}
         /\ lk_exec' \in {lk_exec, NULL} \union Threads

LEMMA RestsKept ==
  ASSUME AsTypes, Bounded, Rests
  PROVE  Bounded'
<1>1. ASSUME NEW c \in Boards
      PROVE  Len(tlb'[c]) <= NUM_TLB
  <2>0. PICK s \in Seq(Entry) : s = tlb[c]
    BY DEF AsTypes
  <2>1. PICK n \in Nat : /\ s = tlb[c] /\ s \in Seq(Entry) /\ n = Len(s)
                         /\ n <= NUM_TLB /\ NUM_TLB \in Nat
    BY <2>0, AsAssumptions DEF Bounded
  <2>2. CASE tlb'[c] = tlb[c] \/ tlb'[c] = << >>
    BY <2>1, <2>2
  <2>3. ASSUME NEW e, tlb'[c] = Append(tlb[c], e), ~Full(c)
        PROVE  Len(tlb'[c]) <= NUM_TLB
    <3>1. Len(Append(s, e)) = n + 1
      BY <2>1
    <3>2. n # NUM_TLB
      BY <2>1, <2>3 DEF Full
    <3> QED
      BY <2>1, <2>3, <3>1, <3>2
  <2> QED
    BY <2>2, <2>3 DEF Rests, TlbMoves
<1> QED
  BY <1>1 DEF Rests, TlbMoves, Bounded

LEMMA TlbStays ==
  ASSUME UNCHANGED hwvars
  PROVE  TlbMoves
BY DEF hwvars, TlbMoves, Boards

LEMMA TlbFlushed ==
  ASSUME NEW t, Flush(t)
  PROVE  TlbMoves
BY DEF Flush, TlbMoves, Boards

LEMMA AsideRests ==
  ASSUME NEW t \in Threads,
         \/ LoadFails(t) \/ ForkFails(t) \/ ThreadExit(t)
         \/ \E prog, l : Create(t, prog, l)
         \/ \E why : Panic(why)
  PROVE  Rests
<1>1. CASE LoadFails(t) \/ ThreadExit(t)
  BY <1>1, TlbStays, TlbFlushed
  DEF LoadFails, ExecFails, ThreadExit, Rests, memvars
<1>2. CASE ForkFails(t)
  BY <1>2, TlbStays DEF ForkFails, Rests, memvars
<1>3. CASE \E prog, l : Create(t, prog, l)
  BY <1>3, TlbFlushed DEF Create, Rests, memvars
<1>4. CASE \E why : Panic(why)
  BY <1>4, TlbStays DEF Panic, Rests, avars, memvars, thvars
<1> QED
  BY <1>1, <1>2, <1>3, <1>4

LEMMA FaultRests ==
  ASSUME NEW t \in Threads
  PROVE  /\ FaultFails(t) => Rests
         /\ \A v : VmFault(t, v) => Rests
<1>1. ASSUME FaultFails(t)
      PROVE  Rests
  <2>1. CASE pc[t] \in {"load", "args"}
    BY <1>1, <2>1, AsideRests DEF FaultFails
  <2>2. CASE pc[t] = "copy"
    BY <1>1, <2>2, TlbStays DEF FaultFails, Rests, memvars
  <2>3. CASE pc[t] \notin {"load", "args", "copy"}
    BY <1>1, <2>3, AsideRests DEF FaultFails
  <2> QED
    BY <2>1, <2>2, <2>3
<1>2. ASSUME NEW v, VmFault(t, v)
      PROVE  Rests
  BY <1>1, <1>2, AsideRests, TlbStays DEF VmFault, Rests, memvars
<1> QED
  BY <1>1, <1>2

LEMMA ProcRests ==
  ASSUME AsTypes, ProcNext, Bounded
  PROVE  Rests
<1>1. ASSUME NEW c \in Boards, \/ Idle(c)
                               \/ \E t \in Threads : Switch(c, t)
      PROVE  Rests
  <2>1. /\ UNCHANGED <<memvars, lk_exec>>
        /\ \E x : c_curthread' = [c_curthread EXCEPT ![c] = x]
        /\ tlb' = tlb \/ tlb' = [tlb EXCEPT ![c] = << >>]
    BY <1>1 DEF Idle, Switch, thvars
  <2>2. TlbMoves
    BY <2>1 DEF TlbMoves, Boards, AsTypes
  <2> QED
    BY <2>1, <2>2 DEF Rests, memvars
<1>2. ASSUME NEW t \in Threads, TlbWrite(t)
      PROVE  Rests
  <2>1. PICK c : c = CHOOSE x \in On(t) : TRUE
    OBVIOUS
  <2>2. CASE Full(c)
    BY <1>2, <2>1, <2>2, FaultRests DEF TlbWrite
  <2>3. CASE ~Full(c)
    <3>1. PICK e : tlb' = [tlb EXCEPT ![c] = Append(tlb[c], e)]
      BY <1>2, <2>1, <2>3 DEF TlbWrite
    <3>2. UNCHANGED <<c_curthread, memvars, lk_exec>>
      BY <1>2, <2>1, <2>3 DEF TlbWrite
    <3>3. TlbMoves
      BY <2>3, <3>1, <3>2 DEF TlbMoves, Boards, AsTypes
    <3> QED
      BY <3>2, <3>3 DEF Rests, memvars
  <2> QED
    BY <2>2, <2>3
<1>3. ASSUME NEW t \in Threads, PrepareLoad(t) \/ ForkPrepare(t)
      PROVE  Rests
  <2>1. ASSUME NEW label, NEW next, NEW todo, NEW Fails, Fails => Rests,
               Prepare(t, label, next, todo, Fails)
        PROVE  Rests
    <3>1. Fails \/ /\ UNCHANGED <<hwvars, lk_exec>>
                   /\ DOMAIN mem' \in {DOMAIN mem, Pages}
      BY <2>1 DEF Prepare, Zeroed, memvars
    <3> QED
      BY <2>1, <3>1, TlbStays DEF Rests
  <2> QED
    BY <1>3, <2>1, AsideRests DEF PrepareLoad, ForkPrepare
<1>4. ASSUME NEW t \in Threads,
             \/ CopyFault(t) \/ LoadError(t) \/ ExecvCreate(t) \/ Exit(t)
             \/ \E prog \in Programs : Runprogram(t, prog)
             \/ \E v \in budget.touched : UserFault(t, v)
             \/ Getcwd(t) \/ ExecvOverflows(t)
      PROVE  Rests
  <2>1. ExecvCreate(t) => Rests
    BY AsideRests, TlbStays DEF ExecvCreate, Rests, memvars
  <2> QED
    BY <1>4, <2>1, AsideRests, FaultRests
    DEF CopyFault, LoadError, Exit, Runprogram, UserFault, Getcwd,
        ExecvOverflows
<1>5. ASSUME NEW t \in Threads,
             \/ CopyPage(t) \/ ForkEnd(t)
             \/ \E v \in budget.touched : UserStore(t, v)
      PROVE  Rests
  <2>1. (\E why : Panic(why)) => Rests
    BY AsideRests
  <2>2. CopyPage(t) => Rests
    BY <2>1, TlbStays DEF CopyPage, Store, Rests
  <2>3. (\E v \in budget.touched : UserStore(t, v)) => Rests
    BY <2>1, TlbStays DEF UserStore, Store, Rests, thvars
  <2>4. ForkEnd(t) => Rests
    BY AsideRests, TlbStays DEF ForkEnd, PagesCopied, Rests
  <2> QED
    BY <1>5, <2>2, <2>3, <2>4
<1>6. ASSUME NEW t \in Threads,
             \/ ExecvEnd(t) \/ ChildReturn(t) \/ Printed(t)
             \/ \E prog \in Programs : Execv(t, prog)
             \/ \E u \in Threads : Fork(t, u)
             \/ \E v \in budget.touched : CopyCall(t, v, "copy")
                                          \/ CopyCall(t, v, "printf")
      PROVE  Rests
  BY <1>6, TlbStays, TlbFlushed
  DEF ExecvEnd, ChildReturn, Printed, Execv, Fork, CopyCall, Rests, memvars
<1> QED
  BY <1>1, <1>2, <1>3, <1>4, <1>5, <1>6 DEF ProcNext

-----------------------------------------------------------------------------
\* The invariant of the heap holds at first and after every step.
SoundInv == IInv /\ HeapInv /\ Bounded

LEMMA InitSound ==
  ASSUME Init
  PROVE  SoundInv
<1> USE DEF Init, RamInit, KmallocInit, AsInit
<1>1. IInv
  BY InitRight
<1>2. Bounded
  <2>1. \A c \in Boards : Len(tlb[c]) <= NUM_TLB
    BY AsAssumptions DEF Boards
  <2> QED
    BY <2>1 DEF Bounded
<1>3. HeapShape
  <2>1. 0 \in 0 .. LASTPADDR
    BY RamAssumptions
  <2>2. kloc \in [Callers -> Locs]
    BY NoLocIn
  <2> QED
    BY <2>1, <2>2 DEF HeapShape, Locs, CallLabels
<1>4. RefsInv
  <2>1. OnWay = {} /\ \A i \in Roots : Page(i) = 0 /\ Inuse(i) = {}
    BY DEF OnWay, Page, Inuse
  <2>2. DOMAIN pagerefs = {}
    OBVIOUS
  <2> QED
    BY <2>1, <2>2 DEF RefsInv, RefsRight, RootsRight, KcallRight, CountRight,
                      HasRef, HasCall
<1>5. Lists(allbase, sizebases, pagerefs)
  <2>1. DOMAIN pagerefs = {}
    OBVIOUS
  <2>2. /\ << >> \in Seq({}) /\ Once(<< >>) /\ Elements(<< >>) = {}
    BY DEF Once, Elements
  <2>3. \A type : OfType(pagerefs, type) = {}
    BY <2>1 DEF OfType
  <2> QED
    BY <2>1, <2>2, <2>3 DEF Lists
<1>6. BlocksRight
  <2>1. pagerefs \in [DOMAIN pagerefs -> Records]
    OBVIOUS
  <2> QED
    BY <2>1 DEF BlocksRight
<1> QED
  BY <1>1, <1>2, <1>3, <1>4, <1>5, <1>6 DEF SoundInv, HeapInv

LEMMA ActSound ==
  ASSUME Ready, HeapNext
  PROVE  RefsInv' /\ Kept
BY KmallocRefs, KmallocPageRefs, AllocRefs, RefPageRefs, AllocPageRefs,
   KfreeRefs, KmallocSound, PageSound, AllocSound, AllocPageSound, KfreeSound
DEF HeapNext

LEMMA HeapSoundKept ==
  ASSUME SoundInv, HeapNext, UNCHANGED avars
  PROVE  SoundInv'
<1>1. IInv'
  BY Step DEF SoundInv, Next
<1>2. Bounded'
  BY DEF SoundInv, Bounded, avars, hwvars, memvars, thvars, Boards
<1>3. HeapShape'
  BY HeapShapeKept DEF SoundInv, HeapInv, IInv
<1>4. env' = env
  BY DEF HeapNext, Kmalloc, KmallocPage, Allocpageref, RefPage,
         Allocpagerefpage, Kfree, KAt
<1>5. ASSUME "huge" \notin env
      PROVE  RefsInv' /\ Kept
  <2>1. Ready
    BY <1>1, <1>3, <1>4, <1>5 DEF Ready, SoundInv, IInv, HeapRight
  <2> QED
    BY <2>1, ActSound
<1>6. HeapInv'
  BY <1>3, <1>4, <1>5 DEF HeapInv, Kept
<1> QED
  BY <1>1, <1>2, <1>6 DEF SoundInv

\* Processes leave the heap alone; memory they take is gone for it, too.
LEMMA HeapLeft ==
  ASSUME HeapInv, UNCHANGED kvars, RamTypes, RamTypes', env' = env,
         "huge" \notin env => firstpaddr <= firstpaddr'
  PROVE  HeapInv'
<1> USE DEF kvars, heapvars, kthvars
<1>1. HeapShape'
  BY DEF HeapInv, HeapShape
<1>2. ASSUME "huge" \notin env
      PROVE  RefsInv'
  <2>1. RefsRight' /\ RootsRight'
    BY <1>2 DEF HeapInv, RefsInv, RefsRight, RootsRight, AllBefore, Page,
                Inuse
  <2>2. /\ firstpaddr' < LASTPADDR => firstpaddr < LASTPADDR
        /\ firstpaddr = LASTPADDR => firstpaddr' = LASTPADDR
    BY <1>2, RamAssumptions DEF RamTypes
  <2>3. CountRight'
    BY <1>2, <2>2 DEF HeapInv, RefsInv, CountRight, HasRef, HasCall, OnWay,
                      Page, Inuse
  <2>4. ASSUME NEW t \in Callers
        PROVE  KcallRight(t)'
    <3>1. KcallRight(t)
      BY <1>2 DEF HeapInv, RefsInv
    <3> QED
      BY <2>2, <3>1 DEF KcallRight, OnWay, AllBefore, Page, Inuse
  <2> QED
    BY <2>1, <2>3, <2>4 DEF RefsInv
<1>3. ASSUME "huge" \notin env
      PROVE  Lists(allbase', sizebases', pagerefs') /\ BlocksRight'
  BY <1>3, BlocksStay DEF HeapInv
<1> QED
  BY <1>1, <1>2, <1>3 DEF HeapInv

LEMMA ProcSoundKept ==
  ASSUME SoundInv, ProcNext, UNCHANGED kvars
  PROVE  SoundInv'
<1>1. IInv'
  BY Step DEF SoundInv, Next
<1>2. Bounded'
  BY ProcRests, RestsKept DEF SoundInv, IInv
<1>3. RamTypes' /\ Moves
  BY ProcMoves DEF SoundInv, IInv
<1>4. ASSUME "huge" \notin env
      PROVE  firstpaddr <= firstpaddr'
  <2>1. FIRSTPADDR <= firstpaddr /\ firstpaddr \in Nat
    BY <1>4, RamAssumptions DEF SoundInv, IInv, RamTypes
  <2>2. Shrinks \/ firstpaddr <= firstpaddr'
    BY <1>3, <1>4, <2>1 DEF Moves
  <2>3. Shrinks => firstpaddr' = firstpaddr
    BY DEF Shrinks
  <2>4. PICK n \in Nat : n = firstpaddr
    BY <2>1
  <2> QED
    BY <2>2, <2>3, <2>4
<1>5. HeapInv'
  BY <1>3, <1>4, HeapLeft DEF SoundInv, IInv, Moves
<1> QED
  BY <1>1, <1>2, <1>5 DEF SoundInv

LEMMA SoundStep ==
  ASSUME SoundInv, [Next]_vars
  PROVE  SoundInv'
<1>1. CASE UNCHANGED vars
  <2>1. IInv'
    BY Step DEF SoundInv
  <2>2. UNCHANGED kvars /\ env' = env /\ firstpaddr' = firstpaddr
    BY <1>1 DEF vars, ramvars
  <2>3. HeapInv'
    BY <2>1, <2>2, HeapLeft, RamAssumptions DEF SoundInv, IInv, RamTypes
  <2>4. Bounded'
    BY <1>1 DEF SoundInv, Bounded, vars, avars, hwvars, memvars, thvars,
                Boards
  <2> QED
    BY <2>1, <2>3, <2>4 DEF SoundInv
<1> QED
  BY <1>1, HeapSoundKept, ProcSoundKept DEF Next

-----------------------------------------------------------------------------
\* What it means for the heap.
LEMMA ListsAre ==
  ASSUME HeapInv
  PROVE  ListsMatch
<1> SUFFICES ASSUME "huge" \notin env
             PROVE  LET all == {allbase[i] : i \in DOMAIN allbase} IN
                    /\ DOMAIN pagerefs = all
                    /\ Cardinality(all) = Len(allbase)
                    /\ \A type \in Types :
                         /\ {sizebases[type][i] : i \in DOMAIN sizebases[type]}
                               = {r \in all : pagerefs[r].type = type}
                         /\ \A r \in all :
                              Len(pagerefs[r].free) < NBlocks(pagerefs[r].type)
  BY DEF ListsMatch
<1>1. /\ Lists(allbase, sizebases, pagerefs) /\ BlocksRight
  BY DEF HeapInv
<1>2. PICK all : all = {allbase[i] : i \in DOMAIN allbase}
  OBVIOUS
<1>3. DOMAIN pagerefs = all /\ all = Elements(allbase)
  BY <1>1, <1>2 DEF Lists, Elements
<1>4. Cardinality(all) = Len(allbase)
  BY <1>1, <1>3, Counts DEF Lists
<1>5. \A type \in Types :
        {sizebases[type][i] : i \in DOMAIN sizebases[type]}
          = {r \in all : pagerefs[r].type = type}
  BY <1>1, <1>3 DEF Lists, Elements, OfType
<1>6. \A r \in all : Len(pagerefs[r].free) < NBlocks(pagerefs[r].type)
  BY <1>1, <1>3 DEF BlocksRight, PageRight
<1> QED
  BY <1>2, <1>3, <1>4, <1>5, <1>6

LEMMA BlocksAreOnce ==
  ASSUME HeapInv
  PROVE  BlocksOnce
<1> SUFFICES ASSUME "huge" \notin env
             PROVE  /\ \A i \in DOMAIN allbase :
                         LET pr == pagerefs[allbase[i]]
                             free == {pr.free[k] : k \in DOMAIN pr.free}
                         IN  /\ Cardinality(free) = Len(pr.free)
                             /\ free \cap HeldOn(pr.page) = {}
                             /\ free \union HeldOn(pr.page)
                                  = 0 .. (NBlocks(pr.type) - 1)
                    /\ \A t \in Callers : \A b \in held[t] :
                         /\ b.npages = 0 => OnPage(b) # 0
                         /\ \A u \in Callers \ {t} : b \notin held[u]
  BY DEF BlocksOnce
<1>1. /\ Lists(allbase, sizebases, pagerefs) /\ BlocksRight
  BY DEF HeapInv
<1>2. ASSUME NEW i \in DOMAIN allbase
      PROVE  LET pr == pagerefs[allbase[i]]
                 free == {pr.free[k] : k \in DOMAIN pr.free}
             IN  /\ Cardinality(free) = Len(pr.free)
                 /\ free \cap HeldOn(pr.page) = {}
                 /\ free \union HeldOn(pr.page)
                      = 0 .. (NBlocks(pr.type) - 1)
  <2>1. allbase[i] \in DOMAIN pagerefs
    BY <1>1 DEF Lists, Elements
  <2>2. PICK pr, f : pr = pagerefs[allbase[i]] /\ f = pr.free
    OBVIOUS
  <2>3. /\ pr \in Records /\ PageRight(pr, HeldOn(pr.page))
    BY <1>1, <2>1, <2>2, BlocksAre
  <2>4. f \in Seq(Nat) /\ Once(f)
    BY <2>2, <2>3 DEF Records, PageRight
  <2>5. Cardinality(Elements(f)) = Len(f)
    BY <2>4, Counts
  <2> QED
    BY <2>2, <2>3, <2>5 DEF Elements, PageRight
<1>3. ASSUME NEW t \in Callers, NEW b \in held[t]
      PROVE  /\ b.npages = 0 => OnPage(b) # 0
             /\ \A u \in Callers \ {t} : b \notin held[u]
  <2>1. ASSUME b.npages = 0, OnPage(b) = 0
        PROVE  FALSE
    <3>1. PICK r \in DOMAIN pagerefs : pagerefs[r].page = b.page
      BY <1>1, <2>1 DEF BlocksRight
    <3>2. allbase \in Seq(DOMAIN pagerefs) /\ r \in Elements(allbase)
      BY <1>1 DEF Lists
    <3> QED
      BY <2>1, <3>1, <3>2, OnPageIs
  <2> QED
    BY <1>1, <2>1 DEF BlocksRight
<1> QED
  BY <1>2, <1>3

LEMMA SoundIs ==
  ASSUME SoundInv
  PROVE  HeapSound
<1>1. RefsCounted
  <2>1. CASE "huge" \in env
    BY <2>1 DEF RefsCounted
  <2>2. CASE "huge" \notin env
    BY <2>2, CountedIs DEF SoundInv, HeapInv, RefsInv
  <2> QED
    BY <2>1, <2>2
<1>2. BlocksOnce /\ ListsMatch
  BY BlocksAreOnce, ListsAre DEF SoundInv
<1>3. TypeOK
  BY DEF SoundInv, HeapInv, HeapShape, Bounded, IInv, RamTypes, AsTypes,
         AsOrNull, TypeOK, CallLabels
<1> QED
  BY <1>1, <1>2, <1>3 DEF HeapSound

\* The heap is sound at every step, whatever several callers of kmalloc and
\* kfree do to it at the same time: every block of a page is on its free list
\* once or with one caller, the lists of all pages and of the pages of a size
\* agree, no page without a block in use stays, and while there is memory an
\* entry of a pageref page is marked exactly when it is in use (kmalloc.c).
THEOREM VmHeapSound == Spec => []HeapSound
<1>1. Init => SoundInv
  BY InitSound
<1>2. SoundInv /\ [Next]_vars => SoundInv'
  BY SoundStep
<1>3. SoundInv => HeapSound
  BY SoundIs
<1> QED
  BY <1>1, <1>2, <1>3, PTL DEF Spec

-----------------------------------------------------------------------------
\* Panics.  An address space has the segments of a program that may run, and
\* its pages unless a thread is about to get them.
Built(a, prog) ==
    LET d == Defined(prog) IN
    /\ a.vbase1 = d.vbase1 /\ a.npages1 = d.npages1
    /\ a.vbase2 = d.vbase2 /\ a.npages2 = d.npages2
Based(a) == a.pbase1 # 0 /\ a.pbase2 # 0 /\ a.stackpbase # 0
Preparing(t, id) == pc[t] \in {"prepare", "fork"} /\ loc[t].new = id
BuiltRight(id) == as[id] # NULL =>
    \E prog \in Programs : MayRun(prog) /\ Built(as[id], prog)
BasedRight(id) == as[id] # NULL =>
    Based(as[id]) \/ \E t \in Threads : Preparing(t, id)

\* A thread has entries of pages only that its program uses, and copies to
\* such pages, or to where the program says.
Uses(t, prog) ==
    /\ MayRun(prog) /\ Built(as[t_addrspace[t]], prog)
    /\ pc[t] \in Loading => prog = loc[t].prog
    /\ \A v : Hit(t, v) => v \in InUse(prog)
    /\ loc[t].fault # << >> => loc[t].fault[1] \in InUse(prog)
    /\ pc[t] # "prepare" =>
         Elements(loc[t].todo) \subseteq InUse(prog) \union budget.touched
UseRight(t) ==
    /\ t_addrspace[t] # NULL => \E prog \in Programs : Uses(t, prog)
    /\ pc[t] = "create" => MayRun(loc[t].prog)
    /\ pc[t] = "printf" => "read" \in env
    /\ loc[t].fault # << >> => loc[t].fault[2] # 0

PanicInv ==
    /\ NoPanic
    /\ \A id \in AsIds : BuiltRight(id) /\ BasedRight(id)
    /\ \A t \in Threads : UseRight(t)
    /\ \A c \in Boards : \A i \in DOMAIN tlb[c] : tlb[c][i].p # 0

-----------------------------------------------------------------------------
\* What a program has: its segments, and the pages it uses.
LEMMA DefinedBuilt ==
  ASSUME NEW prog
  PROVE  Built(Defined(prog), prog)
BY DEF Built

\* vm_fault's assertions fail for these programs only.
Odd(prog) == \/ Len(prog) = 1
             \/ \E i \in DOMAIN prog : SegSize(prog[i]) = 0
             \/ \E i \in DOMAIN prog : SegBase(prog[i]) = 0
LEMMA DefinedTwo ==
  ASSUME NEW prog \in Programs, ~Odd(prog)
  PROVE  LET d == Defined(prog) IN
         /\ d.vbase1 # 0 /\ d.npages1 # 0
         /\ d.vbase2 # 0 /\ d.npages2 # 0
<1>1. /\ \E S : prog \in Seq(S)
      /\ Len(prog) \in 1 .. 3
      /\ Len(prog) = 3 => SegBase(prog[1]) = 0 \/ SegBase(prog[2]) = 0
  BY ProgramAssumptions
<1>2. Len(prog) = 2 /\ DOMAIN prog = 1 .. 2
  <2>1. DOMAIN prog = 1 .. Len(prog)
    BY <1>1
  <2> QED
    BY <1>1, <2>1 DEF Odd
<1>3. PICK v, n, w, m :
        /\ v = SegBase(prog[1]) /\ n = SegSize(prog[1])
        /\ w = SegBase(prog[2]) /\ m = SegSize(prog[2])
        /\ v # 0 /\ n # 0 /\ w # 0 /\ m # 0
  BY <1>2 DEF Odd
<1>4. PICK a : /\ a = Define(NewAs, prog, 1)
               /\ a = [NewAs EXCEPT !.vbase1 = v, !.npages1 = n]
  <2>1. NewAs.vbase1 = 0
    BY DEF NewAs
  <2> QED
    BY <1>2, <1>3, <2>1 DEF Define, AsDefineRegion
<1>5. a \in [DOMAIN NewAs -> {a[f] : f \in DOMAIN NewAs}]
      /\ a.vbase1 = v /\ a.npages1 = n
  BY <1>4 DEF NewAs
<1>6. PICK b : /\ b = Define(a, prog, 2)
               /\ b = [a EXCEPT !.vbase2 = w, !.npages2 = m]
  BY <1>2, <1>3, <1>5 DEF Define, AsDefineRegion
<1>7. b.vbase1 = v /\ b.npages1 = n /\ b.vbase2 = w /\ b.npages2 = m
  BY <1>4, <1>6 DEF NewAs
<1>8. Defined(prog) = b
  BY <1>2, <1>4, <1>6 DEF Defined, Define
<1> QED
  BY <1>3, <1>7, <1>8

LEMMA SetUpIs ==
  ASSUME NEW prog \in Programs, NEW a, Built(a, prog), Based(a),
         ~Odd(prog)
  PROVE  SetUp(a)
<1>1. /\ a.vbase1 # 0 /\ a.npages1 # 0 /\ a.vbase2 # 0 /\ a.npages2 # 0
  BY DefinedTwo DEF Built
<1>2. DOMAIN NewAs = {"vbase1", "pbase1", "npages1", "vbase2", "pbase2",
                      "npages2", "stackpbase"}
  BY DEF NewAs
<1> QED
  BY <1>1, <1>2 DEF SetUp, Based

\* A page that the program touches and vm_fault finds is one it uses.
LEMMA TouchedIs ==
  ASSUME NEW prog \in Programs, NEW a, Built(a, prog), NEW v \in Nat,
         v \in budget.touched, Translate(a, v) # 0
  PROVE  v \in InUse(prog)
<1>1. PICK k \in 1 .. 3 : In(a, k, v)
  BY TranslateIs
<1>2. PICK d : d = Defined(prog)
  OBVIOUS
<1>3. /\ a.vbase1 = d.vbase1 /\ a.npages1 = d.npages1
      /\ a.vbase2 = d.vbase2 /\ a.npages2 = d.npages2
  BY <1>2 DEF Built
<1>4. Start(d, k) = Start(a, k) /\ Size(d, k) = Size(a, k)
  BY <1>3 DEF Start, Size
<1>5. Holds(Regions(d)[k], v)
  <2>1. Regions(d)[k] = <<Start(d, k), Size(d, k), Base(d, k)>>
    BY RegionsAre
  <2> QED
    BY <1>1, <1>4, <2>1 DEF In, Holds
<1> QED
  BY <1>2, <1>5 DEF InUse

LEMMA ElementsFinite ==
  ASSUME NEW S, NEW s \in Seq(S)
  PROVE  IsFiniteSet(Elements(s))
<1>1. Len(s) \in Nat /\ DOMAIN s = 1 .. Len(s)
  OBVIOUS
<1>2. s \in [1 .. Len(s) -> Elements(s)]
  BY <1>1 DEF Elements
<1>3. s \in Surjection(1 .. Len(s), Elements(s))
  BY <1>1, <1>2 DEF Surjection, Elements
<1>4. IsFiniteSet(1 .. Len(s))
  BY <1>1, FS_Interval
<1> QED
  BY <1>3, <1>4, FS_Surjection

LEMMA InUseFinite ==
  ASSUME NEW prog \in Programs, budget.touched \in SUBSET Nat
  PROVE  IsFiniteSet(InUse(prog))
<1> DEFINE T == {v \in budget.touched :
                   \E k \in 1 .. 3 : Holds(Regions(Defined(prog))[k], v)}
           S == Elements(LoadPages(prog))
<1>1. IsFiniteSet(S)
  BY LoadPagesAre, ElementsFinite
<1>2. IsFiniteSet(T)
  <2>1. ADDRPAGES \in Nat \ {0} /\ IsFiniteSet(0 .. ADDRPAGES)
    BY RamAssumptions, FS_Interval
  <2>2. ASSUME NEW v \in Nat, NEW s \in Nat, NEW n \in Nat, NEW p,
               Holds(<<s, n, p>>, v)
        PROVE  v \in 0 .. ADDRPAGES
    <3>1. (s + n) % ADDRPAGES \in 0 .. ADDRPAGES
      BY <2>1
    <3>2. v < (s + n) % ADDRPAGES
      BY <2>2 DEF Holds
    <3> QED
      BY <2>1, <3>1, <3>2
  <2>3. PICK d \in Addrspace : d = Defined(prog)
    BY DefinedIs
  <2>4. ASSUME NEW v \in Nat, NEW k \in 1 .. 3, Holds(Regions(d)[k], v)
        PROVE  v \in 0 .. ADDRPAGES
    <3>1. Regions(d)[k] = <<Start(d, k), Size(d, k), Base(d, k)>>
      BY RegionsAre
    <3>2. Start(d, k) \in Nat /\ Size(d, k) \in Nat
      BY StartNat
    <3> QED
      BY <2>2, <2>4, <3>1, <3>2
  <2>5. T \in SUBSET (0 .. ADDRPAGES)
    BY <2>3, <2>4
  <2> QED
    BY <2>1, <2>5, FS_Subset
<1>3. IsFiniteSet({LastPage})
  BY FS_Singleton
<1>4. InUse(prog) = (S \union {LastPage}) \union T
  BY DEF InUse, Elements
<1> HIDE DEF S, T
<1>5. IsFiniteSet(S \union {LastPage})
  BY <1>1, <1>3, FS_Union
<1> QED
  BY <1>2, <1>4, <1>5, FS_Union

\* Entries for different pages of a set leave some for more.
LEMMA TooMany ==
  ASSUME NEW s \in Seq(Entry), NEW S, IsFiniteSet(S), NEW w \in S,
         \A i \in DOMAIN s :
           /\ s[i].v \in S /\ s[i].v # w
           /\ \A k \in DOMAIN s : s[k].v = s[i].v => k = i
  PROVE  Cardinality(S) > Len(s)
<1>1. PICK n \in Nat : n = Len(s) /\ DOMAIN s = 1 .. n
  OBVIOUS
<1>2. PICK vs : vs = [i \in 1 .. n |-> s[i].v]
  OBVIOUS
<1>3. vs \in [1 .. n -> S]
  BY <1>1, <1>2
<1>4. vs \in Seq(S) /\ Len(vs) = n
  BY <1>3, SeqDef
<1>5. Once(vs) /\ \A i \in DOMAIN vs : vs[i] # w
  BY <1>1, <1>2 DEF Once
<1>6. /\ Elements(vs) \subseteq S /\ w \notin Elements(vs)
      /\ IsFiniteSet(Elements(vs)) /\ Cardinality(Elements(vs)) = n
  BY <1>3, <1>4, <1>5, Counts DEF Elements
<1>7. Cardinality(Elements(vs) \union {w}) = n + 1
  BY <1>6, FS_AddElement
<1>8. /\ Cardinality(Elements(vs) \union {w}) <= Cardinality(S)
  BY <1>6, FS_Subset
<1>9. Cardinality(S) \in Nat
  BY FS_CardinalityType
<1> QED
  BY <1>1, <1>7, <1>8, <1>9

-----------------------------------------------------------------------------
\* What each environment explains.
LEMMA BreaksAre ==
  /\ Breaks("huge") = {"heap", "bus error"}
  /\ Breaks("one segment") = {"as not set up"}
  /\ Breaks("empty segment") = {"as not set up"}
  /\ Breaks("page 0") = {"as not set up", "user fault"}
  /\ Breaks("many pages") = {"user fault"}
  /\ Breaks("bad access") = {"user fault"}
  /\ Breaks("read") = {"kernel fault"}
  /\ Breaks("getcwd") = {"not the address space"}
  /\ Breaks("long arguments") = {"beyond kargbuf"}
<1>1. Breaks("huge") = {"heap", "bus error"}
  BY DEF Breaks
<1>2. Breaks("one segment") = {"as not set up"}
  BY DEF Breaks
<1>3. Breaks("many pages") = {"user fault"}
  BY DEF Breaks
<1>4. Breaks("bad access") = {"user fault"}
  BY DEF Breaks
<1>5. Breaks("read") = {"kernel fault"}
  BY DEF Breaks
<1>6. Breaks("getcwd") = {"not the address space"}
  BY DEF Breaks
<1>7. Breaks("empty segment") = {"as not set up"}
  BY DEF Breaks
<1>8. Breaks("page 0") = {"as not set up", "user fault"}
  BY DEF Breaks
<1>9. Breaks("long arguments") = {"beyond kargbuf"}
  BY DEF Breaks
<1> QED
  BY <1>1, <1>2, <1>3, <1>4, <1>5, <1>6, <1>7, <1>8, <1>9

LEMMA PanicIs ==
  ASSUME NoPanic, env' = env,
         \/ panic' = panic
         \/ \E e \in env : panic' \in Breaks(e)
  PROVE  NoPanic'
BY DEF NoPanic, Breaks

\* What programs may do and touch is chosen once.
LEMMA InUseStays ==
  ASSUME SameUse, NEW prog
  PROVE  InUse(prog)' = InUse(prog) /\ (MayRun(prog)' <=> MayRun(prog))
<1>1. InUse(prog)' = InUse(prog)
  BY DEF SameUse, InUse
<1>2. env' = env
  BY DEF SameUse
<1> QED
  BY <1>1, <1>2 DEF MayRun

\* What is to be shown of a thread.
LEMMA UseNext ==
  ASSUME NEW t \in Threads, SameUse, NEW prog \in Programs, MayRun(prog),
         NEW a, Built(a, prog), as'[t_addrspace'[t]] = a,
         NEW l, loc'[t] = l,
         pc'[t] \in Loading => prog = l.prog,
         \A v : Hit(t, v)' => v \in InUse(prog),
         l.fault # << >> => l.fault[1] \in InUse(prog) /\ l.fault[2] # 0,
         pc'[t] # "prepare" =>
           Elements(l.todo) \subseteq InUse(prog) \union budget.touched,
         pc'[t] = "create" => MayRun(l.prog),
         pc'[t] = "printf" => "read" \in env
  PROVE  UseRight(t)'
<1>1. budget'.touched = budget.touched /\ env' = env
  BY DEF SameUse
<1>2. InUse(prog)' = InUse(prog) /\ MayRun(prog)'
  BY InUseStays
<1>3. Uses(t, prog)'
  BY <1>1, <1>2 DEF Uses, Elements, Built
<1>4. pc'[t] = "create" => MayRun(loc[t].prog)'
  <2>1. PICK p : p = l.prog
    OBVIOUS
  <2>2. MayRun(p) => MayRun(p)'
    BY InUseStays
  <2> QED
    BY <2>1, <2>2 DEF MayRun, InUse
<1> QED
  BY <1>1, <1>3, <1>4 DEF UseRight

LEMMA UseStays ==
  ASSUME NEW u \in Threads, UseRight(u), SameUse, SameCall(u),
         t_addrspace[u] # NULL =>
           /\ as'[t_addrspace[u]] = as[t_addrspace[u]]
           /\ \A v : Hit(u, v)' => Hit(u, v)
  PROVE  UseRight(u)'
<1>1. PICK l, id : l = loc[u] /\ id = t_addrspace[u]
  OBVIOUS
<1>2. /\ loc'[u] = l /\ t_addrspace'[u] = id /\ pc'[u] = pc[u]
      /\ env' = env
  BY <1>1 DEF SameCall, SameUse
<1>3. /\ pc'[u] = "printf" => "read" \in env
      /\ pc'[u] = "create" => MayRun(l.prog)
      /\ l.fault # << >> => l.fault[2] # 0
  BY <1>1, <1>2 DEF UseRight
<1>4. CASE id = NULL
  <2>1. MayRun(l.prog) => MayRun(l.prog)'
    BY InUseStays
  <2>2. pc'[u] = "create" => MayRun(loc[u].prog)'
    BY <1>2, <1>3, <2>1 DEF MayRun, InUse
  <2> QED
    BY <1>2, <1>3, <1>4, <2>2 DEF UseRight
<1>5. CASE id # NULL
  <2>1. PICK prog \in Programs : Uses(u, prog)
    BY <1>1, <1>5 DEF UseRight
  <2>2. PICK a : a = as[id] /\ as'[t_addrspace'[u]] = a
    BY <1>1, <1>2, <1>5
  <2> QED
    BY <1>1, <1>2, <1>3, <1>5, <2>1, <2>2, UseNext DEF Uses
<1> QED
  BY <1>4, <1>5

\* A thread without an address space.
LEMMA UseNone ==
  ASSUME NEW t \in Threads, t_addrspace'[t] = NULL,
         pc'[t] \notin {"create", "printf"}, loc'[t].fault = << >>
  PROVE  UseRight(t)'
BY DEF UseRight

-----------------------------------------------------------------------------
\* A step of t: each address space is gone, or as it was and not less
\* prepared, or is made from a program, or is copied from one that was.
Spaces(t) == \A id \in AsIds :
    \/ as'[id] = NULL
    \/ as'[id] = as[id] /\ (Preparing(t, id) => Preparing(t, id)')
    \/ /\ \E prog \in Programs : MayRun(prog) /\ Built(as'[id], prog)
       /\ Based(as'[id]) \/ Preparing(t, id)'
Tlbs(t) ==
    /\ c_curthread' = c_curthread
    /\ \A c \in Boards :
         \/ tlb'[c] \in {tlb[c], << >>}
         \/ c \in On(t) /\ \A i \in DOMAIN tlb'[c] : tlb'[c][i].p # 0
Own(t) == \A id \in AsIds : as'[id] # as[id] => as[id] = NULL \/ Has(t, id)

LEMMA SpacesKept ==
  ASSUME PanicInv, NEW t \in Threads, SameUse, Spaces(t),
         \A u \in Threads \ {t} : \A id \in AsIds :
           Preparing(u, id) => Preparing(u, id)'
  PROVE  \A id \in AsIds : BuiltRight(id)' /\ BasedRight(id)'
<1> SUFFICES ASSUME NEW id \in AsIds, as'[id] # NULL
             PROVE  BuiltRight(id)' /\ BasedRight(id)'
  BY DEF BuiltRight, BasedRight
<1>1. BuiltRight(id) /\ BasedRight(id)
  BY DEF PanicInv
<1>2. CASE as'[id] = as[id] /\ (Preparing(t, id) => Preparing(t, id)')
  <2>1. PICK prog \in Programs : MayRun(prog) /\ Built(as'[id], prog)
    BY <1>1, <1>2 DEF BuiltRight
  <2>2. MayRun(prog)'
    BY <2>1, InUseStays
  <2>3. Based(as'[id]) \/ \E u \in Threads : Preparing(u, id)'
    BY <1>1, <1>2 DEF BasedRight
  <2> QED
    BY <2>1, <2>2, <2>3 DEF BuiltRight, BasedRight, Built, Based
<1>3. CASE /\ \E prog \in Programs : MayRun(prog) /\ Built(as'[id], prog)
           /\ Based(as'[id]) \/ Preparing(t, id)'
  <2>1. PICK prog \in Programs : MayRun(prog) /\ Built(as'[id], prog)
    BY <1>3
  <2>2. MayRun(prog)'
    BY <2>1, InUseStays
  <2> QED
    BY <1>3, <2>1, <2>2 DEF BuiltRight, BasedRight, Built, Based
<1> QED
  BY <1>2, <1>3 DEF Spaces

LEMMA PanicKept ==
  ASSUME PanicInv, AsTypes, AsRight, NEW t \in Threads, SameUse, NoPanic',
         Spaces(t), Tlbs(t), Own(t), UseRight(t)',
         \A u \in Threads \ {t} :
           \/ SameCall(u)
           \/ UseRight(u)' /\ pc[u] \notin {"prepare", "fork"}
  PROVE  PanicInv'
<1>1. \A id \in AsIds : BuiltRight(id)' /\ BasedRight(id)'
  <2>1. \A u \in Threads \ {t} : \A id \in AsIds :
          Preparing(u, id) => Preparing(u, id)'
    BY DEF SameCall, Preparing
  <2> QED
    BY <2>1, SpacesKept
<1>2. Boards' = Boards /\ \A u : On(u)' = On(u)
  BY DEF Tlbs, Boards, On
<1>3. \A c \in Boards' : \A i \in DOMAIN tlb'[c] : tlb'[c][i].p # 0
  BY <1>2 DEF Tlbs, PanicInv
<1>4. ASSUME NEW u \in Threads \ {t}, SameCall(u)
      PROVE  UseRight(u)'
  <2>1. PICK id : id = t_addrspace[u]
    OBVIOUS
  <2>2. CASE id # NULL
    <3>1. id \in AsIds /\ Has(u, id)
      BY <2>1, <2>2 DEF AsTypes, AsOrNull, Has
    <3>2. as[id] # NULL /\ ~Has(t, id)
      BY <3>1 DEF AsRight, OwnRight
    <3>3. as'[id] = as[id]
      BY <3>1, <3>2 DEF Own
    <3>4. ASSUME NEW v, Hit(u, v)'
          PROVE  Hit(u, v)
      <4>1. PICK c \in On(u) : \E i \in DOMAIN tlb'[c] : tlb'[c][i].v = v
        BY <1>2, <3>4 DEF Hit
      <4>2. c \in Boards /\ c \notin On(t)
        BY <4>1 DEF On
      <4>3. tlb'[c] = tlb[c]
        BY <4>1, <4>2 DEF Tlbs
      <4> QED
        BY <4>1, <4>3 DEF Hit
    <3> QED
      BY <1>4, <2>1, <3>3, <3>4, UseStays DEF PanicInv
  <2>3. CASE id = NULL
    BY <1>4, <2>1, <2>3, UseStays DEF PanicInv
  <2> QED
    BY <2>2, <2>3
<1>5. \A u \in Threads : UseRight(u)'
  BY <1>4
<1> QED
  BY <1>1, <1>3, <1>5 DEF PanicInv

-----------------------------------------------------------------------------
\* What keeps a step from a panic.
LEMMA OwnBased ==
  ASSUME AsTypes, AsRight, PanicInv, NEW t \in Threads,
         t_addrspace[t] # NULL, pc[t] # "prepare"
  PROVE  /\ t_addrspace[t] \in AsIds /\ as[t_addrspace[t]] \in Addrspace
         /\ Based(as[t_addrspace[t]])
<1>1. PICK id : id = t_addrspace[t]
  OBVIOUS
<1>2. id \in AsIds /\ Has(t, id)
  BY <1>1 DEF AsTypes, AsOrNull, Has
<1>3. as[id] \in Addrspace /\ as[id] # NULL
  BY <1>2 DEF AsTypes, AsRight, OwnRight
<1>4. ASSUME NEW u \in Threads, Preparing(u, id)
      PROVE  FALSE
  <2>1. CallRight(u) /\ CallRight(t)
    BY DEF AsRight, ThreadRight
  <2>2. Has(u, id)
    BY <1>4, <2>1 DEF Preparing, CallRight, Loading, Has
  <2>3. u = t
    BY <1>2, <2>2 DEF AsRight, OwnRight
  <2> QED
    BY <1>1, <1>4, <2>1, <2>3 DEF Preparing, CallRight
<1> QED
  BY <1>1, <1>2, <1>3, <1>4 DEF PanicInv, BasedRight

\* vm_fault finds the address space set up.
LEMMA NotSetUp ==
  ASSUME AsTypes, AsRight, PanicInv, NEW t \in Threads,
         t_addrspace[t] # NULL, pc[t] # "prepare",
         ~SetUp(as[t_addrspace[t]])
  PROVE  \/ "one segment" \in env \/ "empty segment" \in env
         \/ "page 0" \in env
<1>1. PICK prog \in Programs : MayRun(prog) /\ Built(as[t_addrspace[t]], prog)
  BY DEF PanicInv, UseRight, Uses
<1>2. Odd(prog)
  BY <1>1, OwnBased, SetUpIs
<1> QED
  BY <1>1, <1>2 DEF MayRun, Odd

\* There is room in the TLB for a page that the program uses.
LEMMA NoRoom ==
  ASSUME RamTypes, AsTypes, AsRight, PanicInv, NEW t \in Threads,
         NEW c \in On(t), t_addrspace[t] # NULL, loc[t].fault # << >>,
         Full(c)
  PROVE  "many pages" \in env
<1>1. PICK prog \in Programs : Uses(t, prog)
  BY DEF PanicInv, UseRight
<1>2. PICK s, v : s = tlb[c] /\ v = loc[t].fault[1]
  OBVIOUS
<1>3. /\ c \in Boards /\ c_curthread[c] = t
      /\ \A w : Hit(t, w) <=> \E i \in DOMAIN s : s[i].v = w
  BY <1>2, OnIs DEF AsRight
<1>4. s \in Seq(Entry) /\ Len(s) = NUM_TLB
  BY <1>2, <1>3 DEF AsTypes, Full
<1>5. \A i \in DOMAIN s : s[i].v \in InUse(prog)
  BY <1>1, <1>3 DEF Uses
<1>6. v \in InUse(prog)
  BY <1>1, <1>2 DEF Uses
<1>7. \A i \in DOMAIN s : s[i].v # v
  BY <1>2, <1>3 DEF AsRight, ThreadRight, FaultRight
<1>8. \A i, k \in DOMAIN s : s[k].v = s[i].v => k = i
  BY <1>2, <1>3, NullIs DEF AsRight, EntriesRight
<1>9. IsFiniteSet(InUse(prog))
  BY InUseFinite DEF RamTypes
<1>10. Cardinality(InUse(prog)) > NUM_TLB
  BY <1>4, <1>5, <1>6, <1>7, <1>8, <1>9, TooMany
<1> QED
  BY <1>1, <1>10 DEF Uses, MayRun

\* There is memory behind every entry.
LEMMA RamThere ==
  ASSUME IInv, PanicInv, NEW t \in Threads, On(t) # {}, NEW v, Hit(t, v),
         t_addrspace[t] # NULL, pc[t] # "prepare", NoRam(t, v)
  PROVE  "huge" \in env
<1> SUFFICES ASSUME "huge" \notin env
             PROVE  FALSE
  OBVIOUS
<1>0. AsTypes /\ AsRight /\ RamTypes
  BY DEF IInv
<1>1. PICK c \in On(t) : TRUE
  OBVIOUS
<1>2. /\ c \in Boards /\ c_curthread[c] = t
      /\ \E i \in DOMAIN tlb[c] : tlb[c][i].v = v /\ Paddr(t, v) = tlb[c][i].p
  BY <1>0, OnIs DEF AsRight
<1>3. PICK i \in DOMAIN tlb[c] : tlb[c][i].v = v /\ Paddr(t, v) = tlb[c][i].p
  BY <1>2
<1>4. PICK id, p : id = t_addrspace[t] /\ p = tlb[c][i].p
  OBVIOUS
<1>5. /\ id \in AsIds /\ as[id] \in Addrspace /\ Based(as[id])
  BY <1>0, <1>4, OwnBased
<1>6. PICK a \in Addrspace : a = as[id]
  BY <1>5
<1>7. p = Translate(a, v)
  BY <1>0, <1>2, <1>3, <1>4, <1>6, NullIs DEF AsRight, EntriesRight
<1>8. p # 0
  BY <1>2, <1>4 DEF PanicInv
<1>9. v \in Nat
  <2>1. PICK s \in Seq(Entry) : s = tlb[c]
    BY <1>0, <1>2 DEF AsTypes
  <2>2. s[i] \in Entry
    BY <1>3, <2>1
  <2> QED
    BY <1>3, <2>1, <2>2 DEF Entry
<1>10. PICK k \in 1 .. 3 : In(a, k, v) /\ p = Base(a, k) + (v - Start(a, k))
  BY <1>7, <1>8, TranslateIs
<1>11. PICK n \in Nat : n = v - Start(a, k) /\ n < Size(a, k)
  BY <1>9, <1>10, InIs
<1>12. Base(a, k) # 0 /\ Base(a, k) \in Nat /\ Size(a, k) \in Nat
  BY <1>5, <1>6, StartNat DEF Based, Base
<1>13. n \in 0 .. (Size(a, k) - 1)
  BY <1>11, <1>12
<1>14. [who |-> <<"as", id, k>>, page |-> p] \in AsClaims(as)
  <2>1. p = Base(as[id], k) + n
    BY <1>6, <1>10, <1>11
  <2>2. as[id] # NULL
    BY <1>5, NullIs
  <2> QED
    BY <1>5, <1>6, <1>12, <1>13, <2>1, <2>2, AsClaimIs
<1>15. p \in FIRSTPADDR .. (firstpaddr - 1)
  <2>1. PICK x : x = [who |-> <<"as", id, k>>, page |-> p]
    OBVIOUS
  <2>2. x \in Claims /\ x.page = p
    BY <1>14, <2>1 DEF Claims
  <2> QED
    BY <1>8, <2>2 DEF IInv, PagesOnce
<1>16. p \in Pages
  BY <1>0, <1>15, RamAssumptions DEF RamTypes, Pages
<1> QED
  BY <1>3, <1>4, <1>16 DEF NoRam

-----------------------------------------------------------------------------
\* TLBs that are left alone or emptied.
LEMMA TlbSame ==
  ASSUME UNCHANGED hwvars, NEW t
  PROVE  Tlbs(t) /\ \A v : Hit(t, v)' <=> Hit(t, v)
<1>1. Tlbs(t)
  BY DEF Tlbs, hwvars
<1>2. On(t)' = On(t) /\ tlb' = tlb
  BY DEF On, Boards, hwvars
<1> QED
  BY <1>1, <1>2 DEF Hit

LEMMA TlbEmpty ==
  ASSUME AsTypes, NEW t \in Threads, Flush(t)
  PROVE  Tlbs(t) /\ \A v : ~Hit(t, v)'
<1>1. /\ c_curthread' = c_curthread
      /\ \A c \in On(t) : tlb'[c] = << >>
      /\ \A c \in Boards \ On(t) : tlb'[c] = tlb[c]
  BY FlushIs
<1>2. On(t)' = On(t)
  BY <1>1 DEF On, Boards
<1>3. \A v : ~Hit(t, v)'
  BY <1>1, <1>2 DEF Hit
<1> QED
  BY <1>1, <1>3 DEF Tlbs

\* A process that is back in its program.
LEMMA UserUse ==
  ASSUME NEW t \in Threads, SameUse, NEW prog \in Programs, MayRun(prog),
         NEW a, Built(a, prog), as'[t_addrspace'[t]] = a,
         pc'[t] = "user", loc'[t] = NoLocals,
         \A v : Hit(t, v)' => v \in InUse(prog)
  PROVE  UseRight(t)'
<1>1. /\ NoLocals.fault = << >> /\ Elements(NoLocals.todo) = {}
  BY DEF NoLocals, Elements
<1>2. "user" \notin Loading /\ "user" # "create" /\ "user" # "printf"
  BY DEF Loading
<1> QED
  BY <1>1, <1>2, UseNext

\* Nothing changes but what processors do, and they lose entries only.
LEMMA QuietPanic ==
  ASSUME PanicInv, UNCHANGED <<asvars, pc, loc>>, SameUse, NoPanic',
         Boards' = Boards,
         \A c \in Boards : tlb'[c] = tlb[c] \/ tlb'[c] = << >>,
         \A u \in Threads : t_addrspace[u] # NULL =>
           \A v : Hit(u, v)' => Hit(u, v)
  PROVE  PanicInv'
<1> USE DEF asvars
<1>1. \A u \in Threads : UseRight(u)'
  <2> SUFFICES ASSUME NEW u \in Threads
               PROVE  UseRight(u)'
    OBVIOUS
  <2>1. SameCall(u) /\ UseRight(u)
    BY DEF SameCall, PanicInv
  <2> QED
    BY <2>1, UseStays
<1>2. ASSUME NEW id \in AsIds
      PROVE  BuiltRight(id)' /\ BasedRight(id)'
  <2>1. BuiltRight(id) /\ BasedRight(id)
    BY DEF PanicInv
  <2>2. BasedRight(id)'
    BY <2>1 DEF BasedRight, Preparing, Based
  <2>3. \A prog : MayRun(prog)' <=> MayRun(prog)
    BY InUseStays
  <2>4. BuiltRight(id)'
    <3>1. CASE as[id] = NULL
      BY <3>1 DEF BuiltRight
    <3>2. CASE as[id] # NULL
      <4>1. PICK prog \in Programs : MayRun(prog) /\ Built(as[id], prog)
        BY <2>1, <3>2 DEF BuiltRight
      <4>2. MayRun(prog)' /\ Built(as[id], prog)'
        BY <2>3, <4>1 DEF Built
      <4> QED
        BY <4>2 DEF BuiltRight
    <3> QED
      BY <3>1, <3>2
  <2> QED
    BY <2>2, <2>4
<1>3. \A c \in Boards' : \A i \in DOMAIN tlb'[c] : tlb'[c][i].p # 0
  BY DEF PanicInv
<1> QED
  BY <1>1, <1>2, <1>3 DEF PanicInv

LEMMA AsidePanic ==
  ASSUME PanicInv, UNCHANGED avars, SameUse, NoPanic'
  PROVE  PanicInv'
<1>1. UNCHANGED <<asvars, hwvars, pc, loc>>
  BY DEF avars, thvars
<1>2. Boards' = Boards /\ tlb' = tlb
  BY <1>1 DEF Boards, hwvars
<1> QED
  BY <1>1, <1>2, TlbSame, QuietPanic

\* An address space goes.
LEMMA FreePanic ==
  ASSUME AsTypes, AsRight, PanicInv, SameUse, NoPanic', NEW t \in Threads,
         NEW a \in AsIds, Has(t, a), as' = [as EXCEPT ![a] = NULL],
         \A u \in Threads \ {t} : SameCall(u), Tlbs(t), UseRight(t)',
         pc[t] \in {"prepare", "fork"} => loc[t].new = a
  PROVE  PanicInv'
<1>1. as'[a] = NULL /\ \A id \in AsIds \ {a} : as'[id] = as[id]
  BY DEF AsTypes
<1>2. Own(t)
  BY <1>1 DEF Own
<1>3. Spaces(t)
  BY <1>1 DEF Spaces, Preparing
<1> QED
  BY <1>2, <1>3, PanicKept

LEMMA ExitPanic ==
  ASSUME AsTypes, AsRight, PanicInv, SameUse, NoPanic', NEW t \in Threads,
         ThreadExit(t), pc[t] \in Loading \union Outside, ~loc[t].exec
  PROVE  PanicInv'
<1>0. PICK id : id = t_addrspace[t]
  OBVIOUS
<1>1. CallRight(t)
  BY DEF AsRight, ThreadRight
<1>2. id # NULL /\ (pc[t] \in {"prepare", "fork"} => loc[t].new = id)
  BY <1>0, <1>1 DEF CallRight, Loading, Outside
<1>3. id \in AsIds /\ Has(t, id)
  BY <1>0, <1>2 DEF AsTypes, AsOrNull, Has
<1>4. /\ t_addrspace' = [t_addrspace EXCEPT ![t] = NULL]
      /\ as' = [as EXCEPT ![id] = NULL]
      /\ Flush(t) /\ Goto(t, "new", NoLocals)
  BY <1>0, <1>2 DEF ThreadExit
<1>5. /\ pc'[t] = "new" /\ loc'[t] = NoLocals /\ t_addrspace'[t] = NULL
      /\ \A u \in Threads \ {t} : SameCall(u)
  BY <1>4, OthersSame
<1>6. UseRight(t)'
  BY <1>5, UseNone, NoLocalsAre
<1> QED
  BY <1>2, <1>3, <1>4, <1>5, <1>6, TlbEmpty, FreePanic

LEMMA ExecFailsPanic ==
  ASSUME AsTypes, AsRight, PanicInv, SameUse, NoPanic', NEW t \in Threads,
         ExecFails(t), pc[t] \in Loading, loc[t].exec
  PROVE  PanicInv'
<1>0. PICK id, old : id = t_addrspace[t] /\ old = loc[t].old
  OBVIOUS
<1>1. CallRight(t)
  BY DEF AsRight, ThreadRight
<1>2. /\ id # NULL /\ old # NULL /\ old # id
      /\ pc[t] \in {"prepare", "fork"} => loc[t].new = id
  BY <1>0, <1>1 DEF CallRight, Loading
<1>3. /\ id \in AsIds /\ old \in AsIds /\ Has(t, id) /\ Has(t, old)
  BY <1>0, <1>2 DEF AsTypes, AsOrNull, Locals, Has
<1>4. /\ t_addrspace' = [t_addrspace EXCEPT ![t] = old]
      /\ as' = [as EXCEPT ![id] = NULL]
      /\ Flush(t) /\ Goto(t, "user", NoLocals)
  BY <1>0 DEF ExecFails
<1>5. /\ pc'[t] = "user" /\ loc'[t] = NoLocals /\ t_addrspace'[t] = old
      /\ \A u \in Threads \ {t} : SameCall(u)
  BY <1>4, OthersSame
<1>6. as[old] # NULL /\ as'[old] = as[old]
  BY <1>2, <1>3, <1>4 DEF AsRight, OwnRight, AsTypes
<1>7. PICK prog \in Programs : MayRun(prog) /\ Built(as[old], prog)
  BY <1>3, <1>6 DEF PanicInv, BuiltRight
<1>8. PICK a : a = as[old] /\ as'[t_addrspace'[t]] = a
  BY <1>5, <1>6
<1>9. UseRight(t)'
  BY <1>4, <1>5, <1>7, <1>8, TlbEmpty, UserUse
<1> QED
  BY <1>2, <1>3, <1>4, <1>5, <1>9, TlbEmpty, FreePanic

LEMMA LoadFailsPanic ==
  ASSUME AsTypes, AsRight, PanicInv, SameUse, NoPanic', NEW t \in Threads,
         LoadFails(t), pc[t] \in Loading
  PROVE  PanicInv'
BY ExitPanic, ExecFailsPanic DEF LoadFails

\* The process keeps its address space and its TLB; the other one goes.
LEMMA BackPanic ==
  ASSUME AsTypes, AsRight, PanicInv, SameUse, NoPanic', NEW t \in Threads,
         NEW a \in AsIds, Has(t, a), as' = [as EXCEPT ![a] = NULL],
         Goto(t, "user", NoLocals), UNCHANGED <<t_addrspace, hwvars>>,
         t_addrspace[t] # NULL, a # t_addrspace[t],
         pc[t] \in {"prepare", "fork"} => loc[t].new = a
  PROVE  PanicInv'
<1>1. /\ pc'[t] = "user" /\ loc'[t] = NoLocals /\ t_addrspace' = t_addrspace
      /\ \A u \in Threads \ {t} : SameCall(u)
  BY DEF AsTypes, Goto, SameCall
<1>2. PICK prog \in Programs : Uses(t, prog)
  BY DEF PanicInv, UseRight
<1>3. PICK x : x = as[t_addrspace[t]] /\ as'[t_addrspace'[t]] = x
  BY <1>1 DEF AsTypes, AsOrNull
<1>4. \A v : Hit(t, v)' => v \in InUse(prog)
  BY <1>2, TlbSame DEF Uses
<1>5. UseRight(t)'
  BY <1>1, <1>2, <1>3, <1>4, UserUse DEF Uses
<1> QED
  BY <1>1, <1>5, TlbSame, FreePanic

LEMMA ForkFailsPanic ==
  ASSUME AsTypes, AsRight, PanicInv, SameUse, NoPanic', NEW t \in Threads,
         ForkFails(t), pc[t] \in {"fork", "copied"}
  PROVE  PanicInv'
<1>0. PICK a : a = loc[t].new
  OBVIOUS
<1>1. a # NULL /\ t_addrspace[t] # NULL /\ a # t_addrspace[t]
  BY <1>0 DEF AsRight, ThreadRight, CallRight
<1>2. a \in AsIds /\ Has(t, a)
  BY <1>0, <1>1 DEF AsTypes, AsOrNull, Locals, Has
<1>3. /\ as' = [as EXCEPT ![a] = NULL] /\ Goto(t, "user", NoLocals)
      /\ UNCHANGED <<t_addrspace, hwvars>>
  BY <1>0 DEF ForkFails
<1> QED
  BY <1>0, <1>1, <1>2, <1>3, BackPanic

LEMMA ExecvEndPanic ==
  ASSUME AsTypes, AsRight, PanicInv, NEW t \in Threads, ExecvEnd(t)
  PROVE  PanicInv'
<1>0. PICK a : a = loc[t].old
  OBVIOUS
<1>1. pc[t] = "args" /\ SameUse /\ panic' = panic /\ env' = env
  BY DEF ExecvEnd, At, AtAny, SameUse, ramvars
<1>2. a # NULL /\ t_addrspace[t] # NULL /\ a # t_addrspace[t]
  BY <1>0, <1>1 DEF AsRight, ThreadRight, CallRight, Loading
<1>3. a \in AsIds /\ Has(t, a)
  BY <1>0, <1>2 DEF AsTypes, AsOrNull, Locals, Has
<1>4. /\ as' = [as EXCEPT ![a] = NULL] /\ Goto(t, "user", NoLocals)
      /\ UNCHANGED <<t_addrspace, hwvars>>
  BY <1>0 DEF ExecvEnd, Destroyed
<1>5. NoPanic'
  BY <1>1, PanicIs DEF PanicInv
<1> QED
  BY <1>1, <1>2, <1>3, <1>4, <1>5, BackPanic

-----------------------------------------------------------------------------
\* A thread within its call, with its address space and its TLB.
LEMMA LocalPanic ==
  ASSUME AsTypes, AsRight, PanicInv, SameUse, NoPanic', NEW t \in Threads,
         NEW label, NEW l, Goto(t, label, l), UNCHANGED asvars,
         pc[t] \notin {"prepare", "fork"}, Tlbs(t), UseRight(t)'
  PROVE  PanicInv'
<1>1. \A u \in Threads \ {t} : SameCall(u)
  BY DEF AsTypes, Goto, SameCall, asvars
<1>2. Own(t) /\ Spaces(t)
  BY DEF Own, Spaces, Preparing, asvars
<1> QED
  BY <1>1, <1>2, PanicKept

LEMMA LocalUse ==
  ASSUME AsTypes, SameUse, NEW t \in Threads, NEW prog \in Programs,
         Uses(t, prog), NEW label, NEW l, Goto(t, label, l),
         UNCHANGED <<asvars, hwvars>>,
         label \in Loading => pc[t] \in Loading /\ l.prog = loc[t].prog,
         l.fault # << >> => l.fault[1] \in InUse(prog) /\ l.fault[2] # 0,
         Elements(l.todo) \subseteq InUse(prog) \union budget.touched,
         label = "create" => MayRun(l.prog),
         label = "printf" => "read" \in env
  PROVE  UseRight(t)'
<1>1. pc'[t] = label /\ loc'[t] = l
  BY DEF AsTypes, Goto
<1>2. PICK a : a = as[t_addrspace[t]] /\ as'[t_addrspace'[t]] = a
  BY DEF asvars
<1>3. \A v : Hit(t, v)' <=> Hit(t, v)
  BY TlbSame
<1> QED
  BY <1>1, <1>2, <1>3, UseNext DEF Uses

\* A thread that stops copying is back in its program.
LEMMA BackUse ==
  ASSUME AsTypes, AsRight, PanicInv, SameUse, NoPanic', NEW t \in Threads,
         Goto(t, "user", NoLocals), UNCHANGED <<asvars, hwvars>>,
         t_addrspace[t] # NULL, pc[t] \notin {"prepare", "fork"}
  PROVE  PanicInv'
<1>1. PICK prog \in Programs : Uses(t, prog)
  BY DEF PanicInv, UseRight
<1>2. pc'[t] = "user" /\ loc'[t] = NoLocals
  BY DEF AsTypes, Goto
<1>3. PICK a : a = as[t_addrspace[t]] /\ as'[t_addrspace'[t]] = a
  BY DEF asvars
<1>4. \A v : Hit(t, v)' => v \in InUse(prog)
  BY <1>1, TlbSame DEF Uses
<1>5. UseRight(t)'
  BY <1>1, <1>2, <1>3, <1>4, UserUse DEF Uses
<1> QED
  BY <1>5, TlbSame, LocalPanic

\* vm_fault fails.
MayFault == "many pages" \in env \/ "bad access" \in env \/ "page 0" \in env
LEMMA FaultFailsIs ==
  ASSUME NoPanic, env' = env, NEW t \in Threads, FaultFails(t),
         pc[t] \in Using, pc[t] = "printf" => "read" \in env,
         pc[t] = "user" => MayFault
  PROVE  /\ NoPanic'
         /\ pc[t] \in {"load", "args"} => LoadFails(t)
         /\ pc[t] = "copy" => /\ Goto(t, "user", NoLocals)
                              /\ UNCHANGED <<asvars, hwvars>>
         /\ pc[t] \in {"printf", "user"} => UNCHANGED avars
<1>1. CASE pc[t] \in {"load", "args"}
  <2>1. LoadFails(t) /\ panic' = panic
    BY <1>1 DEF FaultFails
  <2>2. NoPanic'
    BY <2>1, PanicIs
  <2> QED
    BY <1>1, <2>1, <2>2
<1>2. CASE pc[t] = "copy"
  <2>1. /\ Goto(t, "user", NoLocals) /\ UNCHANGED <<asvars, hwvars>>
        /\ panic' = panic
    BY <1>2 DEF FaultFails
  <2>2. NoPanic'
    BY <2>1, PanicIs
  <2> QED
    BY <1>2, <2>1, <2>2
<1>3. CASE pc[t] = "printf"
  <2>1. Panic("kernel fault")
    BY <1>3 DEF FaultFails
  <2>2. panic' = "kernel fault" /\ UNCHANGED avars
    BY <2>1 DEF Panic
  <2>3. panic' \in Breaks("read")
    BY <2>2, BreaksAre
  <2>4. NoPanic'
    BY <1>3, <2>3, PanicIs
  <2> QED
    BY <1>3, <2>2, <2>4
<1>4. CASE pc[t] = "user"
  <2>1. Panic("user fault")
    BY <1>4 DEF FaultFails
  <2>2. panic' = "user fault" /\ UNCHANGED avars
    BY <2>1 DEF Panic
  <2>3. /\ panic' \in Breaks("many pages")
        /\ panic' \in Breaks("bad access")
        /\ panic' \in Breaks("page 0")
    BY <2>2, BreaksAre
  <2>4. NoPanic'
    BY <1>4, <2>3, PanicIs DEF MayFault
  <2> QED
    BY <1>4, <2>2, <2>4
<1> QED
  BY <1>1, <1>2, <1>3, <1>4 DEF Using, Copying

LEMMA FaultPanic ==
  ASSUME AsTypes, AsRight, PanicInv, SameUse, NEW t \in Threads,
         FaultFails(t), pc[t] \in Using,
         pc[t] = "user" => MayFault
  PROVE  PanicInv'
<1>1. NoPanic /\ UseRight(t) /\ env' = env
  BY DEF PanicInv, SameUse
<1>2. /\ NoPanic'
      /\ pc[t] \in {"load", "args"} => LoadFails(t)
      /\ pc[t] = "copy" => /\ Goto(t, "user", NoLocals)
                           /\ UNCHANGED <<asvars, hwvars>>
      /\ pc[t] \in {"printf", "user"} => UNCHANGED avars
  <2>1. pc[t] = "printf" => "read" \in env
    BY <1>1 DEF UseRight
  <2> QED
    BY <1>1, <2>1, FaultFailsIs
<1>3. CASE pc[t] \in {"load", "args"}
  BY <1>2, <1>3, LoadFailsPanic DEF Loading
<1>4. CASE pc[t] = "copy"
  <2>1. t_addrspace[t] # NULL
    BY <1>4, OwnAs, NullIs DEF Using, Copying
  <2> QED
    BY <1>2, <1>4, <2>1, BackUse
<1>5. CASE pc[t] \in {"printf", "user"}
  BY <1>2, <1>5, AsidePanic
<1> QED
  BY <1>3, <1>4, <1>5 DEF Using, Copying

\* vm_fault.
LEMMA VmFaultPanic ==
  ASSUME AsTypes, AsRight, PanicInv, SameUse, NEW t \in Threads,
         NEW v \in Nat, VmFault(t, v), pc[t] \in Using,
         v \in budget.touched \/ v \in Elements(loc[t].todo),
         Translate(as[t_addrspace[t]], v) = 0 =>
           (pc[t] = "user" => MayFault)
  PROVE  PanicInv'
<1>0. PICK p, a : a = as[t_addrspace[t]] /\ p = Translate(a, v)
  OBVIOUS
<1>1. /\ t_addrspace[t] # NULL /\ pc[t] \notin {"prepare", "fork", "create"}
  BY OwnAs, NullIs DEF Using, Copying
<1>2. NoPanic /\ UseRight(t) /\ env' = env
  BY DEF PanicInv, SameUse
<1>3. CASE ~SetUp(a)
  <2>1. Panic("as not set up")
    BY <1>0, <1>3 DEF VmFault
  <2>2. panic' = "as not set up" /\ UNCHANGED avars
    BY <2>1 DEF Panic
  <2>3. /\ panic' \in Breaks("one segment")
        /\ panic' \in Breaks("empty segment")
        /\ panic' \in Breaks("page 0")
    BY <2>2, BreaksAre
  <2>4. \/ "one segment" \in env \/ "empty segment" \in env
        \/ "page 0" \in env
    BY <1>0, <1>1, <1>3, NotSetUp
  <2>5. NoPanic'
    BY <1>2, <2>3, <2>4, PanicIs
  <2> QED
    BY <2>2, <2>5, AsidePanic
<1>4. CASE SetUp(a) /\ p = 0
  <2>1. FaultFails(t)
    BY <1>0, <1>4 DEF VmFault
  <2>2. pc[t] = "user" => MayFault
    BY <1>0, <1>4
  <2> QED
    BY <2>1, <2>2, FaultPanic
<1>5. CASE SetUp(a) /\ p # 0
  <2>0. PICK l : l = [loc[t] EXCEPT !.fault = <<v, p>>]
    OBVIOUS
  <2>1. /\ Goto(t, pc[t], l) /\ UNCHANGED <<asvars, hwvars>>
        /\ panic' = panic
    BY <1>0, <1>5, <2>0 DEF VmFault
  <2>2. NoPanic'
    BY <1>2, <2>1, PanicIs
  <2>3. PICK prog \in Programs : Uses(t, prog)
    BY <1>1, <1>2 DEF UseRight
  <2>4. v \in InUse(prog)
    BY <1>0, <1>1, <1>5, <2>3, TouchedIs DEF Uses
  <2>5. l.fault = <<v, p>> /\ l.todo = loc[t].todo /\ l.prog = loc[t].prog
    BY <2>0 DEF AsTypes, Locals
  <2>6. l.fault[1] = v /\ l.fault[2] = p
    BY <2>5
  <2>7. UseRight(t)'
    BY <1>1, <1>2, <1>5, <2>1, <2>3, <2>4, <2>5, <2>6, LocalUse
    DEF Uses, UseRight
  <2> QED
    BY <1>1, <2>1, <2>2, <2>7, TlbSame, LocalPanic
<1> QED
  BY <1>3, <1>4, <1>5

-----------------------------------------------------------------------------
\* Faults, and the calls of a process.
LEMMA CopyFaultPanic ==
  ASSUME AsTypes, AsRight, PanicInv, NEW t \in Threads, CopyFault(t)
  PROVE  PanicInv'
<1>1. /\ pc[t] \in Copying /\ loc[t].todo # << >> /\ SameUse
      /\ VmFault(t, Wanted(t))
  BY DEF CopyFault, AtAny, SameUse, VmFault
<1>2. PICK todo \in Seq(Nat) : todo = loc[t].todo
  BY DEF AsTypes, Locals
<1>3. Wanted(t) \in Nat /\ Wanted(t) \in Elements(loc[t].todo)
  BY <1>1, <1>2 DEF Wanted, Elements
<1>4. pc[t] \in Using /\ pc[t] # "user"
  BY <1>1 DEF Using, Copying
<1> QED
  BY <1>1, <1>3, <1>4, VmFaultPanic

LEMMA UserFaultPanic ==
  ASSUME AsTypes, AsRight, PanicInv, NEW t \in Threads, NEW v \in Nat,
         v \in budget.touched, UserFault(t, v)
  PROVE  PanicInv'
<1>1. pc[t] = "user" /\ SameUse /\ VmFault(t, v)
  BY DEF UserFault, At, AtAny, SameUse, VmFault
<1>2. Translate(as[t_addrspace[t]], v) = 0 => MayFault
  BY DEF UserFault, MayFault
<1>3. pc[t] \in Using
  BY <1>1 DEF Using
<1> QED
  BY <1>1, <1>2, <1>3, VmFaultPanic

LEMMA TlbWritePanic ==
  ASSUME RamTypes, AsTypes, AsRight, PanicInv, NEW t \in Threads, TlbWrite(t)
  PROVE  PanicInv'
<1>0. PICK f : f = loc[t].fault
  OBVIOUS
<1>1. /\ pc[t] \in Using /\ SameUse /\ f # << >> /\ On(t) # {}
      /\ env' = env
  BY <1>0 DEF TlbWrite, AtAny, SameUse, Using
<1>2. PICK c \in On(t) : c = (CHOOSE x \in On(t) : TRUE)
  BY <1>1
<1>3. /\ c \in Boards /\ On(t) = {c}
      /\ \A v : Hit(t, v) <=> \E i \in DOMAIN tlb[c] : tlb[c][i].v = v
  BY OnIs DEF AsRight
<1>4. /\ t_addrspace[t] # NULL /\ pc[t] \notin {"prepare", "fork", "create"}
  BY <1>1, OwnAs, NullIs DEF Using, Copying
<1>5. CASE Full(c)
  <2>1. FaultFails(t)
    BY <1>2, <1>5 DEF TlbWrite
  <2>2. MayFault
    BY <1>0, <1>1, <1>4, <1>5, NoRoom DEF MayFault
  <2> QED
    BY <1>1, <2>1, <2>2, FaultPanic
<1>6. CASE ~Full(c)
  <2>0. PICK l, e : /\ l = [loc[t] EXCEPT !.fault = << >>]
                    /\ e = [v |-> f[1], p |-> f[2]]
    OBVIOUS
  <2>1. /\ tlb' = [tlb EXCEPT ![c] = Append(tlb[c], e)]
        /\ Goto(t, pc[t], l) /\ panic' = panic
        /\ c_curthread' = c_curthread /\ UNCHANGED asvars
    BY <1>0, <1>2, <1>6, <2>0 DEF TlbWrite
  <2>2. NoPanic'
    BY <1>1, <2>1, PanicIs DEF PanicInv
  <2>3. /\ l.fault = << >> /\ l.todo = loc[t].todo /\ l.prog = loc[t].prog
        /\ f \in Nat \X Nat
    BY <1>0, <1>1, <2>0 DEF AsTypes, Locals
  <2>4. e \in Entry /\ e.v = f[1] /\ e.p = f[2]
    BY <2>0, <2>3 DEF Entry
  <2>5. UseRight(t)
    BY DEF PanicInv
  <2>6. e.p # 0
    BY <1>0, <1>1, <2>4, <2>5 DEF UseRight
  <2>7. PICK s \in Seq(Entry) : s = tlb[c]
    BY <1>3 DEF AsTypes
  <2>8. PICK w : w = Append(s, e)
    OBVIOUS
  <2>9. \A i \in DOMAIN w : w[i] = e \/ (i \in DOMAIN s /\ w[i] = s[i])
    <3>1. /\ DOMAIN w = DOMAIN s \union {Len(s) + 1}
          /\ \A i \in DOMAIN s : w[i] = s[i]
          /\ w[Len(s) + 1] = e
      BY <2>4, <2>7, <2>8
    <3> QED
      BY <3>1
  <2>10. tlb'[c] = w /\ \A d \in Boards \ {c} : tlb'[d] = tlb[d]
    BY <1>3, <2>1, <2>7, <2>8 DEF AsTypes
  <2>11. \A i \in DOMAIN w : w[i].p # 0
    <3>1. \A i \in DOMAIN s : s[i].p # 0
      BY <1>3, <2>7 DEF PanicInv
    <3> QED
      BY <2>6, <2>9, <3>1
  <2>12. Tlbs(t)
    BY <2>1, <2>10, <2>11 DEF Tlbs
  <2>13. PICK prog \in Programs : Uses(t, prog)
    BY <1>4, <2>5 DEF UseRight
  <2>14. \A v : Hit(t, v)' => v \in InUse(prog)
    <3>1. On(t)' = {c}
      BY <1>3, <2>1 DEF On, Boards
    <3>2. ASSUME NEW v, Hit(t, v)'
          PROVE  v \in InUse(prog)
      <4>1. PICK i \in DOMAIN w : w[i].v = v
        BY <2>10, <3>1, <3>2 DEF Hit
      <4>2. CASE w[i] = e
        BY <1>0, <1>1, <2>4, <2>13, <4>1, <4>2 DEF Uses
      <4>3. CASE i \in DOMAIN s /\ w[i] = s[i]
        <5>1. Hit(t, v)
          BY <1>3, <2>7, <4>1, <4>3
        <5> QED
          BY <2>13, <5>1 DEF Uses
      <4> QED
        BY <2>9, <4>2, <4>3
    <3> QED
      BY <3>2
  <2>15. pc'[t] = pc[t] /\ loc'[t] = l
    BY <2>1 DEF AsTypes, Goto
  <2>16. PICK a : a = as[t_addrspace[t]] /\ as'[t_addrspace'[t]] = a
    BY <2>1 DEF asvars
  <2>17. UseRight(t)'
    BY <1>1, <1>4, <2>3, <2>5, <2>13, <2>14, <2>15, <2>16, UseNext
    DEF Uses, UseRight
  <2> QED
    BY <1>1, <1>4, <2>1, <2>2, <2>12, <2>17, LocalPanic
<1> QED
  BY <1>5, <1>6

\* A bus error.
LEMMA BusPanic ==
  ASSUME IInv, PanicInv, SameUse, NEW t \in Threads, On(t) # {}, NEW v,
         Hit(t, v), pc[t] \in Using, NoRam(t, v), Panic("bus error")
  PROVE  PanicInv'
<1>1. panic' = "bus error" /\ UNCHANGED avars
  BY DEF Panic
<1>2. panic' \in Breaks("huge")
  BY <1>1, BreaksAre
<1>3. t_addrspace[t] # NULL /\ pc[t] # "prepare"
  BY OwnAs, NullIs DEF Using, Copying, IInv
<1>4. "huge" \in env
  BY <1>3, RamThere
<1>5. NoPanic'
  BY <1>2, <1>4, PanicIs DEF PanicInv, SameUse
<1> QED
  BY <1>1, <1>5, AsidePanic

LEMMA CopyPagePanic ==
  ASSUME IInv, PanicInv, NEW t \in Threads, CopyPage(t)
  PROVE  PanicInv'
<1>0. AsTypes /\ AsRight
  BY DEF IInv
<1> DEFINE rest == Tail(loc[t].todo)
           l == [loc[t] EXCEPT !.todo = rest]
           m == [l EXCEPT !.todo = <<LastPage>>]
<1>1. /\ pc[t] \in {"load", "args", "copy"} /\ SameUse
      /\ loc[t].todo # << >> /\ On(t) # {} /\ Hit(t, Wanted(t))
      /\ pc[t] \in Using
  BY DEF CopyPage, AtAny, SameUse, Using, Copying
<1>2. CASE NoRam(t, Wanted(t))
  <2>1. Panic("bus error")
    BY <1>2 DEF CopyPage
  <2> QED
    BY <1>1, <1>2, <2>1, BusPanic
<1>3. CASE ~NoRam(t, Wanted(t))
  <2>1. Copied(t, rest) /\ UNCHANGED <<asvars, hwvars>> /\ panic' = panic
    BY <1>3 DEF CopyPage
  <2>2. NoPanic'
    BY <1>1, <2>1, PanicIs DEF PanicInv, SameUse
  <2>3. t_addrspace[t] # NULL /\ pc[t] \notin {"prepare", "fork", "create"}
    BY <1>0, <1>1, OwnAs, NullIs
  <2>4. PICK prog \in Programs : Uses(t, prog)
    BY <2>3 DEF PanicInv, UseRight
  <2>5. PICK todo \in Seq(Nat) : todo = loc[t].todo
    BY <1>0 DEF AsTypes, Locals
  <2>6. rest \in Seq(Nat) /\ Elements(rest) \subseteq Elements(loc[t].todo)
    <3>1. /\ Tail(todo) \in Seq(Nat) /\ Len(Tail(todo)) = Len(todo) - 1
          /\ \A i \in 1 .. Len(Tail(todo)) : Tail(todo)[i] = todo[i + 1]
      BY <1>1, <2>5, HeadTailProperties
    <3>2. \A i \in DOMAIN Tail(todo) :
            i + 1 \in DOMAIN todo /\ Tail(todo)[i] = todo[i + 1]
      BY <2>5, <3>1
    <3> QED
      BY <2>5, <3>1, <3>2 DEF Elements
  <2>7. /\ l.fault = loc[t].fault /\ l.todo = rest
        /\ l.prog = loc[t].prog /\ l.exec = loc[t].exec
    BY <1>0, <2>6, TodoIs, <2>5 DEF AsTypes, Locals
  <2>8. UseRight(t) /\ Uses(t, prog)
    BY <2>4 DEF PanicInv
  <2>9. CASE Goto(t, pc[t], l)
    <3>1. UseRight(t)'
      <4> HIDE DEF l, rest
      <4> QED
        BY <1>0, <1>1, <2>1, <2>3, <2>6, <2>7, <2>8, <2>9, LocalUse
        DEF Uses, UseRight
    <3> HIDE DEF l
    <3> QED
      BY <1>0, <1>1, <2>1, <2>2, <2>3, <2>9, <3>1, TlbSame, LocalPanic
  <2>10. CASE pc[t] # "args" /\ l.exec /\ Goto(t, "args", m)
    <3>1. /\ m.fault = l.fault /\ m.todo = <<LastPage>> /\ m.prog = l.prog
      BY <1>0, <2>6 DEF AsTypes, Locals
    <3>2. pc[t] = "load"
      <4>1. CallRight(t)
        BY <1>0 DEF AsRight, ThreadRight
      <4> QED
        BY <1>1, <2>7, <2>10, <4>1 DEF CallRight, Outside
    <3>3. Elements(m.todo) \subseteq InUse(prog)
      BY <3>1 DEF Elements, InUse
    <3> HIDE DEF m, l, rest
    <3>4. "load" \in Loading
      BY DEF Loading
    <3>5. UseRight(t)'
      BY <1>0, <1>1, <2>1, <2>3, <2>7, <2>8, <2>10, <3>1, <3>2, <3>3, <3>4,
         LocalUse DEF Uses, UseRight
    <3> QED
      BY <1>0, <1>1, <2>1, <2>2, <2>3, <2>10, <3>5, TlbSame, LocalPanic
  <2>11. CASE Goto(t, "user", NoLocals)
    BY <1>0, <1>1, <2>1, <2>2, <2>3, <2>11, BackUse
  <2> QED
    BY <2>1, <2>9, <2>10, <2>11 DEF Copied
<1> QED
  BY <1>2, <1>3

LEMMA UserStorePanic ==
  ASSUME IInv, PanicInv, NEW t \in Threads, NEW v, UserStore(t, v)
  PROVE  PanicInv'
<1>0. AsTypes /\ AsRight
  BY DEF IInv
<1>1. /\ pc[t] = "user" /\ SameUse /\ On(t) # {} /\ Hit(t, v)
      /\ pc[t] \in Using
  BY DEF UserStore, At, AtAny, SameUse, Using
<1>2. CASE NoRam(t, v)
  <2>1. Panic("bus error")
    BY <1>2 DEF UserStore
  <2> QED
    BY <1>1, <1>2, <2>1, BusPanic
<1>3. CASE ~NoRam(t, v)
  <2>1. UNCHANGED <<asvars, hwvars, thvars>> /\ panic' = panic
    BY <1>3 DEF UserStore
  <2>2. NoPanic'
    BY <1>1, <2>1, PanicIs DEF PanicInv, SameUse
  <2>3. PICK label, l : label = pc[t] /\ l = loc[t] /\ Goto(t, label, l)
    BY <1>0, <2>1 DEF Goto, AsTypes, thvars
  <2>4. SameCall(t)
    BY <2>1 DEF SameCall, thvars, asvars
  <2>5. UseRight(t)'
    BY <1>1, <2>1, <2>4, TlbSame, UseStays DEF PanicInv, asvars
  <2> QED
    BY <1>0, <1>1, <2>1, <2>2, <2>3, <2>5, TlbSame, LocalPanic
<1> QED
  BY <1>2, <1>3

LEMMA LoadErrorPanic ==
  ASSUME RamTypes, AsTypes, AsRight, PanicInv, NEW t \in Threads,
         LoadError(t)
  PROVE  PanicInv'
<1>1. pc[t] \in Loading /\ SameUse /\ LoadFails(t) /\ panic' = panic
  BY DEF LoadError, AtAny, Spend, SameUse, Loading, RamTypes
<1>2. NoPanic'
  BY <1>1, PanicIs DEF PanicInv, SameUse
<1> QED
  BY <1>1, <1>2, LoadFailsPanic

LEMMA ExitStepPanic ==
  ASSUME AsTypes, AsRight, PanicInv, NEW t \in Threads, Exit(t)
  PROVE  PanicInv'
<1>1. /\ pc[t] = "user" /\ SameUse /\ ThreadExit(t) /\ panic' = panic
  BY DEF Exit, At, AtAny, SameUse, ramvars
<1>2. ~loc[t].exec
  BY <1>1 DEF AsRight, ThreadRight, CallRight, Outside
<1>3. NoPanic'
  BY <1>1, PanicIs DEF PanicInv, SameUse
<1> QED
  BY <1>1, <1>2, <1>3, ExitPanic DEF Outside

LEMMA PrintedPanic ==
  ASSUME AsTypes, AsRight, PanicInv, NEW t \in Threads, Printed(t)
  PROVE  PanicInv'
<1>1. /\ pc[t] = "printf" /\ SameUse /\ Goto(t, "copy", loc[t])
      /\ UNCHANGED <<asvars, hwvars>> /\ panic' = panic
  BY DEF Printed, At, AtAny, SameUse, ramvars
<1>2. NoPanic'
  BY <1>1, PanicIs DEF PanicInv, SameUse
<1>3. t_addrspace[t] # NULL
  BY <1>1, OwnAs, NullIs DEF Using, Copying
<1>4. PICK prog \in Programs : Uses(t, prog)
  BY <1>3 DEF PanicInv, UseRight
<1>5. UseRight(t)
  BY DEF PanicInv
<1>6. "copy" \notin Loading
  BY DEF Loading
<1>7. UseRight(t)'
  BY <1>1, <1>4, <1>5, <1>6, LocalUse DEF Uses, UseRight
<1> QED
  BY <1>1, <1>2, <1>7, TlbSame, LocalPanic

LEMMA CopyCallPanic ==
  ASSUME RamTypes, AsTypes, AsRight, PanicInv, NEW t \in Threads,
         NEW v \in budget.touched, NEW label \in {"copy", "printf"},
         CopyCall(t, v, label)
  PROVE  PanicInv'
<1>0. PICK l : l = [NoLocals EXCEPT !.todo = <<v>>]
  OBVIOUS
<1>1. /\ pc[t] = "user" /\ SameUse /\ Goto(t, label, l)
      /\ UNCHANGED <<asvars, hwvars>> /\ panic' = panic
      /\ label = "printf" => "read" \in env
  BY <1>0 DEF CopyCall, At, AtAny, Spend, SameUse, RamTypes
<1>2. NoPanic'
  BY <1>1, PanicIs DEF PanicInv, SameUse
<1>3. t_addrspace[t] # NULL
  BY <1>1, OwnAs, NullIs DEF Using
<1>4. PICK prog \in Programs : Uses(t, prog)
  BY <1>3 DEF PanicInv, UseRight
<1>5. l.fault = << >> /\ l.todo = <<v>>
  BY <1>0 DEF NoLocals
<1>6. Elements(l.todo) \subseteq budget.touched
  BY <1>5 DEF Elements
<1>7. label \notin Loading /\ label # "create"
  BY DEF Loading
<1>8. UseRight(t)'
  BY <1>1, <1>4, <1>5, <1>6, <1>7, LocalUse
<1> QED
  BY <1>1, <1>2, <1>8, TlbSame, LocalPanic

LEMMA GetcwdPanic ==
  ASSUME PanicInv, NEW t \in Threads, Getcwd(t)
  PROVE  PanicInv'
<1>1. Panic("not the address space") /\ SameUse /\ "getcwd" \in env
  BY DEF Getcwd, At, AtAny, SameUse
<1>2. panic' = "not the address space" /\ UNCHANGED avars
  BY <1>1 DEF Panic
<1>3. panic' \in Breaks("getcwd")
  BY <1>2, BreaksAre
<1>4. NoPanic'
  BY <1>1, <1>3, PanicIs DEF PanicInv, SameUse
<1> QED
  BY <1>1, <1>2, <1>4, AsidePanic

LEMMA ExecvOverflowsPanic ==
  ASSUME PanicInv, NEW t \in Threads, ExecvOverflows(t)
  PROVE  PanicInv'
<1>1. Panic("beyond kargbuf") /\ SameUse /\ "long arguments" \in env
  BY DEF ExecvOverflows, At, AtAny, SameUse
<1>2. panic' = "beyond kargbuf" /\ UNCHANGED avars
  BY <1>1 DEF Panic
<1>3. panic' \in Breaks("long arguments")
  BY <1>2, BreaksAre
<1>4. NoPanic'
  BY <1>1, <1>3, PanicIs DEF PanicInv, SameUse
<1> QED
  BY <1>1, <1>2, <1>4, AsidePanic

-----------------------------------------------------------------------------
\* execv and runprogram.
LEMMA CreatePanic ==
  ASSUME AsTypes, AsRight, PanicInv, SameUse, NEW t \in Threads,
         NEW prog \in Programs, MayRun(prog), pc[t] \in {"new", "create"},
         Create(t, prog, loc[t])
  PROVE  PanicInv'
<1>13. PICK a \in FreshAs :
         /\ t_addrspace' = [t_addrspace EXCEPT ![t] = a]
         /\ Flush(t) /\ as' = [as EXCEPT ![a] = Defined(prog)]
         /\ Goto(t, "prepare", [loc[t] EXCEPT !.prog = prog, !.new = a])
         /\ panic' = panic
  BY DEF Create
<1>14. PICK l : l = [loc[t] EXCEPT !.prog = prog, !.new = a]
  OBVIOUS
<1>0. /\ t_addrspace' = [t_addrspace EXCEPT ![t] = a]
      /\ l = [loc[t] EXCEPT !.prog = prog, !.new = a]
      /\ Flush(t) /\ as' = [as EXCEPT ![a] = Defined(prog)]
      /\ Goto(t, "prepare", l) /\ panic' = panic
  BY <1>13, <1>14
<1>1. NoPanic'
  BY <1>0, PanicIs DEF PanicInv, SameUse
<1>2. a \in AsIds /\ as[a] = NULL
  BY DEF FreshAs
<1>3. /\ pc'[t] = "prepare" /\ loc'[t] = l /\ t_addrspace'[t] = a
      /\ \A u \in Threads \ {t} : SameCall(u)
  BY <1>0, OthersSame
<1>4. /\ as'[a] = Defined(prog)
      /\ \A x \in AsIds \ {a} : as'[x] = as[x]
  BY <1>0, <1>2 DEF AsTypes
<1>5. CallRight(t)
  BY DEF AsRight, ThreadRight
<1>6. l.fault = << >> /\ l.prog = prog /\ l.new = a
  <2>1. loc[t].fault = << >>
    BY <1>5 DEF CallRight, Copying
  <2> QED
    BY <1>0, <2>1 DEF AsTypes, Locals
<1>7. Tlbs(t) /\ \A v : ~Hit(t, v)'
  BY <1>0, TlbEmpty
<1>8. PICK d : d = Defined(prog) /\ Built(d, prog)
  BY DefinedBuilt
<1>9. as'[t_addrspace'[t]] = d
  BY <1>3, <1>4, <1>8
<1>10. UseRight(t)'
  BY <1>3, <1>6, <1>7, <1>8, <1>9, UseNext
<1>11. Own(t)
  BY <1>2, <1>4 DEF Own
<1>12. Spaces(t)
  <2>1. Preparing(t, a)'
    BY <1>3, <1>6 DEF Preparing
  <2>2. \A x : ~Preparing(t, x)
    BY DEF Preparing
  <2> QED
    BY <1>4, <1>8, <2>1, <2>2 DEF Spaces
<1> QED
  BY <1>1, <1>3, <1>7, <1>10, <1>11, <1>12, PanicKept

LEMMA RunprogramPanic ==
  ASSUME RamTypes, AsTypes, AsRight, PanicInv, NEW t \in Threads,
         NEW prog \in Programs, Runprogram(t, prog)
  PROVE  PanicInv'
<1>1. /\ pc[t] = "new" /\ SameUse /\ Create(t, prog, NoLocals) /\ MayRun(prog)
  BY DEF Runprogram, Call, At, AtAny, Spend, SameUse, RamTypes
<1>2. loc[t] = NoLocals
  BY <1>1 DEF AsRight, ThreadRight, CallRight
<1> QED
  BY <1>1, <1>2, CreatePanic

LEMMA ExecvPanic ==
  ASSUME RamTypes, AsTypes, AsRight, PanicInv, NEW t \in Threads,
         NEW prog \in Programs, Execv(t, prog)
  PROVE  PanicInv'
<1>0. PICK l : l = [NoLocals EXCEPT !.prog = prog, !.exec = TRUE,
                                    !.old = t_addrspace[t]]
  OBVIOUS
<1>1. /\ pc[t] = "user" /\ SameUse /\ MayRun(prog)
      /\ Goto(t, "create", l) /\ panic' = panic
      /\ UNCHANGED <<asvars, hwvars>>
  BY <1>0 DEF Execv, Call, At, AtAny, Spend, SameUse, RamTypes
<1>2. NoPanic'
  BY <1>1, PanicIs DEF PanicInv, SameUse
<1>3. t_addrspace[t] # NULL
  BY <1>1, OwnAs, NullIs DEF Using
<1>4. PICK now \in Programs : Uses(t, now)
  BY <1>3 DEF PanicInv, UseRight
<1>5. l.fault = << >> /\ l.todo = << >> /\ l.prog = prog
  BY <1>0 DEF NoLocals
<1>6. Elements(l.todo) = {} /\ "create" \notin Loading
  BY <1>5 DEF Elements, Loading
<1>7. UseRight(t)'
  BY <1>1, <1>4, <1>5, <1>6, LocalUse
<1> QED
  BY <1>1, <1>2, <1>7, TlbSame, LocalPanic

LEMMA ExecvCreatePanic ==
  ASSUME AsTypes, AsRight, PanicInv, NEW t \in Threads, ExecvCreate(t)
  PROVE  PanicInv'
<1>1. pc[t] = "create" /\ SameUse
  BY DEF ExecvCreate, At, AtAny, SameUse
<1>2. t_addrspace[t] # NULL /\ loc[t].prog \in Programs
  BY <1>1 DEF AsRight, ThreadRight, CallRight
<1>3. CASE Create(t, loc[t].prog, loc[t])
  <2>1. MayRun(loc[t].prog)
    BY <1>1 DEF PanicInv, UseRight
  <2> QED
    BY <1>1, <1>2, <1>3, <2>1, CreatePanic
<1>4. CASE /\ Goto(t, "user", NoLocals) /\ panic' = panic
           /\ UNCHANGED <<asvars, hwvars>>
  <2>1. NoPanic'
    BY <1>1, <1>4, PanicIs DEF PanicInv, SameUse
  <2> QED
    BY <1>1, <1>2, <1>4, <2>1, BackUse
<1> QED
  BY <1>3, <1>4 DEF ExecvCreate

-----------------------------------------------------------------------------
\* as_prepare_load gets the pages of one more region.
GetsPages(t, next, todo) ==
    LET id == loc[t].new
        a == as[id]
    IN
    /\ as' = [as EXCEPT ![id] = [a EXCEPT ![Field(a)] = firstpaddr]]
    /\ firstpaddr # 0
    /\ IF Field(a) = "stackpbase"
       THEN Goto(t, next, [loc[t] EXCEPT !.todo = todo])
       ELSE UNCHANGED <<pc, loc>>
    /\ UNCHANGED <<t_addrspace, hwvars, panic>>

LEMMA GetsPagesIs ==
  ASSUME NEW t, NEW label, NEW next, NEW todo, NEW Fails, SameUse,
         Prepare(t, label, next, todo, Fails)
  PROVE  (Fails /\ panic' = panic) \/ GetsPages(t, next, todo)
<1>1. PICK n : n = Npages(as[loc[t].new])
  OBVIOUS
<1>2. CASE Getppages(n) = 0
  BY <1>1, <1>2 DEF Prepare
<1>3. CASE Getppages(n) # 0
  <2>1. firstpaddr # 0
    BY <1>3 DEF Getppages
  <2> QED
    BY <1>1, <1>3, <2>1 DEF Prepare, GetsPages
<1> QED
  BY <1>2, <1>3

LEMMA BasedIs ==
  ASSUME NEW a \in Addrspace, NEW p \in Nat, p # 0, NEW prog, Built(a, prog)
  PROVE  LET b == [a EXCEPT ![Field(a)] = p] IN
         /\ Built(b, prog)
         /\ Field(a) = "stackpbase" => Based(b)
<1>1. CASE Field(a) = "pbase1"
  BY <1>1 DEF Addrspace, Built
<1>2. CASE Field(a) = "pbase2"
  BY <1>2 DEF Addrspace, Built
<1>3. CASE Field(a) = "stackpbase"
  <2>1. a.pbase1 # 0 /\ a.pbase2 # 0
    BY <1>3 DEF Field
  <2> QED
    BY <1>3, <2>1 DEF Addrspace, Built, Based
<1> QED
  BY <1>1, <1>2, <1>3 DEF Field

LEMMA GetsPagesPanic ==
  ASSUME AsTypes, AsRight, PanicInv, SameUse, firstpaddr \in Nat,
         NEW t \in Threads, NEW label, NEW next, NEW todo, pc[t] = label,
         \/ /\ label = "prepare" /\ next = "load"
            /\ todo = LoadPages(loc[t].prog)
         \/ label = "fork" /\ next = "copied" /\ todo = << >>,
         GetsPages(t, next, todo)
  PROVE  PanicInv'
<1>0. PICK id, a, mine : /\ id = loc[t].new /\ a = as[id]
                         /\ mine = t_addrspace[t]
  OBVIOUS
<1>1. CallRight(t)
  BY DEF AsRight, ThreadRight
<1>2. /\ id # NULL /\ mine # NULL /\ Has(t, id) /\ Has(t, mine)
      /\ label = "prepare" => mine = id
      /\ label = "fork" => mine # id
      /\ loc[t].fault = << >>
  BY <1>0, <1>1 DEF CallRight, Loading, Has, Copying
<1>3. id \in AsIds /\ mine \in AsIds
  BY <1>0, <1>2 DEF AsTypes, AsOrNull, Locals
<1>4. a \in Addrspace /\ a # NULL
  BY <1>0, <1>2, <1>3 DEF AsTypes, AsRight, OwnRight
<1>5. PICK b : b = [a EXCEPT ![Field(a)] = firstpaddr]
  OBVIOUS
<1>6. /\ as'[id] = b /\ \A x \in AsIds \ {id} : as'[x] = as[x]
      /\ firstpaddr # 0 /\ t_addrspace' = t_addrspace
      /\ UNCHANGED hwvars /\ panic' = panic
  BY <1>0, <1>3, <1>5 DEF GetsPages, AsTypes
<1>7. NoPanic'
  BY <1>6, PanicIs DEF PanicInv, SameUse
<1>8. \A prog : Built(a, prog) =>
        Built(b, prog) /\ (Field(a) = "stackpbase" => Based(b))
  BY <1>4, <1>5, <1>6, BasedIs
<1>9. PICK now, l : now = pc'[t] /\ l = loc'[t]
  OBVIOUS
<1>10. /\ \/ /\ Field(a) = "stackpbase" /\ now = next /\ l.todo = todo
          \/ now = label /\ l = loc[t] /\ Preparing(t, id)'
       /\ l.fault = << >> /\ l.prog = loc[t].prog
       /\ \A u \in Threads \ {t} : SameCall(u)
  <2>1. CASE Field(a) = "stackpbase"
    <3>1. Goto(t, next, [loc[t] EXCEPT !.todo = todo])
      BY <1>0, <2>1 DEF GetsPages
    <3>2. /\ now = next /\ l = [loc[t] EXCEPT !.todo = todo]
          /\ \A u \in Threads \ {t} : pc'[u] = pc[u] /\ loc'[u] = loc[u]
      BY <1>9, <3>1 DEF Goto, AsTypes
    <3>3. l.todo = todo /\ l.fault = loc[t].fault /\ l.prog = loc[t].prog
      BY <3>2 DEF AsTypes, Locals
    <3> QED
      BY <1>2, <1>6, <2>1, <3>2, <3>3 DEF SameCall
  <2>2. CASE Field(a) # "stackpbase"
    <3>1. UNCHANGED <<pc, loc>>
      BY <1>0, <2>2 DEF GetsPages
    <3>2. now = label /\ l = loc[t] /\ Preparing(t, id)'
      BY <1>0, <1>9, <3>1 DEF Preparing
    <3> QED
      BY <1>2, <1>6, <3>1, <3>2 DEF SameCall
  <2> QED
    BY <2>1, <2>2
<1>11. Own(t)
  BY <1>2, <1>6 DEF Own
<1>12. Spaces(t)
  <2>1. PICK prog \in Programs : MayRun(prog) /\ Built(a, prog)
    BY <1>0, <1>3, <1>4 DEF PanicInv, BuiltRight
  <2>2. Built(b, prog) /\ (Based(b) \/ Preparing(t, id)')
    BY <1>8, <1>10, <2>1
  <2>3. \A x \in AsIds \ {id} : ~Preparing(t, x)
    BY <1>0 DEF Preparing
  <2> QED
    BY <1>6, <2>1, <2>2, <2>3 DEF Spaces
<1>13. PICK prog \in Programs : Uses(t, prog)
  BY <1>0, <1>2 DEF PanicInv, UseRight
<1>14. PICK c : c = as'[t_addrspace'[t]] /\ Built(c, prog)
  <2>1. Built(as[mine], prog)
    BY <1>0, <1>13 DEF Uses
  <2>2. as'[mine] = b \/ as'[mine] = as[mine]
    BY <1>2, <1>3, <1>6
  <2>3. mine = id \/ as'[mine] = as[mine]
    BY <1>3, <1>6
  <2>4. Built(as'[mine], prog)
    BY <1>0, <1>6, <1>8, <2>1, <2>3
  <2>5. as'[mine] = as'[t_addrspace'[t]]
    BY <1>0, <1>6
  <2> QED
    BY <2>4, <2>5
<1>15. now \in Loading => prog = l.prog
  BY <1>10, <1>13 DEF Uses, Loading
<1>16. now # "prepare" => Elements(l.todo) \subseteq
                            InUse(prog) \union budget.touched
  <2>1. CASE now = "load"
    <3>1. l.todo = LoadPages(prog)
      BY <1>10, <1>15, <2>1 DEF Loading
    <3> QED
      BY <3>1 DEF Elements, InUse
  <2>2. CASE now = "copied"
    <3>1. l.todo = << >>
      BY <1>10, <2>2
    <3> QED
      BY <3>1 DEF Elements
  <2>3. CASE now = "fork"
    BY <1>10, <1>13, <2>3 DEF Uses
  <2> QED
    BY <1>10, <2>1, <2>2, <2>3
<1>17. \A v : Hit(t, v)' => v \in InUse(prog)
  BY <1>6, <1>13, TlbSame DEF Uses
<1>18. UseRight(t)'
  BY <1>9, <1>10, <1>13, <1>14, <1>15, <1>16, <1>17, UseNext DEF Uses
<1> QED
  BY <1>6, <1>7, <1>10, <1>11, <1>12, <1>18, TlbSame, PanicKept

LEMMA PrepareLoadPanic ==
  ASSUME AsTypes, AsRight, PanicInv, firstpaddr \in Nat, NEW t \in Threads,
         PrepareLoad(t)
  PROVE  PanicInv'
<1>1. pc[t] = "prepare" /\ SameUse
  BY DEF PrepareLoad, Prepare, At, AtAny, SameUse
<1>2. \/ LoadFails(t) /\ panic' = panic
      \/ GetsPages(t, "load", LoadPages(loc[t].prog))
  BY <1>1, GetsPagesIs DEF PrepareLoad
<1>3. CASE LoadFails(t) /\ panic' = panic
  <2>1. NoPanic'
    BY <1>1, <1>3, PanicIs DEF PanicInv, SameUse
  <2> QED
    BY <1>1, <1>3, <2>1, LoadFailsPanic DEF Loading
<1>4. CASE GetsPages(t, "load", LoadPages(loc[t].prog))
  BY <1>1, <1>4, GetsPagesPanic
<1> QED
  BY <1>2, <1>3, <1>4

LEMMA ForkPreparePanic ==
  ASSUME AsTypes, AsRight, PanicInv, firstpaddr \in Nat, NEW t \in Threads,
         ForkPrepare(t)
  PROVE  PanicInv'
<1>1. pc[t] = "fork" /\ SameUse
  BY DEF ForkPrepare, Prepare, At, AtAny, SameUse
<1>2. \/ ForkFails(t) /\ panic' = panic
      \/ GetsPages(t, "copied", << >>)
  BY <1>1, GetsPagesIs DEF ForkPrepare
<1>3. CASE ForkFails(t) /\ panic' = panic
  <2>1. NoPanic'
    BY <1>1, <1>3, PanicIs DEF PanicInv, SameUse
  <2> QED
    BY <1>1, <1>3, <2>1, ForkFailsPanic
<1>4. CASE GetsPages(t, "copied", << >>)
  BY <1>1, <1>4, GetsPagesPanic
<1> QED
  BY <1>2, <1>3, <1>4

-----------------------------------------------------------------------------
\* fork, and the return of the child.
LEMMA ForkPanic ==
  ASSUME RamTypes, AsTypes, AsRight, PanicInv, NEW t \in Threads,
         NEW u \in Threads, Fork(t, u)
  PROVE  PanicInv'
<1>1. /\ pc[t] = "user" /\ SameUse
      /\ UNCHANGED <<t_addrspace, hwvars>> /\ panic' = panic
  BY DEF Fork, Call, At, AtAny, Spend, SameUse, RamTypes
<1>2. NoPanic'
  BY <1>1, PanicIs DEF PanicInv, SameUse
<1>3. PICK id, old : id = t_addrspace[t] /\ old = as[t_addrspace[t]]
  OBVIOUS
<1>4. id # NULL /\ id \in AsIds /\ as[id] # NULL /\ old = as[id]
  BY <1>1, <1>3, OwnAs, NullIs DEF Using
<1>5. PICK a \in FreshAs :
        /\ as' = [as EXCEPT ![a] = [NewAs EXCEPT
                     !.vbase1 = old.vbase1, !.npages1 = old.npages1,
                     !.vbase2 = old.vbase2, !.npages2 = old.npages2]]
        /\ Goto(t, "fork", [NoLocals EXCEPT !.new = a, !.child = u])
  BY <1>3 DEF Fork
<1>6. a \in AsIds /\ as[a] = NULL /\ a # id
  BY <1>4 DEF FreshAs
<1>7. PICK b, l : /\ b = [NewAs EXCEPT
                     !.vbase1 = old.vbase1, !.npages1 = old.npages1,
                     !.vbase2 = old.vbase2, !.npages2 = old.npages2]
                  /\ l = [NoLocals EXCEPT !.new = a, !.child = u]
  OBVIOUS
<1>8. /\ as'[a] = b /\ \A x \in AsIds \ {a} : as'[x] = as[x]
  BY <1>5, <1>6, <1>7 DEF AsTypes
<1>9. /\ l.new = a /\ l.fault = << >> /\ l.todo = << >>
      /\ Elements(l.todo) = {}
  BY <1>7 DEF NoLocals, Elements
<1>10. /\ pc'[t] = "fork" /\ loc'[t] = l /\ t_addrspace'[t] = id
       /\ \A w \in Threads \ {t} : SameCall(w)
  BY <1>1, <1>3, <1>5, <1>7 DEF AsTypes, Goto, SameCall
<1>11. PICK prog \in Programs : Uses(t, prog)
  BY <1>3, <1>4 DEF PanicInv, UseRight
<1>12. Built(old, prog) /\ MayRun(prog)
  BY <1>3, <1>11 DEF Uses
<1>13. Built(b, prog)
  BY <1>7, <1>12 DEF Built, NewAs
<1>14. as'[t_addrspace'[t]] = old
  BY <1>4, <1>6, <1>8, <1>10
<1>15. \A v : Hit(t, v)' => v \in InUse(prog)
  BY <1>1, <1>11, TlbSame DEF Uses
<1>16. "fork" \notin Loading
  BY DEF Loading
<1>17. UseRight(t)'
  BY <1>1, <1>9, <1>10, <1>12, <1>14, <1>15, <1>16, UseNext
<1>18. Own(t)
  BY <1>6, <1>8 DEF Own
<1>19. Spaces(t)
  <2>1. Preparing(t, a)' /\ \A x : ~Preparing(t, x)
    BY <1>1, <1>9, <1>10 DEF Preparing
  <2> QED
    BY <1>8, <1>12, <1>13, <2>1 DEF Spaces
<1> QED
  BY <1>1, <1>2, <1>10, <1>17, <1>18, <1>19, TlbSame, PanicKept

LEMMA ForkEndPanic ==
  ASSUME AsTypes, AsRight, PanicInv, NEW t \in Threads, ForkEnd(t)
  PROVE  PanicInv'
<1>1. pc[t] = "copied" /\ SameUse /\ panic' = panic
  BY DEF ForkEnd, At, AtAny, SameUse, ramvars
<1>2. NoPanic'
  BY <1>1, PanicIs DEF PanicInv, SameUse
<1>3. CASE ForkFails(t)
  BY <1>1, <1>2, <1>3, ForkFailsPanic
<1>4. CASE ~ForkFails(t)
  <2>0. PICK u, l : /\ u = loc[t].child
                    /\ l = [NoLocals EXCEPT !.new = loc[t].new]
    OBVIOUS
  <2>1. /\ pc[u] = "new"
        /\ pc' = [pc EXCEPT ![t] = "user", ![u] = "child"]
        /\ loc' = [loc EXCEPT ![t] = NoLocals, ![u] = l]
        /\ UNCHANGED <<asvars, hwvars>>
    BY <1>4, <2>0 DEF ForkEnd
  <2>2. u \in Threads \ {t} /\ t_addrspace[t] # NULL
    BY <1>1, <2>0 DEF AsRight, ThreadRight, CallRight
  <2>3. t_addrspace[u] = NULL
    BY <2>1, <2>2 DEF AsRight, ThreadRight, CallRight
  <2>4. /\ pc'[t] = "user" /\ loc'[t] = NoLocals
        /\ pc'[u] = "child" /\ loc'[u] = l
        /\ \A w \in Threads \ {t, u} : SameCall(w)
    BY <2>1, <2>2 DEF AsTypes, SameCall, asvars
  <2>5. l.fault = << >>
    BY <2>0 DEF NoLocals
  <2>6. UseRight(u)'
    BY <2>1, <2>2, <2>3, <2>4, <2>5, UseNone DEF asvars
  <2>7. PICK prog \in Programs : Uses(t, prog)
    BY <2>2 DEF PanicInv, UseRight
  <2>8. PICK a : a = as[t_addrspace[t]] /\ as'[t_addrspace'[t]] = a
    BY <2>1 DEF asvars
  <2>9. \A v : Hit(t, v)' => v \in InUse(prog)
    BY <2>1, <2>7, TlbSame DEF Uses
  <2>10. UseRight(t)'
    BY <1>1, <2>4, <2>7, <2>8, <2>9, UserUse DEF Uses
  <2>11. Own(t) /\ Spaces(t)
    BY <1>1, <2>1 DEF Own, Spaces, Preparing, asvars
  <2>12. \A w \in Threads \ {t} :
           SameCall(w) \/ (UseRight(w)' /\ pc[w] \notin {"prepare", "fork"})
    BY <2>1, <2>4, <2>6
  <2> QED
    BY <1>1, <1>2, <2>1, <2>10, <2>11, <2>12, TlbSame, PanicKept
<1> QED
  BY <1>3, <1>4

LEMMA ChildReturnPanic ==
  ASSUME AsTypes, AsRight, PanicInv, NEW t \in Threads, ChildReturn(t)
  PROVE  PanicInv'
<1>1. PICK new : new = loc[t].new
  OBVIOUS
<1>2. /\ pc[t] = "child" /\ SameUse /\ Flush(t) /\ Goto(t, "user", NoLocals)
      /\ t_addrspace' = [t_addrspace EXCEPT ![t] = new]
      /\ as' = as /\ panic' = panic
  BY <1>1 DEF ChildReturn, At, AtAny, SameUse, ramvars
<1>3. NoPanic'
  BY <1>2, PanicIs DEF PanicInv, SameUse
<1>4. new # NULL
  BY <1>1, <1>2 DEF AsRight, ThreadRight, CallRight
<1>5. new \in AsIds /\ Has(t, new)
  BY <1>1, <1>2, <1>4 DEF AsTypes, AsOrNull, Locals, Has
<1>6. /\ pc'[t] = "user" /\ loc'[t] = NoLocals /\ t_addrspace'[t] = new
      /\ \A u \in Threads \ {t} : SameCall(u)
  BY <1>2, OthersSame
<1>7. as[new] # NULL
  BY <1>5 DEF AsRight, OwnRight
<1>8. PICK prog \in Programs : MayRun(prog) /\ Built(as[new], prog)
  BY <1>5, <1>7 DEF PanicInv, BuiltRight
<1>9. PICK a : a = as[new] /\ as'[t_addrspace'[t]] = a
  BY <1>2, <1>6
<1>10. UseRight(t)'
  BY <1>2, <1>6, <1>8, <1>9, TlbEmpty, UserUse
<1>11. Own(t) /\ Spaces(t)
  BY <1>2 DEF Own, Spaces, Preparing
<1> QED
  BY <1>2, <1>3, <1>6, <1>10, <1>11, TlbEmpty, PanicKept

-----------------------------------------------------------------------------
\* thread_switch, and a processor that idles.
LEMMA BoardPanic ==
  ASSUME AsTypes, PanicInv, NEW c \in Boards, NEW t \in Threads \union {NULL},
         c_curthread' = [c_curthread EXCEPT ![c] = t],
         UNCHANGED <<asvars, memvars, thvars, ramvars>>,
         tlb' = tlb \/ tlb' = [tlb EXCEPT ![c] = << >>],
         t # NULL /\ t_addrspace[t] # NULL => tlb'[c] = << >>,
         t # NULL => On(t) \subseteq {c}
  PROVE  PanicInv'
<1>1. /\ Boards' = Boards /\ c_curthread'[c] = t
      /\ \A d \in Boards \ {c} : c_curthread'[d] = c_curthread[d]
      /\ \A d \in Boards \ {c} : tlb'[d] = tlb[d]
      /\ \A d \in Boards : tlb'[d] = tlb[d] \/ tlb'[d] = << >>
  BY DEF AsTypes, Boards
<1>2. UNCHANGED <<asvars, pc, loc>> /\ SameUse /\ panic' = panic
  BY DEF asvars, thvars, ramvars, SameUse
<1>3. NoPanic'
  BY <1>2, PanicIs DEF PanicInv, SameUse
<1>4. ASSUME NEW u \in Threads, t_addrspace[u] # NULL, NEW v, Hit(u, v)'
      PROVE  Hit(u, v)
  <2>1. PICK d : /\ d \in Boards /\ c_curthread'[d] = u
                 /\ \E i \in DOMAIN tlb'[d] : tlb'[d][i].v = v
    BY <1>1, <1>4 DEF Hit, On
  <2>2. d # c
    BY <1>1, <1>4, <2>1, NullIs
  <2>3. d \in On(u) /\ tlb'[d] = tlb[d]
    BY <1>1, <2>1, <2>2 DEF On
  <2> QED
    BY <2>1, <2>3 DEF Hit
<1> QED
  BY <1>1, <1>2, <1>3, <1>4, QuietPanic

LEMMA SwitchPanic ==
  ASSUME AsTypes, PanicInv, NEW c \in Boards, NEW t \in Threads, Switch(c, t)
  PROVE  PanicInv'
<1>1. /\ c_curthread' = [c_curthread EXCEPT ![c] = t] /\ On(t) \subseteq {c}
      /\ UNCHANGED <<asvars, memvars, thvars, ramvars>>
      /\ tlb' = tlb \/ tlb' = [tlb EXCEPT ![c] = << >>]
      /\ t_addrspace[t] # NULL => tlb'[c] = << >>
  BY DEF Switch, Activates, AsTypes
<1> QED
  BY <1>1, BoardPanic

LEMMA IdlePanic ==
  ASSUME AsTypes, PanicInv, NEW c \in Boards, Idle(c)
  PROVE  PanicInv'
<1>1. /\ c_curthread' = [c_curthread EXCEPT ![c] = NULL]
      /\ UNCHANGED <<tlb, asvars, memvars, thvars, ramvars>>
  BY DEF Idle
<1> QED
  BY <1>1, BoardPanic

-----------------------------------------------------------------------------
\* The heap panics only where memory runs out by wrap-around.
LEMMA HeapPanics ==
  ASSUME HeapNext
  PROVE  panic' = panic \/ panic' = "heap"
<1>1. \A t \in Callers : \A b :
        Kfree(t, b) => panic' = panic \/ panic' = "heap"
  BY DEF Kfree, SubpageKfree
<1>2. \A t \in Callers : \A sz : Kmalloc(t, sz) => panic' = panic
  BY DEF Kmalloc
<1>3. \A t \in Callers : /\ KmallocPage(t) => panic' = panic
                         /\ Allocpageref(t) => panic' = panic
                         /\ RefPage(t) => panic' = panic
                         /\ Allocpagerefpage(t) => panic' = panic
  BY DEF KmallocPage, Allocpageref, RefPage, Allocpagerefpage
<1> QED
  BY <1>1, <1>2, <1>3 DEF HeapNext

LEMMA HeapPanic ==
  ASSUME SoundInv, PanicInv, HeapNext, UNCHANGED avars
  PROVE  PanicInv'
<1>1. SoundInv'
  BY HeapSoundKept
<1>2. SameUse
  <2>1. HeapRight /\ UNCHANGED as
    BY DEF SoundInv, IInv, HeapRight, avars, asvars
  <2> QED
    BY <2>1, HeapKept
<1>3. env' = env
  BY <1>2 DEF SameUse
<1>4. CASE "huge" \notin env
  <2>1. Ready
    BY <1>1, <1>3, <1>4 DEF Ready, SoundInv, IInv, HeapRight, HeapInv
  <2>2. panic' = panic
    BY <2>1, ActSound DEF Kept
  <2> QED
    BY <1>2, <1>3, <2>2, PanicIs, AsidePanic DEF PanicInv
<1>5. CASE "huge" \in env
  <2>1. panic' = panic \/ panic' \in Breaks("huge")
    BY HeapPanics, BreaksAre
  <2>2. NoPanic'
    BY <1>3, <1>5, <2>1, PanicIs DEF PanicInv
  <2> QED
    BY <1>2, <2>2, AsidePanic
<1> QED
  BY <1>4, <1>5

LEMMA ProcPanic ==
  ASSUME IInv, PanicInv, ProcNext
  PROVE  PanicInv'
<1>1. /\ RamTypes /\ AsTypes /\ AsRight
      /\ firstpaddr \in Nat /\ \A v \in budget.touched : v \in Nat
  BY RamAssumptions DEF RamTypes, IInv
<1>2. CASE \E c \in Boards : Idle(c) \/ \E t \in Threads : Switch(c, t)
  BY <1>1, <1>2, IdlePanic, SwitchPanic
<1>3. ASSUME NEW t \in Threads,
             \/ TlbWrite(t) \/ CopyFault(t) \/ PrepareLoad(t)
             \/ CopyPage(t) \/ LoadError(t) \/ ExecvCreate(t)
      PROVE  PanicInv'
  BY <1>1, <1>3, TlbWritePanic, CopyFaultPanic, PrepareLoadPanic,
     CopyPagePanic, LoadErrorPanic, ExecvCreatePanic
<1>4. ASSUME NEW t \in Threads,
             \/ ExecvEnd(t) \/ ForkPrepare(t) \/ ForkEnd(t) \/ ChildReturn(t)
             \/ Exit(t) \/ Printed(t) \/ Getcwd(t) \/ ExecvOverflows(t)
      PROVE  PanicInv'
  BY <1>1, <1>4, ExecvEndPanic, ForkPreparePanic, ForkEndPanic,
     ChildReturnPanic, ExitStepPanic, PrintedPanic, GetcwdPanic,
     ExecvOverflowsPanic
<1>5. ASSUME NEW t \in Threads,
             \/ \E prog \in Programs : Runprogram(t, prog) \/ Execv(t, prog)
             \/ \E u \in Threads : Fork(t, u)
      PROVE  PanicInv'
  BY <1>1, <1>5, RunprogramPanic, ExecvPanic, ForkPanic
<1>6. ASSUME NEW t \in Threads, NEW v \in budget.touched,
             \/ UserStore(t, v) \/ UserFault(t, v)
             \/ CopyCall(t, v, "copy") \/ CopyCall(t, v, "printf")
      PROVE  PanicInv'
  BY <1>1, <1>6, UserStorePanic, UserFaultPanic, CopyCallPanic
<1> QED
  BY <1>2, <1>3, <1>4, <1>5, <1>6 DEF ProcNext

LEMMA InitPanic ==
  ASSUME Init
  PROVE  PanicInv
<1> USE DEF Init, RamInit, AsInit
<1>1. NoPanic
  BY DEF NoPanic
<1>2. \A id \in AsIds : BuiltRight(id) /\ BasedRight(id)
  BY DEF BuiltRight, BasedRight
<1>3. \A t \in Threads : UseRight(t)
  BY DEF UseRight, NoLocals
<1>4. \A c \in Boards : \A i \in DOMAIN tlb[c] : tlb[c][i].p # 0
  BY DEF Boards
<1> QED
  BY <1>1, <1>2, <1>3, <1>4 DEF PanicInv

LEMMA PanicStep ==
  ASSUME SoundInv, PanicInv, [Next]_vars
  PROVE  PanicInv'
<1>1. CASE HeapNext /\ UNCHANGED avars
  BY <1>1, HeapPanic
<1>2. CASE ProcNext
  BY <1>2, ProcPanic DEF SoundInv
<1>3. CASE UNCHANGED vars
  <2>1. UNCHANGED avars /\ SameUse /\ panic' = panic
    BY <1>3 DEF vars, ramvars, SameUse
  <2>2. NoPanic'
    BY <2>1, PanicIs DEF PanicInv, SameUse
  <2> QED
    BY <2>1, <2>2, AsidePanic
<1> QED
  BY <1>1, <1>2, <1>3 DEF Next

\* With programs of two segments that touch only what they have, and no more
\* pages than the TLB has entries, no assertion of kmalloc.c and dumbvm.c
\* fails and neither trap.c nor uiomove panics, out of memory or not, in any
\* interleaving of processes and callers of kmalloc on any number of
\* processors; what does go wrong otherwise is what Breaks says.
THEOREM VmNoPanic == Spec => []NoPanic
<1>1. Init => SoundInv /\ PanicInv
  BY InitSound, InitPanic
<1>2. SoundInv /\ PanicInv /\ [Next]_vars => (SoundInv /\ PanicInv)'
  BY SoundStep, PanicStep
<1>3. SoundInv /\ PanicInv => NoPanic
  BY DEF PanicInv
<1> QED
  BY <1>1, <1>2, <1>3, PTL DEF Spec

=============================================================================
