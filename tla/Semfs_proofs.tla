---------------------------- MODULE Semfs_proofs ----------------------------
(***************************************************************************)
(* Proofs about Semfs: for any numbers of threads, names, heap addresses   *)
(* and numbers, any largest count and any set of events, a semaphore is    *)
(* one for those who use it, and what fails is what Breaks lists.          *)
(*                                                                         *)
(* Rest is what the operations keep, with Types.  First what a step that   *)
(* leaves a part of the state alone keeps; then the steps that only move a *)
(* thread through its call, those that change a count and a channel, those *)
(* that change the table and the directory, and those that change vnodes.  *)
(***************************************************************************)
EXTENDS Semfs, FiniteSetTheorems, SequenceTheorems, TLAPS

Labels == {"run", "lookup", "getvnode", "incref", "read", "asleep", "reclaim"}

LiveSem ==
    [live : {TRUE}, count : 0 .. UINT_MAX, hasvnode : BOOLEAN,
     linked : BOOLEAN, sleepers : Seq(Threads), due : Int]

Locs == [num : Nums \union {NULL}, resid : Nat, new : BOOLEAN]

Dents == [name : Names, semnum : Nums]

\* What TypeOK says and the types of what it leaves out.
Types ==
    /\ sem \in [Sems -> LiveSem \union {FreeSem}]
    /\ semfs_sems \in Seq(Sems \union {NULL})
    /\ Len(semfs_sems) <= SEMFS_ROOTDIR
    /\ semfs_dents \in Seq(Dents \union {NULL})
    /\ vn_refcount \in [Nums -> Nat]
    /\ {dirlock, tablelock, biglock} \subseteq Threads \union {NULL}
    /\ pc \in [Threads -> Labels]
    /\ loc \in [Threads -> Locs]
    /\ open \in [Threads -> Nums \union {NULL}]
    /\ opened \in [Threads -> Sems \union {NULL}]
    /\ env \subseteq EnvEvents

\* The semaphore of a number.
Has(n) == n \in DOMAIN semfs_sems /\ semfs_sems[n] # NULL

\* A number leads to a semaphore of its own, which has a vnode while the
\* vnode is referenced.
TableRight ==
    /\ \A n \in DOMAIN semfs_sems : semfs_sems[n] # NULL =>
          /\ sem[semfs_sems[n]].live
          /\ sem[semfs_sems[n]].hasvnode <=> vn_refcount[n] > 0
    /\ \A n \in Nums : vn_refcount[n] > 0 => Has(n)
    /\ \A m, n \in DOMAIN semfs_sems :
          semfs_sems[m] = semfs_sems[n] /\ semfs_sems[m] # NULL => m = n

\* A vnode is referenced by those who have it open.
Openers(n) == {t \in Threads : open[t] = n}
CountsRight == \A n \in Nums : vn_refcount[n] = Cardinality(Openers(n))

\* A creat that has not yet linked the semaphore n.
Making(n) ==
    \E t \in Threads : pc[t] = "getvnode" /\ loc[t].new /\ loc[t].num = n

\* Different entries have different names and lead to different semaphores.
NamesRight ==
    /\ \A i \in DOMAIN semfs_dents : semfs_dents[i] # NULL =>
          /\ Has(semfs_dents[i].semnum)
          /\ \/ sem[semfs_sems[semfs_dents[i].semnum]].linked
             \/ Making(semfs_dents[i].semnum)
    /\ \A i, j \in DOMAIN semfs_dents :
          /\ semfs_dents[i] # NULL /\ semfs_dents[j] # NULL
          /\ \/ semfs_dents[i].name = semfs_dents[j].name
             \/ semfs_dents[i].semnum = semfs_dents[j].semnum
          => i = j

\* A call that gets a vnode has the directory locked, so that the semaphore
\* stays; a new one has no vnode before.
CallOf(t) ==
    /\ pc[t] \in {"getvnode", "incref"} =>
          dirlock = t /\ loc[t].num \in Nums /\ Has(loc[t].num)
    /\ pc[t] \in {"lookup", "getvnode", "incref"} => open[t] = NULL
    /\ pc[t] = "incref" => vn_refcount[loc[t].num] > 0
    /\ loc[t].new => pc[t] = "getvnode" /\ vn_refcount[loc[t].num] = 0
    /\ pc[t] = "reclaim" => "reclaim" \in env
    /\ pc[t] \in {"read", "asleep"} => open[t] # NULL /\ loc[t].resid > 0
CallsRight == \A t \in Threads : CallOf(t)

\* What is open has a number and an address.
OpenRight ==
    \A t \in Threads : open[t] # NULL =>
        open[t] \in DOMAIN semfs_sems /\ opened[t] \in Sems

\* Who is on the channel of a semaphore sleeps, and has that one open.
SleepRight ==
    \A s \in Sems : sem[s].live =>
        \A i \in 1 .. Len(sem[s].sleepers) :
            /\ pc[sem[s].sleepers[i]] = "asleep"
            /\ Getsem(sem[s].sleepers[i]) = s
            /\ \A j \in 1 .. Len(sem[s].sleepers) :
                  sem[s].sleepers[j] = sem[s].sleepers[i] => j = i

\* A count is 1 when it is positive while readers sleep: any more would have
\* woken all of them.  One reader is on its way to take it.
WakesRight ==
    \A s \in Sems :
        /\ sem[s].live /\ "later_v" \notin env
        /\ sem[s].count > 0 /\ sem[s].sleepers # <<>>
        => /\ sem[s].count = 1
           /\ \E t \in Threads : pc[t] = "read" /\ Getsem(t) = s

SemfsInv ==
    /\ Types /\ NoPanic
    /\ TableRight /\ CountsRight /\ NamesRight /\ CallsRight
    /\ OpenRight /\ OpenStays /\ SleepRight /\ WakesRight /\ Conserved

-----------------------------------------------------------------------------
\* Sequences and sets.

\* semfs_sem_insert and semfs_creat look for the first element that is NULL.
LEMMA FirstFreeIs ==
  ASSUME NEW S, NEW seq \in Seq(S)
  PROVE  /\ FirstFree(seq) \in 1 .. Len(seq) + 1
         /\ FirstFree(seq) <= Len(seq) => seq[FirstFree(seq)] = NULL
<1> DEFINE free == {i \in DOMAIN seq : seq[i] = NULL}
<1>0. /\ Len(seq) \in Nat /\ DOMAIN seq = 1 .. Len(seq)
      /\ free \subseteq 1 .. Len(seq)
  OBVIOUS
<1>1. CASE free = {}
  <2>1. FirstFree(seq) = Len(seq) + 1
    BY <1>1 DEF FirstFree
  <2> QED
    BY <1>0, <2>1
<1>2. CASE free # {}
  <2>1. free \in SUBSET Nat
    BY <1>0
  <2>2. IsWellFoundedOn(OpToRel(<, Nat), Nat)
    BY NatLessThanWellFounded
  <2>3. PICK x \in free : \A y \in free : <<y, x>> \notin OpToRel(<, Nat)
    BY <1>2, <2>1, <2>2, WFMin
  <2>4. \A y \in free : ~(y < x)
    BY <2>1, <2>3 DEF OpToRel
  <2>5. \A y \in free : x <= y
    BY <2>1, <2>4
  <2>6. FirstFree(seq) \in free
    BY <1>2, <2>5 DEF FirstFree
  <2> QED
    BY <1>0, <2>6
<1> QED
  BY <1>1, <1>2

\* An element is replaced, or one is appended: array_set, array_add.
LEMMA PlacesIs ==
  ASSUME NEW m \in Nat, NEW i \in 1 .. m + 1,
         NEW n, n = IF i > m THEN i ELSE m
  PROVE  n \in Nat /\ 1 .. n = (1 .. m) \union {i}
<1>1. CASE i = m + 1
  <2>1. n = m + 1
    BY <1>1
  <2>2. 1 .. m + 1 = (1 .. m) \union {m + 1}
    OBVIOUS
  <2> QED
    BY <1>1, <2>1, <2>2
<1>2. CASE i \in 1 .. m
  BY <1>2
<1> QED
  BY <1>1, <1>2

\* An array grows by at most the new element.
LEMMA PutDomain ==
  ASSUME NEW S, NEW seq \in Seq(S), NEW x \in S, NEW i \in 1 .. Len(seq) + 1
  PROVE  \A j : j \in DOMAIN Put(seq, i, x) <=> j \in DOMAIN seq \/ j = i
<1>1. PICK n : n = IF i > Len(seq) THEN i ELSE Len(seq)
  OBVIOUS
<1>2. Len(seq) \in Nat /\ DOMAIN seq = 1 .. Len(seq)
  OBVIOUS
<1>3. 1 .. n = (1 .. Len(seq)) \union {i}
  BY <1>1, <1>2, PlacesIs
<1>4. DOMAIN Put(seq, i, x) = 1 .. n
  BY <1>1 DEF Put
<1> QED
  BY <1>2, <1>3, <1>4

\* The result is an array of the same kind.
LEMMA PutSeq ==
  ASSUME NEW S, NEW seq \in Seq(S), NEW x \in S, NEW i \in 1 .. Len(seq) + 1
  PROVE  Put(seq, i, x) \in Seq(S)
<1>1. PICK n : n = IF i > Len(seq) THEN i ELSE Len(seq)
  OBVIOUS
<1>2. Len(seq) \in Nat /\ \A j \in 1 .. Len(seq) : seq[j] \in S
  OBVIOUS
<1>3. n \in Nat /\ 1 .. n = (1 .. Len(seq)) \union {i}
  BY <1>1, <1>2, PlacesIs
<1>4. PICK f : f = [j \in 1 .. n |-> IF j = i THEN x ELSE seq[j]]
  OBVIOUS
<1>5. f \in [1 .. n -> S]
  BY <1>2, <1>3, <1>4
<1>6. f \in Seq(S)
  BY <1>3, <1>5
<1>7. Put(seq, i, x) = f
  BY <1>1, <1>4 DEF Put
<1> QED
  BY <1>6, <1>7

\* The other elements stay.
LEMMA PutElements ==
  ASSUME NEW S, NEW seq \in Seq(S), NEW x \in S, NEW i \in 1 .. Len(seq) + 1
  PROVE  /\ Put(seq, i, x)[i] = x
         /\ \A j \in DOMAIN seq : j # i => Put(seq, i, x)[j] = seq[j]
<1>1. PICK n : n = IF i > Len(seq) THEN i ELSE Len(seq)
  OBVIOUS
<1>2. Len(seq) \in Nat /\ DOMAIN seq = 1 .. Len(seq)
  OBVIOUS
<1>3. 1 .. n = (1 .. Len(seq)) \union {i}
  BY <1>1, <1>2, PlacesIs
<1>4. Put(seq, i, x) = [j \in 1 .. n |-> IF j = i THEN x ELSE seq[j]]
  BY <1>1 DEF Put
<1> QED
  BY <1>2, <1>3, <1>4

\* cv_signal and cv_broadcast take the first n sleepers off the channel.
LEMMA RestIs ==
  ASSUME NEW S, NEW seq \in Seq(S), NEW n \in 0 .. Len(seq)
  PROVE  /\ SubSeq(seq, n + 1, Len(seq)) \in Seq(S)
         /\ Len(SubSeq(seq, n + 1, Len(seq))) = Len(seq) - n
         /\ \A i \in 1 .. Len(seq) - n :
               SubSeq(seq, n + 1, Len(seq))[i] = seq[n + i]
<1>1. Len(seq) \in Nat /\ n + 1 \in 1 .. Len(seq) + 1
  OBVIOUS
<1>2. /\ SubSeq(seq, n + 1, Len(seq)) \in Seq(S)
      /\ Len(SubSeq(seq, n + 1, Len(seq))) = Len(seq) - n
  BY <1>1, SubSeqProperties
<1>3. \A i \in 1 .. Len(seq) - n :
         SubSeq(seq, n + 1, Len(seq))[i] = seq[n + i]
  BY <1>1, SubSeqProperties
<1> QED
  BY <1>2, <1>3

\* A struct semfs_sem that is there has all its fields.
LEMMA LiveIs ==
  ASSUME sem \in [Sems -> LiveSem \union {FreeSem}], NEW s \in Sems,
         sem[s].live
  PROVE  sem[s] \in LiveSem
<1>1. FreeSem.live = FALSE
  BY DEF FreeSem
<1> QED
  BY <1>1

\* Who waits on a channel is a thread.
LEMMA SleepersIs ==
  ASSUME sem \in [Sems -> LiveSem \union {FreeSem}], NEW s \in Sems,
         sem[s].live
  PROVE  /\ sem[s].sleepers \in Seq(Threads) /\ Len(sem[s].sleepers) \in Nat
         /\ \A i \in 1 .. Len(sem[s].sleepers) : sem[s].sleepers[i] \in Threads
<1>1. sem[s].sleepers \in Seq(Threads)
  BY LiveIs DEF LiveSem
<1>2. PICK q \in Seq(Threads) : q = sem[s].sleepers
  BY <1>1
<1>3. Len(q) \in Nat /\ \A i \in 1 .. Len(q) : q[i] \in Threads
  OBVIOUS
<1> QED
  BY <1>2, <1>3

-----------------------------------------------------------------------------
\* What a step leaves alone keeps what depends on it alone.

\* One struct semfs_sem becomes r.
Alters(s, r) == sem'[s] = r /\ \A x \in Sems \ {s} : sem'[x] = sem[x]

Goes(t, label) ==
    pc'[t] = label /\ \A u \in Threads \ {t} : pc'[u] = pc[u]

Takes(t, l) ==
    loc'[t] = l /\ \A u \in Threads \ {t} : loc'[u] = loc[u]

\* The struct s keeps what the directory and the vnodes say of it.
Stays(s) ==
    /\ sem'[s].live = sem[s].live
    /\ sem'[s].hasvnode = sem[s].hasvnode
    /\ sem'[s].linked = sem[s].linked

\* The table: semfs_sems and the vnodes.
LEMMA TableSame ==
  ASSUME TableRight, semfs_sems \in Seq(Sems \union {NULL}),
         UNCHANGED <<semfs_sems, vn_refcount>>, \A s \in Sems : Stays(s)
  PROVE  TableRight'
<1>1. \A n \in DOMAIN semfs_sems : semfs_sems[n] # NULL =>
         semfs_sems[n] \in Sems
  OBVIOUS
<1> QED
  BY <1>1 DEF TableRight, Has, Stays

\* The directory.
LEMMA NamesSame ==
  ASSUME NamesRight, semfs_sems \in Seq(Sems \union {NULL}),
         UNCHANGED dirvars, \A s \in Sems : Stays(s),
         \A n : Making(n) => Making(n)'
  PROVE  NamesRight'
<1>1. \A n \in DOMAIN semfs_sems : semfs_sems[n] # NULL =>
         semfs_sems[n] \in Sems
  OBVIOUS
<1>2. UNCHANGED <<semfs_sems, semfs_dents>>
  BY DEF dirvars
<1> QED
  BY <1>1, <1>2 DEF NamesRight, Has, Stays

\* A creat on its way is not disturbed by another thread.
LEMMA MakingKept ==
  ASSUME NEW t \in Threads, pc[t] = "getvnode" => ~loc[t].new,
         \A u \in Threads \ {t} : pc[u] = "getvnode" =>
            pc'[u] = pc[u] /\ loc'[u] = loc[u]
  PROVE  \A n : Making(n) => Making(n)'
BY DEF Making

\* What threads have open.
LEMMA OpenSame ==
  ASSUME OpenRight, OpenStays, UNCHANGED <<semfs_sems, open, opened>>,
         \A s \in Sems : Stays(s)
  PROVE  OpenRight' /\ OpenStays'
BY DEF OpenRight, OpenStays, Getsem, Stays

\* Openers are those that have the number open.
LEMMA CountsSame ==
  ASSUME CountsRight, UNCHANGED <<vn_refcount, open>>
  PROVE  CountsRight'
BY DEF CountsRight, Openers

\* The channels, when the step wakes nobody and lets nobody sleep.
LEMMA SleepSame ==
  ASSUME SleepRight, UNCHANGED <<sem, semfs_sems, open>>,
         sem \in [Sems -> LiveSem \union {FreeSem}],
         \A u \in Threads : pc[u] = "asleep" => pc'[u] = "asleep"
  PROVE  SleepRight'
<1>1. ASSUME NEW s \in Sems, sem[s].live, NEW i \in 1 .. Len(sem[s].sleepers)
      PROVE  sem[s].sleepers[i] \in Threads
  BY <1>1, SleepersIs
<1> QED
  BY <1>1 DEF SleepRight, Getsem

\* Readers on their way to the count stay so, and the counts stay.
LEMMA WakesSame ==
  ASSUME WakesRight, UNCHANGED <<sem, semfs_sems, open, env>>,
         \A u \in Threads : pc[u] = "read" => pc'[u] = "read"
  PROVE  WakesRight'
BY DEF WakesRight, Getsem

\* The calls of the other threads go on as they were, if the step leaves the
\* directory's lock, the semaphores and whether vnodes are referenced; or if
\* nobody else has the directory locked.
LEMMA OthersCall ==
  ASSUME CallsRight, env' = env, NEW t \in Threads,
         \A u \in Threads \ {t} :
            pc'[u] = pc[u] /\ loc'[u] = loc[u] /\ open'[u] = open[u],
         \/ dirlock \in {NULL, t}
         \/ /\ dirlock' = dirlock
            /\ \A n \in Nums : /\ Has(n) => Has(n)'
                               /\ vn_refcount[n] > 0 => vn_refcount'[n] > 0
                               /\ vn_refcount[n] = 0 => vn_refcount'[n] = 0
  PROVE  \A u \in Threads \ {t} : CallOf(u)'
<1> SUFFICES ASSUME NEW u \in Threads \ {t}
             PROVE  CallOf(u)'
  OBVIOUS
<1>1. /\ CallOf(u) /\ u # NULL
      /\ pc'[u] = pc[u] /\ loc'[u] = loc[u] /\ open'[u] = open[u]
  BY SemfsAssumptions DEF CallsRight
<1>2. CASE pc[u] \in {"getvnode", "incref"}
  <2>1. dirlock = u /\ loc[u].num \in Nums
    BY <1>1, <1>2 DEF CallOf
  <2>2. /\ dirlock' = dirlock
        /\ \A n \in Nums : /\ Has(n) => Has(n)'
                           /\ vn_refcount[n] > 0 => vn_refcount'[n] > 0
                           /\ vn_refcount[n] = 0 => vn_refcount'[n] = 0
    BY <1>1, <2>1
  <2> QED
    BY <1>1, <2>1, <2>2 DEF CallOf
<1>3. CASE pc[u] \notin {"getvnode", "incref"}
  BY <1>1, <1>3 DEF CallOf
<1> QED
  BY <1>2, <1>3

\* All that a step has to keep.
Rest ==
    /\ TableRight /\ CountsRight /\ NamesRight /\ CallsRight
    /\ OpenRight /\ OpenStays /\ SleepRight /\ WakesRight /\ Conserved

\* A step of t inside its own call: only its place in the code, its locals
\* and the locks change.
LEMMA ControlKeeps ==
  ASSUME Types, Rest, NEW t \in Threads, env' = env,
         UNCHANGED <<sem, dirvars, vn_refcount, open, opened>>,
         pc[t] \notin {"read", "asleep"},
         pc[t] = "getvnode" => ~loc[t].new,
         \A u \in Threads \ {t} : pc'[u] = pc[u] /\ loc'[u] = loc[u],
         dirlock' = dirlock \/ dirlock \in {NULL, t},
         CallOf(t)'
  PROVE  Rest'
<1>0. UNCHANGED <<semfs_sems, semfs_dents>>
  BY DEF dirvars
<1>1. /\ \A s \in Sems : Stays(s)
      /\ semfs_sems \in Seq(Sems \union {NULL})
  BY DEF Stays, Types
<1>2. TableRight' /\ CountsRight' /\ OpenRight' /\ OpenStays'
  BY <1>0, <1>1, TableSame, CountsSame, OpenSame DEF Rest
<1>3. NamesRight'
  BY <1>1, MakingKept, NamesSame DEF Rest
<1>4. CallsRight'
  <2>1. \A u \in Threads \ {t} :
           pc'[u] = pc[u] /\ loc'[u] = loc[u] /\ open'[u] = open[u]
    OBVIOUS
  <2>2. \A n \in Nums : /\ Has(n) => Has(n)'
                        /\ vn_refcount[n] > 0 => vn_refcount'[n] > 0
                        /\ vn_refcount[n] = 0 => vn_refcount'[n] = 0
    BY <1>0 DEF Has
  <2>3. \A u \in Threads \ {t} : CallOf(u)'
    BY <2>1, <2>2, OthersCall DEF Rest
  <2> QED
    BY <2>3 DEF CallsRight
<1>5. SleepRight' /\ WakesRight'
  <2>1. \A u \in Threads : /\ pc[u] = "asleep" => pc'[u] = "asleep"
                           /\ pc[u] = "read" => pc'[u] = "read"
    OBVIOUS
  <2> QED
    BY <1>0, <2>1, SleepSame, WakesSame DEF Rest, Types
<1>6. Conserved'
  BY DEF Rest, Conserved
<1> QED
  BY <1>2, <1>3, <1>4, <1>5, <1>6 DEF Rest

-----------------------------------------------------------------------------
\* Steps inside one call: the locks are taken and let go, a number is found.

\* What fails is what Breaks lists.
LEMMA Allowed ==
  ASSUME env' = env,
         \/ panic' = "none"
         \/ "reclaim" \in env /\ panic' = "tablelock not held"
         \/ "nomem" \in env /\ panic' = "no vnode"
         \/ "readdir" \in env /\ panic' = "null entry"
  PROVE  NoPanic'
<1>1. /\ "tablelock not held" \in Breaks["reclaim"]
      /\ "no vnode" \in Breaks["nomem"]
      /\ "null entry" \in Breaks["readdir"]
  BY DEF Breaks
<1> QED
  BY <1>1 DEF NoPanic

\* Where a step of t leads, and with which locals and locks.
LEMMA ControlTypes ==
  ASSUME Types, NEW t \in Threads, env' = env, NEW label \in Labels,
         NEW l \in Locs, Goto(t, label), loc' = [loc EXCEPT ![t] = l],
         UNCHANGED <<sem, dirvars, vn_refcount, open, opened>>,
         dirlock' \in {dirlock, t, NULL},
         tablelock' \in {tablelock, t, NULL},
         biglock' \in {biglock, t, NULL}
  PROVE  Types' /\ Goes(t, label) /\ Takes(t, l)
<1>1. Goes(t, label) /\ pc' \in [Threads -> Labels]
  BY DEF Types, Goto, Goes
<1>2. Takes(t, l) /\ loc' \in [Threads -> Locs]
  BY DEF Types, Takes
<1> QED
  BY <1>1, <1>2 DEF Types, dirvars

\* A name that is in the directory has an entry with a number.
LEMMA EntryIs ==
  ASSUME Types, NEW name, Entries(name) # {}
  PROVE  /\ (CHOOSE i \in Entries(name) : TRUE) \in Entries(name)
         /\ \E i \in DOMAIN semfs_dents :
               /\ Entry(name) = semfs_dents[i] /\ semfs_dents[i] # NULL
               /\ semfs_dents[i].name = name
               /\ Entry(name) \in Dents /\ Entry(name).semnum \in Nums
<1>1. (CHOOSE i \in Entries(name) : TRUE) \in Entries(name)
  OBVIOUS
<1>2. PICK i \in Entries(name) : Entry(name) = semfs_dents[i]
  BY <1>1 DEF Entry
<1>3. /\ i \in DOMAIN semfs_dents /\ semfs_dents[i] # NULL
      /\ semfs_dents[i].name = name
  BY DEF Entries
<1>4. semfs_dents[i] \in Dents
  BY <1>3 DEF Types
<1> QED
  BY <1>1, <1>2, <1>3, <1>4 DEF Dents

\* semfs_read begins.
LEMMA ReadStartKeeps ==
  ASSUME Types, Rest, NEW t \in Threads, NEW n \in 1 .. 2, ReadStart(t, n)
  PROVE  Types' /\ Rest' /\ NoPanic'
<1>1. /\ pc[t] = "run" /\ open[t] # NULL /\ panic' = "none" /\ env' = env
      /\ loc' = [loc EXCEPT ![t].resid = n] /\ Goto(t, "read")
      /\ UNCHANGED <<sem, dirvars, vn_refcount, locks, open, opened>>
  BY DEF ReadStart, At
<1>2. PICK l : l = [loc[t] EXCEPT !.resid = n]
  OBVIOUS
<1>3. l \in Locs /\ l.resid > 0 /\ ~l.new /\ "read" \in Labels
  <2>1. n \in Nat /\ n > 0
    OBVIOUS
  <2>2. loc[t] \in Locs /\ ~loc[t].new
    BY <1>1 DEF Types, Rest, CallsRight, CallOf
  <2> QED
    BY <1>2, <2>1, <2>2 DEF Locs, Labels
<1>4. loc' = [loc EXCEPT ![t] = l]
  BY <1>1, <1>2
<1>5. Types' /\ Goes(t, "read") /\ Takes(t, l)
  BY <1>1, <1>3, <1>4, ControlTypes DEF locks
<1>6. CallOf(t)'
  BY <1>1, <1>3, <1>5 DEF CallOf, Goes, Takes
<1>7. Rest'
  BY <1>1, <1>5, <1>6, ControlKeeps DEF Goes, Takes, locks
<1> QED
  BY <1>1, <1>5, <1>7, Allowed

\* vfs_lookup takes the big lock.
LEMMA VfsLookupKeeps ==
  ASSUME Types, Rest, NEW t \in Threads, VfsLookup(t)
  PROVE  Types' /\ Rest' /\ NoPanic'
<1>1. /\ pc[t] = "run" /\ open[t] = NULL /\ panic' = "none" /\ env' = env
      /\ biglock' = t /\ Goto(t, "lookup") /\ UNCHANGED loc
      /\ UNCHANGED <<sem, dirvars, vn_refcount, dirlock, tablelock, open,
                     opened>>
  BY DEF VfsLookup, At
<1>2. PICK l : l = loc[t]
  OBVIOUS
<1>3. /\ l \in Locs /\ "lookup" \in Labels /\ loc' = [loc EXCEPT ![t] = l]
      /\ ~l.new
  BY <1>1, <1>2 DEF Types, Labels, Rest, CallsRight, CallOf
<1>5. Types' /\ Goes(t, "lookup") /\ Takes(t, l)
  BY <1>1, <1>3, ControlTypes
<1>6. CallOf(t)'
  BY <1>1, <1>3, <1>5 DEF CallOf, Goes, Takes
<1>7. Rest'
  BY <1>1, <1>5, <1>6, ControlKeeps DEF Goes, Takes
<1> QED
  BY <1>1, <1>5, <1>7, Allowed

\* The name is found: its number leads to a semaphore that stays, for the
\* directory is locked.
LEMMA FoundKeeps ==
  ASSUME Types, Rest, NEW t \in Threads, NEW name, env' = env,
         pc[t] \in {"run", "lookup"}, open[t] = NULL, dirlock = NULL,
         Entries(name) # {}, dirlock' = t,
         loc' = [loc EXCEPT ![t].num = Entry(name).semnum],
         Goto(t, "getvnode"),
         UNCHANGED <<sem, dirvars, vn_refcount, tablelock, biglock, open,
                     opened>>
  PROVE  Types' /\ Rest'
<1>1. PICK i \in DOMAIN semfs_dents :
         /\ Entry(name) = semfs_dents[i] /\ semfs_dents[i] # NULL
         /\ Entry(name).semnum \in Nums
  BY EntryIs
<1>2. Has(Entry(name).semnum)
  BY <1>1 DEF Rest, NamesRight
<1>3. PICK l : l = [loc[t] EXCEPT !.num = Entry(name).semnum]
  OBVIOUS
<1>4. l \in Locs /\ l.num = Entry(name).semnum /\ ~l.new
  <2>1. loc[t] \in Locs /\ ~loc[t].new
    BY DEF Types, Rest, CallsRight, CallOf
  <2> QED
    BY <1>1, <1>3, <2>1 DEF Locs
<1>5. loc' = [loc EXCEPT ![t] = l] /\ "getvnode" \in Labels
  BY <1>3 DEF Labels
<1>6. Types' /\ Goes(t, "getvnode") /\ Takes(t, l)
  BY <1>4, <1>5, ControlTypes
<1>7. CallOf(t)'
  <2>1. Has(l.num)'
    BY <1>2, <1>4 DEF Has, dirvars
  <2> QED
    BY <1>1, <1>4, <1>6, <2>1 DEF CallOf, Goes, Takes
<1>8. Rest'
  BY <1>6, <1>7, ControlKeeps DEF Goes, Takes
<1> QED
  BY <1>6, <1>8

\* semfs_lookup and semfs_creat of a name that is there, or is not.
LEMMA LookupKeeps ==
  ASSUME Types, Rest, NEW t \in Threads, NEW name,
         Lookup(t, name) \/ CreatFound(t, name)
  PROVE  Types' /\ Rest' /\ NoPanic'
<1>0. env' = env /\ panic' = "none" /\ NoPanic'
  BY Allowed DEF Lookup, CreatFound, At
<1>1. CASE CreatFound(t, name)
  <2>1. /\ pc[t] = "run" /\ open[t] = NULL /\ dirlock = NULL
        /\ Entries(name) # {} /\ dirlock' = t
        /\ loc' = [loc EXCEPT ![t].num = Entry(name).semnum]
        /\ Goto(t, "getvnode")
        /\ UNCHANGED <<sem, dirvars, vn_refcount, tablelock, biglock, open,
                       opened>>
    BY <1>1 DEF CreatFound, At
  <2> QED
    BY <1>0, <2>1, FoundKeeps
<1>2. CASE Lookup(t, name) /\ Entries(name) # {}
  <2>1. /\ pc[t] = "lookup" /\ dirlock = NULL
        /\ dirlock' = t
        /\ loc' = [loc EXCEPT ![t].num = Entry(name).semnum]
        /\ Goto(t, "getvnode")
        /\ UNCHANGED <<sem, dirvars, vn_refcount, tablelock, biglock, open,
                       opened>>
    BY <1>2 DEF Lookup, At
  <2>2. open[t] = NULL
    BY <2>1 DEF Rest, CallsRight, CallOf
  <2> QED
    BY <1>0, <1>2, <2>1, <2>2, FoundKeeps
<1>3. CASE Lookup(t, name) /\ Entries(name) = {}
  <2>1. /\ pc[t] = "lookup" /\ biglock' = NULL /\ Goto(t, "run")
        /\ UNCHANGED <<sem, dirvars, vn_refcount, dirlock, tablelock, loc,
                       open, opened>>
    BY <1>3 DEF Lookup, At
  <2>2. PICK l : l = loc[t]
    OBVIOUS
  <2>3. /\ l \in Locs /\ "run" \in Labels /\ loc' = [loc EXCEPT ![t] = l]
        /\ ~l.new
    BY <2>1, <2>2 DEF Types, Labels, Rest, CallsRight, CallOf
  <2>4. Types' /\ Goes(t, "run") /\ Takes(t, l)
    BY <1>0, <2>1, <2>3, ControlTypes
  <2>5. CallOf(t)'
    BY <2>1, <2>3, <2>4 DEF CallOf, Goes, Takes
  <2>6. Rest'
    BY <1>0, <2>1, <2>4, <2>5, ControlKeeps DEF Goes, Takes
  <2> QED
    BY <1>0, <2>4, <2>6
<1> QED
  BY <1>1, <1>2, <1>3

\* semfs_getvnode finds the vnode and locks the table for VOP_INCREF.
LEMMA GetvnodeFoundKeeps ==
  ASSUME Types, Rest, NEW t \in Threads, GetvnodeFound(t)
  PROVE  Types' /\ Rest' /\ NoPanic'
<1>1. /\ pc[t] = "getvnode" /\ vn_refcount[loc[t].num] > 0
      /\ panic' = "none" /\ env' = env
      /\ tablelock' = t /\ Goto(t, "incref")
      /\ UNCHANGED <<sem, dirvars, vn_refcount, dirlock, biglock, loc, open,
                     opened>>
  BY DEF GetvnodeFound, At
<1>2. PICK l : l = loc[t]
  OBVIOUS
<1>3. /\ l \in Locs /\ "incref" \in Labels /\ loc' = [loc EXCEPT ![t] = l]
      /\ CallOf(t)
  BY <1>1, <1>2 DEF Types, Labels, Rest, CallsRight
<1>4. ~l.new
  BY <1>1, <1>2, <1>3 DEF CallOf
<1>5. Types' /\ Goes(t, "incref") /\ Takes(t, l)
  BY <1>1, <1>3, ControlTypes
<1>6. CallOf(t)'
  <2>1. \A n : Has(n)' <=> Has(n)
    BY <1>1 DEF Has, dirvars
  <2> QED
    BY <1>1, <1>2, <1>3, <1>4, <1>5, <2>1 DEF CallOf, Goes, Takes
<1>7. Rest'
  BY <1>1, <1>2, <1>4, <1>5, <1>6, ControlKeeps DEF Goes, Takes
<1> QED
  BY <1>1, <1>5, <1>7, Allowed

\* The last VOP_DECREF takes the big lock.
LEMMA CloseLastKeeps ==
  ASSUME Types, Rest, NEW t \in Threads, CloseLast(t)
  PROVE  Types' /\ Rest' /\ NoPanic'
<1>1. /\ pc[t] = "run" /\ "reclaim" \in env /\ panic' = "none" /\ env' = env
      /\ biglock' = t /\ Goto(t, "reclaim")
      /\ UNCHANGED <<sem, dirvars, vn_refcount, dirlock, tablelock, loc, open,
                     opened>>
  BY DEF CloseLast, At
<1>2. PICK l : l = loc[t]
  OBVIOUS
<1>3. /\ l \in Locs /\ "reclaim" \in Labels /\ loc' = [loc EXCEPT ![t] = l]
      /\ ~l.new
  BY <1>1, <1>2 DEF Types, Labels, Rest, CallsRight, CallOf
<1>5. Types' /\ Goes(t, "reclaim") /\ Takes(t, l)
  BY <1>1, <1>3, ControlTypes
<1>6. CallOf(t)'
  BY <1>1, <1>3, <1>5 DEF CallOf, Goes, Takes
<1>7. Rest'
  BY <1>1, <1>5, <1>6, ControlKeeps DEF Goes, Takes
<1> QED
  BY <1>1, <1>5, <1>7, Allowed

\* What fails fails for the event that its code gets wrong, and nothing else
\* changes.
LEMMA FailureKeeps ==
  ASSUME Types, Rest, NEW t \in Threads,
         \/ Reclaim(t)
         \/ \E name : CreatNoMem(t, name)
         \/ \E pos : Getdirentry(t, pos)
  PROVE  Types' /\ Rest' /\ NoPanic'
<1>1. /\ env' = env
      /\ UNCHANGED <<sem, dirvars, vn_refcount, locks, pc, loc, open, opened>>
      /\ \/ pc[t] = "reclaim" /\ panic' = "tablelock not held"
         \/ "nomem" \in env /\ panic' = "no vnode"
         \/ "readdir" \in env /\ panic' = "null entry"
  BY DEF Reclaim, CreatNoMem, Getdirentry, Panic, At
<1>2. UNCHANGED <<semfs_sems, semfs_dents, dirlock, tablelock, biglock>>
  BY <1>1 DEF dirvars, locks
<1>3. NoPanic'
  BY <1>1, Allowed DEF Rest, CallsRight, CallOf
<1>4. Types'
  BY <1>1, <1>2 DEF Types
<1>5. /\ \A s \in Sems : Stays(s)
      /\ semfs_sems \in Seq(Sems \union {NULL})
      /\ \A n : Has(n)' <=> Has(n)
      /\ \A n : Making(n)' <=> Making(n)
  BY <1>1, <1>2 DEF Stays, Types, Has, Making
<1>6. TableRight' /\ CountsRight' /\ OpenRight' /\ OpenStays' /\ NamesRight'
  BY <1>1, <1>2, <1>5, TableSame, CountsSame, OpenSame, NamesSame DEF Rest
<1>7. SleepRight' /\ WakesRight'
  BY <1>1, <1>2, SleepSame, WakesSame DEF Rest, Types
<1>8. CallsRight' /\ Conserved'
  BY <1>1, <1>2, <1>5 DEF Rest, CallsRight, CallOf, Conserved
<1> QED
  BY <1>3, <1>4, <1>6, <1>7, <1>8 DEF Rest


-----------------------------------------------------------------------------
\* Steps that change the count of a semaphore and who sleeps on it.

\* What says nothing of the count and the channel of s is as it was.
LEMMA CountKeeps ==
  ASSUME Types, Rest, env' = env, NEW s \in Sems, sem[s].live,
         NEW c \in 0 .. UINT_MAX, NEW q \in Seq(Threads),
         sem' = [sem EXCEPT ![s].count = c, ![s].due = c, ![s].sleepers = q],
         UNCHANGED <<dirvars, vn_refcount, locks, open, opened>>,
         pc' \in [Threads -> Labels], loc' \in [Threads -> Locs],
         \A u \in Threads : pc[u] = "getvnode" =>
            pc'[u] = pc[u] /\ loc'[u] = loc[u]
  PROVE  /\ Types'
         /\ TableRight' /\ CountsRight' /\ NamesRight'
         /\ OpenRight' /\ OpenStays' /\ Conserved'
         /\ sem'[s].live /\ sem'[s].count = c /\ sem'[s].sleepers = q
         /\ \A x \in Sems \ {s} : sem'[x] = sem[x]
<1>0. UNCHANGED <<semfs_sems, semfs_dents, dirlock, tablelock, biglock>>
  BY DEF dirvars, locks
<1>1. PICK r : r = [sem[s] EXCEPT !.count = c, !.due = c, !.sleepers = q]
  OBVIOUS
<1>2. sem[s] \in LiveSem
  BY LiveIs DEF Types
<1>3. /\ r \in LiveSem /\ r.live /\ r.count = c /\ r.due = c
      /\ r.sleepers = q
      /\ r.hasvnode = sem[s].hasvnode /\ r.linked = sem[s].linked
  <2>1. c \in Int
    BY SemfsAssumptions
  <2> QED
    BY <1>1, <1>2, <2>1 DEF LiveSem
<1>4. sem' = [sem EXCEPT ![s] = r]
  BY <1>1
<1>5. Alters(s, r) /\ sem' \in [Sems -> LiveSem \union {FreeSem}]
  <2>1. s \in DOMAIN sem /\ DOMAIN sem = Sems
    BY DEF Types
  <2>2. Alters(s, r)
    BY <1>4, <2>1 DEF Alters
  <2>3. sem' \in [Sems -> LiveSem \union {FreeSem}]
    <3>1. sem \in [Sems -> LiveSem \union {FreeSem}]
      BY DEF Types
    <3>2. r \in LiveSem
      BY <1>3
    <3> QED
      BY <1>4, <3>1, <3>2
  <2> QED
    BY <2>2, <2>3
<1>6. \A x \in Sems : Stays(x)
  BY <1>3, <1>5 DEF Alters, Stays
<1>7. Types'
  BY <1>0, <1>5 DEF Types
<1>8. semfs_sems \in Seq(Sems \union {NULL})
  BY DEF Types
<1>9. TableRight' /\ CountsRight' /\ OpenRight' /\ OpenStays'
  BY <1>0, <1>6, <1>8, TableSame, CountsSame, OpenSame DEF Rest
<1>10. NamesRight'
  <2>1. \A n : Making(n) => Making(n)'
    BY DEF Making
  <2> QED
    BY <1>6, <1>8, <2>1, NamesSame DEF Rest
<1>11. Conserved'
  BY <1>3, <1>5 DEF Alters, Conserved, Rest
<1> QED
  BY <1>3, <1>5, <1>7, <1>9, <1>10, <1>11 DEF Alters

\* The calls of threads whose place and locals stay.
LEMMA CallSame ==
  ASSUME CallsRight, env' = env,
         UNCHANGED <<semfs_sems, vn_refcount, open, dirlock>>,
         NEW u \in Threads, pc'[u] = pc[u], loc'[u] = loc[u]
  PROVE  CallOf(u)'
<1>1. \A n : Has(n)' <=> Has(n)
  BY DEF Has
<1> QED
  BY <1>1 DEF CallsRight, CallOf

\* Threads that use a semaphore find it at the number they have open.
LEMMA GetsemIs ==
  ASSUME Types, Rest, NEW t \in Threads, open[t] # NULL
  PROVE  Getsem(t) \in Sems /\ sem[Getsem(t)].live
BY DEF Rest, OpenRight, OpenStays

\* semfs_wakeup wakes those who sleep first.
LEMMA WakeupIs ==
  ASSUME Types, NEW s \in Sems, sem[s].live, NEW c \in 0 .. UINT_MAX
  PROVE  /\ Wakeup(s, c) \in 0 .. Len(sem[s].sleepers)
         /\ sem[s].count = 0 /\ c = 1 /\ sem[s].sleepers # <<>> =>
               Wakeup(s, c) = 1
         /\ sem[s].count = 0 /\ c > 1 =>
               Wakeup(s, c) = Len(sem[s].sleepers)
<1>1. /\ sem[s].count \in Nat /\ c \in Nat
      /\ Len(sem[s].sleepers) \in Nat
      /\ sem[s].sleepers # <<>> <=> Len(sem[s].sleepers) > 0
  <2>1. sem[s].count \in 0 .. UINT_MAX
    BY LiveIs DEF Types, LiveSem
  <2>2. PICK q \in Seq(Threads) : q = sem[s].sleepers
    BY SleepersIs DEF Types
  <2>3. q # <<>> <=> Len(q) > 0
    BY EmptySeq
  <2>4. UINT_MAX \in Nat
    BY SemfsAssumptions
  <2> QED
    BY <2>1, <2>2, <2>3, <2>4
<1> QED
  BY <1>1 DEF Wakeup

\* semfs_write and semfs_truncate set the count and wake sleepers.
LEMMA PostKeeps ==
  ASSUME Types, Rest, env' = env, panic = "none", NEW t \in Threads,
         open[t] # NULL, NEW c \in 0 .. UINT_MAX, Post(Getsem(t), c, c)
  PROVE  Types' /\ Rest' /\ NoPanic'
<1> DEFINE s == Getsem(t)
           q == sem[s].sleepers
           n == Wakeup(s, c)
           rest == SubSeq(q, n + 1, Len(q))
           woken(u) == \E i \in 1 .. n : q[i] = u
<1>1. s \in Sems /\ sem[s].live
  BY GetsemIs
<1>2. /\ q \in Seq(Threads) /\ Len(q) \in Nat
      /\ \A i \in 1 .. Len(q) : q[i] \in Threads
  BY <1>1, SleepersIs DEF Types
<1>3. n \in 0 .. Len(q)
  BY <1>1, WakeupIs
<1>4. /\ rest \in Seq(Threads) /\ Len(rest) = Len(q) - n
      /\ \A i \in 1 .. Len(q) - n : rest[i] = q[n + i]
  <2> HIDE DEF n, q
  <2> QED
    BY <1>2, <1>3, RestIs
<1>5. /\ sem' = [sem EXCEPT ![s].count = c, ![s].due = c,
                            ![s].sleepers = rest]
      /\ UNCHANGED <<dirvars, vn_refcount, locks, loc, open, opened>>
      /\ panic' = "none"
  BY DEF Post
<1>6. pc' = [u \in Threads |-> IF woken(u) THEN "read" ELSE pc[u]]
  BY DEF Post
<1>7. "later_v" \in env \/ sem[s].count = 0 \/ q = <<>>
  BY DEF Post
<1> HIDE DEF s, q, n, rest
<1>8. \A i \in 1 .. Len(q) :
         /\ pc[q[i]] = "asleep" /\ Getsem(q[i]) = s
         /\ \A j \in 1 .. Len(q) : q[j] = q[i] => j = i
  BY <1>1 DEF Rest, SleepRight, q
<1>9. \A u \in Threads : woken(u) => pc[u] = "asleep" /\ Getsem(u) = s
  BY <1>2, <1>3, <1>8
<1>10. /\ pc' \in [Threads -> Labels]
       /\ loc' \in [Threads -> Locs]
       /\ \A u \in Threads : pc[u] = "getvnode" =>
             pc'[u] = pc[u] /\ loc'[u] = loc[u]
  <2>1. "read" \in Labels /\ pc \in [Threads -> Labels]
    BY DEF Labels, Types
  <2>2. pc' \in [Threads -> Labels]
    BY <1>6, <2>1
  <2> QED
    BY <1>5, <1>6, <1>9, <2>2 DEF Types
<1>11. /\ Types'
       /\ TableRight' /\ CountsRight' /\ NamesRight'
       /\ OpenRight' /\ OpenStays' /\ Conserved'
       /\ sem'[s].live /\ sem'[s].count = c /\ sem'[s].sleepers = rest
       /\ \A x \in Sems \ {s} : sem'[x] = sem[x]
  BY <1>1, <1>4, <1>5, <1>10, CountKeeps
<1>12. \A u : Getsem(u)' = Getsem(u)
  BY <1>5 DEF Getsem, dirvars
<1>13. CallsRight'
  <2>1. ASSUME NEW u \in Threads, ~woken(u)
        PROVE  CallOf(u)'
    <3>1. pc'[u] = pc[u] /\ loc'[u] = loc[u]
      BY <1>5, <1>6, <2>1
    <3> QED
      BY <1>5, <3>1, CallSame DEF dirvars, locks, Rest
  <2>2. ASSUME NEW u \in Threads, woken(u)
        PROVE  CallOf(u)'
    <3>1. pc'[u] = "read" /\ loc'[u] = loc[u] /\ open'[u] = open[u]
      BY <1>5, <1>6, <2>2
    <3>2. pc[u] = "asleep" /\ CallOf(u)
      BY <1>9, <2>2 DEF Rest, CallsRight
    <3> QED
      BY <3>1, <3>2 DEF CallOf
  <2> QED
    BY <2>1, <2>2 DEF CallsRight
<1>14. SleepRight'
  <2>1. ASSUME NEW x \in Sems \ {s}, sem[x].live,
               NEW i \in 1 .. Len(sem[x].sleepers)
        PROVE  pc'[sem[x].sleepers[i]] = "asleep"
    <3>1. /\ sem[x].sleepers[i] \in Threads
          /\ pc[sem[x].sleepers[i]] = "asleep"
          /\ Getsem(sem[x].sleepers[i]) = x
      BY <2>1, SleepersIs DEF Types, Rest, SleepRight
    <3> QED
      BY <1>6, <1>9, <3>1
  <2>2. ASSUME NEW i \in 1 .. Len(rest)
        PROVE  /\ pc'[rest[i]] = "asleep" /\ Getsem(rest[i]) = s
               /\ \A j \in 1 .. Len(rest) : rest[j] = rest[i] => j = i
    <3>1. /\ rest[i] = q[n + i] /\ n + i \in 1 .. Len(q)
          /\ n + i \notin 1 .. n
          /\ \A j \in 1 .. Len(rest) :
                rest[j] = q[n + j] /\ n + j \in 1 .. Len(q)
      BY <1>2, <1>3, <1>4
    <3>2. 1 .. n \subseteq 1 .. Len(q)
      BY <1>2, <1>3
    <3>3. ~woken(q[n + i])
      BY <1>8, <3>1, <3>2
    <3>4. q[n + i] \in Threads /\ pc[q[n + i]] = "asleep"
      BY <1>2, <1>8, <3>1
    <3>5. \A j \in 1 .. Len(rest) : rest[j] = rest[i] => n + j = n + i
      BY <1>8, <3>1
    <3>6. \A j \in 1 .. Len(rest) : n + j = n + i => j = i
      BY <1>2, <1>3, <1>4
    <3> QED
      BY <1>6, <1>8, <3>1, <3>3, <3>4, <3>5, <3>6
  <2>3. ASSUME NEW x \in Sems, sem'[x].live,
               NEW i \in 1 .. Len(sem'[x].sleepers)
        PROVE  /\ pc'[sem'[x].sleepers[i]] = "asleep"
               /\ Getsem(sem'[x].sleepers[i]) = x
               /\ \A j \in 1 .. Len(sem'[x].sleepers) :
                     sem'[x].sleepers[j] = sem'[x].sleepers[i] => j = i
    <3>1. CASE x = s
      BY <1>11, <2>2, <2>3, <3>1
    <3>2. CASE x # s
      BY <1>11, <2>1, <2>3, <3>2 DEF Rest, SleepRight
    <3> QED
      BY <3>1, <3>2
  <2>4. UNCHANGED <<semfs_sems, open>>
    BY <1>5 DEF dirvars
  <2> QED
    BY <2>3, <2>4 DEF SleepRight, Getsem
<1>15. WakesRight'
  <2> SUFFICES ASSUME NEW x \in Sems, sem'[x].live, "later_v" \notin env,
                      sem'[x].count > 0, sem'[x].sleepers # <<>>
               PROVE  /\ sem'[x].count = 1
                      /\ \E u \in Threads : pc'[u] = "read" /\ Getsem(u) = x
    BY <1>12 DEF WakesRight
  <2>1. CASE x # s
    <3>1. /\ sem[x].count = 1
          /\ \E u \in Threads : pc[u] = "read" /\ Getsem(u) = x
      BY <1>11, <2>1 DEF Rest, WakesRight
    <3> QED
      BY <1>6, <1>11, <2>1, <3>1
  <2>2. CASE x = s
    <3>1. c > 0 /\ rest # <<>> /\ c \in Nat
      BY <1>11, <2>2, SemfsAssumptions
    <3>2. Len(rest) > 0 /\ Len(q) > n
      BY <1>2, <1>3, <1>4, <3>1, EmptySeq
    <3>3. q # <<>>
      BY <1>2, <1>3, <3>2, EmptySeq
    <3>4. sem[s].count = 0
      BY <1>7, <3>3
    <3>5. c = 1
      BY <1>1, <3>1, <3>2, <3>4, WakeupIs DEF n, q
    <3>6. n = 1
      BY <1>1, <3>3, <3>4, <3>5, WakeupIs DEF n, q
    <3>7. 1 \in 1 .. Len(q) /\ woken(q[1])
      BY <1>2, <3>2, <3>6
    <3>8. q[1] \in Threads /\ pc'[q[1]] = "read" /\ Getsem(q[1]) = s
      BY <1>2, <1>6, <1>8, <3>7
    <3> QED
      BY <1>11, <2>2, <3>5, <3>8
  <2> QED
    BY <2>1, <2>2
<1> QED
  BY <1>5, <1>11, <1>13, <1>14, <1>15, Allowed DEF Rest

\* The sum in semfs_write is the one meant, unless it is below the old count.
LEMMA SumIs ==
  ASSUME NEW max \in Nat, max >= 2, NEW c \in 0 .. max, NEW n \in 1 .. 2,
         ~((c + n) % (max + 1) < c)
  PROVE  (c + n) % (max + 1) = c + n /\ c + n \in 0 .. max
<1>1. CASE c + n <= max
  <2>1. c + n \in 0 .. max
    BY <1>1
  <2> QED
    BY <2>1
<1>2. CASE c + n > max
  <2>1. PICK r \in 0 .. 1 : c + n = r + (max + 1)
    <3>1. c + n - (max + 1) \in 0 .. 1
      BY <1>2
    <3>2. c + n = (c + n - (max + 1)) + (max + 1)
      OBVIOUS
    <3> QED
      BY <3>1, <3>2
  <2>2. (r + (max + 1)) % (max + 1) = r
    OBVIOUS
  <2>3. r < c
    BY <2>1
  <2> QED
    BY <2>1, <2>2, <2>3
<1> QED
  BY <1>1, <1>2

\* semfs_write and semfs_truncate.
LEMMA WriteKeeps ==
  ASSUME Types, Rest, NEW t \in Threads,
         \/ \E n \in 1 .. 2 : Write(t, n)
         \/ \E n \in 0 .. UINT_MAX : Truncate(t, n)
  PROVE  Types' /\ Rest' /\ NoPanic'
<1>1. CASE \E n \in 0 .. UINT_MAX : Truncate(t, n)
  BY <1>1, PostKeeps DEF Truncate, At
<1>2. CASE \E n \in 1 .. 2 : Write(t, n)
  <2>1. PICK n \in 1 .. 2 : Write(t, n)
    BY <1>2
  <2>2. PICK s : s = Getsem(t)
    OBVIOUS
  <2>3. /\ panic = "none" /\ env' = env /\ open[t] # NULL
        /\ ~((sem[s].count + n) % (UINT_MAX + 1) < sem[s].count)
        /\ Post(Getsem(t), (sem[s].count + n) % (UINT_MAX + 1),
                sem[s].due + n)
    BY <2>1, <2>2 DEF Write, At, Overflows
  <2>4. /\ sem[s].count \in 0 .. UINT_MAX /\ sem[s].due = sem[s].count
        /\ UINT_MAX \in Nat /\ UINT_MAX >= 2
    BY <2>2, <2>3, GetsemIs, LiveIs, SemfsAssumptions
       DEF Types, LiveSem, Rest, Conserved
  <2>5. PICK c : c = (sem[s].count + n) % (UINT_MAX + 1)
    OBVIOUS
  <2>6. c = sem[s].count + n /\ c \in 0 .. UINT_MAX
    BY <2>3, <2>4, <2>5, SumIs
  <2>7. Post(Getsem(t), c, c)
    BY <2>3, <2>4, <2>5, <2>6
  <2> QED
    BY <2>3, <2>6, <2>7, PostKeeps
<1> QED
  BY <1>1, <1>2

\* What semfs_read takes, and what is left to ask for.
LEMMA TakeIs ==
  ASSUME NEW count \in Nat, NEW resid \in Nat, resid > 0, NEW take,
         take = IF resid > count THEN count ELSE resid
  PROVE  /\ take \in Nat /\ count - take \in 0 .. count
         /\ resid - take \in Nat
         /\ take = resid => resid - take = 0
         /\ take # resid => resid - take > 0 /\ count - take = 0
         /\ count - take < count \/ count - take = 0
OBVIOUS

\* semfs_read takes what there is, and goes on to sleep for the rest.
LEMMA ReadKeeps ==
  ASSUME Types, Rest, NEW t \in Threads, Read(t)
  PROVE  Types' /\ Rest' /\ NoPanic'
<1>1. PICK s : s = Getsem(t)
  OBVIOUS
<1>2. pc[t] = "read" /\ panic = "none" /\ env' = env /\ panic' = "none"
  BY DEF Read, At
<1>3. /\ CallOf(t) /\ open[t] # NULL /\ s \in Sems /\ sem[s].live
      /\ loc[t] \in Locs /\ loc[t].resid \in Nat /\ loc[t].resid > 0
      /\ ~loc[t].new
  <2>1. CallOf(t) /\ loc[t] \in Locs
    BY DEF Rest, CallsRight, Types
  <2>2. open[t] # NULL /\ loc[t].resid > 0 /\ ~loc[t].new
    BY <1>2, <2>1 DEF CallOf
  <2> QED
    BY <1>1, <2>1, <2>2, GetsemIs DEF Locs
<1>4. /\ sem[s].count \in 0 .. UINT_MAX /\ sem[s].count \in Nat
      /\ sem[s].due = sem[s].count /\ UINT_MAX \in Nat
  <2>1. sem[s] \in LiveSem /\ sem[s].due = sem[s].count
    BY <1>3, LiveIs DEF Types, Rest, Conserved
  <2>2. UINT_MAX \in Nat
    BY SemfsAssumptions
  <2>3. sem[s].count \in 0 .. UINT_MAX
    BY <2>1 DEF LiveSem
  <2> QED
    BY <2>1, <2>2, <2>3
<1>5. PICK take : take = IF loc[t].resid > sem[s].count THEN sem[s].count
                         ELSE loc[t].resid
  OBVIOUS
<1>6. PICK c : c = sem[s].count - take
  OBVIOUS
<1>7. PICK d : d = loc[t].resid - take
  OBVIOUS
<1>8. PICK q : q = IF take = loc[t].resid THEN sem[s].sleepers
                   ELSE Append(sem[s].sleepers, t)
  OBVIOUS
<1>9. /\ c \in 0 .. sem[s].count /\ d \in Nat
      /\ take = loc[t].resid => d = 0
      /\ take # loc[t].resid => d > 0 /\ c = 0
      /\ c < sem[s].count \/ c = 0
  <2>1. PICK k \in Nat : k = sem[s].count
    BY <1>4
  <2>2. PICK r \in Nat : r = loc[t].resid /\ r > 0
    BY <1>3
  <2>3. take = IF r > k THEN k ELSE r
    BY <1>5, <2>1, <2>2
  <2>4. /\ k - take \in 0 .. k /\ r - take \in Nat
        /\ take = r => r - take = 0
        /\ take # r => r - take > 0 /\ k - take = 0
        /\ k - take < k \/ k - take = 0
    BY <2>2, <2>3, TakeIs
  <2> QED
    BY <1>6, <1>7, <2>1, <2>2, <2>4
<1>10. c \in 0 .. UINT_MAX /\ c \in Nat
  BY <1>4, <1>9
<1>11. PICK p : p = sem[s].sleepers
  OBVIOUS
<1>12. /\ p \in Seq(Threads) /\ Len(p) \in Nat
       /\ \A i \in 1 .. Len(p) : p[i] \in Threads
  BY <1>3, <1>11, SleepersIs DEF Types
<1>13. q \in Seq(Threads)
  BY <1>8, <1>11, <1>12
<1>14. PICK label : label = IF take = loc[t].resid THEN "run" ELSE "asleep"
  OBVIOUS
<1>15. /\ sem' = [sem EXCEPT ![s].count = c, ![s].due = c,
                             ![s].sleepers = q]
       /\ loc' = [loc EXCEPT ![t].resid = d]
       /\ Goto(t, label)
       /\ UNCHANGED <<dirvars, vn_refcount, locks, open, opened>>
  BY <1>1, <1>4, <1>5, <1>6, <1>7, <1>8, <1>14 DEF Read
<1>16. /\ pc' \in [Threads -> Labels]
       /\ pc'[t] = label /\ \A u \in Threads \ {t} : pc'[u] = pc[u]
  <2>1. label \in Labels
    BY <1>14 DEF Labels
  <2> QED
    BY <1>15, <2>1 DEF Goto, Types
<1>17. /\ loc' \in [Threads -> Locs]
       /\ loc'[t].resid = d /\ loc'[t].num = loc[t].num
       /\ loc'[t].new = loc[t].new
       /\ \A u \in Threads \ {t} : loc'[u] = loc[u]
  <2>1. PICK l : l = [loc[t] EXCEPT !.resid = d]
    OBVIOUS
  <2>2. /\ l \in Locs /\ l.resid = d /\ l.num = loc[t].num
        /\ l.new = loc[t].new
    BY <1>3, <1>9, <2>1 DEF Locs
  <2>3. loc' = [loc EXCEPT ![t] = l]
    BY <1>15, <2>1
  <2> QED
    BY <2>2, <2>3 DEF Types
<1>18. /\ Types'
       /\ TableRight' /\ CountsRight' /\ NamesRight'
       /\ OpenRight' /\ OpenStays' /\ Conserved'
       /\ sem'[s].live /\ sem'[s].count = c /\ sem'[s].sleepers = q
       /\ \A x \in Sems \ {s} : sem'[x] = sem[x]
  <2>1. \A u \in Threads : pc[u] = "getvnode" =>
           pc'[u] = pc[u] /\ loc'[u] = loc[u]
    BY <1>2, <1>16, <1>17
  <2> QED
    BY <1>2, <1>3, <1>10, <1>13, <1>15, <1>16, <1>17, <2>1, CountKeeps
<1>19. UNCHANGED <<semfs_sems, open, vn_refcount, dirlock>>
  BY <1>15 DEF dirvars, locks
<1>20. CallsRight'
  <2>1. ASSUME NEW u \in Threads \ {t}
        PROVE  CallOf(u)'
    BY <1>2, <1>16, <1>17, <1>19, CallSame DEF Rest
  <2>2. CallOf(t)'
    BY <1>3, <1>9, <1>14, <1>16, <1>17, <1>19 DEF CallOf
  <2> QED
    BY <2>1, <2>2 DEF CallsRight
<1>21. SleepRight'
  <2>1. ASSUME NEW x \in Sems, sem[x].live,
               NEW i \in 1 .. Len(sem[x].sleepers)
        PROVE  /\ pc'[sem[x].sleepers[i]] = "asleep"
               /\ sem[x].sleepers[i] # t
               /\ Getsem(sem[x].sleepers[i]) = x
               /\ \A j \in 1 .. Len(sem[x].sleepers) :
                     sem[x].sleepers[j] = sem[x].sleepers[i] => j = i
    <3>1. /\ sem[x].sleepers[i] \in Threads
          /\ pc[sem[x].sleepers[i]] = "asleep"
          /\ Getsem(sem[x].sleepers[i]) = x
          /\ \A j \in 1 .. Len(sem[x].sleepers) :
                sem[x].sleepers[j] = sem[x].sleepers[i] => j = i
      BY <2>1, SleepersIs DEF Types, Rest, SleepRight
    <3> QED
      BY <1>2, <1>16, <3>1
  <2>2. ASSUME NEW i \in 1 .. Len(q)
        PROVE  /\ pc'[q[i]] = "asleep" /\ Getsem(q[i]) = s
               /\ \A j \in 1 .. Len(q) : q[j] = q[i] => j = i
    <3>1. CASE take = loc[t].resid
      BY <1>3, <1>8, <2>1, <3>1
    <3>2. CASE take # loc[t].resid
      <4>1. /\ q = Append(p, t) /\ Len(q) = Len(p) + 1
            /\ q[Len(p) + 1] = t /\ \A j \in 1 .. Len(p) : q[j] = p[j]
        BY <1>8, <1>11, <1>12, <3>2
      <4>2. \A j \in 1 .. Len(q) : j \in 1 .. Len(p) \/ j = Len(p) + 1
        BY <1>12, <4>1
      <4>3. \A j \in 1 .. Len(p) :
               /\ pc'[p[j]] = "asleep" /\ p[j] # t /\ Getsem(p[j]) = s
               /\ \A k \in 1 .. Len(p) : p[k] = p[j] => k = j
        BY <1>3, <1>11, <2>1
      <4>4. pc'[t] = "asleep" /\ Getsem(t) = s
        BY <1>1, <1>14, <1>16, <3>2
      <4>5. CASE i = Len(p) + 1
        BY <4>1, <4>2, <4>3, <4>4, <4>5
      <4>6. CASE i \in 1 .. Len(p)
        BY <4>1, <4>2, <4>3, <4>6
      <4> QED
        BY <4>2, <4>5, <4>6
    <3> QED
      BY <3>1, <3>2
  <2>3. ASSUME NEW x \in Sems, sem'[x].live,
               NEW i \in 1 .. Len(sem'[x].sleepers)
        PROVE  /\ pc'[sem'[x].sleepers[i]] = "asleep"
               /\ Getsem(sem'[x].sleepers[i]) = x
               /\ \A j \in 1 .. Len(sem'[x].sleepers) :
                     sem'[x].sleepers[j] = sem'[x].sleepers[i] => j = i
    <3>1. CASE x = s
      BY <1>18, <2>2, <2>3, <3>1
    <3>2. CASE x # s
      BY <1>18, <2>1, <2>3, <3>2
    <3> QED
      BY <3>1, <3>2
  <2> QED
    BY <1>19, <2>3 DEF SleepRight, Getsem
<1>22. WakesRight'
  <2>1. ASSUME NEW x \in Sems, sem'[x].live, "later_v" \notin env,
               sem'[x].count > 0, sem'[x].sleepers # <<>>
        PROVE  /\ sem'[x].count = 1
               /\ \E u \in Threads : pc'[u] = "read" /\ Getsem(u) = x
    <3>1. CASE x # s
      <4>1. /\ sem[x].count = 1
            /\ \E u \in Threads : pc[u] = "read" /\ Getsem(u) = x
        BY <1>18, <2>1, <3>1 DEF Rest, WakesRight
      <4> QED
        BY <1>1, <1>16, <1>18, <3>1, <4>1
    <3>2. CASE x = s
      <4>1. c > 0 /\ q # <<>>
        BY <1>18, <2>1, <3>2
      <4>2. sem[s].sleepers # <<>> /\ sem[s].count > 0
        BY <1>4, <1>8, <1>9, <1>10, <4>1
      <4>3. sem[s].count = 1
        BY <1>3, <2>1, <4>2 DEF Rest, WakesRight
      <4> QED
        BY <1>9, <1>10, <4>1, <4>3
    <3> QED
      BY <3>1, <3>2
  <2> QED
    BY <1>2, <1>19, <2>1 DEF WakesRight, Getsem
<1> QED
  BY <1>2, <1>18, <1>20, <1>21, <1>22, Allowed DEF Rest

-----------------------------------------------------------------------------
\* Steps that change what numbers and names lead to.

\* Channels that a step leaves alone or leaves empty.
LEMMA ChannelsKept ==
  ASSUME Types, Rest, env' = env,
         \A u \in Threads : pc[u] \in {"read", "asleep"} =>
            pc'[u] = pc[u] /\ Getsem(u)' = Getsem(u),
         \A x \in Sems : sem'[x].live =>
            \/ sem'[x].sleepers = <<>>
            \/ /\ sem[x].live /\ sem'[x].count = sem[x].count
               /\ sem'[x].sleepers = sem[x].sleepers
  PROVE  SleepRight' /\ WakesRight'
<1>1. ASSUME NEW x \in Sems, sem'[x].live,
             NEW i \in 1 .. Len(sem'[x].sleepers)
      PROVE  /\ pc'[sem'[x].sleepers[i]] = "asleep"
             /\ Getsem(sem[x].sleepers[i])' = x
             /\ sem'[x].sleepers = sem[x].sleepers
             /\ \A j \in 1 .. Len(sem'[x].sleepers) :
                   sem'[x].sleepers[j] = sem'[x].sleepers[i] => j = i
  <2>1. sem'[x].sleepers # <<>>
    OBVIOUS
  <2>2. sem[x].live /\ sem'[x].sleepers = sem[x].sleepers
    BY <1>1, <2>1
  <2>3. /\ sem[x].sleepers[i] \in Threads
        /\ pc[sem[x].sleepers[i]] = "asleep"
        /\ Getsem(sem[x].sleepers[i]) = x
        /\ \A j \in 1 .. Len(sem[x].sleepers) :
              sem[x].sleepers[j] = sem[x].sleepers[i] => j = i
    BY <2>2, SleepersIs DEF Types, Rest, SleepRight
  <2> QED
    BY <2>2, <2>3
<1>2. ASSUME NEW x \in Sems, sem'[x].live, "later_v" \notin env,
             sem'[x].count > 0, sem'[x].sleepers # <<>>
      PROVE  /\ sem'[x].count = 1
             /\ \E u \in Threads : pc'[u] = "read" /\ Getsem(u)' = x
  <2>1. /\ sem[x].live /\ sem'[x].count = sem[x].count
        /\ sem'[x].sleepers = sem[x].sleepers
    BY <1>2
  <2>2. /\ sem[x].count = 1
        /\ \E u \in Threads : pc[u] = "read" /\ Getsem(u) = x
    BY <1>2, <2>1 DEF Rest, WakesRight
  <2> QED
    BY <2>1, <2>2
<1>3. SleepRight'
  BY <1>1 DEF SleepRight, Getsem
<1>4. WakesRight'
  BY <1>2 DEF WakesRight
<1> QED
  BY <1>3, <1>4

\* While the directory is not locked, every name leads to a linked semaphore.
LEMMA NoneMade ==
  ASSUME Rest, dirlock = NULL
  PROVE  /\ \A u \in Threads : pc[u] \notin {"getvnode", "incref"}
         /\ \A n : ~Making(n)
         /\ \A u \in Threads : ~loc[u].new
<1>1. \A u \in Threads : pc[u] \notin {"getvnode", "incref"}
  BY SemfsAssumptions DEF Rest, CallsRight, CallOf
<1>2. \A n : ~Making(n)
  BY <1>1 DEF Making
<1>3. \A u \in Threads : ~loc[u].new
  BY <1>1 DEF Rest, CallsRight, CallOf
<1> QED
  BY <1>1, <1>2, <1>3

\* semfs_creat of a new name: a semaphore that is not in the table, under a
\* number that nobody uses.
LEMMA CreatKeeps ==
  ASSUME Types, Rest, NEW t \in Threads, NEW name \in Names, Creat(t, name)
  PROVE  Types' /\ Rest' /\ NoPanic'
<1>1. PICK s : s = CHOOSE x \in Sems : ~sem[x].live
  OBVIOUS
<1>2. PICK num : num = FirstFree(semfs_sems)
  OBVIOUS
<1>3. PICK d : d = FirstFree(semfs_dents)
  OBVIOUS
<1>4. PICK dent : dent = [name |-> name, semnum |-> num]
  OBVIOUS
<1>5. /\ pc[t] = "run" /\ panic = "none" /\ env' = env /\ panic' = "none"
      /\ open[t] = NULL /\ dirlock = NULL /\ Entries(name) = {}
      /\ s \in Sems /\ ~sem[s].live
      /\ Len(semfs_sems) < SEMFS_ROOTDIR
      /\ sem' = [sem EXCEPT ![s] = NewSem]
      /\ semfs_sems' = Put(semfs_sems, num, s)
      /\ semfs_dents' = Put(semfs_dents, d, dent)
      /\ loc' = [loc EXCEPT ![t].num = num, ![t].new = TRUE]
      /\ dirlock' = t /\ Goto(t, "getvnode")
      /\ UNCHANGED <<vn_refcount, tablelock, biglock, open, opened>>
  BY <1>1, <1>2, <1>3, <1>4 DEF Creat, At, Room, Insert
<1>6. /\ semfs_sems \in Seq(Sems \union {NULL})
      /\ semfs_dents \in Seq(Dents \union {NULL})
      /\ SEMFS_ROOTDIR \in Nat /\ NULL \notin Sems
      /\ Len(semfs_sems) \in Nat /\ Len(semfs_sems) < SEMFS_ROOTDIR
  BY <1>5, SemfsAssumptions DEF Types
<1>7. /\ num \in 1 .. Len(semfs_sems) + 1
      /\ num \in DOMAIN semfs_sems => semfs_sems[num] = NULL
      /\ num \in Nums /\ ~Has(num)
  <2>1. /\ num \in 1 .. Len(semfs_sems) + 1
        /\ num <= Len(semfs_sems) => semfs_sems[num] = NULL
    BY <1>2, <1>6, FirstFreeIs
  <2>2. DOMAIN semfs_sems = 1 .. Len(semfs_sems)
    BY <1>6
  <2> QED
    BY <1>5, <1>6, <2>1, <2>2 DEF Nums, Has
<1>8. /\ d \in 1 .. Len(semfs_dents) + 1
      /\ dent \in Dents /\ dent.name = name /\ dent.semnum = num
  BY <1>3, <1>4, <1>6, <1>7, FirstFreeIs DEF Dents
<1>9. /\ semfs_sems' \in Seq(Sems \union {NULL})
      /\ Len(semfs_sems') <= SEMFS_ROOTDIR
      /\ DOMAIN semfs_sems' = (DOMAIN semfs_sems) \union {num}
      /\ semfs_sems'[num] = s
      /\ \A j \in DOMAIN semfs_sems : j # num =>
            semfs_sems'[j] = semfs_sems[j]
  <2>1. PICK S : S = Sems \union {NULL}
    OBVIOUS
  <2>2. PICK seq \in Seq(S) : seq = semfs_sems
    BY <1>6, <2>1
  <2>3. PICK r : r = semfs_sems'
    OBVIOUS
  <2>4. /\ s \in S /\ r = Put(seq, num, s)
        /\ num \in 1 .. Len(seq) + 1
    BY <1>5, <1>7, <2>1, <2>2, <2>3
  <2>5. r \in Seq(S)
    BY <2>2, <2>4, PutSeq
  <2>6. DOMAIN r = (DOMAIN seq) \union {num}
    <3>1. \A j : j \in DOMAIN r <=> j \in DOMAIN seq \/ j = num
      BY <2>2, <2>4, PutDomain
    <3> QED
      BY <3>1
  <2>7. r[num] = s /\ \A j \in DOMAIN seq : j # num => r[j] = seq[j]
    BY <2>2, <2>4, PutElements
  <2>8. Len(r) <= SEMFS_ROOTDIR
    <3>1. PICK m \in Nat : m = Len(r)
      BY <2>5
    <3>2. DOMAIN r = 1 .. m /\ DOMAIN seq = 1 .. Len(seq)
      BY <2>2, <2>5, <3>1
    <3>3. m # 0 => m \in 1 .. Len(seq) \/ m = num
      BY <2>6, <3>1, <3>2
    <3> QED
      BY <1>6, <1>7, <2>2, <3>1, <3>3
  <2> QED
    BY <2>1, <2>2, <2>3, <2>5, <2>6, <2>7, <2>8
<1>10. /\ semfs_dents' \in Seq(Dents \union {NULL})
       /\ DOMAIN semfs_dents' = (DOMAIN semfs_dents) \union {d}
       /\ semfs_dents'[d] = dent
       /\ \A j \in DOMAIN semfs_dents : j # d =>
             semfs_dents'[j] = semfs_dents[j]
  <2>1. PICK S : S = Dents \union {NULL}
    OBVIOUS
  <2>2. PICK seq \in Seq(S) : seq = semfs_dents
    BY <1>6, <2>1
  <2>3. PICK r : r = semfs_dents'
    OBVIOUS
  <2>4. /\ dent \in S /\ r = Put(seq, d, dent)
        /\ d \in 1 .. Len(seq) + 1
    BY <1>5, <1>8, <2>1, <2>2, <2>3
  <2>5. r \in Seq(S)
    BY <2>2, <2>4, PutSeq
  <2>6. DOMAIN r = (DOMAIN seq) \union {d}
    <3>1. \A j : j \in DOMAIN r <=> j \in DOMAIN seq \/ j = d
      BY <2>2, <2>4, PutDomain
    <3> QED
      BY <3>1
  <2>7. r[d] = dent /\ \A j \in DOMAIN seq : j # d => r[j] = seq[j]
    BY <2>2, <2>4, PutElements
  <2> QED
    BY <2>1, <2>2, <2>3, <2>5, <2>6, <2>7
<1>11. /\ sem' \in [Sems -> LiveSem \union {FreeSem}]
       /\ sem'[s] = NewSem /\ \A x \in Sems \ {s} : sem'[x] = sem[x]
       /\ NewSem.live /\ ~NewSem.hasvnode /\ NewSem.count = 0
       /\ NewSem.due = 0 /\ NewSem.sleepers = <<>>
  <2>1. NewSem \in LiveSem
    <3>1. <<>> \in Seq(Threads) /\ 0 \in 0 .. UINT_MAX /\ 0 \in Int
      BY SemfsAssumptions, EmptySeq
    <3> QED
      BY <3>1 DEF NewSem, LiveSem
  <2> QED
    BY <1>5, <2>1 DEF Types, NewSem
<1>12. /\ pc' \in [Threads -> Labels]
       /\ pc'[t] = "getvnode" /\ \A u \in Threads \ {t} : pc'[u] = pc[u]
  <2>1. "getvnode" \in Labels
    BY DEF Labels
  <2> QED
    BY <1>5, <2>1 DEF Goto, Types
<1>13. /\ loc' \in [Threads -> Locs]
       /\ loc'[t].num = num /\ loc'[t].new
       /\ \A u \in Threads \ {t} : loc'[u] = loc[u]
  <2>1. PICK l : l = [loc[t] EXCEPT !.num = num, !.new = TRUE]
    OBVIOUS
  <2>2. loc[t] \in Locs
    BY DEF Types
  <2>3. l \in Locs /\ l.num = num /\ l.new
    BY <1>7, <2>1, <2>2 DEF Locs
  <2>4. loc' = [loc EXCEPT ![t] = l]
    BY <1>5, <2>1
  <2> QED
    BY <2>3, <2>4 DEF Types
<1>14. Types'
  BY <1>5, <1>9, <1>10, <1>11, <1>12, <1>13 DEF Types
\* The new semaphore was not in the table.
<1>15. \A n \in DOMAIN semfs_sems : semfs_sems[n] # NULL =>
          /\ semfs_sems[n] \in Sems \ {s} /\ n # num
          /\ semfs_sems'[n] = semfs_sems[n]
          /\ sem'[semfs_sems[n]] = sem[semfs_sems[n]]
  <2>1. \A n \in DOMAIN semfs_sems : semfs_sems[n] # NULL =>
           semfs_sems[n] \in Sems /\ sem[semfs_sems[n]].live
    BY <1>6 DEF Rest, TableRight
  <2> QED
    BY <1>5, <1>7, <1>9, <1>11, <2>1
<1>16. vn_refcount[num] = 0
  BY <1>7 DEF Rest, TableRight, Types
<1>17. Has(num)' /\ \A n : Has(n) => Has(n)' /\ n # num
  <2>1. Has(num)'
    BY <1>5, <1>6, <1>9 DEF Has
  <2> QED
    BY <1>9, <1>15, <2>1 DEF Has
<1>18. TableRight'
  <2>1. ASSUME NEW n \in DOMAIN semfs_sems', semfs_sems'[n] # NULL
        PROVE  /\ sem'[semfs_sems'[n]].live
               /\ sem'[semfs_sems'[n]].hasvnode <=> vn_refcount'[n] > 0
    <3>1. CASE n = num
      BY <1>5, <1>9, <1>11, <1>16, <3>1
    <3>2. CASE n # num
      BY <1>5, <1>9, <1>15, <2>1, <3>2 DEF Rest, TableRight
    <3> QED
      BY <3>1, <3>2
  <2>2. \A n \in Nums : vn_refcount'[n] > 0 => Has(n)'
    BY <1>5, <1>17 DEF Rest, TableRight
  <2>3. ASSUME NEW m \in DOMAIN semfs_sems', NEW n \in DOMAIN semfs_sems',
               semfs_sems'[m] = semfs_sems'[n], semfs_sems'[m] # NULL
        PROVE  m = n
    <3>1. \A k \in DOMAIN semfs_sems' : k # num /\ semfs_sems'[k] # NULL =>
             /\ k \in DOMAIN semfs_sems
             /\ semfs_sems'[k] = semfs_sems[k] /\ semfs_sems[k] # s
      BY <1>9, <1>15
    <3>2. CASE m = num \/ n = num
      BY <1>9, <2>3, <3>1, <3>2
    <3>3. CASE m # num /\ n # num
      BY <2>3, <3>1, <3>3 DEF Rest, TableRight
    <3> QED
      BY <3>2, <3>3
  <2> QED
    BY <2>1, <2>2, <2>3 DEF TableRight
<1>19. CountsRight'
  BY <1>5, CountsSame DEF Rest
<1>20. NamesRight'
  <2>1. \A i \in DOMAIN semfs_dents' : i # d =>
           i \in DOMAIN semfs_dents /\ semfs_dents'[i] = semfs_dents[i]
    BY <1>10
  <2>2. \A i \in DOMAIN semfs_dents : semfs_dents[i] # NULL =>
           /\ Has(semfs_dents[i].semnum)
           /\ sem[semfs_sems[semfs_dents[i].semnum]].linked
           /\ semfs_dents[i].name # name
    BY <1>5, NoneMade DEF Rest, NamesRight, Entries
  <2>3. Making(num)'
    BY <1>12, <1>13 DEF Making
  <2>4. ASSUME NEW i \in DOMAIN semfs_dents', semfs_dents'[i] # NULL,
               NEW n, n = semfs_dents'[i].semnum
        PROVE  Has(n)' /\ (sem'[semfs_sems'[n]].linked \/ Making(n)')
    <3>1. CASE i = d
      <4>1. n = num
        BY <1>8, <1>10, <2>4, <3>1
      <4> QED
        BY <1>17, <2>3, <4>1
    <3>2. CASE i # d
      <4>1. Has(n) /\ sem[semfs_sems[n]].linked
        BY <2>1, <2>2, <2>4, <3>2
      <4> QED
        BY <1>15, <1>17, <4>1 DEF Has
    <3> QED
      BY <3>1, <3>2
  <2>5. ASSUME NEW i \in DOMAIN semfs_dents', NEW j \in DOMAIN semfs_dents',
               semfs_dents'[i] # NULL, semfs_dents'[j] # NULL,
               \/ semfs_dents'[i].name = semfs_dents'[j].name
               \/ semfs_dents'[i].semnum = semfs_dents'[j].semnum
        PROVE  i = j
    <3>1. \A k \in DOMAIN semfs_dents' :
             k # d /\ semfs_dents'[k] # NULL =>
                /\ semfs_dents'[k].name # name
                /\ semfs_dents'[k].semnum # num
      BY <1>17, <2>1, <2>2
    <3>2. CASE i = d \/ j = d
      BY <1>8, <1>10, <2>5, <3>1, <3>2
    <3>3. CASE i # d /\ j # d
      BY <2>1, <2>5, <3>3 DEF Rest, NamesRight
    <3> QED
      BY <3>2, <3>3
  <2> QED
    BY <2>4, <2>5 DEF NamesRight, Has, Making
<1>21. CallsRight'
  <2>1. \A u \in Threads \ {t} : CallOf(u)'
    <3>1. \A u \in Threads \ {t} :
             pc'[u] = pc[u] /\ loc'[u] = loc[u] /\ open'[u] = open[u]
      BY <1>5, <1>12, <1>13
    <3> QED
      BY <1>5, <3>1, OthersCall DEF Rest
  <2>2. CallOf(t)'
    BY <1>5, <1>7, <1>12, <1>13, <1>16, <1>17 DEF CallOf
  <2> QED
    BY <2>1, <2>2 DEF CallsRight
\* Nobody has the new number open.
<1>22. \A u \in Threads : open[u] # NULL =>
          /\ open[u] \in DOMAIN semfs_sems' /\ opened[u] \in Sems \ {s}
          /\ Getsem(u)' = Getsem(u) /\ Getsem(u) = opened[u]
          /\ sem'[opened[u]] = sem[opened[u]]
  <2>1. ASSUME NEW u \in Threads, open[u] # NULL
        PROVE  /\ open[u] \in DOMAIN semfs_sems /\ opened[u] \in Sems
               /\ semfs_sems[open[u]] = opened[u] /\ opened[u] # NULL
    BY <1>6, <2>1 DEF Rest, OpenRight, OpenStays, Getsem
  <2> QED
    BY <1>5, <1>9, <1>15, <2>1 DEF Getsem
<1>23. OpenRight' /\ OpenStays'
  BY <1>5, <1>22 DEF Rest, OpenRight, OpenStays
<1>24. SleepRight' /\ WakesRight'
  <2>1. \A u \in Threads : pc[u] \in {"read", "asleep"} =>
           pc'[u] = pc[u] /\ Getsem(u)' = Getsem(u)
    BY <1>5, <1>12, <1>22 DEF Rest, CallsRight, CallOf
  <2>2. \A x \in Sems : sem'[x].live =>
           \/ sem'[x].sleepers = <<>>
           \/ /\ sem[x].live /\ sem'[x].count = sem[x].count
              /\ sem'[x].sleepers = sem[x].sleepers
    BY <1>11
  <2> QED
    BY <1>5, <2>1, <2>2, ChannelsKept
<1>25. Conserved'
  BY <1>11 DEF Rest, Conserved
<1> QED
  BY <1>5, <1>14, <1>18, <1>19, <1>20, <1>21, <1>23, <1>24, <1>25, Allowed
     DEF Rest

\* array_set of NULL.
LEMMA ClearIs ==
  ASSUME NEW S, NEW seq \in Seq(S), NEW x \in S, NEW i, NEW r,
         r = [seq EXCEPT ![i] = x]
  PROVE  /\ r \in Seq(S) /\ DOMAIN r = DOMAIN seq
         /\ i \in DOMAIN seq => r[i] = x
         /\ \A j \in DOMAIN seq : j # i => r[j] = seq[j]
<1>1. PICK m \in Nat : m = Len(seq)
  OBVIOUS
<1>2. seq \in [1 .. m -> S] /\ DOMAIN seq = 1 .. m
  BY <1>1
<1>3. r \in [1 .. m -> S]
  BY <1>2
<1>4. r \in Seq(S) /\ Len(r) = m /\ DOMAIN r = 1 .. m
  BY <1>1, <1>3
<1>5. /\ i \in DOMAIN seq => r[i] = x
      /\ \A j \in DOMAIN seq : j # i => r[j] = seq[j]
  OBVIOUS
<1> QED
  BY <1>1, <1>2, <1>4, <1>5

\* semfs_remove: the name goes, and its semaphore with it unless that has a
\* vnode.  Entries that remain lead to other semaphores.
LEMMA RemoveNameKeeps ==
  ASSUME Types, Rest, NEW t \in Threads, NEW name \in Names,
         RemoveName(t, name)
  PROVE  Types' /\ Rest' /\ NoPanic'
<1>1. PICK i : i = CHOOSE j \in Entries(name) : TRUE
  OBVIOUS
<1>2. PICK num : num = Entry(name).semnum
  OBVIOUS
<1>3. PICK s : s = semfs_sems[num]
  OBVIOUS
<1>4. /\ pc[t] = "run" /\ dirlock = NULL /\ env' = env
      /\ Entries(name) # {}
      /\ panic' = IF sem[s].linked THEN "none" ELSE "not linked"
      /\ \/ /\ ~sem[s].hasvnode
            /\ semfs_sems' = [semfs_sems EXCEPT ![num] = NULL]
            /\ sem' = [sem EXCEPT ![s] = FreeSem]
         \/ /\ sem[s].hasvnode
            /\ sem' = [sem EXCEPT ![s].linked = FALSE]
            /\ UNCHANGED semfs_sems
      /\ semfs_dents' = [semfs_dents EXCEPT ![i] = NULL]
      /\ UNCHANGED <<vn_refcount, locks, pc, loc, open, opened>>
  BY <1>1, <1>2, <1>3
     DEF RemoveName, At, Check, Unlinks, Unnamed
<1>5. /\ semfs_sems \in Seq(Sems \union {NULL})
      /\ semfs_dents \in Seq(Dents \union {NULL})
      /\ NULL \notin Sems
  BY SemfsAssumptions DEF Types
<1>6. /\ i \in DOMAIN semfs_dents /\ semfs_dents[i] # NULL
      /\ semfs_dents[i].semnum = num
  <2>1. i \in Entries(name) /\ Entry(name) = semfs_dents[i]
    BY <1>1, <1>4 DEF Entry
  <2> QED
    BY <1>2, <2>1 DEF Entries
<1>7. /\ Has(num) /\ s \in Sems /\ s # NULL
      /\ sem[s].live /\ sem[s].linked
  <2>1. Has(num) /\ sem[s].linked
    BY <1>3, <1>4, <1>6, NoneMade DEF Rest, NamesRight
  <2>2. s \in Sems /\ s # NULL
    BY <1>3, <1>5, <2>1 DEF Has
  <2> QED
    BY <1>3, <2>1, <2>2 DEF Has, Rest, TableRight
<1>8. panic' = "none"
  BY <1>4, <1>7
<1>9. /\ semfs_sems' \in Seq(Sems \union {NULL})
      /\ Len(semfs_sems') = Len(semfs_sems)
      /\ DOMAIN semfs_sems' = DOMAIN semfs_sems
      /\ \A n \in DOMAIN semfs_sems : n # num =>
            semfs_sems'[n] = semfs_sems[n]
      /\ \/ semfs_sems' = semfs_sems
         \/ ~sem[s].hasvnode /\ semfs_sems'[num] = NULL
  <2>1. CASE sem[s].hasvnode
    BY <1>4, <1>5, <2>1
  <2>2. CASE ~sem[s].hasvnode
    <3>1. semfs_sems' = [semfs_sems EXCEPT ![num] = NULL]
      BY <1>4, <2>2
    <3>2. num \in DOMAIN semfs_sems
      BY <1>7 DEF Has
    <3>3. /\ semfs_sems' \in Seq(Sems \union {NULL})
          /\ Len(semfs_sems') = Len(semfs_sems)
      <4>1. PICK S : S = Sems \union {NULL}
        OBVIOUS
      <4>2. semfs_sems \in Seq(S) /\ NULL \in S
        BY <1>5, <4>1
      <4>3. semfs_sems' \in Seq(S) /\ Len(semfs_sems') = Len(semfs_sems)
        <5>1. PICK r : r = semfs_sems'
          OBVIOUS
        <5>2. r = [semfs_sems EXCEPT ![num] = NULL]
          BY <3>1, <5>1
        <5>3. r \in Seq(S) /\ DOMAIN r = DOMAIN semfs_sems
          BY <4>2, <5>2, ClearIs
        <5>4. Len(r) = Len(semfs_sems)
          BY <4>2, <5>3
        <5> QED
          BY <5>1, <5>3, <5>4
      <4> QED
        BY <4>1, <4>3
    <3> QED
      BY <2>2, <3>1, <3>2, <3>3
  <2> QED
    BY <2>1, <2>2
<1>10. /\ semfs_dents' \in Seq(Dents \union {NULL})
       /\ DOMAIN semfs_dents' = DOMAIN semfs_dents
       /\ semfs_dents'[i] = NULL
       /\ \A j \in DOMAIN semfs_dents : j # i =>
             semfs_dents'[j] = semfs_dents[j]
  <2>1. PICK S : S = Dents \union {NULL}
    OBVIOUS
  <2>2. semfs_dents \in Seq(S) /\ NULL \in S
    BY <1>5, <2>1
  <2>3. semfs_dents' = [semfs_dents EXCEPT ![i] = NULL]
    BY <1>4
  <2>4. /\ semfs_dents' \in Seq(S) /\ DOMAIN semfs_dents' = DOMAIN semfs_dents
        /\ semfs_dents'[i] = NULL
        /\ \A j \in DOMAIN semfs_dents : j # i =>
              semfs_dents'[j] = semfs_dents[j]
    BY <1>6, <2>2, <2>3, ClearIs
  <2> QED
    BY <2>1, <2>4
<1>11. /\ sem' \in [Sems -> LiveSem \union {FreeSem}]
       /\ \A x \in Sems \ {s} : sem'[x] = sem[x]
       /\ sem'[s].live => /\ sem'[s].count = sem[s].count
                          /\ sem'[s].due = sem[s].due
                          /\ sem'[s].sleepers = sem[s].sleepers
       /\ sem[s].hasvnode => sem'[s].live /\ sem'[s].hasvnode
       /\ semfs_sems' = semfs_sems => sem'[s].hasvnode = sem[s].hasvnode
       /\ semfs_sems' = semfs_sems => sem'[s].live
  <2>1. CASE sem[s].hasvnode
    <3>1. PICK r : r = [sem[s] EXCEPT !.linked = FALSE]
      OBVIOUS
    <3>2. sem[s] \in LiveSem
      BY <1>7, LiveIs DEF Types
    <3>3. /\ r \in LiveSem /\ r.live /\ r.hasvnode /\ r.count = sem[s].count
          /\ r.due = sem[s].due /\ r.sleepers = sem[s].sleepers
      BY <2>1, <3>1, <3>2 DEF LiveSem
    <3>4. sem' = [sem EXCEPT ![s] = r]
      BY <1>4, <2>1, <3>1
    <3>5. sem' \in [Sems -> LiveSem \union {FreeSem}]
      <4>1. sem \in [Sems -> LiveSem \union {FreeSem}]
        BY DEF Types
      <4>2. r \in LiveSem
        BY <3>3
      <4> QED
        BY <3>4, <4>1, <4>2
    <3>6. sem'[s] = r /\ \A x \in Sems \ {s} : sem'[x] = sem[x]
      BY <1>7, <3>4 DEF Types
    <3> QED
      BY <2>1, <3>3, <3>5, <3>6
  <2>2. CASE ~sem[s].hasvnode
    <3>1. sem' = [sem EXCEPT ![s] = FreeSem] /\ semfs_sems'[num] = NULL
      <4>1. semfs_sems' = [semfs_sems EXCEPT ![num] = NULL]
        BY <1>4, <2>2
      <4> QED
        BY <1>4, <1>7, <2>2, <4>1 DEF Has
    <3>2. semfs_sems' # semfs_sems
      BY <1>3, <1>7, <3>1
    <3>3. ~FreeSem.live
      BY DEF FreeSem
    <3> QED
      BY <1>7, <2>2, <3>1, <3>2, <3>3 DEF Types
  <2> QED
    BY <2>1, <2>2
<1>12. UNCHANGED <<dirlock, tablelock, biglock>>
  BY <1>4 DEF locks
<1>13. Types'
  BY <1>4, <1>9, <1>10, <1>11, <1>12 DEF Types
\* Numbers that still lead somewhere lead where they did.
<1>14. \A n \in DOMAIN semfs_sems : semfs_sems'[n] # NULL =>
          /\ semfs_sems'[n] = semfs_sems[n] /\ semfs_sems[n] \in Sems
          /\ sem'[semfs_sems[n]].live
          /\ sem'[semfs_sems[n]].hasvnode = sem[semfs_sems[n]].hasvnode
          /\ n # num => sem'[semfs_sems[n]] = sem[semfs_sems[n]]
  <2>1. ASSUME NEW n \in DOMAIN semfs_sems, semfs_sems'[n] # NULL
        PROVE  semfs_sems'[n] = semfs_sems[n] /\ semfs_sems[n] \in Sems
    BY <1>5, <1>9, <2>1
  <2>2. ASSUME NEW n \in DOMAIN semfs_sems, semfs_sems'[n] # NULL, n = num
        PROVE  semfs_sems' = semfs_sems
    BY <1>9, <2>2
  <2>3. ASSUME NEW n \in DOMAIN semfs_sems, semfs_sems'[n] # NULL, n # num
        PROVE  semfs_sems[n] # s /\ sem[semfs_sems[n]].live
    <3>1. semfs_sems[n] # NULL
      BY <1>9, <2>3
    <3> QED
      BY <1>3, <1>7, <2>3, <3>1 DEF Has, Rest, TableRight
  <2> QED
    BY <1>3, <1>11, <2>1, <2>2, <2>3
<1>15. \A n \in Nums : vn_refcount[n] > 0 =>
          Has(n) /\ semfs_sems'[n] = semfs_sems[n]
  <2>1. ASSUME NEW n \in Nums, vn_refcount[n] > 0
        PROVE  Has(n) /\ (n = num => sem[s].hasvnode)
    BY <1>3, <2>1 DEF Rest, TableRight, Has
  <2> QED
    BY <1>9, <2>1 DEF Has
<1>16. TableRight'
  <2>1. \A n \in DOMAIN semfs_sems' : semfs_sems'[n] # NULL =>
           /\ sem'[semfs_sems'[n]].live
           /\ sem'[semfs_sems'[n]].hasvnode <=> vn_refcount'[n] > 0
    <3>1. ASSUME NEW n \in DOMAIN semfs_sems', semfs_sems'[n] # NULL
          PROVE  /\ sem'[semfs_sems'[n]].live
                 /\ sem'[semfs_sems'[n]].hasvnode = sem[semfs_sems[n]].hasvnode
                 /\ semfs_sems[n] # NULL /\ n \in DOMAIN semfs_sems
      BY <1>5, <1>9, <1>14, <3>1
    <3> QED
      BY <1>4, <3>1 DEF Rest, TableRight
  <2>2. \A n \in Nums : vn_refcount'[n] > 0 => Has(n)'
    BY <1>4, <1>9, <1>15 DEF Has
  <2>3. \A m, n \in DOMAIN semfs_sems' :
           semfs_sems'[m] = semfs_sems'[n] /\ semfs_sems'[m] # NULL => m = n
    BY <1>9, <1>14 DEF Rest, TableRight
  <2> QED
    BY <2>1, <2>2, <2>3 DEF TableRight
<1>17. CountsRight'
  BY <1>4, CountsSame DEF Rest
<1>18. NamesRight'
  <2>1. ASSUME NEW j \in DOMAIN semfs_dents', semfs_dents'[j] # NULL
        PROVE  /\ j \in DOMAIN semfs_dents /\ j # i
               /\ semfs_dents[j] # NULL /\ semfs_dents'[j] = semfs_dents[j]
    BY <1>10, <2>1
  <2>2. ASSUME NEW j \in DOMAIN semfs_dents', semfs_dents'[j] # NULL,
               NEW n, n = semfs_dents'[j].semnum
        PROVE  Has(n)' /\ sem'[semfs_sems'[n]].linked
    <3>1. n # num
      BY <1>6, <2>1, <2>2 DEF Rest, NamesRight
    <3>2. Has(n) /\ sem[semfs_sems[n]].linked
      BY <1>4, <2>1, <2>2, NoneMade DEF Rest, NamesRight
    <3>3. semfs_sems'[n] = semfs_sems[n] /\ Has(n)'
      BY <1>9, <3>1, <3>2 DEF Has
    <3>4. sem'[semfs_sems[n]] = sem[semfs_sems[n]]
      BY <1>14, <3>1, <3>2, <3>3 DEF Has
    <3> QED
      BY <3>2, <3>3, <3>4
  <2>3. \A j, k \in DOMAIN semfs_dents' :
           /\ semfs_dents'[j] # NULL /\ semfs_dents'[k] # NULL
           /\ \/ semfs_dents'[j].name = semfs_dents'[k].name
              \/ semfs_dents'[j].semnum = semfs_dents'[k].semnum
           => j = k
    BY <2>1 DEF Rest, NamesRight
  <2> QED
    BY <2>2, <2>3 DEF NamesRight, Has, Making
<1>19. CallsRight'
  <2>1. \A u \in Threads : /\ pc'[u] = pc[u] /\ loc'[u] = loc[u]
                           /\ open'[u] = open[u]
    BY <1>4
  <2>2. \A u \in Threads \ {t} : CallOf(u)'
    BY <1>4, <2>1, OthersCall DEF Rest
  <2>3. CallOf(t)'
    BY <1>4, <2>1, NoneMade DEF CallOf
  <2> QED
    BY <2>2, <2>3 DEF CallsRight
\* What is open has a vnode, so it stays.
<1>20. \A u \in Threads : open[u] # NULL =>
          /\ open[u] \in DOMAIN semfs_sems' /\ opened[u] \in Sems
          /\ Getsem(u)' = Getsem(u) /\ Getsem(u) = opened[u]
          /\ sem'[opened[u]].live /\ sem'[opened[u]].hasvnode
  <2>1. ASSUME NEW u \in Threads, open[u] # NULL
        PROVE  /\ open[u] \in DOMAIN semfs_sems /\ opened[u] \in Sems
               /\ semfs_sems[open[u]] = opened[u]
               /\ sem[opened[u]].live /\ sem[opened[u]].hasvnode
    BY <2>1 DEF Rest, OpenRight, OpenStays, Getsem
  <2>2. ASSUME NEW u \in Threads, open[u] # NULL
        PROVE  semfs_sems'[open[u]] = semfs_sems[open[u]]
    BY <1>3, <1>9, <2>1, <2>2
  <2>3. ASSUME NEW u \in Threads, open[u] # NULL
        PROVE  sem'[opened[u]].live /\ sem'[opened[u]].hasvnode
    BY <1>11, <2>1, <2>3
  <2> QED
    BY <1>4, <1>9, <2>1, <2>2, <2>3 DEF Getsem
<1>21. OpenRight' /\ OpenStays'
  BY <1>4, <1>20 DEF OpenRight, OpenStays
<1>22. SleepRight' /\ WakesRight'
  <2>1. \A u \in Threads : pc[u] \in {"read", "asleep"} =>
           pc'[u] = pc[u] /\ Getsem(u)' = Getsem(u)
    BY <1>4, <1>20 DEF Rest, CallsRight, CallOf
  <2>2. \A x \in Sems : sem'[x].live =>
           /\ sem[x].live /\ sem'[x].count = sem[x].count
           /\ sem'[x].sleepers = sem[x].sleepers
    BY <1>7, <1>11
  <2> QED
    BY <1>4, <2>1, <2>2, ChannelsKept
<1>23. Conserved'
  BY <1>7, <1>11 DEF Rest, Conserved
<1> QED
  BY <1>4, <1>8, <1>13, <1>16, <1>17, <1>18, <1>19, <1>21, <1>22, <1>23,
     Allowed DEF Rest

-----------------------------------------------------------------------------
\* Steps that open and close vnodes.

\* A set of threads is finite.
LEMMA OpenersFinite ==
  ASSUME NEW n
  PROVE  /\ IsFiniteSet(Openers(n)) /\ Cardinality(Openers(n)) \in Nat
         /\ Cardinality(Openers(n)) <= Cardinality(Threads)
<1>1. Openers(n) \subseteq Threads /\ IsFiniteSet(Threads)
  BY SemfsAssumptions DEF Openers
<1> QED
  BY <1>1, FS_Subset, FS_CardinalityType

\* VOP_INCREF, or a new vnode.
LEMMA OpenersMore ==
  ASSUME CountsRight, vn_refcount \in [Nums -> Nat],
         NEW t \in Threads, NEW num \in Nums, open[t] = NULL,
         open' = [open EXCEPT ![t] = num],
         open \in [Threads -> Nums \union {NULL}],
         vn_refcount' = [vn_refcount EXCEPT ![num] = @ + 1]
  PROVE  CountsRight'
<1>0. NULL \notin Nums
  BY SemfsAssumptions
<1>1. ASSUME NEW n \in Nums, n # num
      PROVE  vn_refcount'[n] = Cardinality(Openers(n)')
  <2>1. Openers(n)' = Openers(n)
    BY <1>0, <1>1 DEF Openers
  <2>2. vn_refcount'[n] = vn_refcount[n]
    BY <1>1
  <2> QED
    BY <2>1, <2>2 DEF CountsRight
<1>2. vn_refcount'[num] = Cardinality(Openers(num)')
  <2>1. Openers(num)' = Openers(num) \union {t} /\ t \notin Openers(num)
    BY <1>0 DEF Openers
  <2>2. Cardinality(Openers(num) \union {t}) = Cardinality(Openers(num)) + 1
    BY <2>1, OpenersFinite, FS_AddElement
  <2>3. vn_refcount[num] = Cardinality(Openers(num))
    BY DEF CountsRight
  <2>4. vn_refcount'[num] = vn_refcount[num] + 1
    OBVIOUS
  <2> QED
    BY <2>1, <2>2, <2>3, <2>4
<1>3. \A n \in Nums : vn_refcount'[n] = Cardinality(Openers(n)')
  BY <1>1, <1>2
<1> QED
  BY <1>3 DEF CountsRight, Openers

\* VOP_DECREF.
LEMMA OpenersFewer ==
  ASSUME CountsRight, vn_refcount \in [Nums -> Nat],
         NEW t \in Threads, NEW num \in Nums, open[t] = num,
         open' = [open EXCEPT ![t] = NULL],
         open \in [Threads -> Nums \union {NULL}],
         vn_refcount' = [vn_refcount EXCEPT ![num] = @ - 1]
  PROVE  CountsRight'
<1>0. NULL \notin Nums
  BY SemfsAssumptions
<1>1. ASSUME NEW n \in Nums, n # num
      PROVE  vn_refcount'[n] = Cardinality(Openers(n)')
  <2>1. Openers(n)' = Openers(n)
    BY <1>0, <1>1 DEF Openers
  <2>2. vn_refcount'[n] = vn_refcount[n]
    BY <1>1
  <2> QED
    BY <2>1, <2>2 DEF CountsRight
<1>2. vn_refcount'[num] = Cardinality(Openers(num)')
  <2>1. Openers(num)' = Openers(num) \ {t} /\ t \in Openers(num)
    BY <1>0 DEF Openers
  <2>2. Cardinality(Openers(num) \ {t}) = Cardinality(Openers(num)) - 1
    BY <2>1, OpenersFinite, FS_RemoveElement
  <2>3. vn_refcount[num] = Cardinality(Openers(num))
    BY DEF CountsRight
  <2>4. vn_refcount'[num] = vn_refcount[num] - 1
    OBVIOUS
  <2> QED
    BY <2>1, <2>2, <2>3, <2>4
<1>3. \A n \in Nums : vn_refcount'[n] = Cardinality(Openers(n)')
  BY <1>1, <1>2
<1> QED
  BY <1>3 DEF CountsRight, Openers

\* semfs_getvnode returns: the semaphore has a vnode, and is linked if it was
\* made by this call.  Only this call has the directory locked.
LEMMA OpenedKeeps ==
  ASSUME Types, Rest, NEW t \in Threads, env' = env,
         pc[t] \in {"getvnode", "incref"}, Opened(t), UNCHANGED dirvars,
         tablelock' \in {tablelock, NULL},
         vn_refcount' = [vn_refcount EXCEPT ![loc[t].num] = @ + 1],
         NEW s, s = semfs_sems[loc[t].num],
         sem' \in [Sems -> LiveSem \union {FreeSem}],
         \A x \in Sems \ {s} : sem'[x] = sem[x],
         sem'[s].live, sem'[s].hasvnode,
         sem'[s].linked <=> sem[s].linked \/ loc[t].new,
         sem'[s].count = sem[s].count, sem'[s].due = sem[s].due,
         sem'[s].sleepers = sem[s].sleepers
  PROVE  Types' /\ Rest'
<1>1. PICK num : num = loc[t].num
  OBVIOUS
<1>2. /\ CallOf(t) /\ dirlock = t /\ num \in Nums /\ Has(num)
      /\ open[t] = NULL
  BY <1>1 DEF Rest, CallsRight, CallOf
<1>3. /\ semfs_sems \in Seq(Sems \union {NULL})
      /\ NULL \notin Sems /\ NULL \notin Nums /\ t # NULL
  BY SemfsAssumptions DEF Types
<1>4. s \in Sems /\ s # NULL /\ sem[s].live
  BY <1>1, <1>2, <1>3 DEF Has, Rest, TableRight
<1>5. /\ open' = [open EXCEPT ![t] = num]
      /\ opened' = [opened EXCEPT ![t] = s]
      /\ loc' = [loc EXCEPT ![t] = NoLoc]
      /\ dirlock' = NULL /\ biglock' \in {biglock, NULL}
      /\ Goto(t, "run")
      /\ UNCHANGED <<semfs_sems, semfs_dents>>
  BY <1>1 DEF Opened, dirvars
<1>6. /\ pc' \in [Threads -> Labels]
      /\ pc'[t] = "run" /\ \A u \in Threads \ {t} : pc'[u] = pc[u]
  <2>1. "run" \in Labels
    BY DEF Labels
  <2> QED
    BY <1>5, <2>1 DEF Goto, Types
<1>7. /\ loc' \in [Threads -> Locs]
      /\ ~loc'[t].new /\ \A u \in Threads \ {t} : loc'[u] = loc[u]
  <2>1. NoLoc \in Locs /\ ~NoLoc.new
    BY DEF NoLoc, Locs
  <2> QED
    BY <1>5, <2>1 DEF Types
<1>8. /\ open' \in [Threads -> Nums \union {NULL}]
      /\ opened' \in [Threads -> Sems \union {NULL}]
      /\ open'[t] = num /\ opened'[t] = s
      /\ \A u \in Threads \ {t} :
            open'[u] = open[u] /\ opened'[u] = opened[u]
  BY <1>2, <1>4, <1>5 DEF Types
<1>9. /\ vn_refcount \in [Nums -> Nat] /\ vn_refcount' \in [Nums -> Nat]
      /\ vn_refcount' = [vn_refcount EXCEPT ![num] = @ + 1]
      /\ vn_refcount'[num] > 0
      /\ \A n \in Nums \ {num} : vn_refcount'[n] = vn_refcount[n]
  BY <1>1, <1>2 DEF Types
<1>10. Types'
  BY <1>5, <1>6, <1>7, <1>8, <1>9 DEF Types
<1>11. \A n \in DOMAIN semfs_sems : semfs_sems[n] # NULL =>
          /\ semfs_sems[n] \in Sems /\ sem[semfs_sems[n]].live
          /\ n # num => /\ semfs_sems[n] # s
                        /\ sem'[semfs_sems[n]] = sem[semfs_sems[n]]
  BY <1>1, <1>2, <1>3, <1>4 DEF Rest, TableRight, Has
<1>12. TableRight'
  <2>1. \A n \in DOMAIN semfs_sems : semfs_sems[n] # NULL =>
           /\ sem'[semfs_sems[n]].live
           /\ sem'[semfs_sems[n]].hasvnode <=> vn_refcount'[n] > 0
    <3>1. ASSUME NEW n \in DOMAIN semfs_sems, semfs_sems[n] # NULL
          PROVE  n \in Nums
      <4>1. DOMAIN semfs_sems = 1 .. Len(semfs_sems)
        BY <1>3
      <4> QED
        BY <4>1, SemfsAssumptions DEF Types, Nums
    <3> QED
      BY <1>1, <1>4, <1>9, <1>11, <3>1 DEF Rest, TableRight
  <2>2. \A n \in Nums : vn_refcount'[n] > 0 => Has(n)
    BY <1>2, <1>9 DEF Rest, TableRight
  <2> QED
    BY <1>5, <2>1, <2>2 DEF Rest, TableRight, Has
<1>13. CountsRight'
  BY <1>2, <1>5, <1>9, OpenersMore DEF Rest, Types
<1>14. NamesRight'
  <2>1. ASSUME NEW n, Making(n)
        PROVE  n = num /\ loc[t].new
    <3>1. PICK u \in Threads :
             pc[u] = "getvnode" /\ loc[u].new /\ loc[u].num = n
      BY <2>1 DEF Making
    <3>2. u = t
      BY <1>2, <3>1 DEF Rest, CallsRight, CallOf
    <3> QED
      BY <1>1, <3>1, <3>2
  <2>2. ASSUME NEW n, Has(n), sem[semfs_sems[n]].linked \/ Making(n)
        PROVE  sem'[semfs_sems[n]].linked
    BY <1>1, <1>11, <2>1, <2>2 DEF Has
  <2> QED
    BY <1>5, <2>2 DEF Rest, NamesRight, Has
<1>15. CallsRight'
  <2>1. \A u \in Threads \ {t} : CallOf(u)'
    <3>1. \A u \in Threads \ {t} :
             pc'[u] = pc[u] /\ loc'[u] = loc[u] /\ open'[u] = open[u]
      BY <1>6, <1>7, <1>8
    <3> QED
      BY <1>2, <3>1, OthersCall DEF Rest
  <2>2. CallOf(t)'
    BY <1>6, <1>7 DEF CallOf
  <2> QED
    BY <2>1, <2>2 DEF CallsRight
<1>16. OpenRight' /\ OpenStays'
  <2>1. ASSUME NEW u \in Threads, open'[u] # NULL
        PROVE  /\ open'[u] \in DOMAIN semfs_sems /\ opened'[u] \in Sems
               /\ semfs_sems[open'[u]] = opened'[u]
               /\ sem'[opened'[u]].live /\ sem'[opened'[u]].hasvnode
    <3>1. CASE u = t
      BY <1>1, <1>2, <1>4, <1>8, <3>1 DEF Has
    <3>2. CASE u # t
      <4>1. /\ open[u] \in DOMAIN semfs_sems /\ opened[u] \in Sems
            /\ semfs_sems[open[u]] = opened[u]
            /\ sem[opened[u]].live /\ sem[opened[u]].hasvnode
            /\ open'[u] = open[u] /\ opened'[u] = opened[u]
        BY <1>8, <2>1, <3>2 DEF Rest, OpenRight, OpenStays, Getsem
      <4>2. sem'[opened[u]].live /\ sem'[opened[u]].hasvnode
        BY <4>1
      <4> QED
        BY <4>1, <4>2
    <3> QED
      BY <3>1, <3>2
  <2> QED
    BY <1>5, <2>1 DEF OpenRight, OpenStays, Getsem
<1>17. SleepRight' /\ WakesRight'
  <2>1. \A u \in Threads : pc[u] \in {"read", "asleep"} =>
           pc'[u] = pc[u] /\ Getsem(u)' = Getsem(u)
    BY <1>5, <1>6, <1>8 DEF Getsem
  <2>2. \A x \in Sems : sem'[x].live =>
           /\ sem[x].live /\ sem'[x].count = sem[x].count
           /\ sem'[x].sleepers = sem[x].sleepers
    BY <1>4
  <2> QED
    BY <2>1, <2>2, ChannelsKept
<1>18. Conserved'
  BY <1>4 DEF Rest, Conserved
<1> QED
  BY <1>10, <1>12, <1>13, <1>14, <1>15, <1>16, <1>17, <1>18 DEF Rest

\* semfs_getvnode makes the vnode; nobody has it yet.
LEMMA GetvnodeNewKeeps ==
  ASSUME Types, Rest, NEW t \in Threads, GetvnodeNew(t)
  PROVE  Types' /\ Rest' /\ NoPanic'
<1>1. PICK s : s = semfs_sems[loc[t].num]
  OBVIOUS
<1>2. /\ pc[t] = "getvnode" /\ env' = env /\ vn_refcount[loc[t].num] = 0
      /\ panic' = IF s # NULL /\ ~sem[s].hasvnode THEN "none" ELSE "hasvnode"
      /\ vn_refcount' = [vn_refcount EXCEPT ![loc[t].num] = 1]
      /\ sem' = [sem EXCEPT ![s].hasvnode = TRUE,
                            ![s].linked = @ \/ loc[t].new]
      /\ Opened(t) /\ UNCHANGED <<dirvars, tablelock>>
  BY <1>1 DEF GetvnodeNew, At, Check, Links
<1>3. CallOf(t) /\ Has(loc[t].num) /\ loc[t].num \in Nums
  BY <1>2 DEF Rest, CallsRight, CallOf
<1>4. s \in Sems /\ s # NULL /\ sem[s].live /\ ~sem[s].hasvnode
  <2>1. s # NULL /\ sem[s].live /\ ~sem[s].hasvnode
    BY <1>1, <1>2, <1>3 DEF Has, Rest, TableRight
  <2>2. semfs_sems \in Seq(Sems \union {NULL})
    BY DEF Types
  <2> QED
    BY <1>1, <1>3, <2>1, <2>2 DEF Has
<1>5. panic' = "none"
  BY <1>2, <1>4
<1>6. vn_refcount' = [vn_refcount EXCEPT ![loc[t].num] = @ + 1]
  BY <1>2, <1>3 DEF Types
<1>7. PICK r : r = [sem[s] EXCEPT !.hasvnode = TRUE,
                                  !.linked = @ \/ loc[t].new]
  OBVIOUS
<1>8. loc[t].new \in BOOLEAN /\ sem[s] \in LiveSem
  <2>1. loc[t] \in Locs
    BY DEF Types
  <2> QED
    BY <1>4, <2>1, LiveIs DEF Types, Locs
<1>9. /\ r \in LiveSem /\ r.live /\ r.hasvnode
      /\ r.linked <=> sem[s].linked \/ loc[t].new
      /\ r.count = sem[s].count /\ r.due = sem[s].due
      /\ r.sleepers = sem[s].sleepers
  BY <1>7, <1>8 DEF LiveSem
<1>10. sem' = [sem EXCEPT ![s] = r]
  BY <1>2, <1>7
<1>11. /\ sem' \in [Sems -> LiveSem \union {FreeSem}]
       /\ sem'[s] = r /\ \A x \in Sems \ {s} : sem'[x] = sem[x]
  <2>1. sem \in [Sems -> LiveSem \union {FreeSem}]
    BY DEF Types
  <2>2. r \in LiveSem
    BY <1>9
  <2> QED
    BY <1>4, <1>10, <2>1, <2>2
<1>12. Types' /\ Rest'
  <2>1. /\ sem'[s].live /\ sem'[s].hasvnode
        /\ sem'[s].linked <=> sem[s].linked \/ loc[t].new
        /\ sem'[s].count = sem[s].count /\ sem'[s].due = sem[s].due
        /\ sem'[s].sleepers = sem[s].sleepers
    BY <1>9, <1>11
  <2>2. /\ Opened(t) /\ UNCHANGED dirvars /\ env' = env
        /\ tablelock' \in {tablelock, NULL}
        /\ pc[t] \in {"getvnode", "incref"}
    BY <1>2
  <2>3. /\ sem' \in [Sems -> LiveSem \union {FreeSem}]
        /\ \A x \in Sems \ {s} : sem'[x] = sem[x]
    BY <1>11
  <2> QED
    BY <1>1, <1>6, <2>1, <2>2, <2>3, OpenedKeeps
<1> QED
  BY <1>2, <1>5, <1>12, Allowed

\* VOP_INCREF of a vnode that somebody has.
LEMMA IncrefKeeps ==
  ASSUME Types, Rest, NEW t \in Threads, Incref(t)
  PROVE  Types' /\ Rest' /\ NoPanic'
<1>1. PICK s : s = semfs_sems[loc[t].num]
  OBVIOUS
<1>2. /\ pc[t] = "incref" /\ env' = env /\ panic = "none"
      /\ vn_refcount' = [vn_refcount EXCEPT ![loc[t].num] = @ + 1]
      /\ tablelock' = NULL /\ Opened(t) /\ UNCHANGED <<sem, dirvars, panic>>
  BY DEF Incref, At
<1>3. /\ CallOf(t) /\ Has(loc[t].num) /\ vn_refcount[loc[t].num] > 0
      /\ ~loc[t].new
  BY <1>2 DEF Rest, CallsRight, CallOf
<1>4. sem[s].live /\ sem[s].hasvnode
  BY <1>1, <1>3 DEF Has, Rest, TableRight
<1>5. sem' \in [Sems -> LiveSem \union {FreeSem}]
  BY <1>2 DEF Types
<1>6. Types' /\ Rest'
  BY <1>1, <1>2, <1>3, <1>4, <1>5, OpenedKeeps
<1> QED
  BY <1>2, <1>6, Allowed

\* VOP_DECREF of a vnode that others have too.
LEMMA CloseKeeps ==
  ASSUME Types, Rest, NEW t \in Threads, Close(t)
  PROVE  Types' /\ Rest' /\ NoPanic'
<1>1. PICK num : num = open[t]
  OBVIOUS
<1>2. /\ pc[t] = "run" /\ env' = env /\ panic' = "none" /\ num # NULL
      /\ vn_refcount[num] > 1
      /\ vn_refcount' = [vn_refcount EXCEPT ![num] = @ - 1]
      /\ open' = [open EXCEPT ![t] = NULL]
      /\ opened' = [opened EXCEPT ![t] = NULL]
      /\ UNCHANGED <<sem, dirvars, locks, pc, loc>>
  BY <1>1 DEF Close, At
<1>3. /\ UNCHANGED <<semfs_sems, semfs_dents, dirlock, tablelock, biglock>>
      /\ semfs_sems \in Seq(Sems \union {NULL})
  BY <1>2 DEF dirvars, locks, Types
<1>4. num \in Nums
  BY <1>1, <1>2 DEF Types
<1>5. /\ vn_refcount \in [Nums -> Nat] /\ vn_refcount' \in [Nums -> Nat]
      /\ \A n \in Nums : /\ vn_refcount[n] > 0 => vn_refcount'[n] > 0
                         /\ vn_refcount[n] = 0 => vn_refcount'[n] = 0
      /\ \A n \in Nums : vn_refcount'[n] > 0 => vn_refcount[n] > 0
  BY <1>2, <1>4 DEF Types
<1>6. /\ open' \in [Threads -> Nums \union {NULL}]
      /\ opened' \in [Threads -> Sems \union {NULL}]
      /\ open'[t] = NULL
      /\ \A u \in Threads \ {t} :
            open'[u] = open[u] /\ opened'[u] = opened[u]
  BY <1>2 DEF Types
<1>7. Types'
  BY <1>2, <1>3, <1>5, <1>6 DEF Types
<1>8. TableRight'
  <2>1. ASSUME NEW n \in DOMAIN semfs_sems
        PROVE  n \in Nums
    <3>1. DOMAIN semfs_sems = 1 .. Len(semfs_sems)
      BY <1>3
    <3> QED
      BY <3>1, SemfsAssumptions DEF Types, Nums
  <2> QED
    BY <1>2, <1>3, <1>5, <2>1 DEF Rest, TableRight, Has
<1>9. CountsRight'
  BY <1>1, <1>2, <1>4, OpenersFewer DEF Rest, Types
<1>10. NamesRight'
  <2>1. \A s \in Sems : Stays(s)
    BY <1>2 DEF Stays
  <2>2. \A n : Making(n) => Making(n)'
    BY <1>2 DEF Making
  <2> QED
    BY <1>2, <1>3, <2>1, <2>2, NamesSame DEF Rest
<1>11. CallsRight'
  <2>1. \A u \in Threads \ {t} :
           pc'[u] = pc[u] /\ loc'[u] = loc[u] /\ open'[u] = open[u]
    BY <1>2, <1>6
  <2>2. \A n : Has(n)' <=> Has(n)
    BY <1>3 DEF Has
  <2>3. \A u \in Threads \ {t} : CallOf(u)'
    BY <1>2, <1>3, <1>5, <2>1, <2>2, OthersCall DEF Rest
  <2>4. CallOf(t)'
    BY <1>2 DEF Rest, CallsRight, CallOf
  <2> QED
    BY <2>3, <2>4 DEF CallsRight
<1>12. OpenRight' /\ OpenStays'
  BY <1>2, <1>3, <1>6 DEF Rest, OpenRight, OpenStays, Getsem
<1>13. SleepRight' /\ WakesRight'
  <2>1. \A u \in Threads : pc[u] \in {"read", "asleep"} =>
           pc'[u] = pc[u] /\ Getsem(u)' = Getsem(u)
    BY <1>2, <1>3, <1>6 DEF Getsem
  <2> QED
    BY <1>2, <2>1, ChannelsKept
<1>14. Conserved'
  BY <1>2 DEF Rest, Conserved
<1> QED
  BY <1>2, <1>7, <1>8, <1>9, <1>10, <1>11, <1>12, <1>13, <1>14, Allowed
     DEF Rest

-----------------------------------------------------------------------------
\* The theorems.

\* semfs_create leaves an empty table and an empty directory.
LEMMA InitInv ==
  ASSUME Init
  PROVE  SemfsInv
<1>1. NULL \notin Nums /\ NULL \notin Sems /\ NULL \notin Threads
  BY SemfsAssumptions
<1>2. /\ sem = [s \in Sems |-> FreeSem] /\ ~FreeSem.live
      /\ semfs_sems = <<>> /\ semfs_dents = <<>>
      /\ vn_refcount = [n \in Nums |-> 0]
      /\ dirlock = NULL /\ tablelock = NULL /\ biglock = NULL
      /\ pc = [t \in Threads |-> "run"]
      /\ loc = [t \in Threads |-> NoLoc] /\ NoLoc \in Locs /\ ~NoLoc.new
      /\ open = [t \in Threads |-> NULL]
      /\ opened = [t \in Threads |-> NULL]
      /\ env \subseteq EnvEvents /\ panic = "none"
  BY SemfsAssumptions DEF Init, FreeSem, NoLoc, Locs
<1>3. /\ \A S : semfs_sems \in Seq(S) /\ semfs_dents \in Seq(S)
      /\ DOMAIN semfs_sems = {} /\ DOMAIN semfs_dents = {}
      /\ Len(semfs_sems) = 0
  BY <1>2, EmptySeq
<1>4. Types
  <2>1. Len(semfs_sems) <= SEMFS_ROOTDIR
    BY <1>3, SemfsAssumptions
  <2>2. pc \in [Threads -> Labels]
    BY <1>2 DEF Labels
  <2> QED
    BY <1>2, <1>3, <2>1, <2>2 DEF Types
<1>5. TableRight
  BY <1>2, <1>3 DEF TableRight
<1>6. CountsRight
  <2>1. \A n \in Nums : Openers(n) = {}
    BY <1>1, <1>2 DEF Openers
  <2> QED
    BY <1>2, <2>1, FS_EmptySet DEF CountsRight
<1>7. NamesRight
  BY <1>3 DEF NamesRight
<1>8. CallsRight
  BY <1>2 DEF CallsRight, CallOf
<1>9. OpenRight /\ OpenStays
  BY <1>2 DEF OpenRight, OpenStays
<1>10. SleepRight /\ WakesRight /\ Conserved
  BY <1>2 DEF SleepRight, WakesRight, Conserved
<1>11. NoPanic
  BY <1>2 DEF NoPanic
<1> QED
  BY <1>4, <1>5, <1>6, <1>7, <1>8, <1>9, <1>10, <1>11 DEF SemfsInv

\* Every operation of semfs keeps the invariant.
LEMMA NextInv ==
  ASSUME SemfsInv, [Next]_vars
  PROVE  SemfsInv'
<1>1. Types /\ Rest /\ NoPanic
  BY DEF SemfsInv, Rest
<1>2. ASSUME Types' /\ Rest' /\ NoPanic'
      PROVE  SemfsInv'
  BY <1>2 DEF SemfsInv, Rest
<1>3. ASSUME NEW t \in Threads, Step(t)
      PROVE  SemfsInv'
  <2>1. CASE \E name \in Names : Lookup(t, name)
    BY <1>1, <1>2, <2>1, LookupKeeps
  <2>2. CASE GetvnodeFound(t)
    BY <1>1, <1>2, <2>2, GetvnodeFoundKeeps
  <2>3. CASE GetvnodeNew(t)
    BY <1>1, <1>2, <2>3, GetvnodeNewKeeps
  <2>4. CASE Incref(t)
    BY <1>1, <1>2, <2>4, IncrefKeeps
  <2>5. CASE Reclaim(t)
    BY <1>1, <1>2, <2>5, FailureKeeps
  <2>6. CASE Read(t)
    BY <1>1, <1>2, <2>6, ReadKeeps
  <2> QED
    BY <1>3, <2>1, <2>2, <2>3, <2>4, <2>5, <2>6 DEF Step
<1>4. ASSUME NEW t \in Threads,
             \/ \E n \in 1 .. 2 : Write(t, n) \/ ReadStart(t, n)
             \/ \E n \in 0 .. UINT_MAX : Truncate(t, n)
      PROVE  SemfsInv'
  <2>1. CASE \E n \in 1 .. 2 : ReadStart(t, n)
    BY <1>1, <1>2, <2>1, ReadStartKeeps
  <2>2. CASE \/ \E n \in 1 .. 2 : Write(t, n)
             \/ \E n \in 0 .. UINT_MAX : Truncate(t, n)
    BY <1>1, <1>2, <2>2, WriteKeeps
  <2> QED
    BY <1>4, <2>1, <2>2
<1>5. ASSUME NEW t \in Threads, NEW name \in Names,
             \/ CreatFound(t, name) \/ Creat(t, name)
             \/ CreatNoMem(t, name) \/ RemoveName(t, name)
      PROVE  SemfsInv'
  <2>1. CASE CreatFound(t, name)
    BY <1>1, <1>2, <2>1, LookupKeeps
  <2>2. CASE Creat(t, name)
    BY <1>1, <1>2, <2>2, CreatKeeps
  <2>3. CASE CreatNoMem(t, name)
    BY <1>1, <1>2, <2>3, FailureKeeps
  <2>4. CASE RemoveName(t, name)
    BY <1>1, <1>2, <2>4, RemoveNameKeeps
  <2> QED
    BY <1>5, <2>1, <2>2, <2>3, <2>4
<1>6. ASSUME NEW t \in Threads,
             \/ VfsLookup(t) \/ Close(t) \/ CloseLast(t)
             \/ \E pos \in Nums : Getdirentry(t, pos)
      PROVE  SemfsInv'
  <2>1. CASE VfsLookup(t)
    BY <1>1, <1>2, <2>1, VfsLookupKeeps
  <2>2. CASE Close(t)
    BY <1>1, <1>2, <2>2, CloseKeeps
  <2>3. CASE CloseLast(t)
    BY <1>1, <1>2, <2>3, CloseLastKeeps
  <2>4. CASE \E pos \in Nums : Getdirentry(t, pos)
    BY <1>1, <1>2, <2>4, FailureKeeps
  <2> QED
    BY <1>6, <2>1, <2>2, <2>3, <2>4
<1>7. CASE UNCHANGED vars
  <2>1. /\ UNCHANGED <<sem, semfs_sems, semfs_dents, vn_refcount, dirlock,
                       tablelock, biglock, pc, loc>>
        /\ UNCHANGED <<open, opened, env, panic>>
    BY <1>7 DEF vars, dirvars, locks
  <2>2. Types' /\ NoPanic'
    BY <1>1, <2>1 DEF Types, NoPanic
  <2>3. /\ \A s \in Sems : Stays(s)
        /\ \A n : Has(n)' <=> Has(n)
        /\ \A n : Making(n) => Making(n)'
        /\ UNCHANGED dirvars
    BY <2>1 DEF Stays, Has, Making, dirvars
  <2>4. TableRight' /\ CountsRight' /\ OpenRight' /\ OpenStays' /\ NamesRight'
    BY <1>1, <2>1, <2>3, TableSame, CountsSame, OpenSame, NamesSame
       DEF Rest, Types
  <2>5. SleepRight' /\ WakesRight'
    BY <1>1, <2>1, SleepSame, WakesSame DEF Rest, Types
  <2>6. CallsRight'
    BY <1>1, <2>1, CallSame DEF Rest, CallsRight
  <2>7. Conserved'
    BY <1>1, <2>1 DEF Rest, Conserved
  <2> QED
    BY <1>2, <2>2, <2>4, <2>5, <2>6, <2>7 DEF Rest
<1> QED
  BY <1>3, <1>4, <1>5, <1>6, <1>7 DEF Next

\* No name is in the directory twice, and none leads to a semaphore that is
\* gone.
LEMMA NamesOnceIs ==
  ASSUME SemfsInv
  PROVE  NamesOnce
<1>1. Types /\ NamesRight /\ TableRight /\ CallsRight
  BY DEF SemfsInv
<1> SUFFICES ASSUME NEW name \in Names, Entries(name) # {}
             PROVE  /\ Cardinality(Entries(name)) = 1
                    /\ semfs_sems[Entry(name).semnum] # NULL
                    /\ sem[semfs_sems[Entry(name).semnum]].live
                    /\ \/ sem[semfs_sems[Entry(name).semnum]].linked
                       \/ dirlock # NULL
  BY DEF NamesOnce
<1>2. PICK i : i = CHOOSE j \in Entries(name) : TRUE
  OBVIOUS
<1>3. i \in Entries(name) /\ Entry(name) = semfs_dents[i]
  BY <1>2 DEF Entry
<1>4. Entries(name) = {i}
  BY <1>1, <1>3 DEF NamesRight, Entries
<1>5. Cardinality(Entries(name)) = 1
  BY <1>4, FS_Singleton
<1>6. PICK n : n = semfs_dents[i].semnum
  OBVIOUS
<1>7. Has(n) /\ (sem[semfs_sems[n]].linked \/ Making(n))
  BY <1>1, <1>3, <1>6 DEF NamesRight, Entries
<1>8. semfs_sems[n] # NULL /\ sem[semfs_sems[n]].live
  BY <1>1, <1>7 DEF Has, TableRight
<1>9. Making(n) => dirlock # NULL
  BY <1>1, SemfsAssumptions DEF Making, CallsRight, CallOf
<1> QED
  BY <1>3, <1>5, <1>6, <1>7, <1>8, <1>9

\* Counts are unsigned and a vnode has at most a reference of each thread.
LEMMA TypeIs ==
  ASSUME SemfsInv
  PROVE  TypeOK
<1>1. Types /\ CountsRight
  BY DEF SemfsInv
<1>2. \A s \in Sems : sem[s].live => /\ sem[s].count \in 0 .. UINT_MAX
                                     /\ sem[s].sleepers \in Seq(Threads)
  BY <1>1, LiveIs DEF Types, LiveSem
<1>3. \A i \in DOMAIN semfs_dents :
         semfs_dents[i] \in [name : Names, semnum : Nums] \union {NULL}
  <2>1. semfs_dents \in Seq(Dents \union {NULL})
    BY <1>1 DEF Types
  <2>2. \A i \in DOMAIN semfs_dents : semfs_dents[i] \in Dents \union {NULL}
    BY <2>1
  <2> QED
    BY <2>2 DEF Dents
<1>4. vn_refcount \in [Nums -> 0 .. Cardinality(Threads)]
  <2>1. Cardinality(Threads) \in Nat
    BY SemfsAssumptions, FS_CardinalityType
  <2>2. \A n \in Nums : vn_refcount[n] \in 0 .. Cardinality(Threads)
    BY <1>1, <2>1, OpenersFinite DEF CountsRight
  <2> QED
    BY <1>1, <2>2 DEF Types
<1> QED
  BY <1>1, <1>2, <1>3, <1>4 DEF TypeOK, Types

\* What users see follows: a stranded sleeper has a reader on its way.
LEMMA RightIs ==
  ASSUME SemfsInv
  PROVE  SemaphoresRight
<1>1. NoStranded
  BY DEF SemfsInv, WakesRight, NoStranded
<1> QED
  BY <1>1, NamesOnceIs, TypeIs DEF SemfsInv, SemaphoresRight

\* SemfsInv is an invariant of semfs.
THEOREM SemfsInvariant == Spec => []SemfsInv
<1>1. Init => SemfsInv
  BY InitInv
<1>2. SemfsInv /\ [Next]_vars => SemfsInv'
  BY NextInv
<1> QED
  BY <1>1, <1>2, PTL DEF Spec

\* No assertion of semfs fails for any number of threads, names and counts,
\* except those that an event's own code gets wrong.
THEOREM SemfsNoPanic == Spec => []NoPanic
<1>1. SemfsInv => NoPanic
  BY DEF SemfsInv
<1> QED
  BY <1>1, SemfsInvariant, PTL

\* Counts are kept, sleepers are woken, and names and numbers stay with their
\* semaphores, for any number of threads, names and counts.
THEOREM SemfsSemaphoresRight == Spec => []SemaphoresRight
<1>1. SemfsInv => SemaphoresRight
  BY RightIs
<1> QED
  BY <1>1, SemfsInvariant, PTL
=============================================================================
