------------------------------- MODULE Semfs -------------------------------
(***************************************************************************)
(* semfs, kern/fs/semfs: semaphores for user programs, as files.  Reading  *)
(* n bytes is P of n, writing V of n, truncating sets the count.           *)
(*                                                                         *)
(* What is done under sems_lock, or under the directory's and the table's  *)
(* lock with no wait in between, is one step.  The locks that are variables*)
(* are those held while another is waited for: dirlock, tablelock and the  *)
(* VFS's big lock, which vfs_lookup holds around VOP_LOOKUP and which      *)
(* VOP_INCREF and VOP_DECREF take (a thread may take it again).  Sleep     *)
(* locks and condition variables are those of AtomicMonitor.               *)
(*                                                                         *)
(* The root directory is kept referenced (a process has it as its current  *)
(* directory), so its vnode is not part of the model.                      *)
(***************************************************************************)
EXTENDS Integers, Sequences, FiniteSets

CONSTANTS
    Threads, Names,
    Sems,           \* heap addresses for struct semfs_sem; bound
    SEMFS_ROOTDIR,  \* the semaphore number that is none, 2^32 - 1
    UINT_MAX,       \* the largest count
    Environments,   \* sets of events of EnvEvents, one of them for good
    NULL

\* "later_v": a V while somebody sleeps and the count is not 0.
\* "creat_open": creat of a semaphore that has a vnode.  "reclaim": the last
\* reference of a vnode is given up.  "nomem": semfs_direntry_create fails.
\* "readdir": the directory is read.
EnvEvents == {"later_v", "creat_open", "reclaim", "nomem", "readdir"}

Nums == 1 .. SEMFS_ROOTDIR

\* What a call asks for is a count too.
ASSUME SemfsAssumptions ==
    /\ IsFiniteSet(Threads)
    /\ NULL \notin Threads \union Sems \union Nums
    /\ SEMFS_ROOTDIR \in Nat
    /\ UINT_MAX \in Nat /\ UINT_MAX >= 2
    /\ \A e \in Environments : e \subseteq EnvEvents

VARIABLES
    sem,          \* what is at each heap address
    semfs_sems,   \* sequence: the semaphore of each number, or NULL
    semfs_dents,  \* sequence: directory entries, or NULL
    vn_refcount,  \* of the vnode of each number, 0 when there is none
    dirlock, tablelock, biglock,  \* holders, or NULL
    pc,
    loc,          \* locals: number, resid, whether creat made it
    open,         \* the number of the vnode a thread has open, or NULL
    opened,       \* not in the code: the semaphore that open was given for
    env, panic

locks == <<dirlock, tablelock, biglock>>
dirvars == <<semfs_sems, semfs_dents>>
vars == <<sem, dirvars, vn_refcount, locks, pc, loc, open, opened, env, panic>>

FreeSem == [live |-> FALSE]
NoLoc == [num |-> NULL, resid |-> 0, new |-> FALSE]

\* semfs_sem_create
NewSem == [live |-> TRUE, count |-> 0, hasvnode |-> FALSE, linked |-> FALSE,
           sleepers |-> <<>>,
           due |-> 0]  \* not in the code: what V put less what P got

\* semfs_create, at boot
Init ==
    /\ sem = [s \in Sems |-> FreeSem]
    /\ semfs_sems = <<>> /\ semfs_dents = <<>>
    /\ vn_refcount = [n \in Nums |-> 0]
    /\ dirlock = NULL /\ tablelock = NULL /\ biglock = NULL
    /\ pc = [t \in Threads |-> "run"]
    /\ loc = [t \in Threads |-> NoLoc]
    /\ open = [t \in Threads |-> NULL]
    /\ opened = [t \in Threads |-> NULL]
    /\ env \in Environments
    /\ panic = "none"

At(t, label) == panic = "none" /\ pc[t] = label /\ UNCHANGED env
Goto(t, label) == pc' = [pc EXCEPT ![t] = label]
Check(ok, why) == panic' = IF ok THEN "none" ELSE why
Panic(why) ==
    /\ panic' = why
    /\ UNCHANGED <<sem, dirvars, vn_refcount, locks, pc, loc, open, opened>>

(***************************************************************************)
(* Semaphore operations, of a thread that has the semaphore open.          *)
(***************************************************************************)
\* semfs_getsem
Getsem(t) == semfs_sems[open[t]]

\* semfs_wakeup: how many of those who sleep are woken, the first ones, when
\* the count becomes newcount.
Wakeup_unless2(s, newcount) ==  \* mutant
    IF sem[s].count > 0 \/ newcount # 1 \/ sem[s].sleepers = <<>> THEN 0
    ELSE 1
Wakeup(s, newcount) ==
    IF sem[s].count > 0 \/ newcount = 0 \/ sem[s].sleepers = <<>> THEN 0
    ELSE IF newcount = 1 THEN 1
    ELSE Len(sem[s].sleepers)

Post(s, newcount, due) ==
    LET queue == sem[s].sleepers
        n == Wakeup(s, newcount)
    IN
    /\ "later_v" \in env \/ sem[s].count = 0 \/ queue = <<>>
    /\ sem' = [sem EXCEPT ![s].count = newcount, ![s].due = due,
                          ![s].sleepers = SubSeq(queue, n + 1, Len(queue))]
    /\ pc' = [u \in Threads |->
                IF \E i \in 1 .. n : queue[i] = u THEN "read" ELSE pc[u]]
    /\ UNCHANGED <<dirvars, vn_refcount, locks, loc, open, opened, panic>>

Overflows(old, new) == new < old

\* semfs_write; EFBIG when the sum wraps.
Write(t, n) ==
    /\ At(t, "run") /\ open[t] # NULL
    /\ LET s == Getsem(t)
           newcount == (sem[s].count + n) % (UINT_MAX + 1)
       IN  /\ ~Overflows(sem[s].count, newcount)
           /\ Post(s, newcount, sem[s].due + n)

\* semfs_truncate; len < 0 and len > UINT_MAX are refused.
Truncate(t, len) ==
    /\ At(t, "run") /\ open[t] # NULL
    /\ len \in 0 .. UINT_MAX
    /\ Post(Getsem(t), len, len)

\* semfs_read: take what there is, and sleep for the rest.
ReadStart(t, n) ==
    /\ At(t, "run") /\ open[t] # NULL
    /\ loc' = [loc EXCEPT ![t].resid = n]
    /\ Goto(t, "read")
    /\ UNCHANGED <<sem, dirvars, vn_refcount, locks, open, opened, panic>>

Read(t) ==
    LET s == Getsem(t)
        consume == IF loc[t].resid > sem[s].count THEN sem[s].count
                   ELSE loc[t].resid
        done == consume = loc[t].resid
    IN
    /\ At(t, "read")
    /\ sem' = [sem EXCEPT
                 ![s].count = @ - consume, ![s].due = @ - consume,
                 ![s].sleepers = IF done THEN @ ELSE Append(@, t)]
    /\ loc' = [loc EXCEPT ![t].resid = @ - consume]
    /\ Goto(t, IF done THEN "run" ELSE "asleep")
    /\ UNCHANGED <<dirvars, vn_refcount, locks, open, opened, panic>>

(***************************************************************************)
(* Names.                                                                  *)
(***************************************************************************)
Entries(name) ==
    {i \in DOMAIN semfs_dents :
        semfs_dents[i] # NULL /\ semfs_dents[i].name = name}
Entry(name) == semfs_dents[CHOOSE i \in Entries(name) : TRUE]

\* The first NULL element gets x, or a new last one.
FirstFree(seq) ==
    LET free == {i \in DOMAIN seq : seq[i] = NULL}
    IN  IF free = {} THEN Len(seq) + 1
        ELSE CHOOSE i \in free : \A j \in free : i <= j
Put(seq, i, x) == [j \in 1 .. (IF i > Len(seq) THEN i ELSE Len(seq)) |->
                      IF j = i THEN x ELSE seq[j]]

\* vfs_lookup, without O_CREAT: the big lock, and semfs_lookup.
VfsLookup(t) ==
    /\ At(t, "run") /\ open[t] = NULL
    /\ biglock = NULL
    /\ biglock' = t
    /\ Goto(t, "lookup")
    /\ UNCHANGED <<sem, dirvars, vn_refcount, dirlock, tablelock, loc, open,
                   opened, panic>>

Lookup(t, name) ==
    /\ At(t, "lookup")
    /\ dirlock = NULL
    /\ \/ /\ Entries(name) # {}
          /\ dirlock' = t
          /\ loc' = [loc EXCEPT ![t].num = Entry(name).semnum]
          /\ Goto(t, "getvnode")
          /\ UNCHANGED biglock
       \/ /\ Entries(name) = {}
          /\ biglock' = NULL
          /\ Goto(t, "run")
          /\ UNCHANGED <<dirlock, loc>>
    /\ UNCHANGED <<sem, dirvars, vn_refcount, tablelock, open, opened, panic>>

\* semfs_creat of a name that is there, without O_EXCL.
CreatFound(t, name) ==
    /\ At(t, "run") /\ open[t] = NULL
    /\ dirlock = NULL
    /\ Entries(name) # {}
    /\ "creat_open" \in env \/ vn_refcount[Entry(name).semnum] = 0
    /\ dirlock' = t
    /\ loc' = [loc EXCEPT ![t].num = Entry(name).semnum]
    /\ Goto(t, "getvnode")
    /\ UNCHANGED <<sem, dirvars, vn_refcount, tablelock, biglock, open, opened,
                   panic>>

\* semfs_sem_insert
Insert(s) == Put(semfs_sems, FirstFree(semfs_sems), s)

Room == Len(semfs_sems) < SEMFS_ROOTDIR

\* semfs_creat of a new one; ENOSPC when every number was given out once.
Creat(t, name) ==
    /\ At(t, "run") /\ open[t] = NULL
    /\ dirlock = NULL /\ tablelock = NULL
    /\ Entries(name) = {}
    /\ Room
    /\ \E s \in Sems : ~sem[s].live
    /\ LET s == CHOOSE x \in Sems : ~sem[x].live
           num == FirstFree(semfs_sems)
           dent == [name |-> name, semnum |-> num]
       IN  /\ sem' = [sem EXCEPT ![s] = NewSem]
           /\ semfs_sems' = Insert(s)
           /\ semfs_dents' = Put(semfs_dents, FirstFree(semfs_dents), dent)
           /\ loc' = [loc EXCEPT ![t].num = num, ![t].new = TRUE]
    /\ dirlock' = t
    /\ Goto(t, "getvnode")
    /\ UNCHANGED <<vn_refcount, tablelock, biglock, open, opened, panic>>

\* Without memory for the entry semfs_creat undoes its work and returns 0,
\* having set no vnode for the caller to use.
CreatNoMem(t, name) ==
    /\ At(t, "run") /\ open[t] = NULL
    /\ dirlock = NULL /\ tablelock = NULL
    /\ Entries(name) = {}
    /\ "nomem" \in env
    /\ Panic("no vnode")

Unlinks(s) == ~sem[s].hasvnode

Unnamed(i) == [semfs_dents EXCEPT ![i] = NULL]

\* semfs_remove: the semaphore goes away with its name, or with its vnode.
RemoveName(t, name) ==
    LET i == CHOOSE j \in Entries(name) : TRUE
        num == Entry(name).semnum
        s == semfs_sems[num]
    IN
    /\ At(t, "run")
    /\ dirlock = NULL /\ tablelock = NULL
    /\ Entries(name) # {}
    /\ Check(sem[s].linked, "not linked")
    /\ \/ /\ Unlinks(s)
          /\ semfs_sems' = [semfs_sems EXCEPT ![num] = NULL]
          /\ sem' = [sem EXCEPT ![s] = FreeSem]
       \/ /\ ~Unlinks(s)
          /\ sem' = [sem EXCEPT ![s].linked = FALSE]
          /\ UNCHANGED semfs_sems
    /\ semfs_dents' = Unnamed(i)
    /\ UNCHANGED <<vn_refcount, locks, pc, loc, open, opened>>

\* semfs_getdirentry does not look for entries that were removed.
Getdirentry(t, pos) ==
    /\ At(t, "run")
    /\ "readdir" \in env
    /\ dirlock = NULL
    /\ pos \in DOMAIN semfs_dents
    /\ semfs_dents[pos] = NULL
    /\ Panic("null entry")

(***************************************************************************)
(* Vnodes.                                                                 *)
(***************************************************************************)
Opened(t) ==
    /\ open' = [open EXCEPT ![t] = loc[t].num]
    /\ opened' = [opened EXCEPT ![t] = semfs_sems[loc[t].num]]
    /\ loc' = [loc EXCEPT ![t] = NoLoc]
    /\ dirlock' = NULL
    /\ biglock' = IF biglock = t THEN NULL ELSE biglock
    /\ Goto(t, "run")

Links_never(t) == FALSE  \* mutant
Links(t) == loc[t].new

\* semfs_getvnode: there is one, and VOP_INCREF waits for the big lock with
\* the table locked; or there is none.
GetvnodeFound(t) ==
    /\ At(t, "getvnode")
    /\ tablelock = NULL
    /\ vn_refcount[loc[t].num] > 0
    /\ tablelock' = t
    /\ Goto(t, "incref")
    /\ UNCHANGED <<sem, dirvars, vn_refcount, dirlock, biglock, loc, open,
                   opened, panic>>

GetvnodeNew(t) ==
    LET num == loc[t].num
        s == semfs_sems[num]
    IN
    /\ At(t, "getvnode")
    /\ tablelock = NULL
    /\ vn_refcount[num] = 0
    /\ Check(s # NULL /\ ~sem[s].hasvnode, "hasvnode")
    /\ vn_refcount' = [vn_refcount EXCEPT ![num] = 1]
    /\ sem' = [sem EXCEPT ![s].hasvnode = TRUE,
                          ![s].linked = @ \/ Links(t)]
    /\ Opened(t)
    /\ UNCHANGED <<dirvars, tablelock>>

\* vfs_biglock_acquire: who holds it may take it again.
CanBiglock_once(t) == biglock = NULL  \* mutant
CanBiglock(t) == biglock \in {NULL, t}

Incref(t) ==
    /\ At(t, "incref")
    /\ CanBiglock(t)
    /\ vn_refcount' = [vn_refcount EXCEPT ![loc[t].num] = @ + 1]
    /\ tablelock' = NULL
    /\ Opened(t)
    /\ UNCHANGED <<sem, dirvars, panic>>

\* VOP_DECREF of a vnode others have open too.
Close(t) ==
    /\ At(t, "run") /\ open[t] # NULL
    /\ biglock = NULL
    /\ vn_refcount[open[t]] > 1
    /\ vn_refcount' = [vn_refcount EXCEPT ![open[t]] = @ - 1]
    /\ open' = [open EXCEPT ![t] = NULL]
    /\ opened' = [opened EXCEPT ![t] = NULL]
    /\ UNCHANGED <<sem, dirvars, locks, pc, loc, panic>>

\* VOP_DECREF of the last reference: semfs_reclaim, with the big lock.
CloseLast(t) ==
    /\ At(t, "run") /\ open[t] # NULL
    /\ "reclaim" \in env
    /\ biglock = NULL
    /\ vn_refcount[open[t]] = 1
    /\ biglock' = t
    /\ Goto(t, "reclaim")
    /\ UNCHANGED <<sem, dirvars, vn_refcount, dirlock, tablelock, loc, open,
                   opened, panic>>

\* The table is unlocked before it is changed, and once more after.
Reclaim(t) ==
    /\ At(t, "reclaim")
    /\ tablelock = NULL
    /\ Panic("tablelock not held")

-----------------------------------------------------------------------------
\* What a thread does inside a call, other than sleeping in semfs_read.
Step(t) ==
    \/ \E name \in Names : Lookup(t, name)
    \/ GetvnodeFound(t) \/ GetvnodeNew(t) \/ Incref(t) \/ Reclaim(t)
    \/ Read(t)

Next ==
    \E t \in Threads :
        \/ Step(t)
        \/ VfsLookup(t) \/ Close(t) \/ CloseLast(t)
        \/ \E n \in 1 .. 2 : Write(t, n) \/ ReadStart(t, n)
        \/ \E n \in 0 .. UINT_MAX : Truncate(t, n)
        \/ \E name \in Names :
              CreatFound(t, name) \/ Creat(t, name) \/ CreatNoMem(t, name)
                \/ RemoveName(t, name)
        \/ \E pos \in Nums : Getdirentry(t, pos)

\* Fairness: a thread inside a call gets the locks that become free.
Spec == Init /\ [][Next]_vars /\ \A t \in Threads : SF_vars(Step(t))

-----------------------------------------------------------------------------
\* Counts are unsigned, numbers below SEMFS_ROOTDIR, locks have one holder.
TypeOK ==
    /\ \A s \in Sems : sem[s].live => /\ sem[s].count \in 0 .. UINT_MAX
                                      /\ sem[s].sleepers \in Seq(Threads)
    /\ semfs_sems \in Seq(Sems \union {NULL})
    /\ Len(semfs_sems) <= SEMFS_ROOTDIR
    /\ \A i \in DOMAIN semfs_dents :
          semfs_dents[i] \in [name : Names, semnum : Nums] \union {NULL}
    /\ vn_refcount \in [Nums -> 0 .. Cardinality(Threads)]
    /\ {dirlock, tablelock, biglock} \subseteq Threads \union {NULL}
    /\ open \in [Threads -> Nums \union {NULL}]

\* The assertions, pointers and results that each event leads to.
Breaks ==
    [later_v |-> {}, creat_open |-> {}, reclaim |-> {"tablelock not held"},
     nomem |-> {"no vnode"}, readdir |-> {"null entry"}]

\* While vnodes stay, no assertion of semfs fails; each event leads only to
\* what its own code gets wrong.
NoPanic == panic \in {"none"} \union UNION {Breaks[e] : e \in env}

\* No reader sleeps while the count is positive, unless a reader that will
\* find it was woken: what semfs_wakeup's comment argues.  It does not hold
\* when a second V comes before that reader ran.
NoStranded ==
    \A s \in Sems :
        sem[s].live /\ "later_v" \notin env /\ sem[s].count > 0
            /\ sem[s].sleepers # <<>>
          => \E t \in Threads : pc[t] = "read" /\ Getsem(t) = s

\* Nothing is lost or made up by partial reads, wakeups, truncation and the
\* overflow of the count: it is what was put minus what was got.
Conserved ==
    \A s \in Sems : sem[s].live => sem[s].count = sem[s].due

\* Who has a semaphore open goes on using that one, even when its name was
\* removed and made again, and its number is not given out meanwhile.
OpenStays ==
    \A t \in Threads : open[t] # NULL =>
        /\ Getsem(t) = opened[t]
        /\ sem[opened[t]].live /\ sem[opened[t]].hasvnode

\* A name is in the directory once, and leads to a linked semaphore (to one
\* that creat is about to link, with the directory locked).
NamesOnce ==
    \A name \in Names : Entries(name) # {} =>
        /\ Cardinality(Entries(name)) = 1
        /\ LET s == semfs_sems[Entry(name).semnum]
           IN  s # NULL /\ sem[s].live /\ (sem[s].linked \/ dirlock # NULL)

\* Opening a semaphore returns: the big lock and the locks of the directory
\* and the table are not waited for in a circle.  With "creat_open" they are:
\* creat waits for the big lock with the directory locked, lookup for the
\* directory with the big lock held.
OpenReturns ==
    \A t \in Threads :
        (/\ env \in {{}, {"later_v"}}
         /\ pc[t] \in {"lookup", "getvnode", "incref"})
            ~> pc[t] = "run"

\* A semaphore of semfs is one for those who use it: its count is kept, its
\* sleepers are woken, and its name and number stay with it.
SemaphoresRight ==
    TypeOK /\ NoStranded /\ Conserved /\ OpenStays /\ NamesOnce

=============================================================================
