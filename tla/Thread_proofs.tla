--------------------------- MODULE Thread_proofs ---------------------------
(***************************************************************************)
(* Proofs about Thread: for any numbers of CPUs, threads and wait          *)
(* channels, and whatever threads call, no thread of kern/thread/thread.c  *)
(* is lost or in two places, no CPU uses the stack of another or one that  *)
(* exorcise has freed, and no assertion fails.                             *)
(*                                                                         *)
(* The steps of the kernel that touch threads move them from one place to  *)
(* another: from a CPU to a queue, from one queue to the next.  What they  *)
(* keep is shown once, of a move (Moves), and each step is shown to be a   *)
(* move of what it takes.                                                  *)
(***************************************************************************)
EXTENDS Thread, SequenceTheorems, TLAPS

-----------------------------------------------------------------------------
\* Queues are sequences; these are the facts the steps need of them.

\* threadlist_addtail: the queue holds one thread more, at its end.
LEMMA AppendHolds ==
  ASSUME NEW S, NEW s \in Seq(S), NEW x \in S
  PROVE  /\ Append(s, x) \in Seq(S)
         /\ Len(Append(s, x)) = Len(s) + 1
         /\ Range(Append(s, x)) = Range(s) \union {x}
         /\ IsInjective(s) /\ x \notin Range(s) => IsInjective(Append(s, x))
<1>1. /\ Append(s, x) \in Seq(S)
      /\ Len(Append(s, x)) = Len(s) + 1
      /\ \A i \in 1 .. Len(s) : Append(s, x)[i] = s[i]
      /\ Append(s, x)[Len(s) + 1] = x
      /\ DOMAIN Append(s, x) = 1 .. Len(s) + 1
      /\ DOMAIN s = 1 .. Len(s)
      /\ Len(s) \in Nat
  BY AppendProperties
<1>2. Range(Append(s, x)) = Range(s) \union {x}
  BY <1>1 DEF Range
<1>3. ASSUME IsInjective(s), x \notin Range(s)
      PROVE  IsInjective(Append(s, x))
  BY <1>1, <1>3 DEF Range, IsInjective
<1> QED
  BY <1>1, <1>2, <1>3

\* threadlist_remhead: the head is not in the rest of a queue that holds
\* each thread once.
LEMMA TailHolds ==
  ASSUME NEW S, NEW s \in Seq(S), s # <<>>
  PROVE  /\ Tail(s) \in Seq(S)
         /\ Len(Tail(s)) = Len(s) - 1
         /\ Len(s) > 0
         /\ Head(s) \in S
         /\ Head(s) \in Range(s)
         /\ Range(Tail(s)) \subseteq Range(s)
         /\ Range(s) = Range(Tail(s)) \union {Head(s)}
         /\ IsInjective(s) => /\ IsInjective(Tail(s))
                              /\ Head(s) \notin Range(Tail(s))
<1>1. /\ Tail(s) \in Seq(S)
      /\ Len(Tail(s)) = Len(s) - 1
      /\ \A i \in 1 .. Len(s) - 1 : Tail(s)[i] = s[i + 1]
      /\ DOMAIN Tail(s) = 1 .. Len(s) - 1
      /\ DOMAIN s = 1 .. Len(s)
      /\ Len(s) \in Nat /\ Len(s) > 0
      /\ Head(s) = s[1] /\ Head(s) \in S
  BY HeadTailProperties, LenProperties, EmptySeq
<1>2. \A i \in 1 .. Len(s) : i = 1 \/ (i - 1 \in 1 .. Len(s) - 1
                                        /\ s[i] = Tail(s)[i - 1])
  BY <1>1
<1>3. \A i \in 1 .. Len(s) - 1 : i + 1 \in 1 .. Len(s)
  BY <1>1
<1>4. Range(s) \subseteq Range(Tail(s)) \union {Head(s)}
  <2> SUFFICES ASSUME NEW i \in 1 .. Len(s)
               PROVE  s[i] \in Range(Tail(s)) \union {Head(s)}
    BY <1>1 DEF Range
  <2>1. CASE i = 1
    BY <1>1, <2>1
  <2>2. CASE i # 1
    <3>1. i - 1 \in DOMAIN Tail(s) /\ s[i] = Tail(s)[i - 1]
      BY <1>1, <1>2, <2>2
    <3> QED
      BY <3>1 DEF Range
  <2> QED
    BY <2>1, <2>2
<1>5. Range(Tail(s)) \subseteq Range(s) /\ Head(s) \in Range(s)
  BY <1>1, <1>3 DEF Range
<1>6. ASSUME IsInjective(s)
      PROVE  IsInjective(Tail(s)) /\ Head(s) \notin Range(Tail(s))
  BY <1>1, <1>3, <1>6 DEF Range, IsInjective
<1> QED
  BY <1>1, <1>4, <1>5, <1>6

\* The leftovers of thread_consider_migration follow what the queue holds.
LEMMA ConcatHolds ==
  ASSUME NEW S, NEW s \in Seq(S), NEW u \in Seq(S)
  PROVE  /\ s \o u \in Seq(S)
         /\ Len(s \o u) = Len(s) + Len(u)
         /\ Range(s \o u) = Range(s) \union Range(u)
         /\ /\ IsInjective(s) /\ IsInjective(u)
            /\ Range(s) \intersect Range(u) = {}
            => IsInjective(s \o u)
<1>1. /\ s \o u \in Seq(S)
      /\ Len(s \o u) = Len(s) + Len(u)
      /\ Len(s) \in Nat /\ Len(u) \in Nat
      /\ DOMAIN s = 1 .. Len(s) /\ DOMAIN u = 1 .. Len(u)
      /\ DOMAIN (s \o u) = 1 .. Len(s) + Len(u)
  BY ConcatProperties, LenProperties
<1>2. \A i \in 1 .. Len(s) + Len(u) :
         (s \o u)[i] = IF i <= Len(s) THEN s[i] ELSE u[i - Len(s)]
  BY ConcatProperties
<1>3. \A i \in 1 .. Len(s) :
         i \in 1 .. Len(s) + Len(u) /\ (s \o u)[i] = s[i]
  BY <1>1, <1>2
<1>4. \A i \in 1 .. Len(u) :
         /\ i + Len(s) \in 1 .. Len(s) + Len(u)
         /\ (s \o u)[i + Len(s)] = u[i]
  BY <1>1, <1>2
<1>5. \A i \in 1 .. Len(s) + Len(u) :
         \/ i \in 1 .. Len(s) /\ (s \o u)[i] = s[i]
         \/ i - Len(s) \in 1 .. Len(u) /\ (s \o u)[i] = u[i - Len(s)]
  BY <1>1, <1>2
<1>6. Range(s \o u) = Range(s) \union Range(u)
  <2>1. Range(s) \subseteq Range(s \o u)
    BY <1>1, <1>3 DEF Range
  <2>2. \A i \in DOMAIN u : u[i] \in Range(s \o u)
    <3> TAKE i \in DOMAIN u
    <3>1. /\ i + Len(s) \in DOMAIN (s \o u)
          /\ (s \o u)[i + Len(s)] = u[i]
      BY <1>1, <1>4
    <3> QED
      BY <3>1 DEF Range
  <2>3. \A i \in DOMAIN (s \o u) :
           (s \o u)[i] \in Range(s) \union Range(u)
    <3> TAKE i \in DOMAIN (s \o u)
    <3>1. CASE i \in 1 .. Len(s) /\ (s \o u)[i] = s[i]
      BY <1>1, <3>1 DEF Range
    <3>2. CASE i - Len(s) \in 1 .. Len(u) /\ (s \o u)[i] = u[i - Len(s)]
      <4>1. PICK k \in DOMAIN u : (s \o u)[i] = u[k]
        BY <1>1, <3>2
      <4> QED
        BY <4>1 DEF Range
    <3> QED
      BY <1>1, <1>5, <3>1, <3>2
  <2>4. Range(u) \subseteq Range(s \o u)
    BY <2>2 DEF Range
  <2>5. Range(s \o u) \subseteq Range(s) \union Range(u)
    <3>1. \A x \in Range(s \o u) : \E i \in DOMAIN (s \o u) : x = (s \o u)[i]
      BY DEF Range
    <3> QED
      BY <2>3, <3>1
  <2> QED
    BY <2>1, <2>4, <2>5
<1>7. ASSUME IsInjective(s), IsInjective(u),
             Range(s) \intersect Range(u) = {}
      PROVE  IsInjective(s \o u)
  <2> SUFFICES ASSUME NEW i \in 1 .. Len(s) + Len(u),
                      NEW j \in 1 .. Len(s) + Len(u),
                      (s \o u)[i] = (s \o u)[j]
               PROVE  i = j
    BY <1>1 DEF IsInjective
  <2>1. \A k \in 1 .. Len(s), l \in 1 .. Len(u) : s[k] # u[l]
    BY <1>1, <1>7 DEF Range
  <2>2. /\ \A k, l \in 1 .. Len(s) : s[k] = s[l] => k = l
        /\ \A k, l \in 1 .. Len(u) : u[k] = u[l] => k = l
    BY <1>1, <1>7 DEF IsInjective
  <2>3. \/ i \in 1 .. Len(s) /\ (s \o u)[i] = s[i]
        \/ i - Len(s) \in 1 .. Len(u) /\ (s \o u)[i] = u[i - Len(s)]
    BY <1>5
  <2>4. \/ j \in 1 .. Len(s) /\ (s \o u)[j] = s[j]
        \/ j - Len(s) \in 1 .. Len(u) /\ (s \o u)[j] = u[j - Len(s)]
    BY <1>5
  <2>5. CASE i \in 1 .. Len(s) /\ (s \o u)[i] = s[i]
    BY <2>1, <2>2, <2>4, <2>5
  <2>6. CASE i - Len(s) \in 1 .. Len(u) /\ (s \o u)[i] = u[i - Len(s)]
    <3>1. CASE j \in 1 .. Len(s) /\ (s \o u)[j] = s[j]
      BY <2>1, <2>6, <3>1
    <3>2. CASE j - Len(s) \in 1 .. Len(u) /\ (s \o u)[j] = u[j - Len(s)]
      <4>1. i - Len(s) = j - Len(s)
        BY <2>2, <2>6, <3>2
      <4> QED
        BY <4>1, <1>1
    <3> QED
      BY <2>4, <3>1, <3>2
  <2> QED
    BY <2>3, <2>5, <2>6
<1> QED
  BY <1>1, <1>6, <1>7

\* wchan_wakeone, wchan_wakeall and thread_consider_migration take one end of
\* a queue and leave the other.
LEMMA CutHolds ==
  ASSUME NEW S, NEW s \in Seq(S), NEW n \in 0 .. Len(s)
  PROVE  /\ SubSeq(s, 1, n) \in Seq(S) /\ Len(SubSeq(s, 1, n)) = n
         /\ SubSeq(s, n + 1, Len(s)) \in Seq(S)
         /\ Len(SubSeq(s, n + 1, Len(s))) = Len(s) - n
         /\ Range(s) = Range(SubSeq(s, 1, n))
                         \union Range(SubSeq(s, n + 1, Len(s)))
         /\ IsInjective(s) =>
               /\ IsInjective(SubSeq(s, 1, n))
               /\ IsInjective(SubSeq(s, n + 1, Len(s)))
               /\ Range(SubSeq(s, 1, n))
                    \intersect Range(SubSeq(s, n + 1, Len(s))) = {}
<1> DEFINE a == SubSeq(s, 1, n)
           b == SubSeq(s, n + 1, Len(s))
<1>0. Len(s) \in Nat /\ n \in Nat /\ n <= Len(s)
  BY LenProperties
<1>1. /\ Len(s) \in Nat /\ n \in Nat /\ n <= Len(s)
      /\ DOMAIN s = 1 .. Len(s)
      /\ \A i \in 1 .. Len(s) : s[i] \in S
  BY <1>0, LenProperties, ElementOfSeq
<1>2. /\ a \in Seq(S) /\ Len(a) = n /\ DOMAIN a = 1 .. n
      /\ \A i \in 1 .. n : i \in 1 .. Len(s) /\ a[i] = s[i]
  BY <1>1
<1>3. /\ b \in Seq(S) /\ Len(b) = Len(s) - n /\ DOMAIN b = 1 .. Len(s) - n
      /\ \A i \in 1 .. Len(s) - n : b[i] = s[i + n]
  <2>1. \A i \in n + 1 .. Len(s) : s[i] \in S
    BY <1>1
  <2>2. /\ b \in Seq(S)
        /\ Len(b) = IF n + 1 <= Len(s) THEN Len(s) - (n + 1) + 1 ELSE 0
        /\ \A i \in 1 .. Len(s) - (n + 1) + 1 : b[i] = s[n + 1 + i - 1]
    <3> HIDE DEF b
    <3>1. n + 1 \in Int /\ Len(s) \in Int
      BY <1>1
    <3> QED
      BY <1>1, <2>1, <3>1, SubSeqProperties DEF b
  <2> HIDE DEF b
  <2>3. Len(b) = Len(s) - n
    <3>1. CASE n + 1 <= Len(s)
      <4>1. Len(b) = Len(s) - (n + 1) + 1
        BY <2>2, <3>1
      <4> QED
        BY <1>1, <4>1
    <3>2. CASE ~(n + 1 <= Len(s))
      <4>1. Len(b) = 0
        BY <2>2, <3>2
      <4>2. n = Len(s)
        BY <1>0, <3>2
      <4> QED
        BY <1>0, <4>1, <4>2
    <3> QED
      BY <3>1, <3>2
  <2>4. DOMAIN b = 1 .. Len(s) - n
    BY <2>2, <2>3, LenProperties
  <2>5. ASSUME NEW i \in 1 .. Len(s) - n
        PROVE  b[i] = s[i + n]
    <3>1. n + 1 + i - 1 = i + n /\ i \in 1 .. Len(s) - (n + 1) + 1
      BY <1>1
    <3> QED
      BY <2>2, <3>1
  <2> QED
    BY <2>2, <2>3, <2>4, <2>5
<1> HIDE DEF a, b
<1>4. ASSUME NEW i \in 1 .. Len(s)
      PROVE  i \in 1 .. n \/ \E k \in 1 .. Len(s) - n : s[i] = b[k]
  <2>1. CASE i <= n
    BY <1>1, <2>1
  <2>2. CASE i > n
    <3>1. i - n \in 1 .. Len(s) - n /\ (i - n) + n = i
      BY <1>1, <2>2
    <3>2. b[i - n] = s[i]
      BY <1>3, <3>1
    <3> QED
      BY <3>1, <3>2
  <2> QED
    BY <1>1, <2>1, <2>2
<1>5. ASSUME NEW k \in 1 .. Len(s) - n
      PROVE  \E i \in 1 .. Len(s) : i = k + n /\ b[k] = s[i]
  BY <1>1, <1>3
<1>6. /\ Range(s) = {s[i] : i \in 1 .. Len(s)}
      /\ Range(a) = {a[i] : i \in 1 .. n}
      /\ Range(b) = {b[i] : i \in 1 .. Len(s) - n}
  BY <1>1, <1>2, <1>3 DEF Range
<1>7. Range(s) \subseteq Range(a) \union Range(b)
  BY <1>2, <1>4, <1>6
<1>8. Range(a) \union Range(b) \subseteq Range(s)
  BY <1>2, <1>5, <1>6
<1>9. ASSUME IsInjective(s)
      PROVE  /\ IsInjective(a) /\ IsInjective(b)
             /\ Range(a) \intersect Range(b) = {}
  <2>1. \A i, j \in 1 .. Len(s) : s[i] = s[j] => i = j
    BY <1>1, <1>9 DEF IsInjective
  <2>2. IsInjective(a)
    BY <1>2, <2>1 DEF IsInjective
  <2>3. IsInjective(b)
    <3> SUFFICES ASSUME NEW k \in 1 .. Len(s) - n,
                        NEW l \in 1 .. Len(s) - n, b[k] = b[l]
                 PROVE  k = l
      BY <1>3 DEF IsInjective
    <3>1. k + n = l + n
      BY <1>5, <2>1
    <3> QED
      BY <1>1, <3>1
  <2>4. ASSUME NEW i \in 1 .. n, NEW k \in 1 .. Len(s) - n, a[i] = b[k]
        PROVE  FALSE
    <3>1. i \in 1 .. Len(s) /\ a[i] = s[i] /\ i <= n
      BY <1>2
    <3>2. PICK j \in 1 .. Len(s) : j = k + n /\ b[k] = s[j]
      BY <1>5
    <3>3. i = j
      BY <2>1, <2>4, <3>1, <3>2
    <3> QED
      BY <1>1, <3>1, <3>2, <3>3
  <2> QED
    BY <1>6, <2>2, <2>3, <2>4
<1> QED
  BY <1>2, <1>3, <1>7, <1>8, <1>9 DEF a, b

-----------------------------------------------------------------------------
\* The invariant.

PcLabels == {"run", "switch", "pick", "switched", "idle", "reacquire",
             "wake", "count", "take", "give", "giving"}

Migs == [i : Nat, mine : Nat, total : Nat, send : Nat, share : Nat,
         victims : Seq(Threads)]

Types ==
    /\ TypeOK
    /\ pc \in [CPUs -> PcLabels]
    /\ newstate \in [CPUs -> {"ready", "sleep", "zombie"}]
    /\ wc \in [CPUs -> WChans \union {None}]
    /\ mig \in [CPUs -> Migs]

\* OnePlace in three parts: each queue holds a thread once, a thread that
\* exists is somewhere, and nothing is in two places.
QueuesOnce == \A q \in Queues : IsInjective(Queue(q))

Existing == {t \in Threads : t_state[t] # "none"}

Somewhere ==
    /\ \A p \in Places : Holds(p) \subseteq Existing
    /\ \A t \in Existing : \E p \in Places : t \in Holds(p)

Apart ==
    \A p, q \in Places : p # q => Holds(p) \intersect Holds(q) = {}

PlacesRight == QueuesOnce /\ Somewhere /\ Apart

\* t_cpu is right where the kernel relies on it: what a CPU's structures hold
\* is that CPU's, its dead threads have state S_ZOMBIE, and a thread that
\* exists has a CPU.
CpuRight ==
    /\ CpuOfThread
    /\ \A c \in CPUs : \A z \in Range(zombies[c]) :
           t_cpu[z] = c /\ t_state[z] = "zombie"
    /\ \A c \in CPUs : \A v \in Range(mig[c].victims) : t_cpu[v] = c
    /\ \A t \in Existing : t_cpu[t] \in CPUs

\* Where a CPU is in the code and what it has there: c_isidle, the lists
\* that only it uses, the wait channel it is about to sleep on, and what
\* thread_consider_migration has counted on its own run queue.
IdleRight(c) ==
    /\ pc[c] \in {"idle", "pick", "reacquire"} => isidle[c]
    /\ pc[c] \in {"run", "switch", "switched"} => ~isidle[c]

ListRight(c) == pc[c] = "wake" <=> list[c] # <<>>

SleepRight(c) ==
    newstate[c] = "sleep" =>
        pc[c] = "switch" /\ wc[c] \in WChans /\ wc_lock[wc[c]] = c

MigRight(c) ==
    /\ pc[c] \notin {"count", "take", "give", "giving"} => mig[c] = NoMig
    /\ pc[c] \notin {"give", "giving"} => mig[c].victims = <<>>
    /\ pc[c] = "count" =>
          /\ mig[c].i \in CPUs
          /\ mig[c].mine <= Len(runqueue[c])
          /\ mig[c].i <= c => mig[c].mine = 0
    /\ pc[c] = "take" =>
          mig[c].i > 0 /\ mig[c].send <= Len(runqueue[c])
    /\ pc[c] \in {"give", "giving"} =>
          mig[c].i > 0 /\ mig[c].send <= Len(mig[c].victims)
    /\ pc[c] = "giving" => mig[c].i \in CPUs

CodeRight ==
    \A c \in CPUs :
        IdleRight(c) /\ ListRight(c) /\ SleepRight(c) /\ MigRight(c)

ThreadInv ==
    Types /\ PlacesRight /\ CpuRight /\ StackAlive /\ CodeRight
      /\ NoLostUnidle /\ NoPanic

-----------------------------------------------------------------------------
\* Places.

\* What each place holds, and each queue is, in terms of the structures.
LEMMA PlaceIs ==
  /\ \A c \in CPUs :
        /\ Queue(<<"runqueue", c>>) = runqueue[c]
        /\ Queue(<<"zombies", c>>) = zombies[c]
        /\ Queue(<<"list", c>>) = list[c]
        /\ Queue(<<"victims", c>>) = mig[c].victims
        /\ Holds(<<"runqueue", c>>) = Range(runqueue[c])
        /\ Holds(<<"zombies", c>>) = Range(zombies[c])
        /\ Holds(<<"list", c>>) = Range(list[c])
        /\ Holds(<<"victims", c>>) = Range(mig[c].victims)
        /\ Holds(<<"cpu", c>>) = {t \in Threads : Executes(c, t)}
  /\ \A w \in WChans :
        /\ Queue(<<"wchan", w>>) = wc_threads[w]
        /\ Holds(<<"wchan", w>>) = Range(wc_threads[w])
BY DEF Holds, Queue, queue

\* The same after a step.
LEMMA PlaceIsNext ==
  /\ \A c \in CPUs :
        /\ Queue(<<"runqueue", c>>)' = runqueue'[c]
        /\ Queue(<<"zombies", c>>)' = zombies'[c]
        /\ Queue(<<"list", c>>)' = list'[c]
        /\ Queue(<<"victims", c>>)' = mig'[c].victims
        /\ Holds(<<"runqueue", c>>)' = Range(runqueue'[c])
        /\ Holds(<<"zombies", c>>)' = Range(zombies'[c])
        /\ Holds(<<"list", c>>)' = Range(list'[c])
        /\ Holds(<<"victims", c>>)' = Range(mig'[c].victims)
        /\ Holds(<<"cpu", c>>)' = {t \in Threads : Executes(c, t)'}
  /\ \A w \in WChans :
        /\ Queue(<<"wchan", w>>)' = wc_threads'[w]
        /\ Holds(<<"wchan", w>>)' = Range(wc_threads'[w])
BY DEF Holds, Queue, queue

\* There are six kinds of places.
LEMMA PlaceKinds ==
  /\ \A c \in CPUs :
        /\ {<<"runqueue", c>>, <<"zombies", c>>, <<"list", c>>,
            <<"victims", c>>} \subseteq Queues
        /\ {<<"runqueue", c>>, <<"zombies", c>>, <<"list", c>>,
            <<"victims", c>>, <<"cpu", c>>} \subseteq Places
        /\ <<"cpu", c>> \notin Queues
  /\ \A w \in WChans : <<"wchan", w>> \in Queues /\ <<"wchan", w>> \in Places
  /\ \A p \in Places :
        \/ \E c \in CPUs : p \in {<<"runqueue", c>>, <<"zombies", c>>,
                                  <<"list", c>>, <<"victims", c>>,
                                  <<"cpu", c>>}
        \/ \E w \in WChans : p = <<"wchan", w>>
  /\ Queues \subseteq Places
BY DEF Places, Queues

\* A place that no step has touched.
Same(p) == Holds(p)' = Holds(p) /\ Queue(p)' = Queue(p)

\* A place stays the same if the structure behind it does.
LEMMA SamePlaces ==
  /\ \A c \in CPUs :
        /\ runqueue'[c] = runqueue[c] => Same(<<"runqueue", c>>)
        /\ zombies'[c] = zombies[c] => Same(<<"zombies", c>>)
        /\ list'[c] = list[c] => Same(<<"list", c>>)
        /\ mig'[c].victims = mig[c].victims => Same(<<"victims", c>>)
        /\ curthread'[c] = curthread[c] /\ isidle'[c] = isidle[c]
           => Holds(<<"cpu", c>>)' = Holds(<<"cpu", c>>)
  /\ \A w \in WChans : wc_threads'[w] = wc_threads[w] => Same(<<"wchan", w>>)
<1>1. ASSUME NEW c \in CPUs
      PROVE  /\ runqueue'[c] = runqueue[c] => Same(<<"runqueue", c>>)
             /\ zombies'[c] = zombies[c] => Same(<<"zombies", c>>)
             /\ list'[c] = list[c] => Same(<<"list", c>>)
             /\ mig'[c].victims = mig[c].victims => Same(<<"victims", c>>)
  <2>1. runqueue'[c] = runqueue[c] => Same(<<"runqueue", c>>)
    BY PlaceIs, PlaceIsNext DEF Same
  <2>2. zombies'[c] = zombies[c] => Same(<<"zombies", c>>)
    BY PlaceIs, PlaceIsNext DEF Same
  <2>3. list'[c] = list[c] => Same(<<"list", c>>)
    BY PlaceIs, PlaceIsNext DEF Same
  <2>4. mig'[c].victims = mig[c].victims => Same(<<"victims", c>>)
    BY PlaceIs, PlaceIsNext DEF Same
  <2> QED
    BY <2>1, <2>2, <2>3, <2>4
<1>2. ASSUME NEW c \in CPUs, curthread'[c] = curthread[c],
             isidle'[c] = isidle[c]
      PROVE  Holds(<<"cpu", c>>)' = Holds(<<"cpu", c>>)
  <2>1. \A t \in Threads : Executes(c, t)' <=> Executes(c, t)
    BY <1>2 DEF Executes
  <2> QED
    BY <2>1, PlaceIs, PlaceIsNext
<1>3. ASSUME NEW w \in WChans, wc_threads'[w] = wc_threads[w]
      PROVE  Same(<<"wchan", w>>)
  BY <1>3, PlaceIs, PlaceIsNext DEF Same
<1> QED
  BY <1>1, <1>2, <1>3

\* A step that leaves every structure alone, or all but some, leaves their
\* places alone.
Untouched(A) ==
    /\ \A c \in CPUs :
          /\ <<"runqueue", c>> \in A \/ runqueue'[c] = runqueue[c]
          /\ <<"zombies", c>> \in A \/ zombies'[c] = zombies[c]
          /\ <<"list", c>> \in A \/ list'[c] = list[c]
          /\ <<"victims", c>> \in A \/ mig'[c].victims = mig[c].victims
          /\ \/ <<"cpu", c>> \in A
             \/ curthread'[c] = curthread[c] /\ isidle'[c] = isidle[c]
    /\ \A w \in WChans :
          <<"wchan", w>> \in A \/ wc_threads'[w] = wc_threads[w]

LEMMA PlacesKept ==
  ASSUME NEW A, Untouched(A)
  PROVE  /\ \A p \in Places \ A : Holds(p)' = Holds(p)
         /\ \A q \in Queues \ A : Queue(q)' = Queue(q)
<1>1. ASSUME NEW p \in Places \ A
      PROVE  /\ Holds(p)' = Holds(p)
             /\ p \in Queues => Queue(p)' = Queue(p)
  <2>1. CASE \E c \in CPUs : p \in {<<"runqueue", c>>, <<"zombies", c>>,
                                    <<"list", c>>, <<"victims", c>>}
    BY <2>1, SamePlaces DEF Same, Untouched
  <2>2. CASE \E c \in CPUs : p = <<"cpu", c>>
    BY <2>2, SamePlaces, PlaceKinds DEF Untouched
  <2>3. CASE \E w \in WChans : p = <<"wchan", w>>
    BY <2>3, SamePlaces DEF Same, Untouched
  <2> QED
    BY <2>1, <2>2, <2>3, PlaceKinds
<1> QED
  BY <1>1, PlaceKinds

\* The parts of PlacesRight are what OnePlace says.
LEMMA PlacesOne == PlacesRight => OnePlace
<1> SUFFICES ASSUME PlacesRight, NEW t \in Threads
             PROVE  LET at == {p \in Places : t \in Holds(p)}
                    IN  IF t_state[t] = "none"
                        THEN at = {}
                        ELSE \E p \in Places : at = {p}
  BY DEF PlacesRight, QueuesOnce, OnePlace
<1>1. CASE t_state[t] = "none"
  BY <1>1 DEF PlacesRight, Somewhere, Existing
<1>2. CASE t_state[t] # "none"
  <2>1. PICK p \in Places : t \in Holds(p)
    BY <1>2 DEF PlacesRight, Somewhere, Existing
  <2>2. \A q \in Places : t \in Holds(q) => q = p
    BY <2>1 DEF PlacesRight, Apart
  <2> QED
    BY <1>2, <2>1, <2>2
<1> QED
  BY <1>1, <1>2

-----------------------------------------------------------------------------
\* What steps do to places.

\* Threads that leave one place for another are nowhere else, before or
\* after, and none appears or disappears.
LEMMA Moves ==
  ASSUME PlacesRight, NEW a \in Places, NEW b \in Places, a # b,
         Untouched({a, b}),
         a \in Queues => IsInjective(Queue(a)'),
         b \in Queues => IsInjective(Queue(b)'),
         Holds(a)' \subseteq Holds(a),
         Holds(b)' = Holds(b) \union (Holds(a) \ Holds(a)'),
         Existing' = Existing
  PROVE  PlacesRight'
<1>0. /\ \A p \in Places \ {a, b} : Holds(p)' = Holds(p)
      /\ \A q \in Queues \ {a, b} : Queue(q)' = Queue(q)
  BY PlacesKept
<1>1. QueuesOnce'
  BY <1>0 DEF PlacesRight, QueuesOnce
<1>2. (\A p \in Places : Holds(p) \subseteq Existing)'
  BY <1>0 DEF PlacesRight, Somewhere
<1>3. (\A t \in Existing : \E p \in Places : t \in Holds(p))'
  <2> SUFFICES ASSUME NEW t \in Existing
               PROVE  \E p \in Places : t \in Holds(p)'
    OBVIOUS
  <2>1. PICK p \in Places : t \in Holds(p)
    BY DEF PlacesRight, Somewhere
  <2>2. CASE p = a
    BY <2>1, <2>2
  <2>3. CASE p # a
    BY <1>0, <2>1, <2>3
  <2> QED
    BY <2>2, <2>3
<1>4. Apart'
  <2> SUFFICES ASSUME NEW p \in Places, NEW q \in Places, p # q,
                      NEW t, t \in Holds(p)', t \in Holds(q)'
               PROVE  FALSE
    BY DEF Apart
  <2>1. \A r, s \in Places : t \in Holds(r) /\ t \in Holds(s) => r = s
    BY DEF PlacesRight, Apart
  <2>2. \A r \in Places : r # b /\ t \in Holds(r)' => t \in Holds(r)
    BY <1>0
  <2>3. t \in Holds(b)' =>
           t \in Holds(b) \/ (t \in Holds(a) /\ t \notin Holds(a)')
    OBVIOUS
  <2> QED
    BY <2>1, <2>2, <2>3
<1> QED
  BY <1>1, <1>2, <1>3, <1>4 DEF PlacesRight, Somewhere

\* A step that moves nothing.
LEMMA Stands ==
  ASSUME PlacesRight, Untouched({}), Existing' = Existing
  PROVE  PlacesRight'
<1>1. /\ \A p \in Places : Holds(p)' = Holds(p)
      /\ \A q \in Queues : Queue(q)' = Queue(q)
  BY PlacesKept
<1> QED
  BY <1>1 DEF PlacesRight, QueuesOnce, Somewhere, Apart

\* A queue whose threads are put in another order, each once.
LEMMA Shuffles ==
  ASSUME PlacesRight, NEW a \in Queues, Untouched({a}),
         IsInjective(Queue(a)'), Holds(a)' = Holds(a), Existing' = Existing
  PROVE  PlacesRight'
<1>1. /\ \A p \in Places : Holds(p)' = Holds(p)
      /\ \A q \in Queues \ {a} : Queue(q)' = Queue(q)
  BY PlacesKept
<1>2. QueuesOnce'
  BY <1>1 DEF PlacesRight, QueuesOnce
<1> QED
  BY <1>1, <1>2 DEF PlacesRight, Somewhere, Apart

\* thread_fork: the new thread comes to one place.
LEMMA Comes ==
  ASSUME PlacesRight, NEW b \in Places, NEW t \in Threads, t \notin Existing,
         Untouched({b}),
         b \in Queues => IsInjective(Queue(b)'),
         Holds(b)' = Holds(b) \union {t},
         Existing' = Existing \union {t}
  PROVE  PlacesRight'
<1>0. /\ \A p \in Places \ {b} : Holds(p)' = Holds(p)
      /\ \A q \in Queues \ {b} : Queue(q)' = Queue(q)
  BY PlacesKept
<1>1. QueuesOnce'
  BY <1>0 DEF PlacesRight, QueuesOnce
<1>2. Somewhere'
  BY <1>0 DEF PlacesRight, Somewhere
<1>3. \A p \in Places : t \notin Holds(p)
  BY DEF PlacesRight, Somewhere
<1>4. Apart'
  <2> SUFFICES ASSUME NEW p \in Places, NEW q \in Places, p # q,
                      NEW u, u \in Holds(p)', u \in Holds(q)'
               PROVE  FALSE
    BY DEF Apart
  <2>1. \A r, s \in Places : u \in Holds(r) /\ u \in Holds(s) => r = s
    BY DEF PlacesRight, Apart
  <2> QED
    BY <1>0, <1>3, <2>1
<1> QED
  BY <1>1, <1>2, <1>4 DEF PlacesRight

\* exorcise: threads cease to exist where they are.
LEMMA Goes ==
  ASSUME PlacesRight, NEW a \in Places,
         Untouched({a}),
         a \in Queues => IsInjective(Queue(a)'),
         Holds(a)' = {},
         Existing' = Existing \ Holds(a)
  PROVE  PlacesRight'
<1>0. /\ \A p \in Places \ {a} : Holds(p)' = Holds(p)
      /\ \A q \in Queues \ {a} : Queue(q)' = Queue(q)
  BY PlacesKept
<1>1. QueuesOnce'
  BY <1>0 DEF PlacesRight, QueuesOnce
<1>2. \A p \in Places : p # a => Holds(p) \intersect Holds(a) = {}
  BY DEF PlacesRight, Apart
<1>3. Somewhere'
  BY <1>0, <1>2 DEF PlacesRight, Somewhere
<1>4. Apart'
  BY <1>0 DEF PlacesRight, Apart
<1> QED
  BY <1>1, <1>3, <1>4 DEF PlacesRight

-----------------------------------------------------------------------------
\* Types.

LEMMA NoMigType ==
  /\ NoMig \in Migs
  /\ NoMig.i = 1 /\ NoMig.mine = 0 /\ NoMig.total = 0 /\ NoMig.send = 0
  /\ NoMig.share = 0 /\ NoMig.victims = <<>>
BY DEF NoMig, Migs

\* The steps of thread_consider_migration change some of its locals and keep
\* the others.
LEMMA MigUpdates ==
  ASSUME NEW m \in Migs
  PROVE  /\ \A n, k \in Nat :
               /\ Counted(m, n, k) \in Migs
               /\ Counted(m, n, k).i = m.i + 1
               /\ Counted(m, n, k).mine = k
               /\ Counted(m, n, k).victims = m.victims
         /\ /\ NextCPU(m) \in Migs /\ NextCPU(m).i = m.i + 1
            /\ NextCPU(m).send = m.send /\ NextCPU(m).victims = m.victims
         /\ \A v \in Seq(Threads) :
               /\ Taking(m, v) \in Migs /\ Taking(m, v).i = m.i
               /\ Taking(m, v).send = m.send /\ Taking(m, v).victims = v
         /\ \A v \in Seq(Threads) :
               m.send > 0 =>
                  /\ Giving(m, v) \in Migs /\ Giving(m, v).i = m.i
                  /\ Giving(m, v).send = m.send - 1
                  /\ Giving(m, v).victims = v
<1>0. m.i \in Nat /\ m.total \in Nat /\ m.send \in Nat
  BY DEF Migs
<1>1. ASSUME NEW n \in Nat, NEW k \in Nat
      PROVE  /\ Counted(m, n, k) \in Migs
             /\ Counted(m, n, k).i = m.i + 1
             /\ Counted(m, n, k).mine = k
             /\ Counted(m, n, k).victims = m.victims
  <2>1. PICK i \in Nat, l \in Nat : i = m.i + 1 /\ l = m.total + n
    BY <1>0
  <2>2. Counted(m, n, k) = [m EXCEPT !.i = i, !.mine = k, !.total = l]
    BY <2>1 DEF Counted
  <2> QED
    BY <2>1, <2>2 DEF Migs
<1>2. /\ NextCPU(m) \in Migs /\ NextCPU(m).i = m.i + 1
      /\ NextCPU(m).send = m.send /\ NextCPU(m).victims = m.victims
  <2>1. PICK i \in Nat : i = m.i + 1
    BY <1>0
  <2>2. NextCPU(m) = [m EXCEPT !.i = i]
    BY <2>1 DEF NextCPU
  <2> QED
    BY <2>1, <2>2 DEF Migs
<1>3. ASSUME NEW v \in Seq(Threads)
      PROVE  /\ Taking(m, v) \in Migs /\ Taking(m, v).i = m.i
             /\ Taking(m, v).send = m.send /\ Taking(m, v).victims = v
  BY DEF Taking, Migs
<1>4. ASSUME NEW v \in Seq(Threads), m.send > 0
      PROVE  /\ Giving(m, v) \in Migs /\ Giving(m, v).i = m.i
             /\ Giving(m, v).send = m.send - 1 /\ Giving(m, v).victims = v
  <2>1. PICK n \in Nat : n = m.send - 1
    BY <1>0, <1>4
  <2>2. Giving(m, v) = [m EXCEPT !.victims = v, !.send = n]
    BY <2>1 DEF Giving
  <2> QED
    BY <2>1, <2>2 DEF Migs
<1> QED
  BY <1>1, <1>2, <1>3, <1>4

LEMMA SendingType ==
  ASSUME NEW n \in Nat, NEW k \in Nat
  PROVE  /\ Sending(n, k) \in Migs /\ Sending(n, k).i = 1
         /\ Sending(n, k).send = n /\ Sending(n, k).victims = <<>>
<1>1. NoMig \in Migs /\ NoMig.i = 1 /\ NoMig.victims = <<>>
  BY NoMigType
<1>2. PICK m \in Migs : m = NoMig
  BY <1>1
<1>3. Sending(n, k) = [m EXCEPT !.send = n, !.share = k]
  BY <1>2 DEF Sending
<1> QED
  BY <1>1, <1>2, <1>3 DEF Migs

\* They are the locals of one CPU.
LEMMA SetMigType ==
  ASSUME Types, NEW c \in CPUs, NEW r \in Migs, SetMig(c, r)
  PROVE  /\ mig' \in [CPUs -> Migs] /\ mig'[c] = r
         /\ \A d \in CPUs \ {c} : mig'[d] = mig[d]
BY DEF Types, SetMig

\* A share of what is queued is not negative.
LEMMA ShareType ==
  ASSUME NEW a \in Nat
  PROVE  DivRoundUp(a, NumCPUs) \in Nat
<1>1. a + NumCPUs - 1 \in Nat
  BY CPUAssumption
<1>2. \A x \in Nat : x \div NumCPUs \in Int /\ x \div NumCPUs >= 0
  BY CPUAssumption
<1> QED
  BY <1>1, <1>2 DEF DivRoundUp

\* The fields of the locals of thread_consider_migration.
LEMMA MigFields ==
  ASSUME Types, NEW c \in CPUs
  PROVE  /\ mig[c] \in Migs
         /\ mig[c].i \in Nat /\ mig[c].mine \in Nat /\ mig[c].total \in Nat
         /\ mig[c].send \in Nat /\ mig[c].share \in Nat
         /\ mig[c].victims \in Seq(Threads)
BY DEF Types, Migs

\* Each field of a CPU's structures has its type.
LEMMA CpuTypes ==
  ASSUME Types, NEW c \in CPUs
  PROVE  /\ runqueue[c] \in Seq(Threads) /\ zombies[c] \in Seq(Threads)
         /\ list[c] \in Seq(Threads) /\ curthread[c] \in Threads
         /\ Len(runqueue[c]) \in Nat /\ Len(list[c]) \in Nat
         /\ c \in Nat /\ c > 0 /\ c # None /\ isidle[c] \in BOOLEAN
  BY NoneAssumption DEF Types, TypeOK, CPUs

\* CPUs are told apart by their numbers.
LEMMA CPUNumbers ==
  ASSUME NEW i \in Nat, i > 0, i <= NumCPUs
  PROVE  i \in CPUs
BY CPUAssumption DEF CPUs

\* What the count of a run queue comes to: the next run queue, nothing to
\* send, or a number of threads to send that this CPU's own run queue held.
CountGoesOn(c, r) ==
    /\ mig[c].i < NumCPUs
    /\ SetMig(c, r) /\ UNCHANGED <<pc, newstate, wc>>
    /\ r.i = mig[c].i + 1
    /\ r.mine = IF mig[c].i = c THEN Len(runqueue[c]) ELSE mig[c].mine

CountEnds(c) == SetMig(c, NoMig) /\ HardclockReturn(c)

CountSends(c, r) ==
    /\ mig[c].i = NumCPUs
    /\ SetMig(c, r) /\ Goto(c, "take")
    /\ UNCHANGED <<newstate, wc>>
    /\ r.i = 1
    /\ r.send <= IF mig[c].i = c THEN Len(runqueue[c]) ELSE mig[c].mine

LEMMA CountSteps ==
  ASSUME Types, CodeRight, NEW c \in CPUs, MigrationCount(c)
  PROVE  \/ \E r \in Migs : CountGoesOn(c, r) /\ r.victims = <<>>
         \/ CountEnds(c)
         \/ \E r \in Migs : CountSends(c, r) /\ r.victims = <<>>
<1> DEFINE m == mig[c]
           n == Len(runqueue[m.i])
           mine == IF m.i = c THEN n ELSE m.mine
           share == DivRoundUp(m.total + n, NumCPUs)
<1>1. m.i \in CPUs /\ m.victims = <<>>
  BY DEF MigrationCount, At, CodeRight, MigRight
<1>2. n \in Nat /\ mine \in Nat /\ m.total + n \in Nat
  BY <1>1, MigFields, CpuTypes
<1>3. share \in Nat
  BY <1>2, ShareType
<1>4. CASE m.i < NumCPUs
  <2>1. SetMig(c, Counted(m, n, mine)) /\ UNCHANGED <<pc, newstate, wc>>
    BY <1>4, MigFields, CPUAssumption DEF MigrationCount
  <2>2. PICK r \in Migs : /\ r = Counted(m, n, mine)
                          /\ r.i = m.i + 1 /\ r.mine = mine
                          /\ r.victims = m.victims
    BY <1>2, MigFields, MigUpdates
  <2> QED
    BY <1>1, <1>4, <2>1, <2>2 DEF CountGoesOn
<1>5. CASE m.i = NumCPUs /\ mine <= share
  <2>1. ~(m.i < NumCPUs) /\ ~(mine > share)
    BY <1>2, <1>3, <1>5, CPUAssumption
  <2> QED
    BY <2>1 DEF MigrationCount, CountEnds
<1>6. CASE m.i = NumCPUs /\ mine > share
  <2>1. ~(m.i < NumCPUs) /\ ~(mine <= share)
    BY <1>2, <1>3, <1>6, CPUAssumption
  <2>2. /\ SetMig(c, Sending(mine - share, share))
        /\ Goto(c, "take") /\ UNCHANGED <<newstate, wc>>
    BY <2>1 DEF MigrationCount
  <2>3. mine - share \in Nat /\ mine - share <= mine
    BY <1>2, <1>3, <1>6
  <2>4. PICK r \in Migs : /\ r = Sending(mine - share, share)
                          /\ r.i = 1 /\ r.send = mine - share
                          /\ r.victims = <<>>
    BY <1>3, <2>3, SendingType
  <2> QED
    BY <1>1, <1>6, <2>2, <2>3, <2>4 DEF CountSends
<1> QED
  BY <1>4, <1>5, <1>6, <1>2, <1>3, MigFields, CPUAssumption
     DEF MigrationCount

\* Threads become ready, are moved or executed, and keep their types: the
\* steps of the switch.
LEMMA SwitchTypes ==
  ASSUME Types, CodeRight, NEW c \in CPUs,
         \/ SwitchNothing(c) \/ SwitchEnqueue(c) \/ SwitchIdle(c)
         \/ SwitchTo(c) \/ Switched(c) \/ IdleIpi(c) \/ RunIpi(c)
         \/ Reacquire(c) \/ ThreadYield(c) \/ ThreadExit(c)
         \/ (\E w \in WChans : WchanSleep(c, w))
  PROVE  Types'
<1> USE DEF Types, TypeOK, PcLabels, ThreadStates, At, Goto, cpuvars,
            threadvars, wchanvars, codevars
<1>1. CASE SwitchNothing(c)
  BY <1>1 DEF SwitchNothing
<1>2. CASE SwitchEnqueue(c)
  <2>1. curthread[c] \in Threads /\ newstate[c] \in ThreadStates
    OBVIOUS
  <2>2. /\ \A w \in WChans :
              Append(wc_threads[w], curthread[c]) \in Seq(Threads)
        /\ Append(zombies[c], curthread[c]) \in Seq(Threads)
        /\ Enqueue(runqueue[c], curthread[c]) \in Seq(Threads)
    <3>1. \A s \in Seq(Threads) : Append(s, curthread[c]) \in Seq(Threads)
      BY <2>1, AppendHolds
    <3> QED
      BY <3>1 DEF Enqueue
  <2>3. /\ wc_threads' \in [WChans -> Seq(Threads)]
        /\ zombies' \in [CPUs -> Seq(Threads)]
        /\ runqueue' \in [CPUs -> Seq(Threads)]
    <3>1. CASE newstate[c] = "ready"
      BY <1>2, <2>2, <3>1 DEF SwitchEnqueue
    <3>2. CASE newstate[c] = "sleep"
      <4>1. PICK w \in WChans : w = wc[c]
        BY <3>2 DEF CodeRight, SleepRight
      <4>2. wc_threads' = [wc_threads EXCEPT
                             ![w] = Append(wc_threads[w], curthread[c])]
        BY <1>2, <3>2, <4>1 DEF SwitchEnqueue
      <4>3. wc_threads' \in [WChans -> Seq(Threads)]
        BY <2>2, <4>2
      <4>4. UNCHANGED <<runqueue, zombies>>
        BY <1>2, <3>2 DEF SwitchEnqueue
      <4> QED
        BY <4>3, <4>4
    <3>3. CASE newstate[c] = "zombie"
      BY <1>2, <2>2, <3>3 DEF SwitchEnqueue
    <3> QED
      BY <1>2, <3>1, <3>2, <3>3
  <2>4. wc_lock' \in [WChans -> CPUs \union {None}]
    BY <1>2 DEF SwitchEnqueue
  <2>5. t_state' \in [Threads -> ThreadStates]
    BY <1>2, <2>1 DEF SwitchEnqueue, SetState
  <2> QED
    BY <1>2, <2>3, <2>4, <2>5 DEF SwitchEnqueue
<1>3. CASE SwitchIdle(c)
  BY <1>3 DEF SwitchIdle
<1>4. CASE SwitchTo(c)
  <2>1. Tail(runqueue[c]) \in Seq(Threads) /\ Head(runqueue[c]) \in Threads
    BY <1>4, TailHolds DEF SwitchTo
  <2> QED
    BY <1>4, <2>1 DEF SwitchTo, SetState
<1>5. CASE Switched(c)
  BY <1>5, EmptySeq DEF Switched, Exorcise
<1>6. CASE IdleIpi(c)
  BY <1>6 DEF IdleIpi
<1>7. CASE RunIpi(c)
  BY <1>7 DEF RunIpi
<1>8. CASE Reacquire(c)
  BY <1>8 DEF Reacquire
<1>9. CASE ThreadYield(c)
  BY <1>9 DEF ThreadYield, EnterSwitch
<1>10. CASE ThreadExit(c)
  BY <1>10 DEF ThreadExit, EnterSwitch
<1>11. ASSUME NEW w \in WChans, WchanSleep(c, w)
       PROVE  Types'
  BY <1>11 DEF WchanSleep, EnterSwitch
<1> QED
  BY <1>1, <1>2, <1>3, <1>4, <1>5, <1>6, <1>7, <1>8, <1>9, <1>10, <1>11

\* The same for thread_make_runnable, thread_fork and the wakeups.
LEMMA WakeTypes ==
  ASSUME Types, CodeRight, NEW c \in CPUs,
         \/ MakeRunnable(c)
         \/ (\E t \in Threads : ThreadFork(c, t))
         \/ (\E w \in WChans : WchanWakeone(c, w) \/ WchanWakeall(c, w))
  PROVE  Types'
<1> USE DEF Types, TypeOK, PcLabels, ThreadStates, At, Goto, cpuvars,
            threadvars, wchanvars, codevars
<1>1. CASE MakeRunnable(c)
  <2>1. list[c] # <<>>
    BY <1>1 DEF MakeRunnable, CodeRight, ListRight
  <2>2. Tail(list[c]) \in Seq(Threads) /\ Head(list[c]) \in Threads
    BY <2>1, TailHolds
  <2>3. list' \in [CPUs -> Seq(Threads)]
    BY <1>1, <2>2 DEF MakeRunnable
  <2>4. runqueue' \in [CPUs -> Seq(Threads)]
    <3>1. \A d \in CPUs :
             Enqueue(runqueue[d], Head(list[c])) \in Seq(Threads)
      BY <2>2, AppendHolds DEF Enqueue
    <3> QED
      BY <1>1, <3>1 DEF MakeRunnable
  <2>5. unidle' \in [CPUs -> BOOLEAN]
    BY <1>1 DEF MakeRunnable, IpiIfIdle
  <2>6. pc' \in [CPUs -> PcLabels]
    BY <1>1 DEF MakeRunnable, Caller
  <2> QED
    BY <1>1, <2>3, <2>4, <2>5, <2>6 DEF MakeRunnable
<1>2. ASSUME NEW t \in Threads, ThreadFork(c, t)
      PROVE  Types'
  <2>1. <<t>> \in Seq(Threads)
    OBVIOUS
  <2> QED
    BY <1>2, <2>1 DEF ThreadFork
<1>3. ASSUME NEW w \in WChans, NEW n \in 0 .. Len(wc_threads[w]),
             TakeSleepers(c, w, n)
      PROVE  Types'
  <2>1. /\ SubSeq(wc_threads[w], 1, n) \in Seq(Threads)
        /\ SubSeq(wc_threads[w], n + 1, Len(wc_threads[w])) \in Seq(Threads)
    BY CutHolds
  <2> QED
    BY <1>3, <2>1 DEF TakeSleepers
<1>4. ASSUME NEW w \in WChans, WchanWakeone(c, w) \/ WchanWakeall(c, w)
      PROVE  Types'
  <2>1. Len(wc_threads[w]) \in Nat
    BY LenProperties
  <2>2. wc_threads[w] # <<>>
    BY <1>4 DEF WchanWakeone, WchanWakeall, TakeSleepers
  <2>3. /\ 1 \in 0 .. Len(wc_threads[w])
        /\ Len(wc_threads[w]) \in 0 .. Len(wc_threads[w])
    BY <2>1, <2>2, EmptySeq
  <2> QED
    BY <1>3, <1>4, <2>3 DEF WchanWakeone, WchanWakeall
<1> QED
  BY <1>1, <1>2, <1>4

\* The same for hardclock and thread_consider_migration.
LEMMA MigTypes ==
  ASSUME Types, CodeRight, NEW c \in CPUs,
         \/ Hardclock(c) \/ HardclockMigration(c) \/ MigrationCount(c)
         \/ MigrationTake(c) \/ MigrationNext(c) \/ MigrationGive(c)
         \/ MigrationGiven(c) \/ MigrationBack(c)
  PROVE  Types'
<1> USE DEF At, Goto, cpuvars, threadvars, wchanvars, codevars
<1>0. ASSUME HardclockReturn(c)
      PROVE  /\ pc' \in [CPUs -> PcLabels]
             /\ newstate' \in [CPUs -> {"ready", "sleep", "zombie"}]
             /\ wc' \in [CPUs -> WChans \union {None}]
  BY <1>0 DEF HardclockReturn, EnterSwitch, Types, PcLabels
<1>1. CASE Hardclock(c)
  BY <1>0, <1>1 DEF Hardclock, Types, TypeOK
<1>2. CASE HardclockMigration(c)
  BY <1>2 DEF HardclockMigration, Types, TypeOK, PcLabels
<1>3. CASE MigrationCount(c)
  <2>1. mig' \in [CPUs -> Migs]
    BY <1>3, CountSteps, NoMigType, SetMigType
       DEF CountGoesOn, CountEnds, CountSends
  <2>2. /\ pc' \in [CPUs -> PcLabels]
        /\ newstate' \in [CPUs -> {"ready", "sleep", "zombie"}]
        /\ wc' \in [CPUs -> WChans \union {None}]
    BY <1>0, <1>3, CountSteps
       DEF CountGoesOn, CountEnds, CountSends, Types, PcLabels
  <2> QED
    BY <1>3, <2>1, <2>2 DEF MigrationCount, Types, TypeOK
<1>4. CASE MigrationTake(c)
  <2>1. /\ mig[c].send \in Nat /\ Len(runqueue[c]) \in Nat
        /\ mig[c].send <= Len(runqueue[c])
    BY <1>4, MigFields, CpuTypes DEF MigrationTake, CodeRight, MigRight
  <2>2. PICK n \in 0 .. Len(runqueue[c]) :
           n = Len(runqueue[c]) - mig[c].send
    BY <2>1
  <2>3. /\ SubSeq(runqueue[c], 1, n) \in Seq(Threads)
        /\ SubSeq(runqueue[c], n + 1, Len(runqueue[c])) \in Seq(Threads)
    BY CpuTypes, CutHolds
  <2>4. PICK v \in Seq(Threads) :
           v = SubSeq(runqueue[c], n + 1, Len(runqueue[c]))
    BY <2>3
  <2>5. /\ runqueue' = [runqueue EXCEPT ![c] = SubSeq(runqueue[c], 1, n)]
        /\ SetMig(c, Taking(mig[c], v))
    BY <1>4, <2>2, <2>4 DEF MigrationTake
  <2>6. runqueue' \in [CPUs -> Seq(Threads)]
    BY <2>3, <2>5 DEF Types, TypeOK
  <2>7. mig' \in [CPUs -> Migs]
    BY <2>5, MigFields, MigUpdates, SetMigType
  <2> QED
    BY <1>4, <2>6, <2>7 DEF MigrationTake, Types, TypeOK, PcLabels
<1>5. CASE MigrationNext(c)
  <2>1. CASE mig[c].i = c
    <3>1. SetMig(c, NextCPU(mig[c])) /\ UNCHANGED <<rqlock, pc>>
      BY <1>5, <2>1 DEF MigrationNext
    <3>2. mig' \in [CPUs -> Migs]
      BY <3>1, MigFields, MigUpdates, SetMigType
    <3> QED
      BY <1>5, <3>1, <3>2 DEF MigrationNext, Types, TypeOK
  <2>2. CASE mig[c].i # c
    <3>1. /\ rqlock' = [rqlock EXCEPT ![mig[c].i] = c]
          /\ pc' = [pc EXCEPT ![c] = "giving"] /\ UNCHANGED mig
      BY <1>5, <2>2 DEF MigrationNext
    <3>2. rqlock' \in [CPUs -> CPUs \union {None}]
      BY <3>1 DEF Types, TypeOK
    <3>3. pc' \in [CPUs -> PcLabels]
      BY <3>1 DEF Types, PcLabels
    <3> QED
      BY <1>5, <3>1, <3>2, <3>3 DEF MigrationNext, Types, TypeOK
  <2> QED
    BY <2>1, <2>2
<1>6. CASE MigrationGive(c)
  <2>1. /\ mig[c].send > 0 /\ mig[c].send <= Len(mig[c].victims)
        /\ mig[c].victims \in Seq(Threads) /\ mig[c].send \in Nat
        /\ mig[c].i \in CPUs
    BY <1>6, MigFields DEF MigrationGive, CodeRight, MigRight
  <2>3. mig[c].victims # <<>>
    BY <2>1, EmptySeq
  <2>4. PICK t \in Threads : t = Head(mig[c].victims)
    BY <2>1, <2>3, TailHolds
  <2>5. PICK v \in Seq(Threads) : v = Tail(mig[c].victims)
    BY <2>1, <2>3, TailHolds
  <2>6. Append(v, t) \in Seq(Threads)
    BY AppendHolds
  <2>7. CASE Stays(c, t)
    <3>1. /\ SetMig(c, Giving(mig[c], Append(v, t)))
          /\ UNCHANGED <<t_cpu, runqueue, unidle>>
      BY <1>6, <2>4, <2>5, <2>7 DEF MigrationGive
    <3>2. mig' \in [CPUs -> Migs]
      BY <2>1, <2>6, <3>1, MigFields, MigUpdates, SetMigType
    <3> QED
      BY <1>6, <3>1, <3>2 DEF MigrationGive, Types, TypeOK
  <2>8. CASE ~Stays(c, t)
    <3>1. /\ SetMig(c, Giving(mig[c], v))
          /\ MoveThread(t, mig[c].i) /\ IpiIfIdle(mig[c].i)
          /\ runqueue' = [runqueue EXCEPT ![mig[c].i] = Append(@, t)]
      BY <1>6, <2>4, <2>5, <2>8 DEF MigrationGive
    <3>2. mig' \in [CPUs -> Migs]
      BY <2>1, <3>1, MigFields, MigUpdates, SetMigType
    <3>3. runqueue' \in [CPUs -> Seq(Threads)]
      <4>1. Append(runqueue[mig[c].i], t) \in Seq(Threads)
        BY <2>1, CpuTypes, AppendHolds
      <4> QED
        BY <3>1, <4>1 DEF Types, TypeOK
    <3>4. t_cpu' \in [Threads -> CPUs \union {None}]
      BY <2>1, <3>1 DEF MoveThread, Types, TypeOK
    <3>5. unidle' \in [CPUs -> BOOLEAN]
      BY <2>1, <3>1 DEF IpiIfIdle, Types, TypeOK
    <3> QED
      BY <1>6, <3>2, <3>3, <3>4, <3>5 DEF MigrationGive, Types, TypeOK
  <2> QED
    BY <2>7, <2>8
<1>7. CASE MigrationGiven(c)
  <2>1. mig' \in [CPUs -> Migs]
    BY <1>7, MigFields, MigUpdates, SetMigType DEF MigrationGiven
  <2> QED
    BY <1>7, <2>1 DEF MigrationGiven, Types, TypeOK, PcLabels
<1>8. CASE MigrationBack(c)
  <2>1. runqueue[c] \o Leftovers(c) \in Seq(Threads)
    BY MigFields, CpuTypes, ConcatHolds DEF Leftovers
  <2>2. runqueue' \in [CPUs -> Seq(Threads)]
    BY <1>8, <2>1 DEF MigrationBack, Types, TypeOK
  <2> QED
    BY <1>0, <1>8, <2>2, NoMigType, SetMigType DEF MigrationBack, Types, TypeOK
<1> QED
  BY <1>1, <1>2, <1>3, <1>4, <1>5, <1>6, <1>7, <1>8

-----------------------------------------------------------------------------
\* What a CPU leaves alone.

\* The step of CPU c, of its thread or of a handler that interrupted it.
StepOf(c) ==
    \/ Step(c) \/ RunIpi(c) \/ ThreadYield(c) \/ ThreadExit(c)
    \/ \E w \in WChans : WchanSleep(c, w)
    \/ \E t \in Threads : ThreadFork(c, t)
    \/ \E w \in WChans : WchanWakeone(c, w) \/ WchanWakeall(c, w)
    \/ Hardclock(c) \/ HardclockMigration(c)

\* Where another CPU is in the code and its private structures.
OthersKept(c) ==
    \A d \in CPUs \ {c} :
        /\ pc'[d] = pc[d] /\ newstate'[d] = newstate[d] /\ wc'[d] = wc[d]
        /\ list'[d] = list[d] /\ mig'[d] = mig[d] /\ isidle'[d] = isidle[d]
        /\ curthread'[d] = curthread[d] /\ zombies'[d] = zombies[d]

LEMMA StepsAre == Next => \E c \in CPUs : StepOf(c)
BY DEF Next, StepOf

\* A CPU changes nothing that only another uses.
LEMMA StepKeepsOthers ==
  ASSUME Types, NEW c \in CPUs, StepOf(c)
  PROVE  OthersKept(c)
<1> USE DEF OthersKept, Types, TypeOK, Goto, cpuvars, threadvars, wchanvars,
            codevars
<1>1. CASE SwitchNothing(c) \/ SwitchIdle(c) \/ IdleIpi(c) \/ Reacquire(c)
             \/ RunIpi(c)
  BY <1>1 DEF SwitchNothing, SwitchIdle, IdleIpi, Reacquire, RunIpi
<1>2. CASE SwitchEnqueue(c)
  <2>1. UNCHANGED <<curthread, list, mig>>
    BY <1>2 DEF SwitchEnqueue
  <2>2. \A d \in CPUs \ {c} : isidle'[d] = isidle[d] /\ pc'[d] = pc[d]
    BY <1>2 DEF SwitchEnqueue
  <2>3. \A d \in CPUs \ {c} : newstate'[d] = newstate[d] /\ wc'[d] = wc[d]
    BY <1>2 DEF SwitchEnqueue
  <2>4. \A d \in CPUs \ {c} : zombies'[d] = zombies[d]
    BY <1>2 DEF SwitchEnqueue
  <2> QED
    BY <2>1, <2>2, <2>3, <2>4
<1>3. CASE SwitchTo(c)
  BY <1>3 DEF SwitchTo
<1>4. CASE Switched(c)
  BY <1>4 DEF Switched, Exorcise
<1>5. CASE MakeRunnable(c)
  BY <1>5 DEF MakeRunnable
<1>6. CASE ThreadYield(c) \/ ThreadExit(c)
  BY <1>6 DEF ThreadYield, ThreadExit, EnterSwitch
<1>7. ASSUME NEW w \in WChans, WchanSleep(c, w)
      PROVE  OthersKept(c)
  BY <1>7 DEF WchanSleep, EnterSwitch
<1>8. ASSUME NEW t \in Threads, ThreadFork(c, t)
      PROVE  OthersKept(c)
  BY <1>8 DEF ThreadFork
<1>9. ASSUME NEW w \in WChans, WchanWakeone(c, w) \/ WchanWakeall(c, w)
      PROVE  OthersKept(c)
  BY <1>9 DEF WchanWakeone, WchanWakeall, TakeSleepers
<1>10. ASSUME HardclockReturn(c)
       PROVE  \A d \in CPUs \ {c} :
                 pc'[d] = pc[d] /\ newstate'[d] = newstate[d]
                   /\ wc'[d] = wc[d]
  BY <1>10 DEF HardclockReturn, EnterSwitch
<1>11. CASE Hardclock(c) \/ HardclockMigration(c)
  BY <1>10, <1>11 DEF Hardclock, HardclockMigration
<1>12. CASE MigrationCount(c)
  <2>1. UNCHANGED <<list, isidle, curthread, zombies>>
    BY <1>12 DEF MigrationCount
  <2>2. \A d \in CPUs \ {c} : mig'[d] = mig[d]
    BY <1>12 DEF MigrationCount, SetMig
  <2>3. \/ UNCHANGED <<pc, newstate, wc>>
        \/ HardclockReturn(c)
        \/ Goto(c, "take") /\ UNCHANGED <<newstate, wc>>
    BY <1>12 DEF MigrationCount
  <2>4. \A d \in CPUs \ {c} :
           pc'[d] = pc[d] /\ newstate'[d] = newstate[d] /\ wc'[d] = wc[d]
    BY <1>10, <2>3
  <2> QED
    BY <2>1, <2>2, <2>4
<1>13. CASE MigrationTake(c)
  BY <1>13 DEF MigrationTake, SetMig
<1>14. CASE MigrationNext(c)
  BY <1>14 DEF MigrationNext, SetMig
<1>15. CASE MigrationGive(c)
  BY <1>15 DEF MigrationGive, SetMig
<1>16. CASE MigrationGiven(c)
  BY <1>16 DEF MigrationGiven, SetMig
<1>17. CASE MigrationBack(c)
  <2>1. UNCHANGED <<list, isidle, curthread, zombies>>
    BY <1>17 DEF MigrationBack
  <2> QED
    BY <1>10, <1>17, <2>1 DEF MigrationBack, SetMig
<1> QED
  BY <1>1, <1>2, <1>3, <1>4, <1>5, <1>6, <1>7, <1>8, <1>9, <1>11, <1>12,
     <1>13, <1>14, <1>15, <1>16, <1>17 DEF StepOf, Step

\* The steps that move no thread.
Control(c) ==
    \/ SwitchNothing(c) \/ SwitchIdle(c) \/ IdleIpi(c) \/ RunIpi(c)
    \/ Reacquire(c) \/ ThreadYield(c) \/ ThreadExit(c)
    \/ \E w \in WChans : WchanSleep(c, w)
    \/ Hardclock(c) \/ HardclockMigration(c) \/ MigrationCount(c)
    \/ MigrationNext(c) \/ MigrationGiven(c)

\* They leave the queues alone; thread_consider_migration has no victims
\* while it counts.
LEMMA ControlKeeps ==
  ASSUME Types, CodeRight, NEW c \in CPUs, Control(c)
  PROVE  /\ UNCHANGED <<runqueue, isidle, curthread, zombies, list>>
         /\ UNCHANGED <<t_state, t_cpu, wc_threads, panic>>
         /\ \A d \in CPUs : mig'[d].victims = mig[d].victims
<1> USE DEF Goto, cpuvars, threadvars, wchanvars, codevars
<1>1. CASE SwitchNothing(c) \/ SwitchIdle(c) \/ IdleIpi(c) \/ RunIpi(c)
             \/ Reacquire(c)
  BY <1>1 DEF SwitchNothing, SwitchIdle, IdleIpi, RunIpi, Reacquire
<1>2. CASE ThreadYield(c) \/ ThreadExit(c)
  BY <1>2 DEF ThreadYield, ThreadExit
<1>3. ASSUME NEW w \in WChans, WchanSleep(c, w)
      PROVE  /\ UNCHANGED <<runqueue, isidle, curthread, zombies, list>>
             /\ UNCHANGED <<t_state, t_cpu, wc_threads, panic, mig>>
  BY <1>3 DEF WchanSleep
<1>4. CASE Hardclock(c) \/ HardclockMigration(c)
  BY <1>4 DEF Hardclock, HardclockMigration
<1>5. CASE MigrationCount(c)
  <2>1. UNCHANGED <<cpuvars, threadvars, wchanvars, list, panic>>
    BY <1>5 DEF MigrationCount
  <2>2. mig[c].victims = <<>>
    BY <1>5 DEF MigrationCount, At, CodeRight, MigRight
  <2>3. mig'[c].victims = <<>>
    BY <1>5, CountSteps, NoMigType, SetMigType
       DEF CountGoesOn, CountEnds, CountSends
  <2>4. \A d \in CPUs \ {c} : mig'[d] = mig[d]
    BY <1>5 DEF MigrationCount, Types, SetMig
  <2> QED
    BY <2>1, <2>2, <2>3, <2>4
<1>6. ASSUME SetMig(c, NextCPU(mig[c]))
      PROVE  \A d \in CPUs : mig'[d].victims = mig[d].victims
  BY <1>6, MigFields, MigUpdates, SetMigType
<1>7. CASE MigrationNext(c)
  BY <1>6, <1>7 DEF MigrationNext
<1>8. CASE MigrationGiven(c)
  BY <1>6, <1>8 DEF MigrationGiven
<1> QED
  BY <1>1, <1>2, <1>3, <1>4, <1>5, <1>7, <1>8 DEF Control

\* So every thread stays where it is.
LEMMA ControlPlaces ==
  ASSUME Types, PlacesRight, CpuRight, StackAlive, CodeRight,
         NEW c \in CPUs, Control(c)
  PROVE  PlacesRight' /\ CpuRight' /\ StackAlive'
<1>1. /\ UNCHANGED <<runqueue, isidle, curthread, zombies, list>>
      /\ UNCHANGED <<t_state, t_cpu, wc_threads>>
      /\ \A d \in CPUs : mig'[d].victims = mig[d].victims
  BY ControlKeeps
<1>2. Existing' = Existing
  BY <1>1 DEF Existing
<1>3. Untouched({})
  BY <1>1 DEF Untouched
<1>5. PlacesRight'
  BY <1>2, <1>3, Stands
<1>6. CpuRight'
  BY <1>1, <1>2 DEF CpuRight, CpuOfThread
<1>7. StackAlive'
  BY <1>1 DEF StackAlive
<1> QED
  BY <1>5, <1>6, <1>7

-----------------------------------------------------------------------------
\* The steps that move threads.

\* What the steps below need of the places of a CPU.
LEMMA CpuPlaces ==
  ASSUME Types, PlacesRight, NEW c \in CPUs
  PROVE  /\ IsInjective(runqueue[c]) /\ IsInjective(zombies[c])
         /\ IsInjective(list[c]) /\ IsInjective(mig[c].victims)
         /\ isidle[c] => Holds(<<"cpu", c>>) = {}
         /\ ~isidle[c] => /\ Holds(<<"cpu", c>>) = {curthread[c]}
                          /\ curthread[c] \in Existing
<1>1. /\ IsInjective(runqueue[c]) /\ IsInjective(zombies[c])
      /\ IsInjective(list[c]) /\ IsInjective(mig[c].victims)
  <2>1. /\ <<"runqueue", c>> \in Queues /\ <<"zombies", c>> \in Queues
        /\ <<"list", c>> \in Queues /\ <<"victims", c>> \in Queues
    BY PlaceKinds
  <2>2. /\ IsInjective(Queue(<<"runqueue", c>>))
        /\ IsInjective(Queue(<<"zombies", c>>))
        /\ IsInjective(Queue(<<"list", c>>))
        /\ IsInjective(Queue(<<"victims", c>>))
    BY <2>1 DEF PlacesRight, QueuesOnce
  <2> QED
    BY <2>2, PlaceIs
<1>2. isidle[c] => Holds(<<"cpu", c>>) = {}
  BY PlaceIs DEF Executes
<1>3. ~isidle[c] => Holds(<<"cpu", c>>) = {curthread[c]}
  BY PlaceIs, CpuTypes DEF Executes
<1>4. Holds(<<"cpu", c>>) \subseteq Existing
  BY PlaceKinds DEF PlacesRight, Somewhere
<1> QED
  BY <1>1, <1>2, <1>3, <1>4

\* The same after a step, of the thread a CPU executes.
LEMMA CpuPlacesNext ==
  ASSUME Types', NEW c \in CPUs
  PROVE  /\ isidle'[c] => Holds(<<"cpu", c>>)' = {}
         /\ ~isidle'[c] => Holds(<<"cpu", c>>)' = {curthread'[c]}
<1>1. curthread'[c] \in Threads
  BY DEF Types, TypeOK
<1>2. isidle'[c] => Holds(<<"cpu", c>>)' = {}
  BY PlaceIsNext DEF Executes
<1>3. ~isidle'[c] => Holds(<<"cpu", c>>)' = {curthread'[c]}
  BY <1>1, PlaceIsNext DEF Executes
<1> QED
  BY <1>2, <1>3

\* Nothing is in two places: the form in which the steps use it.
LEMMA PlacesApart ==
  ASSUME PlacesRight, NEW p \in Places, NEW q \in Places, p # q
  PROVE  Holds(p) \intersect Holds(q) = {}
BY DEF PlacesRight, Apart

\* A thread that is executed is on no queue, and one that is on a queue is on
\* no other.
LEMMA QueuesApart ==
  ASSUME Types, PlacesRight, NEW c \in CPUs
  PROVE  /\ ~isidle[c] =>
              /\ curthread[c] \notin Range(runqueue[c])
              /\ curthread[c] \notin Range(zombies[c])
              /\ \A w \in WChans : curthread[c] \notin Range(wc_threads[w])
         /\ \A d \in CPUs :
              /\ Range(list[c]) \intersect Range(runqueue[d]) = {}
              /\ Range(mig[c].victims) \intersect Range(runqueue[d]) = {}
<1> DEFINE cpu == <<"cpu", c>>
           rq(d) == <<"runqueue", d>>
           z == <<"zombies", c>>
           l == <<"list", c>>
           v == <<"victims", c>>
           ch(w) == <<"wchan", w>>
<1>1. /\ cpu \in Places /\ z \in Places /\ l \in Places /\ v \in Places
      /\ \A d \in CPUs : rq(d) \in Places
      /\ \A w \in WChans : ch(w) \in Places
  BY PlaceKinds
<1>2. /\ cpu # z
      /\ \A d \in CPUs : cpu # rq(d) /\ l # rq(d) /\ v # rq(d)
      /\ \A w \in WChans : cpu # ch(w)
  OBVIOUS
<1>3. /\ Holds(z) = Range(zombies[c]) /\ Holds(l) = Range(list[c])
      /\ Holds(v) = Range(mig[c].victims)
      /\ \A d \in CPUs : Holds(rq(d)) = Range(runqueue[d])
      /\ \A w \in WChans : Holds(ch(w)) = Range(wc_threads[w])
      /\ ~isidle[c] => curthread[c] \in Holds(cpu)
  BY PlaceIs, CpuPlaces
<1> HIDE DEF cpu, rq, z, l, v, ch
<1>4. Holds(cpu) \intersect Holds(z) = {}
  BY <1>1, <1>2, PlacesApart
<1>5. \A d \in CPUs : Holds(cpu) \intersect Holds(rq(d)) = {}
  BY <1>1, <1>2, PlacesApart
<1>6. \A w \in WChans : Holds(cpu) \intersect Holds(ch(w)) = {}
  BY <1>1, <1>2, PlacesApart
<1>7. \A d \in CPUs : Holds(l) \intersect Holds(rq(d)) = {}
  BY <1>1, <1>2, PlacesApart
<1>8. \A d \in CPUs : Holds(v) \intersect Holds(rq(d)) = {}
  BY <1>1, <1>2, PlacesApart
<1> QED
  BY <1>3, <1>4, <1>5, <1>6, <1>7, <1>8

\* A queue that gains a thread from elsewhere.
LEMMA Gains ==
  ASSUME NEW s \in Seq(Threads), NEW t \in Threads, NEW s2,
         s2 = Append(s, t), IsInjective(s), t \notin Range(s)
  PROVE  IsInjective(s2) /\ Range(s2) = Range(s) \union {t}
BY AppendHolds

\* thread_switch puts the thread that it switches from on its run queue, on
\* its wait channel or with the zombies.
LEMMA SwitchEnqueueMoves ==
  ASSUME Types, PlacesRight, CodeRight, Types', NEW c \in CPUs,
         SwitchEnqueue(c)
  PROVE  PlacesRight'
<1> DEFINE a == <<"cpu", c>>
<1>1. pc[c] = "switch" /\ ~isidle[c]
  BY DEF SwitchEnqueue, At, CodeRight, IdleRight
<1>2. isidle'[c] /\ \A d \in CPUs \ {c} : isidle'[d] = isidle[d]
  BY DEF SwitchEnqueue, Types, TypeOK
<1>3. Holds(a) = {curthread[c]} /\ Holds(a)' = {}
  BY <1>1, <1>2, CpuPlaces, CpuPlacesNext
<1>4. Existing' = Existing
  <2>1. newstate[c] # "none" /\ curthread[c] \in Existing
    BY <1>1, CpuPlaces DEF Types
  <2> QED
    BY <2>1 DEF SwitchEnqueue, SetState, Existing, Types, TypeOK
<1>5. UNCHANGED <<curthread, list, mig>>
  BY DEF SwitchEnqueue
<1>6. curthread[c] \in Threads
  BY CpuTypes
<1>7. CASE newstate[c] = "ready"
  <2> DEFINE b == <<"runqueue", c>>
  <2>1. /\ runqueue' = [runqueue EXCEPT ![c] = Append(@, curthread[c])]
        /\ UNCHANGED <<wc_threads, zombies>>
    BY <1>7 DEF SwitchEnqueue, Enqueue, wchanvars
  <2>2. Untouched({a, b})
    BY <1>2, <1>5, <2>1 DEF Untouched, Types, TypeOK
  <2>3. runqueue'[c] = Append(runqueue[c], curthread[c])
    BY <2>1 DEF Types, TypeOK
  <2>4. /\ curthread[c] \notin Range(runqueue[c])
        /\ IsInjective(runqueue[c]) /\ runqueue[c] \in Seq(Threads)
    BY <1>1, QueuesApart, CpuPlaces, CpuTypes
  <2>5. /\ IsInjective(runqueue'[c])
        /\ Range(runqueue'[c]) = Range(runqueue[c]) \union {curthread[c]}
    BY <1>6, <2>3, <2>4, Gains
  <2>6. /\ IsInjective(Queue(b)')
        /\ Holds(b)' = Holds(b) \union {curthread[c]}
    BY <2>5, PlaceIs, PlaceIsNext
  <2> QED
    BY <1>3, <1>4, <2>2, <2>6, Moves, PlaceKinds
<1>8. CASE newstate[c] = "zombie"
  <2> DEFINE b == <<"zombies", c>>
  <2>1. /\ zombies' = [zombies EXCEPT ![c] = Append(@, curthread[c])]
        /\ UNCHANGED <<wc_threads, runqueue>>
    BY <1>8 DEF SwitchEnqueue, wchanvars
  <2>2. Untouched({a, b})
    BY <1>2, <1>5, <2>1 DEF Untouched, Types, TypeOK
  <2>3. zombies'[c] = Append(zombies[c], curthread[c])
    BY <2>1 DEF Types, TypeOK
  <2>4. /\ curthread[c] \notin Range(zombies[c])
        /\ IsInjective(zombies[c]) /\ zombies[c] \in Seq(Threads)
    BY <1>1, QueuesApart, CpuPlaces, CpuTypes
  <2>5. /\ IsInjective(zombies'[c])
        /\ Range(zombies'[c]) = Range(zombies[c]) \union {curthread[c]}
    BY <1>6, <2>3, <2>4, Gains
  <2>6. /\ IsInjective(Queue(b)')
        /\ Holds(b)' = Holds(b) \union {curthread[c]}
    BY <2>5, PlaceIs, PlaceIsNext
  <2> QED
    BY <1>3, <1>4, <2>2, <2>6, Moves, PlaceKinds
<1>9. CASE newstate[c] = "sleep"
  <2>0. PICK w \in WChans : w = wc[c]
    BY <1>9 DEF CodeRight, SleepRight
  <2> DEFINE b == <<"wchan", w>>
  <2>1. /\ wc_threads' = [wc_threads EXCEPT ![w] = Append(@, curthread[c])]
        /\ UNCHANGED <<zombies, runqueue>>
    BY <1>9, <2>0 DEF SwitchEnqueue
  <2>2. Untouched({a, b})
    BY <1>2, <1>5, <2>1 DEF Untouched, Types, TypeOK
  <2>3. /\ wc_threads'[w] = Append(wc_threads[w], curthread[c])
        /\ wc_threads[w] \in Seq(Threads)
    BY <2>1 DEF Types, TypeOK
  <2>4. /\ curthread[c] \notin Range(wc_threads[w])
        /\ IsInjective(wc_threads[w])
    <3>1. b \in Queues /\ Queue(b) = wc_threads[w]
      BY PlaceIs, PlaceKinds
    <3>2. IsInjective(wc_threads[w])
      BY <3>1 DEF PlacesRight, QueuesOnce
    <3> QED
      BY <1>1, <3>2, QueuesApart
  <2>5. /\ IsInjective(wc_threads'[w])
        /\ Range(wc_threads'[w]) = Range(wc_threads[w]) \union {curthread[c]}
    BY <1>6, <2>3, <2>4, Gains
  <2>6. /\ IsInjective(Queue(b)')
        /\ Holds(b)' = Holds(b) \union {curthread[c]}
    BY <2>5, PlaceIs, PlaceIsNext
  <2> QED
    BY <1>3, <1>4, <2>2, <2>6, Moves, PlaceKinds
<1> QED
  BY <1>7, <1>8, <1>9 DEF Types

\* An empty queue.
LEMMA EmptyHolds == Range(<<>>) = {} /\ IsInjective(<<>>)
BY DEF Range, IsInjective

\* What is on a queue exists.
LEMMA QueuedExist ==
  ASSUME PlacesRight, NEW c \in CPUs
  PROVE  /\ Range(runqueue[c]) \subseteq Existing
         /\ Range(zombies[c]) \subseteq Existing
         /\ Range(list[c]) \subseteq Existing
         /\ Range(mig[c].victims) \subseteq Existing
<1> DEFINE r == <<"runqueue", c>>
           z == <<"zombies", c>>
           l == <<"list", c>>
           v == <<"victims", c>>
<1>1. r \in Places /\ z \in Places /\ l \in Places /\ v \in Places
  BY PlaceKinds
<1>2. /\ Holds(r) = Range(runqueue[c]) /\ Holds(z) = Range(zombies[c])
      /\ Holds(l) = Range(list[c]) /\ Holds(v) = Range(mig[c].victims)
  BY PlaceIs
<1> HIDE DEF r, z, l, v
<1> QED
  BY <1>1, <1>2 DEF PlacesRight, Somewhere

\* The idle loop takes the head of its run queue and executes it.
LEMMA SwitchToMoves ==
  ASSUME Types, PlacesRight, CodeRight, Types', NEW c \in CPUs, SwitchTo(c)
  PROVE  PlacesRight'
<1> DEFINE a == <<"runqueue", c>>
           b == <<"cpu", c>>
<1>1. isidle[c] /\ runqueue[c] # <<>>
  BY DEF SwitchTo, At, CodeRight, IdleRight
<1>2. runqueue[c] \in Seq(Threads) /\ IsInjective(runqueue[c])
  BY CpuTypes, CpuPlaces
<1>3. PICK t \in Threads : t = Head(runqueue[c])
  BY <1>1, <1>2, TailHolds
<1>4. /\ runqueue'[c] = Tail(runqueue[c])
      /\ ~isidle'[c] /\ curthread'[c] = t
      /\ t_state' = [t_state EXCEPT ![t] = "run"]
  BY <1>3 DEF SwitchTo, SetState, Types, TypeOK
<1>5. /\ Range(runqueue[c]) = Range(runqueue'[c]) \union {t}
      /\ IsInjective(runqueue'[c]) /\ t \notin Range(runqueue'[c])
  BY <1>1, <1>2, <1>3, <1>4, TailHolds
<1>6. /\ Holds(a) = Range(runqueue[c]) /\ Holds(a)' = Range(runqueue'[c])
      /\ Queue(a)' = runqueue'[c]
      /\ Holds(b) = {} /\ Holds(b)' = {t}
  BY <1>1, <1>4, PlaceIs, PlaceIsNext, CpuPlaces, CpuPlacesNext
<1>7. Existing' = Existing
  <2>1. t \in Existing
    BY <1>5, QueuedExist
  <2> QED
    BY <1>4, <2>1 DEF Existing, Types, TypeOK
<1>8. Untouched({a, b})
  BY DEF SwitchTo, Untouched, wchanvars, Types, TypeOK
<1>9. a \in Places /\ b \in Places /\ a # b /\ b \notin Queues
  BY PlaceKinds
<1> HIDE DEF a, b
<1>10. /\ Holds(a)' \subseteq Holds(a)
       /\ Holds(b)' = Holds(b) \union (Holds(a) \ Holds(a)')
       /\ IsInjective(Queue(a)')
  BY <1>5, <1>6
<1> QED
  BY <1>7, <1>8, <1>9, <1>10, Moves

\* exorcise destroys the zombies of its CPU.
LEMMA SwitchedGoes ==
  ASSUME Types, PlacesRight, NEW c \in CPUs, Switched(c)
  PROVE  PlacesRight'
<1> DEFINE a == <<"zombies", c>>
<1>1. /\ zombies' = [zombies EXCEPT ![c] = <<>>]
      /\ t_state' = [t \in Threads |-> IF t \in Range(zombies[c])
                                       THEN "none" ELSE t_state[t]]
      /\ UNCHANGED <<runqueue, isidle, curthread, wc_threads, list, mig>>
  BY DEF Switched, Exorcise, wchanvars
<1>2. zombies'[c] = <<>>
  BY <1>1 DEF Types, TypeOK
<1>3. /\ Holds(a) = Range(zombies[c]) /\ Holds(a)' = {}
      /\ IsInjective(Queue(a)')
  BY <1>2, EmptyHolds, PlaceIs, PlaceIsNext
<1>4. Existing' = Existing \ Holds(a)
  BY <1>1, <1>3 DEF Existing, Types, TypeOK
<1>5. Untouched({a})
  BY <1>1 DEF Untouched, Types, TypeOK
<1>6. a \in Places
  BY PlaceKinds
<1> HIDE DEF a
<1> QED
  BY <1>3, <1>4, <1>5, <1>6, Goes

\* thread_make_runnable: from the list of those to wake to a run queue.
LEMMA MakeRunnableMoves ==
  ASSUME Types, PlacesRight, CpuRight, CodeRight, NEW c \in CPUs,
         MakeRunnable(c)
  PROVE  PlacesRight'
<1>1. list[c] # <<>>
  BY DEF MakeRunnable, At, CodeRight, ListRight
<1>2. list[c] \in Seq(Threads) /\ IsInjective(list[c])
  BY CpuTypes, CpuPlaces
<1>3. PICK t \in Threads : t = Head(list[c])
  BY <1>1, <1>2, TailHolds
<1>4. t \in Range(list[c])
  BY <1>1, <1>2, <1>3, TailHolds
<1>5. PICK d \in CPUs : d = t_cpu[t]
  BY <1>4, QueuedExist DEF CpuRight
<1> DEFINE a == <<"list", c>>
           b == <<"runqueue", d>>
<1>6. /\ list' = [list EXCEPT ![c] = Tail(list[c])]
      /\ runqueue' = [runqueue EXCEPT ![d] = Append(@, t)]
      /\ UNCHANGED <<isidle, curthread, zombies, t_state, wc_threads, mig>>
  BY <1>3, <1>5 DEF MakeRunnable, Enqueue, threadvars, wchanvars
<1>7. /\ list'[c] = Tail(list[c]) /\ runqueue'[d] = Append(runqueue[d], t)
      /\ runqueue[d] \in Seq(Threads) /\ IsInjective(runqueue[d])
  BY <1>6, CpuPlaces DEF Types, TypeOK
<1>8. /\ Range(list[c]) = Range(list'[c]) \union {t}
      /\ IsInjective(list'[c]) /\ t \notin Range(list'[c])
  BY <1>1, <1>2, <1>3, <1>7, TailHolds
<1>9. t \notin Range(runqueue[d])
  BY <1>4, QueuesApart
<1>10. /\ IsInjective(runqueue'[d])
       /\ Range(runqueue'[d]) = Range(runqueue[d]) \union {t}
  BY <1>7, <1>9, Gains
<1>11. /\ Holds(a) = Range(list[c]) /\ Holds(a)' = Range(list'[c])
       /\ Queue(a)' = list'[c] /\ Queue(b)' = runqueue'[d]
       /\ Holds(b) = Range(runqueue[d]) /\ Holds(b)' = Range(runqueue'[d])
  BY PlaceIs, PlaceIsNext
<1>12. Existing' = Existing
  BY <1>6 DEF Existing
<1>13. Untouched({a, b})
  BY <1>6 DEF Untouched, Types, TypeOK
<1>14. a \in Places /\ b \in Places /\ a # b
  BY PlaceKinds
<1> HIDE DEF a, b
<1>15. /\ Holds(a)' \subseteq Holds(a)
       /\ Holds(b)' = Holds(b) \union (Holds(a) \ Holds(a)')
       /\ IsInjective(Queue(a)') /\ IsInjective(Queue(b)')
  BY <1>8, <1>10, <1>11
<1> QED
  BY <1>12, <1>13, <1>14, <1>15, Moves

\* thread_fork: the new thread is the one to make runnable.
LEMMA ThreadForkComes ==
  ASSUME Types, PlacesRight, CodeRight, NEW c \in CPUs, NEW t \in Threads,
         ThreadFork(c, t)
  PROVE  PlacesRight'
<1> DEFINE b == <<"list", c>>
<1>1. list[c] = <<>> /\ t \notin Existing
  BY DEF ThreadFork, At, CodeRight, ListRight, Existing
<1>2. /\ list' = [list EXCEPT ![c] = <<t>>]
      /\ t_state' = [t_state EXCEPT ![t] = "ready"]
      /\ UNCHANGED <<runqueue, isidle, curthread, zombies, wc_threads, mig>>
  BY DEF ThreadFork, cpuvars, wchanvars
<1>3. Range(list'[c]) = {t} /\ IsInjective(list'[c])
  BY <1>2 DEF Range, IsInjective, Types, TypeOK
<1>4. /\ Holds(b) = {} /\ Holds(b)' = {t} /\ IsInjective(Queue(b)')
  BY <1>1, <1>3, EmptyHolds, PlaceIs, PlaceIsNext
<1>5. Existing' = Existing \union {t}
  BY <1>2 DEF Existing, Types, TypeOK
<1>6. Untouched({b})
  BY <1>2 DEF Untouched, Types, TypeOK
<1>7. b \in Places
  BY PlaceKinds
<1> HIDE DEF b
<1>8. Holds(b)' = Holds(b) \union {t}
  BY <1>4
<1> QED
  BY <1>1, <1>4, <1>5, <1>6, <1>7, <1>8, Comes

\* wchan_wakeone and wchan_wakeall: from the channel to the list.
LEMMA TakeSleepersMoves ==
  ASSUME Types, PlacesRight, CodeRight, NEW c \in CPUs, NEW w \in WChans,
         NEW n \in 0 .. Len(wc_threads[w]), TakeSleepers(c, w, n)
  PROVE  PlacesRight'
<1> DEFINE a == <<"wchan", w>>
           b == <<"list", c>>
           s == wc_threads[w]
           first == SubSeq(s, 1, n)
           others == SubSeq(s, n + 1, Len(s))
<1>1. list[c] = <<>>
  BY DEF TakeSleepers, CodeRight, ListRight
<1>2. s \in Seq(Threads)
  BY DEF Types, TypeOK
<1>3. a \in Places /\ b \in Places /\ a # b /\ a \in Queues
  BY PlaceKinds
<1>4. IsInjective(s)
  BY <1>3, PlaceIs DEF PlacesRight, QueuesOnce
<1>5. /\ list' = [list EXCEPT ![c] = first]
      /\ wc_threads' = [wc_threads EXCEPT ![w] = others]
      /\ UNCHANGED <<runqueue, isidle, curthread, zombies, t_state, mig>>
  BY DEF TakeSleepers, cpuvars, threadvars
<1>6. list'[c] = first /\ wc_threads'[w] = others
  BY <1>5 DEF Types, TypeOK
<1>7. /\ IsInjective(first) /\ IsInjective(others)
      /\ Range(s) = Range(first) \union Range(others)
      /\ Range(first) \intersect Range(others) = {}
  BY <1>2, <1>4, CutHolds
<1>8. /\ Holds(a) = Range(s) /\ Holds(a)' = Range(wc_threads'[w])
      /\ Queue(a)' = wc_threads'[w] /\ Queue(b)' = list'[c]
      /\ Holds(b) = {} /\ Holds(b)' = Range(list'[c])
  BY <1>1, EmptyHolds, PlaceIs, PlaceIsNext
<1>9. Existing' = Existing
  BY <1>5 DEF Existing
<1>10. Untouched({a, b})
  BY <1>5 DEF Untouched, Types, TypeOK
<1> HIDE DEF a, b, s, first, others
<1>11. /\ Holds(a)' \subseteq Holds(a)
       /\ Holds(b)' = Holds(b) \union (Holds(a) \ Holds(a)')
       /\ IsInjective(Queue(a)') /\ IsInjective(Queue(b)')
  BY <1>6, <1>7, <1>8
<1> QED
  BY <1>3, <1>9, <1>10, <1>11, Moves


\* thread_consider_migration takes the victims from the end of its own run
\* queue.
LEMMA MigrationTakeSplits ==
  ASSUME Types, CodeRight, NEW c \in CPUs, MigrationTake(c)
  PROVE  \E n \in 0 .. Len(runqueue[c]) :
            /\ n = Len(runqueue[c]) - mig[c].send
            /\ runqueue' = [runqueue EXCEPT ![c] = SubSeq(runqueue[c], 1, n)]
            /\ mig' \in [CPUs -> Migs]
            /\ mig'[c].i = mig[c].i /\ mig'[c].send = mig[c].send
            /\ mig'[c].victims = SubSeq(runqueue[c], n + 1, Len(runqueue[c]))
            /\ \A d \in CPUs \ {c} : mig'[d] = mig[d]
<1>1. /\ mig[c].send \in Nat /\ Len(runqueue[c]) \in Nat
      /\ mig[c].send <= Len(runqueue[c])
  BY MigFields, CpuTypes DEF MigrationTake, At, CodeRight, MigRight
<1>2. PICK n \in 0 .. Len(runqueue[c]) : n = Len(runqueue[c]) - mig[c].send
  BY <1>1
<1>3. PICK v \in Seq(Threads) :
         v = SubSeq(runqueue[c], n + 1, Len(runqueue[c]))
  BY CpuTypes, CutHolds
<1>4. /\ runqueue' = [runqueue EXCEPT ![c] = SubSeq(runqueue[c], 1, n)]
      /\ SetMig(c, Taking(mig[c], v))
  BY <1>2, <1>3 DEF MigrationTake
<1>5. PICK r \in Migs : /\ r = Taking(mig[c], v) /\ r.i = mig[c].i
                        /\ r.send = mig[c].send /\ r.victims = v
  BY MigFields, MigUpdates
<1> QED
  BY <1>2, <1>3, <1>4, <1>5, SetMigType

LEMMA MigrationTakeMoves ==
  ASSUME Types, PlacesRight, CodeRight, NEW c \in CPUs, MigrationTake(c)
  PROVE  PlacesRight'
<1>1. PICK n \in 0 .. Len(runqueue[c]) :
            /\ runqueue' = [runqueue EXCEPT ![c] = SubSeq(runqueue[c], 1, n)]
            /\ mig'[c].victims = SubSeq(runqueue[c], n + 1, Len(runqueue[c]))
            /\ \A d \in CPUs \ {c} : mig'[d] = mig[d]
  BY MigrationTakeSplits
<1> DEFINE a == <<"runqueue", c>>
           b == <<"victims", c>>
           s == runqueue[c]
           first == SubSeq(s, 1, n)
           others == SubSeq(s, n + 1, Len(s))
<1>2. s \in Seq(Threads) /\ IsInjective(s)
  BY CpuTypes, CpuPlaces
<1>3. runqueue'[c] = first /\ \A d \in CPUs \ {c} : runqueue'[d] = runqueue[d]
  BY <1>1 DEF Types, TypeOK
<1>4. /\ IsInjective(first) /\ IsInjective(others)
      /\ Range(s) = Range(first) \union Range(others)
      /\ Range(first) \intersect Range(others) = {}
  BY <1>2, CutHolds
<1>5. mig[c].victims = <<>>
  BY DEF MigrationTake, At, CodeRight, MigRight
<1>6. /\ Holds(a) = Range(s) /\ Holds(a)' = Range(first)
      /\ Queue(a)' = first /\ Queue(b)' = others
      /\ Holds(b) = {} /\ Holds(b)' = Range(others)
  BY <1>1, <1>3, <1>5, EmptyHolds, PlaceIs, PlaceIsNext
<1>7. UNCHANGED <<isidle, curthread, zombies, t_state, wc_threads, list>>
  BY DEF MigrationTake, threadvars, wchanvars
<1>8. Existing' = Existing
  BY <1>7 DEF Existing
<1>9. Untouched({a, b})
  BY <1>1, <1>3, <1>7 DEF Untouched
<1>10. a \in Places /\ b \in Places /\ a # b
  BY PlaceKinds
<1> HIDE DEF a, b, s, first, others
<1>11. /\ Holds(a)' \subseteq Holds(a)
       /\ Holds(b)' = Holds(b) \union (Holds(a) \ Holds(a)')
       /\ IsInjective(Queue(a)') /\ IsInjective(Queue(b)')
  BY <1>4, <1>6
<1> QED
  BY <1>8, <1>9, <1>10, <1>11, Moves

\* It gives the first victim to the CPU whose run queue it has locked, or
\* keeps it, behind the others, if it idles on its stack.
LEMMA MigrationGiveSteps ==
  ASSUME Types, CodeRight, NEW c \in CPUs, MigrationGive(c)
  PROVE  /\ mig[c].victims # <<>> /\ mig[c].i \in CPUs /\ pc[c] = "giving"
         /\ Head(mig[c].victims) \in Threads
         /\ mig' \in [CPUs -> Migs]
         /\ mig'[c].i = mig[c].i /\ mig'[c].send = mig[c].send - 1
         /\ \A d \in CPUs \ {c} : mig'[d] = mig[d]
         /\ \/ /\ Stays(c, Head(mig[c].victims))
               /\ UNCHANGED <<t_cpu, runqueue, unidle>>
               /\ mig'[c].victims = Append(Tail(mig[c].victims),
                                           Head(mig[c].victims))
            \/ /\ ~Stays(c, Head(mig[c].victims))
               /\ MoveThread(Head(mig[c].victims), mig[c].i)
               /\ runqueue' = [runqueue EXCEPT
                                 ![mig[c].i] =
                                    Append(@, Head(mig[c].victims))]
               /\ IpiIfIdle(mig[c].i)
               /\ mig'[c].victims = Tail(mig[c].victims)
<1>1. /\ mig[c].send > 0 /\ mig[c].send <= Len(mig[c].victims)
      /\ mig[c].victims \in Seq(Threads) /\ mig[c].send \in Nat
      /\ mig[c].i \in CPUs /\ pc[c] = "giving"
  BY MigFields DEF MigrationGive, At, CodeRight, MigRight
<1>2. mig[c].victims # <<>>
  BY <1>1, EmptySeq
<1>3. PICK t \in Threads : t = Head(mig[c].victims)
  BY <1>1, <1>2, TailHolds
<1>4. PICK v \in Seq(Threads) : v = Tail(mig[c].victims)
  BY <1>1, <1>2, TailHolds
<1>5. Append(v, t) \in Seq(Threads)
  BY AppendHolds
<1>6. \A u \in Seq(Threads) :
         SetMig(c, Giving(mig[c], u)) =>
            /\ mig' \in [CPUs -> Migs] /\ mig'[c].victims = u
            /\ mig'[c].i = mig[c].i /\ mig'[c].send = mig[c].send - 1
            /\ \A d \in CPUs \ {c} : mig'[d] = mig[d]
  BY <1>1, MigFields, MigUpdates, SetMigType
<1>7. CASE Stays(c, t)
  <2>1. /\ SetMig(c, Giving(mig[c], Append(v, t)))
        /\ UNCHANGED <<t_cpu, runqueue, unidle>>
    BY <1>3, <1>4, <1>7 DEF MigrationGive
  <2> QED
    BY <1>1, <1>2, <1>3, <1>4, <1>5, <1>6, <1>7, <2>1
<1>8. CASE ~Stays(c, t)
  <2>1. /\ SetMig(c, Giving(mig[c], v))
        /\ MoveThread(t, mig[c].i) /\ IpiIfIdle(mig[c].i)
        /\ runqueue' = [runqueue EXCEPT ![mig[c].i] = Append(@, t)]
    BY <1>3, <1>4, <1>8 DEF MigrationGive
  <2> QED
    BY <1>1, <1>2, <1>3, <1>4, <1>6, <1>8, <2>1
<1> QED
  BY <1>7, <1>8

LEMMA MigrationGiveMoves ==
  ASSUME Types, PlacesRight, CodeRight, NEW c \in CPUs, MigrationGive(c)
  PROVE  PlacesRight'
<1> DEFINE u == mig[c].victims
<1>1. u \in Seq(Threads) /\ u # <<>> /\ IsInjective(u)
  BY MigFields, MigrationGiveSteps, CpuPlaces
<1>2. PICK t \in Threads : t = Head(u)
  BY MigrationGiveSteps
<1>3. PICK v \in Seq(Threads) :
         /\ v = Tail(u) /\ IsInjective(v) /\ t \notin Range(v)
         /\ Range(u) = Range(v) \union {t}
  BY <1>1, <1>2, TailHolds
<1>4. PICK i \in CPUs : i = mig[c].i
  BY MigrationGiveSteps
<1>5. UNCHANGED <<isidle, curthread, zombies, t_state, wc_threads, list>>
  BY DEF MigrationGive, wchanvars
<1>6. Existing' = Existing
  BY <1>5 DEF Existing
<1>7. \A d \in CPUs \ {c} : mig'[d] = mig[d]
  BY MigrationGiveSteps
<1> DEFINE a == <<"victims", c>>
<1>8. CASE Stays(c, t)
  <2>1. UNCHANGED runqueue /\ mig'[c].victims = Append(v, t)
    BY <1>2, <1>3, <1>8, MigrationGiveSteps
  <2>2. /\ IsInjective(mig'[c].victims)
        /\ Range(mig'[c].victims) = Range(u)
    BY <1>3, <2>1, Gains
  <2>3. Untouched({a})
    BY <1>5, <1>7, <2>1 DEF Untouched
  <2>4. IsInjective(Queue(a)') /\ Holds(a)' = Holds(a) /\ a \in Queues
    BY <2>2, PlaceIs, PlaceIsNext, PlaceKinds
  <2> HIDE DEF a
  <2> QED
    BY <1>6, <2>3, <2>4, Shuffles
<1>9. CASE ~Stays(c, t)
  <2> DEFINE b == <<"runqueue", i>>
  <2>1. /\ runqueue' = [runqueue EXCEPT ![i] = Append(@, t)]
        /\ mig'[c].victims = v
    BY <1>2, <1>3, <1>4, <1>9, MigrationGiveSteps
  <2>2. /\ runqueue'[i] = Append(runqueue[i], t)
        /\ \A d \in CPUs \ {i} : runqueue'[d] = runqueue[d]
    BY <2>1 DEF Types, TypeOK
  <2>3. /\ t \notin Range(runqueue[i])
        /\ IsInjective(runqueue[i]) /\ runqueue[i] \in Seq(Threads)
    BY <1>3, QueuesApart, CpuPlaces, CpuTypes
  <2>4. /\ IsInjective(runqueue'[i])
        /\ Range(runqueue'[i]) = Range(runqueue[i]) \union {t}
    BY <2>2, <2>3, Gains
  <2>5. /\ Holds(a) = Range(u) /\ Holds(a)' = Range(v) /\ Queue(a)' = v
        /\ Holds(b) = Range(runqueue[i]) /\ Holds(b)' = Range(runqueue'[i])
        /\ Queue(b)' = runqueue'[i]
    BY <2>1, PlaceIs, PlaceIsNext
  <2>6. Untouched({a, b})
    BY <1>5, <1>7, <2>2 DEF Untouched
  <2>7. a \in Places /\ b \in Places /\ a # b
    BY PlaceKinds
  <2> HIDE DEF a, b, u
  <2>8. /\ Holds(a)' \subseteq Holds(a)
        /\ Holds(b)' = Holds(b) \union (Holds(a) \ Holds(a)')
        /\ IsInjective(Queue(a)') /\ IsInjective(Queue(b)')
    BY <1>3, <2>4, <2>5
  <2> QED
    BY <1>6, <2>6, <2>7, <2>8, Moves
<1> QED
  BY <1>8, <1>9

\* The leftovers go back where they were taken from.
LEMMA MigrationBackMoves ==
  ASSUME Types, PlacesRight, CodeRight, NEW c \in CPUs, MigrationBack(c)
  PROVE  PlacesRight'
<1> DEFINE a == <<"victims", c>>
           b == <<"runqueue", c>>
           u == mig[c].victims
           s == runqueue[c]
<1>1. /\ u \in Seq(Threads) /\ IsInjective(u)
      /\ s \in Seq(Threads) /\ IsInjective(s)
      /\ Range(s) \intersect Range(u) = {}
  BY MigFields, CpuTypes, CpuPlaces, QueuesApart
<1>2. /\ runqueue' = [runqueue EXCEPT ![c] = s \o u]
      /\ SetMig(c, NoMig)
      /\ UNCHANGED <<isidle, curthread, zombies, t_state, wc_threads, list>>
  BY DEF MigrationBack, Leftovers, threadvars, wchanvars
<1>3. runqueue'[c] = s \o u /\ \A d \in CPUs \ {c} : runqueue'[d] = runqueue[d]
  BY <1>2 DEF Types, TypeOK
<1>4. mig'[c].victims = <<>> /\ \A d \in CPUs \ {c} : mig'[d] = mig[d]
  BY <1>2, NoMigType, SetMigType
<1>5. IsInjective(s \o u) /\ Range(s \o u) = Range(s) \union Range(u)
  BY <1>1, ConcatHolds
<1>6. /\ Holds(a) = Range(u) /\ Holds(a)' = {} /\ IsInjective(Queue(a)')
      /\ Holds(b) = Range(s) /\ Holds(b)' = Range(s \o u)
      /\ Queue(b)' = s \o u
  BY <1>3, <1>4, EmptyHolds, PlaceIs, PlaceIsNext
<1>7. Existing' = Existing
  BY <1>2 DEF Existing
<1>8. Untouched({a, b})
  BY <1>2, <1>3, <1>4 DEF Untouched
<1>9. a \in Places /\ b \in Places /\ a # b
  BY PlaceKinds
<1> HIDE DEF a, b, s, u
<1>10. /\ Holds(a)' \subseteq Holds(a)
       /\ Holds(b)' = Holds(b) \union (Holds(a) \ Holds(a)')
       /\ IsInjective(Queue(b)')
  BY <1>5, <1>6
<1> QED
  BY <1>6, <1>7, <1>8, <1>9, <1>10, Moves

\* Every sleeper, or one, is taken off a channel that has some.
LEMMA WakesTake ==
  ASSUME Types, NEW c \in CPUs, NEW w \in WChans,
         WchanWakeone(c, w) \/ WchanWakeall(c, w)
  PROVE  \E n \in 0 .. Len(wc_threads[w]) : n > 0 /\ TakeSleepers(c, w, n)
<1>1. wc_threads[w] \in Seq(Threads)
  BY DEF Types, TypeOK
<1>2. wc_threads[w] # <<>>
  BY DEF WchanWakeone, WchanWakeall, TakeSleepers
<1>3. Len(wc_threads[w]) \in Nat /\ Len(wc_threads[w]) > 0
  BY <1>1, <1>2, TailHolds, LenProperties
<1>4. /\ 1 \in 0 .. Len(wc_threads[w])
      /\ Len(wc_threads[w]) \in 0 .. Len(wc_threads[w])
  BY <1>3
<1> QED
  BY <1>3, <1>4 DEF WchanWakeone, WchanWakeall

\* No step loses a thread or has it in two places.
LEMMA StepPlaces ==
  ASSUME Types, PlacesRight, CpuRight, StackAlive, CodeRight, Types',
         NEW c \in CPUs, StepOf(c)
  PROVE  PlacesRight'
<1>1. CASE Control(c)
  BY <1>1, ControlPlaces
<1>2. ASSUME NEW t \in Threads, ThreadFork(c, t)
      PROVE  PlacesRight'
  BY <1>2, ThreadForkComes
<1>3. ASSUME NEW w \in WChans, WchanWakeone(c, w) \/ WchanWakeall(c, w)
      PROVE  PlacesRight'
  BY <1>3, WakesTake, TakeSleepersMoves
<1>4. CASE \/ SwitchEnqueue(c) \/ SwitchTo(c) \/ Switched(c)
           \/ MakeRunnable(c) \/ MigrationTake(c) \/ MigrationGive(c)
           \/ MigrationBack(c)
  BY <1>4, SwitchEnqueueMoves, SwitchToMoves, SwitchedGoes,
     MakeRunnableMoves, MigrationTakeMoves, MigrationGiveMoves,
     MigrationBackMoves
<1> QED
  BY <1>1, <1>2, <1>3, <1>4 DEF StepOf, Step, Control

-----------------------------------------------------------------------------
\* t_cpu.

\* CpuRight in terms of the threads on a queue.
LEMMA CpuRightIs ==
  ASSUME CpuRight, StackAlive, Types
  PROVE  /\ \A d \in CPUs : /\ t_cpu[curthread[d]] = d
                            /\ curthread[d] \in Existing
         /\ \A d \in CPUs : \A t \in Range(runqueue[d]) : t_cpu[t] = d
         /\ \A d \in CPUs : \A t \in Range(zombies[d]) :
               t_cpu[t] = d /\ t_state[t] = "zombie"
         /\ \A d \in CPUs : \A t \in Range(mig[d].victims) : t_cpu[t] = d
         /\ \A t \in Existing : t_cpu[t] \in CPUs
<1>1. \A d \in CPUs : curthread[d] \in Threads
  BY CpuTypes
<1>2. \A d \in CPUs : \A t \in Range(runqueue[d]) : t_cpu[t] = d
  BY DEF CpuRight, CpuOfThread, Range
<1> QED
  BY <1>1, <1>2 DEF CpuRight, CpuOfThread, StackAlive, Existing

LEMMA CpuRightNext ==
  ASSUME \A d \in CPUs : /\ t_cpu'[curthread'[d]] = d
                         /\ curthread'[d] \in Existing',
         \A d \in CPUs : \A t \in Range(runqueue'[d]) : t_cpu'[t] = d,
         \A d \in CPUs : \A t \in Range(zombies'[d]) :
            t_cpu'[t] = d /\ t_state'[t] = "zombie",
         \A d \in CPUs : \A t \in Range(mig'[d].victims) : t_cpu'[t] = d,
         \A t \in Existing' : t_cpu'[t] \in CPUs
  PROVE  CpuRight' /\ StackAlive'
<1>1. \A d \in CPUs : \A i \in DOMAIN runqueue'[d] :
         t_cpu'[runqueue'[d][i]] = d
  BY DEF Range
<1> QED
  BY <1>1 DEF CpuRight, CpuOfThread, StackAlive, Existing

\* Dead threads and victims are on no other queue.
LEMMA ZombiesApart ==
  ASSUME Types, PlacesRight, NEW c \in CPUs
  PROVE  /\ \A d \in CPUs :
               Range(zombies[c]) \intersect Range(runqueue[d]) = {}
         /\ Range(zombies[c]) \intersect Range(mig[c].victims) = {}
<1> DEFINE rq(d) == <<"runqueue", d>>
           z == <<"zombies", c>>
           v == <<"victims", c>>
<1>1. z \in Places /\ v \in Places /\ \A d \in CPUs : rq(d) \in Places
  BY PlaceKinds
<1>2. z # v /\ \A d \in CPUs : z # rq(d)
  OBVIOUS
<1>3. /\ Holds(z) = Range(zombies[c]) /\ Holds(v) = Range(mig[c].victims)
      /\ \A d \in CPUs : Holds(rq(d)) = Range(runqueue[d])
  BY PlaceIs
<1> HIDE DEF rq, z, v
<1>4. \A d \in CPUs : Holds(z) \intersect Holds(rq(d)) = {}
  BY <1>1, <1>2, PlacesApart
<1>5. Holds(z) \intersect Holds(v) = {}
  BY <1>1, <1>2, PlacesApart
<1> QED
  BY <1>3, <1>4, <1>5

\* thread_switch queues curthread, whose CPU it is.
LEMMA SwitchEnqueueCpu ==
  ASSUME Types, PlacesRight, CpuRight, StackAlive, CodeRight, Types',
         NEW c \in CPUs, SwitchEnqueue(c)
  PROVE  CpuRight' /\ StackAlive'
<1>1. UNCHANGED <<curthread, t_cpu, mig>> /\ ~isidle[c]
  BY DEF SwitchEnqueue, At, CodeRight, IdleRight
<1>2. PICK t \in Threads : t = curthread[c]
  BY CpuTypes
<1>3. /\ t_state' = [t_state EXCEPT ![t] = newstate[c]]
      /\ newstate[c] # "none" /\ t \in Existing /\ t_cpu[t] = c
  BY <1>2, CpuRightIs DEF SwitchEnqueue, SetState, Types
<1>4. Existing' = Existing
  BY <1>3 DEF Existing, Types, TypeOK
<1>5. /\ \A d \in CPUs : \A u \in Range(runqueue'[d]) :
            u \in Range(runqueue[d]) \/ (u = t /\ d = c)
      /\ \A d \in CPUs : \A u \in Range(zombies'[d]) :
            \/ u \in Range(zombies[d])
            \/ u = t /\ d = c /\ newstate[c] = "zombie"
  <2>1. \A s \in Seq(Threads) : Range(Append(s, t)) = Range(s) \union {t}
    BY AppendHolds
  <2>2. runqueue[c] \in Seq(Threads) /\ zombies[c] \in Seq(Threads)
    BY CpuTypes
  <2>3. CASE newstate[c] = "ready"
    <3>1. /\ runqueue' = [runqueue EXCEPT ![c] = Append(@, t)]
          /\ UNCHANGED zombies
      BY <1>2, <2>3 DEF SwitchEnqueue, Enqueue
    <3>2. /\ runqueue'[c] = Append(runqueue[c], t)
          /\ \A d \in CPUs \ {c} : runqueue'[d] = runqueue[d]
      BY <3>1 DEF Types, TypeOK
    <3> QED
      BY <2>1, <2>2, <3>1, <3>2
  <2>4. CASE newstate[c] = "zombie"
    <3>1. /\ zombies' = [zombies EXCEPT ![c] = Append(@, t)]
          /\ UNCHANGED runqueue
      BY <1>2, <2>4 DEF SwitchEnqueue
    <3>2. /\ zombies'[c] = Append(zombies[c], t)
          /\ \A d \in CPUs \ {c} : zombies'[d] = zombies[d]
      BY <3>1 DEF Types, TypeOK
    <3> QED
      BY <2>1, <2>2, <2>4, <3>1, <3>2
  <2>5. CASE newstate[c] = "sleep"
    BY <2>5 DEF SwitchEnqueue
  <2> QED
    BY <2>3, <2>4, <2>5 DEF Types
<1>6. \A d \in CPUs : \A u \in Range(zombies[d]) :
         u \in Threads /\ (d = c => u # t)
  <2>1. \A d \in CPUs : Range(zombies[d]) \subseteq Threads
    BY QueuedExist DEF Existing
  <2>2. t \notin Range(zombies[c])
    BY <1>1, <1>2, QueuesApart
  <2> QED
    BY <2>1, <2>2
<1>7. \A u \in Threads : t_state'[u] = IF u = t THEN newstate[c]
                                                ELSE t_state[u]
  BY <1>3 DEF Types, TypeOK
<1>8. \A d \in CPUs : \A u \in Range(runqueue'[d]) : t_cpu'[u] = d
  BY <1>1, <1>3, <1>5, CpuRightIs
<1>9. \A d \in CPUs : \A u \in Range(zombies'[d]) :
         t_cpu'[u] = d /\ t_state'[u] = "zombie"
  <2>1. \A d \in CPUs : \A u \in Range(zombies[d]) :
           t_cpu[u] = d /\ t_state[u] = "zombie"
    BY CpuRightIs
  <2>2. \A d \in CPUs : \A u \in Range(zombies[d]) : u # t
    BY <1>3, <1>6, <2>1
  <2>3. t_state'[t] = newstate[c]
    BY <1>7
  <2> QED
    BY <1>1, <1>3, <1>5, <1>6, <1>7, <2>1, <2>2, <2>3
<1> QED
  BY <1>1, <1>4, <1>8, <1>9, CpuRightIs, CpuRightNext

\* The thread that a CPU switches to was on its own run queue.
LEMMA SwitchToCpu ==
  ASSUME Types, PlacesRight, CpuRight, StackAlive, CodeRight,
         NEW c \in CPUs, SwitchTo(c)
  PROVE  CpuRight' /\ StackAlive'
<1>1. runqueue[c] # <<>> /\ runqueue[c] \in Seq(Threads)
  BY CpuTypes DEF SwitchTo
<1>2. PICK t \in Threads : t = Head(runqueue[c])
  BY <1>1, TailHolds
<1>3. /\ t \in Range(runqueue[c])
      /\ Range(Tail(runqueue[c])) \subseteq Range(runqueue[c])
  BY <1>1, <1>2, TailHolds
<1>4. /\ t_state' = [t_state EXCEPT ![t] = "run"]
      /\ runqueue' = [runqueue EXCEPT ![c] = Tail(runqueue[c])]
      /\ curthread' = [curthread EXCEPT ![c] = t]
      /\ UNCHANGED <<t_cpu, mig, zombies>>
  BY <1>2 DEF SwitchTo, SetState
<1>5. t \in Existing
  BY <1>3, QueuedExist
<1>6. Existing' = Existing
  BY <1>4, <1>5 DEF Existing, Types, TypeOK
<1>7. \A d \in CPUs : Range(runqueue'[d]) \subseteq Range(runqueue[d])
  BY <1>3, <1>4 DEF Types, TypeOK
<1>8. /\ curthread'[c] = t
      /\ \A d \in CPUs \ {c} : curthread'[d] = curthread[d]
  BY <1>4 DEF Types, TypeOK
<1>9. \A d \in CPUs : \A u \in Range(zombies[d]) : t_state'[u] = t_state[u]
  <2>1. \A d \in CPUs : Range(zombies[d]) \subseteq Threads
    BY QueuedExist DEF Existing
  <2>2. \A d \in CPUs : t \notin Range(zombies[d])
    BY <1>3, ZombiesApart
  <2> QED
    BY <1>4, <2>1, <2>2 DEF Types, TypeOK
<1>10. \A d \in CPUs : t_cpu'[curthread'[d]] = d /\ curthread'[d] \in Existing'
  BY <1>3, <1>4, <1>5, <1>6, <1>8, CpuRightIs
<1>11. \A d \in CPUs : \A u \in Range(runqueue'[d]) : t_cpu'[u] = d
  BY <1>4, <1>7, CpuRightIs
<1> QED
  BY <1>4, <1>6, <1>9, <1>10, <1>11, CpuRightIs, CpuRightNext

\* What exorcise destroys is no CPU's curthread: it is only this CPU's, which
\* executes another.
LEMMA SwitchedCpu ==
  ASSUME Types, PlacesRight, CpuRight, StackAlive, CodeRight,
         NEW c \in CPUs, Switched(c)
  PROVE  CpuRight' /\ StackAlive'
<1> DEFINE dead == Range(zombies[c])
<1>1. ~isidle[c] /\ mig[c].victims = <<>>
  BY DEF Switched, At, CodeRight, IdleRight, MigRight
<1>2. /\ zombies' = [zombies EXCEPT ![c] = <<>>]
      /\ t_state' = [t \in Threads |-> IF t \in dead THEN "none"
                                       ELSE t_state[t]]
      /\ t_cpu' = [t \in Threads |-> IF t \in dead THEN None ELSE t_cpu[t]]
      /\ UNCHANGED <<runqueue, curthread, mig>>
  BY DEF Switched, Exorcise
<1>3. Existing' = Existing \ dead
  BY <1>2 DEF Existing, Types, TypeOK
<1>4. \A t \in Threads \ dead : /\ t_state'[t] = t_state[t]
                                /\ t_cpu'[t] = t_cpu[t]
  BY <1>2
<1>5. \A t \in dead : t_cpu[t] = c
  BY CpuRightIs
<1>6. \A d \in CPUs : curthread[d] \in Existing /\ curthread[d] \notin dead
  <2>1. curthread[c] \notin dead
    BY <1>1, QueuesApart
  <2> QED
    BY <1>5, <2>1, CpuRightIs
<1>7. \A d \in CPUs : Range(runqueue[d]) \subseteq Existing \ dead
  BY QueuedExist, ZombiesApart
<1>8. /\ zombies'[c] = <<>>
      /\ \A d \in CPUs \ {c} : zombies'[d] = zombies[d]
  BY <1>2 DEF Types, TypeOK
<1>9. \A d \in CPUs : Range(zombies'[d]) \subseteq Existing \ dead
  <2>1. Range(zombies'[c]) = {}
    BY <1>8, EmptyHolds
  <2>2. \A d \in CPUs \ {c} : Range(zombies'[d]) = Range(zombies[d])
    BY <1>8
  <2>3. \A d \in CPUs : Range(zombies[d]) \subseteq Existing
    BY QueuedExist
  <2>4. \A d \in CPUs : \A t \in Range(zombies[d]) : t_cpu[t] = d
    BY CpuRightIs
  <2> QED
    BY <1>5, <2>1, <2>2, <2>3, <2>4
<1>10. \A d \in CPUs : Range(mig[d].victims) \subseteq Existing \ dead
  <2>1. \A d \in CPUs : \A t \in Range(mig[d].victims) : t_cpu[t] = d
    BY CpuRightIs
  <2>2. Range(mig[c].victims) = {}
    BY <1>1, EmptyHolds
  <2>3. \A d \in CPUs : Range(mig[d].victims) \subseteq Existing
    BY QueuedExist
  <2> QED
    BY <1>5, <2>1, <2>2, <2>3
<1>11. Existing \subseteq Threads
  BY DEF Existing
<1>12. \A d \in CPUs : \A t \in Range(zombies'[d]) : t \in Range(zombies[d])
  BY <1>8, EmptyHolds
<1> HIDE DEF dead
<1>13. \A t \in Existing \ dead : /\ t_cpu'[t] = t_cpu[t]
                                  /\ t_state'[t] = t_state[t]
  BY <1>4, <1>11
<1>14. \A d \in CPUs : t_cpu'[curthread'[d]] = d /\ curthread'[d] \in Existing'
  BY <1>2, <1>3, <1>6, <1>13, CpuRightIs
<1>15. \A d \in CPUs : \A t \in Range(runqueue'[d]) : t_cpu'[t] = d
  BY <1>2, <1>7, <1>13, CpuRightIs
<1>16. \A d \in CPUs : \A t \in Range(zombies'[d]) :
          t_cpu'[t] = d /\ t_state'[t] = "zombie"
  BY <1>9, <1>12, <1>13, CpuRightIs
<1>17. \A d \in CPUs : \A t \in Range(mig'[d].victims) : t_cpu'[t] = d
  BY <1>2, <1>10, <1>13, CpuRightIs
<1>18. \A t \in Existing' : t_cpu'[t] \in CPUs
  BY <1>3, <1>13, CpuRightIs
<1> QED
  BY <1>14, <1>15, <1>16, <1>17, <1>18, CpuRightNext

\* thread_make_runnable queues a thread on the run queue of its CPU.
LEMMA MakeRunnableCpu ==
  ASSUME Types, PlacesRight, CpuRight, StackAlive, CodeRight,
         NEW c \in CPUs, MakeRunnable(c)
  PROVE  CpuRight' /\ StackAlive'
<1>1. list[c] # <<>> /\ list[c] \in Seq(Threads)
  BY CpuTypes DEF MakeRunnable, At, CodeRight, ListRight
<1>2. PICK t \in Threads : t = Head(list[c])
  BY <1>1, TailHolds
<1>3. t \in Existing
  BY <1>1, <1>2, TailHolds, QueuedExist
<1>4. PICK d \in CPUs : d = t_cpu[t]
  BY <1>3, CpuRightIs
<1>5. /\ runqueue' = [runqueue EXCEPT ![d] = Append(@, t)]
      /\ UNCHANGED <<curthread, t_state, t_cpu, mig, zombies>>
  BY <1>2, <1>4 DEF MakeRunnable, Enqueue, threadvars
<1>6. /\ runqueue'[d] = Append(runqueue[d], t)
      /\ \A e \in CPUs \ {d} : runqueue'[e] = runqueue[e]
      /\ runqueue[d] \in Seq(Threads)
  BY <1>5 DEF Types, TypeOK
<1>7. Range(runqueue'[d]) = Range(runqueue[d]) \union {t}
  BY <1>6, AppendHolds
<1>8. \A e \in CPUs : \A u \in Range(runqueue'[e]) : t_cpu'[u] = e
  BY <1>4, <1>5, <1>6, <1>7, CpuRightIs
<1>9. Existing' = Existing
  BY <1>5 DEF Existing
<1> QED
  BY <1>5, <1>8, <1>9, CpuRightIs, CpuRightNext

\* thread_fork gives the new thread, which no CPU knows yet, its own CPU.
LEMMA ThreadForkCpu ==
  ASSUME Types, PlacesRight, CpuRight, StackAlive, CodeRight,
         NEW c \in CPUs, NEW t \in Threads, ThreadFork(c, t)
  PROVE  CpuRight' /\ StackAlive'
<1>1. t \notin Existing /\ t_cpu[curthread[c]] = c
  BY CpuRightIs DEF ThreadFork, Existing
<1>2. /\ t_cpu' = [t_cpu EXCEPT ![t] = c]
      /\ t_state' = [t_state EXCEPT ![t] = "ready"]
      /\ UNCHANGED <<runqueue, curthread, zombies, mig>>
  BY <1>1 DEF ThreadFork, cpuvars
<1>3. Existing' = Existing \union {t}
  BY <1>2 DEF Existing, Types, TypeOK
<1>4. \A u \in Existing : t_cpu'[u] = t_cpu[u] /\ t_state'[u] = t_state[u]
  BY <1>1, <1>2 DEF Existing, Types, TypeOK
<1>5. t_cpu'[t] = c
  BY <1>2 DEF Types, TypeOK
<1>6. \A d \in CPUs : /\ Range(runqueue[d]) \subseteq Existing
                      /\ Range(zombies[d]) \subseteq Existing
                      /\ Range(mig[d].victims) \subseteq Existing
  BY QueuedExist
<1>7. \A d \in CPUs : t_cpu'[curthread'[d]] = d /\ curthread'[d] \in Existing'
  BY <1>2, <1>3, <1>4, CpuRightIs
<1>8. \A d \in CPUs : \A u \in Range(runqueue'[d]) : t_cpu'[u] = d
  BY <1>2, <1>4, <1>6, CpuRightIs
<1>9. \A d \in CPUs : \A u \in Range(zombies'[d]) :
         t_cpu'[u] = d /\ t_state'[u] = "zombie"
  BY <1>2, <1>4, <1>6, CpuRightIs
<1>10. \A d \in CPUs : \A u \in Range(mig'[d].victims) : t_cpu'[u] = d
  BY <1>2, <1>4, <1>6, CpuRightIs
<1>11. \A u \in Existing' : t_cpu'[u] \in CPUs
  BY <1>3, <1>4, <1>5, CpuRightIs
<1> QED
  BY <1>7, <1>8, <1>9, <1>10, <1>11, CpuRightNext

\* The victims of thread_consider_migration are this CPU's, until another
\* gets one, which is then no longer on any queue of this CPU.
LEMMA MigrationTakeCpu ==
  ASSUME Types, PlacesRight, CpuRight, StackAlive, CodeRight,
         NEW c \in CPUs, MigrationTake(c)
  PROVE  CpuRight' /\ StackAlive'
<1>1. PICK n \in 0 .. Len(runqueue[c]) :
            /\ runqueue' = [runqueue EXCEPT ![c] = SubSeq(runqueue[c], 1, n)]
            /\ mig'[c].victims = SubSeq(runqueue[c], n + 1, Len(runqueue[c]))
            /\ \A d \in CPUs \ {c} : mig'[d] = mig[d]
  BY MigrationTakeSplits
<1>2. runqueue[c] \in Seq(Threads)
  BY CpuTypes
<1>3. /\ Range(SubSeq(runqueue[c], 1, n)) \subseteq Range(runqueue[c])
      /\ Range(SubSeq(runqueue[c], n + 1, Len(runqueue[c])))
           \subseteq Range(runqueue[c])
  BY <1>2, CutHolds
<1>4. \A d \in CPUs : Range(runqueue'[d]) \subseteq Range(runqueue[d])
  BY <1>1, <1>3 DEF Types, TypeOK
<1>5. UNCHANGED <<curthread, t_state, t_cpu, zombies>>
  BY DEF MigrationTake, threadvars
<1>6. Existing' = Existing
  BY <1>5 DEF Existing
<1>7. \A d \in CPUs : \A u \in Range(runqueue'[d]) : t_cpu'[u] = d
  BY <1>4, <1>5, CpuRightIs
<1>8. \A d \in CPUs : \A u \in Range(mig'[d].victims) : t_cpu'[u] = d
  <2>1. \A d \in CPUs : \A u \in Range(mig[d].victims) : t_cpu[u] = d
    BY CpuRightIs
  <2>2. \A u \in Range(runqueue[c]) : t_cpu[u] = c
    BY CpuRightIs
  <2>3. \A u \in Range(mig'[c].victims) : u \in Range(runqueue[c])
    BY <1>1, <1>3
  <2> QED
    BY <1>1, <1>5, <2>1, <2>2, <2>3
<1> QED
  BY <1>5, <1>6, <1>7, <1>8, CpuRightIs, CpuRightNext

LEMMA MigrationGiveCpu ==
  ASSUME Types, PlacesRight, CpuRight, StackAlive, CodeRight,
         NEW c \in CPUs, MigrationGive(c)
  PROVE  CpuRight' /\ StackAlive'
<1> DEFINE u == mig[c].victims
<1>1. u \in Seq(Threads) /\ u # <<>> /\ IsInjective(u)
  BY MigFields, MigrationGiveSteps, CpuPlaces
<1>2. PICK t \in Threads : t = Head(u)
  BY MigrationGiveSteps
<1>3. PICK v \in Seq(Threads) :
         /\ v = Tail(u) /\ t \notin Range(v)
         /\ Range(u) = Range(v) \union {t}
  BY <1>1, <1>2, TailHolds
<1>4. PICK i \in CPUs : i = mig[c].i
  BY MigrationGiveSteps
<1>5. UNCHANGED <<curthread, zombies, t_state>>
  BY DEF MigrationGive
<1>6. Existing' = Existing
  BY <1>5 DEF Existing
<1>7. \A d \in CPUs \ {c} : mig'[d] = mig[d]
  BY MigrationGiveSteps
<1>8. t_cpu[t] = c
  BY <1>3, CpuRightIs
<1>9. CASE Stays(c, t)
  <2>1. UNCHANGED <<t_cpu, runqueue>> /\ mig'[c].victims = Append(v, t)
    BY <1>2, <1>3, <1>9, MigrationGiveSteps
  <2>2. Range(mig'[c].victims) = Range(u)
    <3>1. Range(Append(v, t)) = Range(v) \union {t}
      BY AppendHolds
    <3> QED
      BY <1>3, <2>1, <3>1
  <2>3. \A d \in CPUs : \A x \in Range(mig'[d].victims) : t_cpu'[x] = d
    <3>1. \A d \in CPUs : \A x \in Range(mig[d].victims) : t_cpu[x] = d
      BY CpuRightIs
    <3> QED
      BY <1>7, <2>1, <2>2, <3>1
  <2> QED
    BY <1>5, <1>6, <2>1, <2>3, CpuRightIs, CpuRightNext
<1>10. CASE ~Stays(c, t)
  <2>1. /\ runqueue' = [runqueue EXCEPT ![i] = Append(@, t)]
        /\ t_cpu' = [t_cpu EXCEPT ![t] = i]
        /\ mig'[c].victims = v
    BY <1>2, <1>3, <1>4, <1>10, MigrationGiveSteps DEF MoveThread
  <2>2. /\ runqueue'[i] = Append(runqueue[i], t)
        /\ runqueue[i] \in Seq(Threads)
        /\ \A d \in CPUs \ {i} : runqueue'[d] = runqueue[d]
    BY <2>1 DEF Types, TypeOK
  <2>3. Range(runqueue'[i]) = Range(runqueue[i]) \union {t}
    BY <2>2, AppendHolds
  <2>4. t_cpu'[t] = i /\ \A x \in Existing \ {t} : t_cpu'[x] = t_cpu[x]
    BY <2>1 DEF Existing, Types, TypeOK
  <2>5. \A d \in CPUs : curthread[d] \in Existing \ {t}
    BY <1>8, <1>10, CpuRightIs DEF Stays
  <2>6. \A d \in CPUs : Range(runqueue[d]) \subseteq Existing \ {t}
    BY <1>3, QueuedExist, QueuesApart
  <2>7. \A d \in CPUs : Range(zombies[d]) \subseteq Existing \ {t}
    BY <1>3, <1>8, QueuedExist, ZombiesApart, CpuRightIs
  <2>8. \A d \in CPUs : Range(mig'[d].victims) \subseteq
                           Range(mig[d].victims)
    BY <1>3, <1>7, <2>1
  <2>9. \A d \in CPUs : Range(mig'[d].victims) \subseteq Existing \ {t}
    <3>1. \A d \in CPUs : Range(mig[d].victims) \subseteq Existing
      BY QueuedExist
    <3>2. \A d \in CPUs \ {c} : t \notin Range(mig[d].victims)
      BY <1>8, CpuRightIs
    <3> QED
      BY <1>3, <2>1, <2>8, <3>1, <3>2
  <2> HIDE DEF u
  <2>10. \A d \in CPUs : t_cpu'[curthread'[d]] = d
                           /\ curthread'[d] \in Existing'
    BY <1>5, <1>6, <2>4, <2>5, CpuRightIs
  <2>11. \A d \in CPUs : \A x \in Range(runqueue'[d]) : t_cpu'[x] = d
    <3>1. \A d \in CPUs : \A x \in Range(runqueue[d]) :
             t_cpu[x] = d /\ x \in Existing \ {t}
      BY <2>6, CpuRightIs
    <3>2. \A d \in CPUs : \A x \in Range(runqueue[d]) : t_cpu'[x] = d
      BY <2>4, <3>1
    <3> QED
      BY <2>2, <2>3, <2>4, <3>2
  <2>12. \A d \in CPUs : \A x \in Range(zombies'[d]) :
            t_cpu'[x] = d /\ t_state'[x] = "zombie"
    BY <1>5, <2>4, <2>7, CpuRightIs
  <2>13. \A d \in CPUs : \A x \in Range(mig'[d].victims) : t_cpu'[x] = d
    BY <2>4, <2>8, <2>9, CpuRightIs
  <2>14. \A x \in Existing' : t_cpu'[x] \in CPUs
    BY <1>6, <2>4, CpuRightIs
  <2> QED
    BY <2>10, <2>11, <2>12, <2>13, <2>14, CpuRightNext
<1> QED
  BY <1>9, <1>10

LEMMA MigrationBackCpu ==
  ASSUME Types, PlacesRight, CpuRight, StackAlive, CodeRight,
         NEW c \in CPUs, MigrationBack(c)
  PROVE  CpuRight' /\ StackAlive'
<1> DEFINE u == mig[c].victims
           s == runqueue[c]
<1>1. u \in Seq(Threads) /\ s \in Seq(Threads)
  BY MigFields, CpuTypes
<1>2. /\ runqueue' = [runqueue EXCEPT ![c] = s \o u]
      /\ SetMig(c, NoMig)
      /\ UNCHANGED <<curthread, zombies, t_state, t_cpu>>
  BY DEF MigrationBack, Leftovers, threadvars
<1>3. runqueue'[c] = s \o u /\ \A d \in CPUs \ {c} : runqueue'[d] = runqueue[d]
  BY <1>2 DEF Types, TypeOK
<1>4. mig'[c].victims = <<>> /\ \A d \in CPUs \ {c} : mig'[d] = mig[d]
  BY <1>2, NoMigType, SetMigType
<1>5. Range(s \o u) = Range(s) \union Range(u)
  BY <1>1, ConcatHolds
<1>6. Existing' = Existing
  BY <1>2 DEF Existing
<1>7. \A d \in CPUs : \A x \in Range(runqueue'[d]) : t_cpu'[x] = d
  BY <1>2, <1>3, <1>5, CpuRightIs
<1>8. \A d \in CPUs : \A x \in Range(mig'[d].victims) : t_cpu'[x] = d
  BY <1>2, <1>4, EmptyHolds, CpuRightIs
<1> QED
  BY <1>2, <1>6, <1>7, <1>8, CpuRightIs, CpuRightNext

\* No step makes t_cpu wrong, or frees a stack in use.
LEMMA StepCpu ==
  ASSUME Types, PlacesRight, CpuRight, StackAlive, CodeRight, Types',
         NEW c \in CPUs, StepOf(c)
  PROVE  CpuRight' /\ StackAlive'
<1>1. CASE Control(c)
  BY <1>1, ControlPlaces
<1>2. ASSUME NEW t \in Threads, ThreadFork(c, t)
      PROVE  CpuRight' /\ StackAlive'
  BY <1>2, ThreadForkCpu
<1>3. ASSUME NEW w \in WChans, WchanWakeone(c, w) \/ WchanWakeall(c, w)
      PROVE  CpuRight' /\ StackAlive'
  <2>1. UNCHANGED <<runqueue, curthread, zombies, t_state, t_cpu, mig>>
    BY <1>3 DEF WchanWakeone, WchanWakeall, TakeSleepers, cpuvars, threadvars
  <2>2. Existing' = Existing
    BY <2>1 DEF Existing
  <2> QED
    BY <2>1, <2>2 DEF CpuRight, CpuOfThread, StackAlive
<1>4. CASE \/ SwitchEnqueue(c) \/ SwitchTo(c) \/ Switched(c)
           \/ MakeRunnable(c) \/ MigrationTake(c) \/ MigrationGive(c)
           \/ MigrationBack(c)
  BY <1>4, SwitchEnqueueCpu, SwitchToCpu, SwitchedCpu, MakeRunnableCpu,
     MigrationTakeCpu, MigrationGiveCpu, MigrationBackCpu
<1> QED
  BY <1>1, <1>2, <1>3, <1>4 DEF StepOf, Step, Control

-----------------------------------------------------------------------------
\* The code of the CPUs.

\* Where one CPU is in the code.
CodeOf(c) == IdleRight(c) /\ ListRight(c) /\ SleepRight(c) /\ MigRight(c)

\* What a step may do to another CPU: queue threads for it, and then send it
\* an IPI if it is idle, but not take its threads or its wait channel locks.
Spares(c) ==
    /\ \A d \in CPUs \ {c} :
          /\ Len(runqueue'[d]) >= Len(runqueue[d])
          /\ unidle[d] => unidle'[d]
          /\ runqueue'[d] = runqueue[d] \/ (isidle[d] => unidle'[d])
    /\ \A w \in WChans, d \in CPUs \ {c} :
          wc_lock[w] = d => wc_lock'[w] = d

\* A CPU appends to a run queue and then looks whether that CPU is idle.
LEMMA AppendSpares ==
  ASSUME Types, NEW c \in CPUs, NEW i \in CPUs, NEW t \in Threads,
         runqueue' = [runqueue EXCEPT ![i] = Append(@, t)],
         IpiIfIdle(i), UNCHANGED wc_lock
  PROVE  Spares(c)
<1>1. \A d \in CPUs : Len(runqueue[d]) \in Nat
  BY CpuTypes
<1>2. runqueue[i] \in Seq(Threads)
  BY CpuTypes
<1>3. Len(Append(runqueue[i], t)) = Len(runqueue[i]) + 1
  BY <1>2, AppendHolds
<1>4. /\ runqueue'[i] = Append(runqueue[i], t)
      /\ \A d \in CPUs \ {i} : runqueue'[d] = runqueue[d]
  BY DEF Types, TypeOK
<1>5. /\ unidle'[i] = (unidle[i] \/ isidle[i])
      /\ \A d \in CPUs \ {i} : unidle'[d] = unidle[d]
  BY DEF IpiIfIdle, Types, TypeOK
<1>6. \A d \in CPUs : Len(runqueue'[d]) >= Len(runqueue[d])
  <2> SUFFICES ASSUME NEW d \in CPUs
               PROVE  Len(runqueue'[d]) >= Len(runqueue[d])
    OBVIOUS
  <2>1. Len(runqueue[d]) \in Nat
    BY <1>1
  <2>2. CASE d = i
    BY <1>3, <1>4, <2>1, <2>2
  <2>3. CASE d # i
    <3>1. Len(runqueue'[d]) = Len(runqueue[d])
      BY <1>4, <2>3
    <3> QED
      BY <2>1, <3>1
  <2> QED
    BY <2>2, <2>3
<1> QED
  BY <1>4, <1>5, <1>6 DEF Spares

\* A step that changes only this CPU's run queue.
LEMMA OwnSpares ==
  ASSUME Types, NEW c \in CPUs,
         \A d \in CPUs \ {c} : runqueue'[d] = runqueue[d],
         \A d \in CPUs \ {c} : unidle'[d] = unidle[d],
         \A w \in WChans : wc_lock'[w] = wc_lock[w] \/ wc_lock[w] \in {c, None}
  PROVE  Spares(c)
<1>1. \A d \in CPUs : Len(runqueue[d]) \in Nat
  BY CpuTypes
<1>2. \A d \in CPUs \ {c} : Len(runqueue'[d]) >= Len(runqueue[d])
  <2> SUFFICES ASSUME NEW d \in CPUs \ {c}
               PROVE  Len(runqueue'[d]) >= Len(runqueue[d])
    OBVIOUS
  <2>1. Len(runqueue[d]) \in Nat /\ Len(runqueue'[d]) = Len(runqueue[d])
    BY <1>1
  <2> QED
    BY <2>1
<1>3. \A d \in CPUs : d # None
  BY NoneAssumption
<1> QED
  BY <1>2, <1>3 DEF Spares

LEMMA StepSpares ==
  ASSUME Types, PlacesRight, CpuRight, StackAlive, CodeRight,
         NEW c \in CPUs, StepOf(c)
  PROVE  Spares(c)
<1> USE DEF cpuvars, threadvars, wchanvars, codevars
<1>1. CASE Control(c)
  <2>1. UNCHANGED runqueue
    BY <1>1, ControlKeeps
  <2>2. /\ \A d \in CPUs \ {c} : unidle'[d] = unidle[d]
        /\ \A w \in WChans :
              wc_lock'[w] = wc_lock[w] \/ wc_lock[w] \in {c, None}
    <3>1. CASE SwitchNothing(c) \/ SwitchIdle(c) \/ Reacquire(c)
      BY <3>1 DEF SwitchNothing, SwitchIdle, Reacquire
    <3>2. CASE IdleIpi(c) \/ RunIpi(c)
      BY <3>2 DEF IdleIpi, RunIpi, Types, TypeOK
    <3>3. CASE ThreadYield(c) \/ ThreadExit(c)
      BY <3>3 DEF ThreadYield, ThreadExit
    <3>4. ASSUME NEW w \in WChans, WchanSleep(c, w)
          PROVE  /\ UNCHANGED unidle
                 /\ \A x \in WChans :
                       wc_lock'[x] = wc_lock[x] \/ wc_lock[x] \in {c, None}
      BY <3>4 DEF WchanSleep, Types, TypeOK
    <3>5. CASE Hardclock(c) \/ HardclockMigration(c)
      BY <3>5 DEF Hardclock, HardclockMigration
    <3>6. CASE MigrationCount(c)
      BY <3>6 DEF MigrationCount
    <3>7. CASE MigrationNext(c) \/ MigrationGiven(c)
      BY <3>7 DEF MigrationNext, MigrationGiven
    <3> QED
      BY <1>1, <3>1, <3>2, <3>3, <3>4, <3>5, <3>6, <3>7 DEF Control
  <2> QED
    BY <2>1, <2>2, OwnSpares
<1>2. ASSUME NEW t \in Threads, ThreadFork(c, t)
      PROVE  Spares(c)
  BY <1>2, OwnSpares DEF ThreadFork
<1>3. ASSUME NEW w \in WChans, WchanWakeone(c, w) \/ WchanWakeall(c, w)
      PROVE  Spares(c)
  BY <1>3, OwnSpares DEF WchanWakeone, WchanWakeall, TakeSleepers
<1>4. CASE SwitchTo(c) \/ Switched(c)
  BY <1>4, OwnSpares DEF SwitchTo, Switched, Exorcise, Types, TypeOK
<1>5. CASE MigrationTake(c) \/ MigrationBack(c)
  BY <1>5, OwnSpares DEF MigrationTake, MigrationBack, Types, TypeOK
<1>6. CASE SwitchEnqueue(c)
  <2>1. /\ UNCHANGED unidle
        /\ \A d \in CPUs \ {c} : runqueue'[d] = runqueue[d]
    BY <1>6 DEF SwitchEnqueue, Types, TypeOK
  <2>2. CASE newstate[c] = "sleep"
    <3>1. /\ wc[c] \in WChans /\ wc_lock[wc[c]] = c
          /\ wc_lock' = [wc_lock EXCEPT ![wc[c]] = None]
      BY <1>6, <2>2 DEF SwitchEnqueue, CodeRight, SleepRight
    <3>2. \A w \in WChans :
             wc_lock'[w] = wc_lock[w] \/ wc_lock[w] \in {c, None}
      BY <3>1 DEF Types, TypeOK
    <3> QED
      BY <2>1, <3>2, OwnSpares
  <2>3. CASE newstate[c] # "sleep"
    <3>1. UNCHANGED wc_lock
      BY <1>6, <2>3 DEF SwitchEnqueue
    <3> QED
      BY <2>1, <3>1, OwnSpares
  <2> QED
    BY <2>2, <2>3
<1>7. CASE MakeRunnable(c)
  <2>1. list[c] # <<>> /\ list[c] \in Seq(Threads)
    BY <1>7, CpuTypes DEF MakeRunnable, At, CodeRight, ListRight
  <2>2. PICK t \in Threads : t = Head(list[c]) /\ t \in Range(list[c])
    BY <2>1, TailHolds
  <2>3. PICK d \in CPUs : d = t_cpu[t]
    BY <2>2, QueuedExist, CpuRightIs
  <2>4. /\ runqueue' = [runqueue EXCEPT ![d] = Append(@, t)]
        /\ IpiIfIdle(d) /\ UNCHANGED wc_lock
    BY <1>7, <2>2, <2>3 DEF MakeRunnable, Enqueue
  <2> QED
    BY <2>4, AppendSpares
<1>8. CASE MigrationGive(c)
  <2>1. UNCHANGED wc_lock
    BY <1>8 DEF MigrationGive
  <2>2. PICK t \in Threads, i \in CPUs :
           t = Head(mig[c].victims) /\ i = mig[c].i
    BY <1>8, MigrationGiveSteps
  <2>3. \/ UNCHANGED <<runqueue, unidle>>
        \/ /\ runqueue' = [runqueue EXCEPT ![i] = Append(@, t)]
           /\ IpiIfIdle(i)
    BY <1>8, <2>2, MigrationGiveSteps
  <2> QED
    BY <2>1, <2>3, AppendSpares, OwnSpares
<1> QED
  BY <1>1, <1>2, <1>3, <1>4, <1>5, <1>6, <1>7, <1>8
     DEF StepOf, Step, Control

\* So another CPU's code stays right: what it counted on its own run queue
\* is still there.
LEMMA OthersCode ==
  ASSUME Types, CodeRight, Types', NEW c \in CPUs, OthersKept(c), Spares(c),
         NEW d \in CPUs, d # c
  PROVE  CodeOf(d)'
<1>1. /\ pc'[d] = pc[d] /\ newstate'[d] = newstate[d] /\ wc'[d] = wc[d]
      /\ list'[d] = list[d] /\ mig'[d] = mig[d] /\ isidle'[d] = isidle[d]
  BY DEF OthersKept
<1>2. Len(runqueue[d]) \in Nat /\ Len(runqueue'[d]) \in Nat
  BY LenProperties DEF Types, TypeOK
<1>3. Len(runqueue'[d]) >= Len(runqueue[d])
  BY DEF Spares
<1>4. IdleRight(d) /\ ListRight(d) /\ SleepRight(d) /\ MigRight(d)
  BY DEF CodeRight
<1>5. IdleRight(d)' /\ ListRight(d)'
  BY <1>1, <1>4 DEF IdleRight, ListRight
<1>6. SleepRight(d)'
  BY <1>1, <1>4 DEF SleepRight, Spares
<1>7. \A n \in Nat : n <= Len(runqueue[d]) => n <= Len(runqueue'[d])
  BY <1>2, <1>3
<1>8. mig[d].mine \in Nat /\ mig[d].send \in Nat
  BY MigFields
<1>9. MigRight(d)'
  BY <1>1, <1>4, <1>7, <1>8 DEF MigRight
<1> QED
  BY <1>5, <1>6, <1>9 DEF CodeOf

\* hardclock, or a handler, returns to the thread or to the idle loop.
LEMMA ReturnCode ==
  ASSUME Types, CodeRight, Types', NEW c \in CPUs, pc[c] # "switch",
         HardclockReturn(c), isidle'[c] = isidle[c],
         list[c] = <<>>, list'[c] = list[c], mig'[c] = NoMig
  PROVE  CodeOf(c)'
<1>1. newstate[c] # "sleep"
  BY DEF CodeRight, SleepRight
<1>2. /\ isidle[c] => pc'[c] = "reacquire" /\ newstate'[c] = newstate[c]
      /\ ~isidle[c] => pc'[c] = "switch" /\ newstate'[c] = "ready"
  BY DEF HardclockReturn, EnterSwitch, Goto, Types
<1>3. mig'[c].victims = <<>>
  BY NoMigType
<1> QED
  BY <1>1, <1>2, <1>3 DEF CodeOf, IdleRight, ListRight, SleepRight, MigRight

\* thread_switch, and cpu_idle.
LEMMA SwitchCode ==
  ASSUME Types, CodeRight, Types', NEW c \in CPUs,
         \/ SwitchNothing(c) \/ SwitchEnqueue(c) \/ SwitchIdle(c)
         \/ SwitchTo(c) \/ Switched(c) \/ IdleIpi(c) \/ RunIpi(c)
         \/ Reacquire(c) \/ ThreadYield(c) \/ ThreadExit(c)
         \/ (\E w \in WChans : WchanSleep(c, w))
  PROVE  CodeOf(c)'
<1> USE DEF At, Goto, cpuvars, threadvars, wchanvars, codevars
<1>0. pc[c] \in {"run", "switch", "pick", "switched", "idle", "reacquire"}
  BY DEF SwitchNothing, SwitchEnqueue, SwitchIdle, SwitchTo, Switched,
         IdleIpi, RunIpi, Reacquire, ThreadYield, ThreadExit, WchanSleep
<1>1. /\ IdleRight(c) /\ ListRight(c) /\ SleepRight(c) /\ MigRight(c)
      /\ list[c] = <<>> /\ mig[c] = NoMig
  BY <1>0 DEF CodeRight, ListRight, MigRight
<1>2. UNCHANGED <<list, mig>>
  BY DEF SwitchNothing, SwitchEnqueue, SwitchIdle, SwitchTo, Switched,
         IdleIpi, RunIpi, Reacquire, ThreadYield, ThreadExit, WchanSleep
<1>3. ASSUME pc'[c] \in {"run", "switch", "pick", "switched", "idle",
                          "reacquire"}
      PROVE  ListRight(c)' /\ MigRight(c)'
  BY <1>1, <1>2, <1>3, NoMigType DEF ListRight, MigRight
<1>4. CASE SwitchNothing(c)
  <2>1. /\ pc'[c] = "run" /\ newstate'[c] = "ready"
        /\ isidle'[c] = isidle[c] /\ pc[c] = "switch"
    BY <1>4 DEF SwitchNothing, Types
  <2> QED
    BY <1>1, <1>3, <2>1 DEF CodeOf, IdleRight, SleepRight
<1>5. CASE SwitchEnqueue(c)
  <2>1. /\ pc'[c] = "pick" /\ newstate'[c] = "ready" /\ isidle'[c]
    BY <1>5 DEF SwitchEnqueue, Types, TypeOK
  <2> QED
    BY <1>3, <2>1 DEF CodeOf, IdleRight, SleepRight
<1>6. CASE SwitchIdle(c)
  <2>1. /\ pc'[c] = "idle" /\ newstate'[c] = newstate[c]
        /\ isidle'[c] = isidle[c] /\ pc[c] = "pick"
    BY <1>6 DEF SwitchIdle, Types
  <2> QED
    BY <1>1, <1>3, <2>1 DEF CodeOf, IdleRight, SleepRight
<1>7. CASE SwitchTo(c)
  <2>1. /\ pc'[c] = "switched" /\ newstate'[c] = newstate[c]
        /\ ~isidle'[c] /\ pc[c] = "pick"
    BY <1>7 DEF SwitchTo, Types, TypeOK
  <2> QED
    BY <1>1, <1>3, <2>1 DEF CodeOf, IdleRight, SleepRight
<1>8. CASE Switched(c)
  <2>1. /\ pc'[c] = "run" /\ newstate'[c] = newstate[c]
        /\ isidle'[c] = isidle[c] /\ pc[c] = "switched"
    BY <1>8 DEF Switched, Types
  <2> QED
    BY <1>1, <1>3, <2>1 DEF CodeOf, IdleRight, SleepRight
<1>9. CASE IdleIpi(c)
  <2>1. /\ pc'[c] = "reacquire" /\ newstate'[c] = newstate[c]
        /\ isidle'[c] = isidle[c] /\ pc[c] = "idle"
    BY <1>9 DEF IdleIpi, Types
  <2> QED
    BY <1>1, <1>3, <2>1 DEF CodeOf, IdleRight, SleepRight
<1>10. CASE RunIpi(c)
  <2>1. /\ pc'[c] = "run" /\ newstate'[c] = newstate[c]
        /\ isidle'[c] = isidle[c] /\ pc[c] = "run"
    BY <1>10 DEF RunIpi, Types
  <2> QED
    BY <1>1, <1>3, <2>1 DEF CodeOf, IdleRight, SleepRight
<1>11. CASE Reacquire(c)
  <2>1. /\ pc'[c] = "pick" /\ newstate'[c] = newstate[c]
        /\ isidle'[c] = isidle[c] /\ pc[c] = "reacquire"
    BY <1>11 DEF Reacquire, Types
  <2> QED
    BY <1>1, <1>3, <2>1 DEF CodeOf, IdleRight, SleepRight
<1>12. CASE ThreadYield(c) \/ ThreadExit(c)
  <2>1. /\ pc'[c] = "switch" /\ newstate'[c] \in {"ready", "zombie"}
        /\ isidle'[c] = isidle[c] /\ pc[c] = "run"
    BY <1>12 DEF ThreadYield, ThreadExit, EnterSwitch, Types
  <2> QED
    BY <1>1, <1>3, <2>1 DEF CodeOf, IdleRight, SleepRight
<1>13. ASSUME NEW w \in WChans, WchanSleep(c, w)
       PROVE  CodeOf(c)'
  <2>1. /\ pc'[c] = "switch" /\ isidle'[c] = isidle[c] /\ pc[c] = "run"
        /\ wc'[c] = w /\ wc_lock'[w] = c
    BY <1>13 DEF WchanSleep, EnterSwitch, Types, TypeOK
  <2> QED
    BY <1>1, <1>3, <2>1 DEF CodeOf, IdleRight, SleepRight
<1> QED
  BY <1>4, <1>5, <1>6, <1>7, <1>8, <1>9, <1>10, <1>11, <1>12, <1>13

\* thread_make_runnable, thread_fork and the wakeups.
LEMMA WakeCode ==
  ASSUME Types, CodeRight, Types', NEW c \in CPUs,
         \/ MakeRunnable(c)
         \/ (\E t \in Threads : ThreadFork(c, t))
         \/ (\E w \in WChans : WchanWakeone(c, w) \/ WchanWakeall(c, w))
  PROVE  CodeOf(c)'
<1> USE DEF At, Goto, cpuvars, threadvars, wchanvars, codevars
<1>0. pc[c] \in {"wake", "run", "idle"}
  BY DEF MakeRunnable, ThreadFork, WchanWakeone, WchanWakeall, TakeSleepers
<1>1. newstate[c] # "sleep" /\ mig[c] = NoMig
  BY <1>0 DEF CodeRight, SleepRight, MigRight
<1>2. UNCHANGED <<newstate, mig, isidle>>
  BY DEF MakeRunnable, ThreadFork, WchanWakeone, WchanWakeall, TakeSleepers
<1>3. ASSUME pc'[c] \in {"run", "reacquire", "wake"}
      PROVE  SleepRight(c)' /\ MigRight(c)'
  BY <1>1, <1>2, <1>3, NoMigType DEF SleepRight, MigRight
<1>4. CASE MakeRunnable(c)
  <2>1. list[c] # <<>> /\ list[c] \in Seq(Threads)
    BY <1>4, CpuTypes DEF MakeRunnable, CodeRight, ListRight
  <2>2. list'[c] = Tail(list[c])
    BY <1>4 DEF MakeRunnable, Types, TypeOK
  <2>3. /\ Len(list'[c]) = Len(list[c]) - 1 /\ Len(list[c]) > 0
        /\ list'[c] \in Seq(Threads)
    BY <2>1, <2>2, TailHolds
  <2>4. PICK n \in Nat : n = Len(list[c]) /\ n > 0 /\ Len(list'[c]) = n - 1
    BY <2>1, <2>3, LenProperties
  <2>5. pc'[c] = IF n > 1 THEN "wake" ELSE Caller(c)
    BY <1>4, <2>4 DEF MakeRunnable, Types
  <2>6. CASE n > 1
    <3>1. n - 1 # 0
      BY <2>6
    <3>2. Len(list'[c]) # 0
      BY <2>4, <3>1
    <3>3. list'[c] # <<>>
      BY <2>3, <3>2, EmptySeq
    <3> QED
      BY <1>3, <2>5, <2>6, <3>3 DEF CodeOf, IdleRight, ListRight
  <2>7. CASE ~(n > 1)
    <3>1. n > 0
      BY <2>4
    <3>2. n - 1 = 0
      BY <2>7, <3>1
    <3>3. Len(list'[c]) = 0
      BY <2>4, <3>2
    <3>4. list'[c] = <<>>
      BY <2>3, <3>3, EmptySeq
    <3>5. /\ isidle[c] => pc'[c] = "reacquire"
          /\ ~isidle[c] => pc'[c] = "run"
      BY <2>5, <2>7 DEF Caller
    <3> QED
      BY <1>2, <1>3, <3>4, <3>5 DEF CodeOf, IdleRight, ListRight
  <2> QED
    BY <2>6, <2>7
<1>5. ASSUME NEW t \in Threads, ThreadFork(c, t)
      PROVE  CodeOf(c)'
  <2>1. pc'[c] = "wake" /\ list'[c] = <<t>>
    BY <1>5 DEF ThreadFork, Types, TypeOK
  <2>2. list'[c] # <<>>
    BY <2>1
  <2> QED
    BY <1>3, <2>1, <2>2 DEF CodeOf, IdleRight, ListRight
<1>6. ASSUME NEW w \in WChans, WchanWakeone(c, w) \/ WchanWakeall(c, w)
      PROVE  CodeOf(c)'
  <2>1. PICK n \in 0 .. Len(wc_threads[w]) : n > 0 /\ TakeSleepers(c, w, n)
    BY <1>6, WakesTake
  <2>2. wc_threads[w] \in Seq(Threads)
    BY DEF Types, TypeOK
  <2>3. /\ SubSeq(wc_threads[w], 1, n) \in Seq(Threads)
        /\ Len(SubSeq(wc_threads[w], 1, n)) = n
    BY <2>2, CutHolds
  <2>4. pc'[c] = "wake" /\ list'[c] = SubSeq(wc_threads[w], 1, n)
    BY <2>1 DEF TakeSleepers, Types, TypeOK
  <2>5. list'[c] # <<>>
    BY <2>1, <2>3, <2>4, EmptySeq
  <2> QED
    BY <1>3, <2>4, <2>5 DEF CodeOf, IdleRight, ListRight
<1> QED
  BY <1>4, <1>5, <1>6

\* thread_consider_migration.
LEMMA MigCode ==
  ASSUME Types, CodeRight, Types', NEW c \in CPUs,
         \/ Hardclock(c) \/ HardclockMigration(c) \/ MigrationCount(c)
         \/ MigrationTake(c) \/ MigrationNext(c) \/ MigrationGive(c)
         \/ MigrationGiven(c) \/ MigrationBack(c)
  PROVE  CodeOf(c)'
<1> USE DEF At, Goto, cpuvars, threadvars, wchanvars, codevars
<1>0. pc[c] \in {"run", "idle", "count", "take", "give", "giving"}
  BY DEF Hardclock, HardclockMigration, MigrationCount, MigrationTake,
         MigrationNext, MigrationGive, MigrationGiven, MigrationBack
<1>1. newstate[c] # "sleep" /\ list[c] = <<>>
  BY <1>0 DEF CodeRight, SleepRight, ListRight
<1>2. UNCHANGED <<list, isidle>>
  BY DEF Hardclock, HardclockMigration, MigrationCount, MigrationTake,
         MigrationNext, MigrationGive, MigrationGiven, MigrationBack
<1>3. ASSUME pc'[c] \in {"count", "take", "give", "giving"},
             newstate'[c] = newstate[c]
      PROVE  IdleRight(c)' /\ ListRight(c)' /\ SleepRight(c)'
  BY <1>1, <1>2, <1>3 DEF IdleRight, ListRight, SleepRight
<1>4. CASE Hardclock(c)
  <2>1. UNCHANGED mig /\ mig[c] = NoMig /\ HardclockReturn(c)
    BY <1>4 DEF Hardclock, CodeRight, MigRight
  <2> QED
    BY <1>0, <1>1, <1>2, <2>1, ReturnCode
<1>5. CASE HardclockMigration(c)
  <2>1. /\ UNCHANGED <<mig, newstate>> /\ mig[c] = NoMig
        /\ pc'[c] = "count"
    BY <1>5 DEF HardclockMigration, CodeRight, MigRight, Types
  <2>2. 1 \in CPUs
    BY CPUAssumption DEF CPUs
  <2>3. Len(runqueue'[c]) \in Nat
    BY LenProperties DEF Types, TypeOK
  <2>4. MigRight(c)'
    BY <2>1, <2>2, <2>3, NoMigType DEF MigRight
  <2> QED
    BY <1>3, <2>1, <2>4 DEF CodeOf
<1>6. CASE MigrationCount(c)
  <2>1. UNCHANGED runqueue /\ pc[c] = "count"
    BY <1>6 DEF MigrationCount
  <2>2. /\ mig[c].i \in CPUs /\ mig[c].mine <= Len(runqueue[c])
        /\ mig[c].i <= c => mig[c].mine = 0
        /\ mig[c].i \in Nat /\ mig[c].mine \in Nat
        /\ Len(runqueue[c]) \in Nat
    BY <2>1, MigFields, CpuTypes DEF CodeRight, MigRight
  <2>3. ASSUME NEW r \in Migs, CountGoesOn(c, r), r.victims = <<>>
        PROVE  CodeOf(c)'
    <3>1. /\ mig'[c] = r /\ UNCHANGED <<pc, newstate>>
          /\ mig[c].i < NumCPUs /\ r.i = mig[c].i + 1
          /\ r.mine = IF mig[c].i = c THEN Len(runqueue[c]) ELSE mig[c].mine
      BY <2>3, SetMigType DEF CountGoesOn
    <3>2. r.i \in CPUs
      BY <2>2, <3>1, CPUAssumption DEF CPUs
    <3>3. r.mine <= Len(runqueue[c])
      BY <2>2, <3>1
    <3>4. r.i <= c => r.mine = 0
      <4>1. c \in Nat
        BY CpuTypes
      <4> QED
        BY <2>2, <3>1, <4>1
    <3>5. MigRight(c)'
      BY <2>1, <2>3, <3>1, <3>2, <3>3, <3>4 DEF MigRight
    <3> QED
      BY <1>3, <2>1, <3>1, <3>5 DEF CodeOf
  <2>4. CASE CountEnds(c)
    <3>1. mig'[c] = NoMig /\ HardclockReturn(c)
      BY <2>4, NoMigType, SetMigType DEF CountEnds
    <3> QED
      BY <1>1, <1>2, <2>1, <3>1, ReturnCode
  <2>5. ASSUME NEW r \in Migs, CountSends(c, r), r.victims = <<>>
        PROVE  CodeOf(c)'
    <3>1. /\ mig'[c] = r /\ UNCHANGED newstate /\ pc'[c] = "take"
          /\ r.i = 1
          /\ r.send <= IF mig[c].i = c THEN Len(runqueue[c]) ELSE mig[c].mine
      BY <2>5, SetMigType DEF CountSends, Types
    <3>2. r.send \in Nat
      BY DEF Migs
    <3>3. r.send <= Len(runqueue[c])
      BY <2>2, <3>1, <3>2
    <3>4. MigRight(c)'
      BY <2>1, <2>5, <3>1, <3>3 DEF MigRight
    <3> QED
      BY <1>3, <3>1, <3>4 DEF CodeOf
  <2> QED
    BY <1>6, <2>3, <2>4, <2>5, CountSteps
<1>7. CASE MigrationTake(c)
  <2>1. /\ UNCHANGED newstate /\ pc'[c] = "give" /\ mig[c].i > 0
    BY <1>7 DEF MigrationTake, Types, CodeRight, MigRight
  <2>2. PICK n \in 0 .. Len(runqueue[c]) :
            /\ n = Len(runqueue[c]) - mig[c].send
            /\ mig'[c].i = mig[c].i /\ mig'[c].send = mig[c].send
            /\ mig'[c].victims = SubSeq(runqueue[c], n + 1, Len(runqueue[c]))
    BY <1>7, MigrationTakeSplits
  <2>3. runqueue[c] \in Seq(Threads)
    BY CpuTypes
  <2>4. Len(mig'[c].victims) = Len(runqueue[c]) - n
    BY <2>2, <2>3, CutHolds
  <2>5. Len(runqueue[c]) \in Nat /\ mig[c].send \in Nat /\ n \in Nat
    BY CpuTypes, MigFields
  <2>6. mig'[c].send <= Len(mig'[c].victims)
    BY <2>2, <2>4, <2>5
  <2>7. MigRight(c)'
    BY <2>1, <2>2, <2>6 DEF MigRight
  <2> QED
    BY <1>3, <2>1, <2>7 DEF CodeOf
<1>8. CASE MigrationNext(c)
  <2>1. /\ UNCHANGED newstate /\ pc[c] = "give"
        /\ mig[c].i <= NumCPUs /\ mig[c].i > 0
        /\ mig[c].send <= Len(mig[c].victims)
    BY <1>8 DEF MigrationNext, CodeRight, MigRight
  <2>2. mig[c].i \in Nat
    BY MigFields
  <2>3. CASE mig[c].i = c
    <3>1. SetMig(c, NextCPU(mig[c])) /\ UNCHANGED pc
      BY <1>8, <2>3 DEF MigrationNext
    <3>2. /\ mig'[c].i = mig[c].i + 1 /\ mig'[c].send = mig[c].send
          /\ mig'[c].victims = mig[c].victims
      BY <3>1, MigFields, MigUpdates, SetMigType
    <3>3. mig'[c].i > 0
      BY <2>2, <3>2
    <3>4. MigRight(c)'
      BY <2>1, <3>1, <3>2, <3>3 DEF MigRight
    <3> QED
      BY <1>3, <2>1, <3>1, <3>4 DEF CodeOf
  <2>4. CASE mig[c].i # c
    <3>1. UNCHANGED mig /\ pc'[c] = "giving"
      BY <1>8, <2>4 DEF MigrationNext, Types
    <3>2. mig[c].i \in CPUs
      BY <2>1, <2>2, CPUNumbers
    <3>3. MigRight(c)'
      BY <2>1, <3>1, <3>2 DEF MigRight
    <3> QED
      BY <1>3, <2>1, <3>1, <3>3 DEF CodeOf
  <2> QED
    BY <2>3, <2>4
<1>9. CASE MigrationGive(c)
  <2>1. /\ UNCHANGED <<pc, newstate>> /\ pc[c] = "giving"
        /\ mig[c].i > 0 /\ mig[c].send <= Len(mig[c].victims)
        /\ mig[c].i \in CPUs
    BY <1>9 DEF MigrationGive, CodeRight, MigRight
  <2>2. /\ mig'[c].i = mig[c].i /\ mig'[c].send = mig[c].send - 1
        /\ mig[c].victims # <<>> /\ mig[c].victims \in Seq(Threads)
    BY <1>9, MigrationGiveSteps, MigFields
  <2>3. /\ Tail(mig[c].victims) \in Seq(Threads)
        /\ Len(Tail(mig[c].victims)) = Len(mig[c].victims) - 1
        /\ Head(mig[c].victims) \in Threads
    BY <2>2, TailHolds
  <2>4. /\ mig[c].send \in Nat /\ Len(mig[c].victims) \in Nat
    BY <2>2, MigFields, LenProperties
  <2>5. \/ mig'[c].victims = Tail(mig[c].victims)
        \/ mig'[c].victims = Append(Tail(mig[c].victims),
                                    Head(mig[c].victims))
    BY <1>9, MigrationGiveSteps
  <2>6. \/ Len(mig'[c].victims) = Len(mig[c].victims) - 1
        \/ Len(mig'[c].victims) = Len(mig[c].victims) - 1 + 1
    <3>1. PICK v \in Seq(Threads), t \in Threads :
             v = Tail(mig[c].victims) /\ t = Head(mig[c].victims)
      BY <2>3
    <3>2. Len(Append(v, t)) = Len(v) + 1
      BY AppendHolds
    <3> QED
      BY <2>3, <2>5, <3>1, <3>2
  <2>7. mig'[c].send <= Len(mig'[c].victims)
    BY <2>1, <2>2, <2>4, <2>6
  <2>8. MigRight(c)'
    BY <2>1, <2>2, <2>7 DEF MigRight
  <2> QED
    BY <1>3, <2>1, <2>8 DEF CodeOf
<1>10. CASE MigrationGiven(c)
  <2>1. /\ UNCHANGED newstate /\ pc'[c] = "give"
        /\ mig[c].i > 0 /\ mig[c].send <= Len(mig[c].victims)
    BY <1>10 DEF MigrationGiven, CodeRight, MigRight, Types
  <2>2. /\ mig'[c].i = mig[c].i + 1 /\ mig'[c].send = mig[c].send
        /\ mig'[c].victims = mig[c].victims
    BY <1>10, MigFields, MigUpdates, SetMigType DEF MigrationGiven
  <2>3. mig'[c].i > 0
    <3>1. mig[c].i \in Nat
      BY MigFields
    <3> QED
      BY <2>2, <3>1
  <2>4. MigRight(c)'
    BY <2>1, <2>2, <2>3 DEF MigRight
  <2> QED
    BY <1>3, <2>1, <2>4 DEF CodeOf
<1>11. CASE MigrationBack(c)
  <2>1. mig'[c] = NoMig /\ HardclockReturn(c) /\ pc[c] = "give"
    BY <1>11, NoMigType, SetMigType DEF MigrationBack
  <2> QED
    BY <1>1, <1>2, <2>1, ReturnCode
<1> QED
  BY <1>4, <1>5, <1>6, <1>7, <1>8, <1>9, <1>10, <1>11

\* No step leaves a CPU's code wrong.
LEMMA StepCode ==
  ASSUME Types, PlacesRight, CpuRight, StackAlive, CodeRight, Types',
         NEW c \in CPUs, StepOf(c)
  PROVE  CodeRight'
<1>1. CodeOf(c)'
  BY SwitchCode, WakeCode, MigCode DEF StepOf, Step
<1>2. \A d \in CPUs : d # c => CodeOf(d)'
  BY StepKeepsOthers, StepSpares, OthersCode
<1> QED
  BY <1>1, <1>2 DEF CodeRight, CodeOf

-----------------------------------------------------------------------------
\* The idle CPUs, and the assertions.

\* A CPU goes idle only when its run queue is empty.
LEMMA GoesIdle ==
  ASSUME Types, CodeRight, Types', NEW c \in CPUs, StepOf(c),
         pc'[c] = "idle"
  PROVE  runqueue'[c] = <<>>
<1> USE DEF At, Goto, cpuvars, threadvars, wchanvars, codevars
<1>1. CASE SwitchIdle(c)
  BY <1>1 DEF SwitchIdle
<1>2. ASSUME HardclockReturn(c)
      PROVE  FALSE
  <2>1. pc'[c] = "reacquire" \/ pc'[c] = "switch"
    BY <1>2 DEF HardclockReturn, EnterSwitch, Types
  <2> QED
    BY <2>1
<1>3. CASE SwitchNothing(c) \/ SwitchEnqueue(c) \/ SwitchTo(c) \/ Switched(c)
             \/ IdleIpi(c) \/ Reacquire(c)
  BY <1>3 DEF SwitchNothing, SwitchEnqueue, SwitchTo, Switched, IdleIpi,
              Reacquire, Types
<1>4. CASE RunIpi(c) \/ ThreadYield(c) \/ ThreadExit(c)
             \/ (\E w \in WChans : WchanSleep(c, w))
  BY <1>4 DEF RunIpi, ThreadYield, ThreadExit, WchanSleep, EnterSwitch, Types
<1>5. CASE MakeRunnable(c)
  <2>1. pc'[c] \in {"wake", "reacquire", "run"}
    BY <1>5 DEF MakeRunnable, Caller, Types
  <2> QED
    BY <2>1
<1>6. CASE \/ \E t \in Threads : ThreadFork(c, t)
           \/ \E w \in WChans : WchanWakeone(c, w) \/ WchanWakeall(c, w)
  BY <1>6 DEF ThreadFork, WchanWakeone, WchanWakeall, TakeSleepers, Types
<1>7. CASE Hardclock(c) \/ MigrationBack(c)
  BY <1>2, <1>7 DEF Hardclock, MigrationBack
<1>8. CASE HardclockMigration(c) \/ MigrationTake(c) \/ MigrationNext(c)
             \/ MigrationGiven(c) \/ MigrationGive(c)
  BY <1>8 DEF HardclockMigration, MigrationTake, MigrationNext,
              MigrationGiven, MigrationGive, Types
<1>9. CASE MigrationCount(c)
  <2>1. pc'[c] = "count" \/ HardclockReturn(c) \/ pc'[c] = "take"
    BY <1>9 DEF MigrationCount, Types
  <2> QED
    BY <1>2, <2>1
<1> QED
  BY <1>1, <1>3, <1>4, <1>5, <1>6, <1>7, <1>8, <1>9 DEF StepOf, Step

\* Whoever queues a thread for an idle CPU sends it an IPI.
LEMMA StepUnidle ==
  ASSUME Types, PlacesRight, CpuRight, StackAlive, CodeRight, NoLostUnidle,
         Types', NEW c \in CPUs, StepOf(c)
  PROVE  NoLostUnidle'
<1> SUFFICES ASSUME NEW d \in CPUs, pc'[d] = "idle", runqueue'[d] # <<>>
             PROVE  unidle'[d]
  BY DEF NoLostUnidle
<1>1. d # c
  BY GoesIdle
<1>2. pc[d] = "idle"
  BY <1>1, StepKeepsOthers DEF OthersKept
<1>3. isidle[d]
  BY <1>2 DEF CodeRight, IdleRight
<1>4. /\ unidle[d] => unidle'[d]
      /\ runqueue'[d] = runqueue[d] \/ (isidle[d] => unidle'[d])
  BY <1>1, StepSpares DEF Spares
<1> QED
  BY <1>2, <1>3, <1>4 DEF NoLostUnidle

\* No assertion of exorcise or of spinlock_release fails, and migration has
\* as many threads to take as it counted.
LEMMA StepPanic ==
  ASSUME Types, PlacesRight, CpuRight, StackAlive, CodeRight, NoPanic,
         NEW c \in CPUs, StepOf(c)
  PROVE  NoPanic'
<1> USE DEF NoPanic
<1>1. CASE Control(c)
  BY <1>1, ControlKeeps
<1>2. CASE SwitchEnqueue(c)
  BY <1>2 DEF SwitchEnqueue, CodeRight, SleepRight
<1>3. CASE Switched(c)
  <2>1. \A z \in Range(zombies[c]) :
           z # curthread[c] /\ t_state[z] = "zombie"
    <3>1. ~isidle[c]
      BY <1>3 DEF Switched, At, CodeRight, IdleRight
    <3>2. curthread[c] \notin Range(zombies[c])
      BY <3>1, QueuesApart
    <3> QED
      BY <3>2, CpuRightIs
  <2> QED
    BY <1>3, <2>1 DEF Switched, Exorcise
<1>4. CASE MigrationTake(c)
  <2>1. /\ mig[c].send \in Nat /\ Len(runqueue[c]) \in Nat
        /\ mig[c].send <= Len(runqueue[c])
    BY <1>4, MigFields, CpuTypes DEF MigrationTake, At, CodeRight, MigRight
  <2>2. ~(Len(runqueue[c]) - mig[c].send < 0)
    BY <2>1
  <2> QED
    BY <1>4, <2>2 DEF MigrationTake
<1>5. CASE SwitchTo(c) \/ MakeRunnable(c) \/ MigrationGive(c)
             \/ MigrationBack(c)
  BY <1>5 DEF SwitchTo, MakeRunnable, MigrationGive, MigrationBack
<1>6. CASE \/ \E t \in Threads : ThreadFork(c, t)
           \/ \E w \in WChans : WchanWakeone(c, w) \/ WchanWakeall(c, w)
  BY <1>6 DEF ThreadFork, WchanWakeone, WchanWakeall, TakeSleepers
<1> QED
  BY <1>1, <1>2, <1>3, <1>4, <1>5, <1>6 DEF StepOf, Step, Control

-----------------------------------------------------------------------------
\* The theorems.

\* cpu_create and cpu_hatch: each CPU executes the thread made for it, no
\* queue holds any, and no other thread exists.
LEMMA InitRight == Init => ThreadInv
<1> SUFFICES ASSUME Init
             PROVE  ThreadInv
  OBVIOUS
<1>1. \A c \in CPUs : BootThread[c] \in Threads
  BY BootAssumption
<1>2. \A t \in Threads :
         /\ t_state[t] = IF \E c \in CPUs : BootThread[c] = t
                         THEN "run" ELSE "none"
         /\ \A c \in CPUs : BootThread[c] = t => t_cpu[t] = c
  <2>1. ASSUME NEW t \in Threads, NEW c \in CPUs, BootThread[c] = t
        PROVE  t_cpu[t] = c
    <3>1. \A d \in CPUs : BootThread[d] = t => d = c
      BY <2>1, BootAssumption
    <3>2. t_cpu[t] = CHOOSE d \in CPUs : BootThread[d] = t
      BY <2>1 DEF Init
    <3> QED
      BY <2>1, <3>1, <3>2
  <2> QED
    BY <2>1 DEF Init
<1>3. Existing = {BootThread[c] : c \in CPUs}
  BY <1>1, <1>2 DEF Existing
<1>4. Types
  <2>1. t_cpu \in [Threads -> CPUs \union {None}]
    <3>1. \A t \in Threads : t_cpu[t] \in CPUs \union {None}
      <4> SUFFICES ASSUME NEW t \in Threads
                   PROVE  t_cpu[t] \in CPUs \union {None}
        OBVIOUS
      <4>1. CASE \E c \in CPUs : BootThread[c] = t
        BY <1>2, <4>1
      <4>2. CASE ~\E c \in CPUs : BootThread[c] = t
        BY <4>2 DEF Init
      <4> QED
        BY <4>1, <4>2
    <3>2. t_cpu = [t \in Threads |-> t_cpu[t]]
      BY DEF Init
    <3> QED
      BY <3>1, <3>2
  <2>2. \A S : <<>> \in Seq(S)
    OBVIOUS
  <2>3. mig \in [CPUs -> Migs]
    BY NoMigType DEF Init
  <2>4. t_state \in [Threads -> ThreadStates]
    BY DEF Init, ThreadStates
  <2>5. curthread \in [CPUs -> Threads]
    BY BootAssumption DEF Init
  <2>6. /\ pc \in [CPUs -> PcLabels]
        /\ newstate \in [CPUs -> {"ready", "sleep", "zombie"}]
        /\ wc \in [CPUs -> WChans \union {None}]
    BY DEF Init, PcLabels
  <2>7. /\ runqueue \in [CPUs -> Seq(Threads)]
        /\ zombies \in [CPUs -> Seq(Threads)]
        /\ list \in [CPUs -> Seq(Threads)]
        /\ wc_threads \in [WChans -> Seq(Threads)]
    BY <2>2 DEF Init
  <2>8. /\ rqlock \in [CPUs -> CPUs \union {None}]
        /\ isidle \in [CPUs -> BOOLEAN] /\ unidle \in [CPUs -> BOOLEAN]
        /\ wc_lock \in [WChans -> CPUs \union {None}]
    BY DEF Init
  <2> QED
    BY <2>1, <2>3, <2>4, <2>5, <2>6, <2>7, <2>8 DEF Types, TypeOK
<1>5. /\ \A c \in CPUs : /\ runqueue[c] = <<>> /\ zombies[c] = <<>>
                         /\ list[c] = <<>> /\ mig[c].victims = <<>>
                         /\ ~isidle[c] /\ curthread[c] = BootThread[c]
      /\ \A w \in WChans : wc_threads[w] = <<>>
  BY NoMigType DEF Init
<1>6. PlacesRight
  <2>1. \A q \in Queues : Queue(q) = <<>> /\ Holds(q) = {}
    <3> SUFFICES ASSUME NEW q \in Queues
                 PROVE  Queue(q) = <<>> /\ Holds(q) = {}
      OBVIOUS
    <3>1. CASE \E c \in CPUs : q \in {<<"runqueue", c>>, <<"zombies", c>>,
                                      <<"list", c>>, <<"victims", c>>}
      BY <1>5, <3>1, PlaceIs, EmptyHolds
    <3>2. CASE \E w \in WChans : q = <<"wchan", w>>
      BY <1>5, <3>2, PlaceIs, EmptyHolds
    <3>3. q \in Places /\ \A c \in CPUs : q # <<"cpu", c>>
      BY PlaceKinds
    <3> QED
      BY <3>1, <3>2, <3>3, PlaceKinds
  <2>2. \A c \in CPUs : Holds(<<"cpu", c>>) = {BootThread[c]}
    BY <1>1, <1>5, PlaceIs DEF Executes
  <2>3. \A p \in Places :
           p \in Queues \/ \E c \in CPUs : p = <<"cpu", c>>
    BY DEF Places
  <2>4. QueuesOnce
    BY <2>1, EmptyHolds DEF QueuesOnce
  <2>5. Somewhere
    <3>1. \A p \in Places : Holds(p) \subseteq Existing
      BY <1>3, <2>1, <2>2, <2>3
    <3>2. \A t \in Existing : \E p \in Places : t \in Holds(p)
      BY <1>3, <2>2, PlaceKinds
    <3> QED
      BY <3>1, <3>2 DEF Somewhere
  <2>6. Apart
    <3>1. \A c, d \in CPUs : c # d => BootThread[c] # BootThread[d]
      BY BootAssumption
    <3> QED
      BY <2>1, <2>2, <2>3, <3>1 DEF Apart
  <2> QED
    BY <2>4, <2>5, <2>6 DEF PlacesRight
<1>7. CpuRight
  BY <1>1, <1>2, <1>3, <1>5, EmptyHolds DEF CpuRight, CpuOfThread
<1>8. StackAlive
  BY <1>1, <1>2, <1>5 DEF StackAlive
<1>9. CodeRight
  <2>1. \A c \in CPUs : pc[c] = "run" /\ newstate[c] = "ready"
                          /\ mig[c] = NoMig
    BY DEF Init
  <2> QED
    BY <1>5, <2>1 DEF CodeRight, IdleRight, ListRight, SleepRight, MigRight
<1>10. NoLostUnidle /\ NoPanic
  BY <1>5 DEF Init, NoLostUnidle, NoPanic
<1> QED
  BY <1>4, <1>6, <1>7, <1>8, <1>9, <1>10 DEF ThreadInv

LEMMA StepsRight == ThreadInv /\ [Next]_vars => ThreadInv'
<1> SUFFICES ASSUME ThreadInv, [Next]_vars
             PROVE  ThreadInv'
  OBVIOUS
<1>1. /\ Types /\ PlacesRight /\ CpuRight /\ StackAlive /\ CodeRight
      /\ NoLostUnidle /\ NoPanic
  BY DEF ThreadInv
<1>2. ASSUME NEW c \in CPUs, StepOf(c)
      PROVE  ThreadInv'
  <2>1. Types'
    BY <1>1, <1>2, SwitchTypes, WakeTypes, MigTypes DEF StepOf, Step
  <2> QED
    BY <1>1, <1>2, <2>1, StepPlaces, StepCpu, StepCode, StepUnidle, StepPanic
       DEF ThreadInv
<1>3. CASE UNCHANGED vars
  <2>1. /\ UNCHANGED <<runqueue, rqlock, isidle, curthread, zombies, unidle>>
        /\ UNCHANGED <<t_state, t_cpu, wc_threads, wc_lock>>
        /\ UNCHANGED <<pc, newstate, wc, list, mig, panic>>
    BY <1>3 DEF vars, cpuvars, threadvars, wchanvars, codevars
  <2>2. Existing' = Existing
    BY <2>1 DEF Existing
  <2>3. Untouched({})
    BY <2>1 DEF Untouched
  <2>4. PlacesRight'
    BY <1>1, <2>2, <2>3, Stands
  <2>5. Types'
    BY <1>1, <2>1 DEF Types, TypeOK
  <2>6. CpuRight' /\ StackAlive'
    BY <1>1, <2>1, <2>2 DEF CpuRight, CpuOfThread, StackAlive
  <2>7. CodeRight'
    BY <1>1, <2>1 DEF CodeRight, IdleRight, ListRight, SleepRight, MigRight
  <2>8. NoLostUnidle' /\ NoPanic'
    BY <1>1, <2>1 DEF NoLostUnidle, NoPanic
  <2> QED
    BY <2>4, <2>5, <2>6, <2>7, <2>8 DEF ThreadInv
<1> QED
  BY <1>2, <1>3, StepsAre

\* The invariant holds in every state.
THEOREM ThreadInvariant == Spec => []ThreadInv
BY InitRight, StepsRight, PTL DEF Spec

\* No thread of the kernel is lost or duplicated: one that exists is executed
\* by one CPU or is once on one queue (run queue, wait channel, zombies,
\* those to be made runnable, those to be migrated); t_cpu names the CPU whose
\* run queue it is on; and a CPU does not sleep in cpu_idle, without an IPI
\* coming, when it has a thread to run.
THEOREM ThreadNoThreadLost == Spec => []NoThreadLost
<1>1. ThreadInv => NoThreadLost
  BY PlacesOne DEF ThreadInv, Types, CpuRight, NoThreadLost
<1> QED
  BY <1>1, ThreadInvariant, PTL

\* No stack is used by two CPUs or freed under one: not even that of the
\* thread on which an idle CPU idles, which may be woken, migrated or dead.
THEOREM ThreadStacksSafe == Spec => []StacksSafe
<1>1. ThreadInv => StacksSafe
  BY DEF ThreadInv, CpuRight, CpuOfThread, StacksSafe, OneStack
<1> QED
  BY <1>1, ThreadInvariant, PTL

\* exorcise meets only zombies that are not curthread, thread_switch holds
\* the wait channel lock that it releases, and thread_consider_migration
\* never takes a thread from an empty run queue.
THEOREM ThreadNoPanic == Spec => []NoPanic
<1>1. ThreadInv => NoPanic
  BY DEF ThreadInv
<1> QED
  BY <1>1, ThreadInvariant, PTL

=============================================================================
