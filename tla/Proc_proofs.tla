---------------------------- MODULE Proc_proofs ----------------------------
(***************************************************************************)
(* Proofs about Proc, for any number of processes, slots and heap          *)
(* addresses: the struct a parent waits on is never freed under it; fork's *)
(* pid leads to the child, and waitpid returns what the child passed to    *)
(* _exit; and only the events of Breaks make an assertion fail.            *)
(*                                                                         *)
(* The invariant is in three parts.  HeapInv says who may use and free a   *)
(* struct proc, whatever programs do.  SlotInv says what a slot of the     *)
(* table leads to, when forks do not race.  KidInv says where the pid of a *)
(* child leads, when programs also wait only for their own children.       *)
(***************************************************************************)
EXTENDS Proc, WellFoundedInduction, TLAPS

\* The types of the history variables and the environment.
Types ==
    /\ exitcode \in [Threads -> Codes \union {NULL}]
    /\ status \in [Threads -> Int \union {NULL}]
    /\ env \in Environments

\* The struct has been allocated and not freed.
Live(s) == proc[s] \in LiveStruct
\* The thread runs as the process td_proc[t].
Alive(t) == pc[t] \notin {"none", "born", "gone"}
\* The thread alone knows a struct: it creates it, or is to run as it.
Makes(t) == pc[t] \in {"add", "adopt"}
Own(t, s) ==
    \/ Alive(t) /\ td_proc[t] = s
    \/ pc[t] \in {"born", "add", "adopt"} /\ arg[t].p = s

\* The struct of a process or of one being made is allocated ...
OwnersLive ==
    \A t \in Threads, s \in Structs \union {NULL} :
        Own(t, s) => s \in Structs /\ Live(s)
\* ... and no two threads have the same.
OneOwner ==
    \A t, u \in Threads, s \in Structs : Own(t, s) /\ Own(u, s) => t = u
NewApart ==
    \A t \in Threads : Makes(t) =>
        /\ arg[t].p # td_proc[t]
        /\ proc[arg[t].p].p_proc = NULL /\ proc[arg[t].p].forker = t
        /\ proc[arg[t].p].p_pid = arg[t].pid
\* Who waits on a struct or frees it is the process its p_proc names.
ParentRight ==
    \A t \in Threads : pc[t] \in {"P", "reap", "destroy"} =>
        /\ arg[t].p \in Structs
        /\ Live(arg[t].p) /\ proc[arg[t].p].p_proc = td_proc[t]
\* No process has the struct that is to be freed.
Doomed ==
    \A t, u \in Threads : pc[t] = "destroy" => ~Own(u, arg[t].p)
DeadRight ==
    \A t \in Threads, s \in Structs : Own(t, s) =>
        (proc[s].p_is_dead <=> pc[t] \in {"V", "unlock"})
\* sys_exit and ___waitpid hold the lock of the struct they change.
ExitLocks ==
    \A t \in Threads : pc[t] \in {"V", "unlock"} => proc[td_proc[t]].lock = t
CheckLocks ==
    \A t \in Threads : panic = "none" /\ pc[t] = "check" =>
        /\ arg[t].p \in Structs
        /\ Live(arg[t].p) /\ proc[arg[t].p].lock = t
LockHolders ==
    \A s \in Structs, t \in Threads : Live(s) /\ proc[s].lock = t =>
        \/ pc[t] = "check" /\ arg[t].p = s
        \/ pc[t] \in {"V", "unlock"} /\ td_proc[t] = s
\* V is called once, by a process that is dead.
SemRight ==
    /\ \A s \in Structs : Live(s) /\ proc[s].p_sem > 0 =>
           proc[s].p_is_dead
    /\ \A t \in Threads, s \in Structs :
           Own(t, s) /\ pc[t] # "unlock" => proc[s].p_sem = 0
ReapDead == \A t \in Threads : pc[t] = "reap" => proc[arg[t].p].p_is_dead
\* Every process but the menu's has been adopted before it runs.
Parented ==
    \A t \in Threads :
        /\ Alive(t) /\ t # Menu => proc[td_proc[t]].p_proc # NULL
        /\ pc[t] = "born" => proc[arg[t].p].p_proc # NULL
ExitRight ==
    \A t \in Threads :
        /\ pc[t] \notin {"exit", "V", "unlock", "gone"} => exitcode[t] = NULL
        /\ pc[t] \in {"exit", "V", "unlock"} =>
             exitcode[t] \in Codes /\ t # Menu
GetRight == \A t \in Threads : pc[t] = "getlock" => arg[t].p \in Structs

StructsRight ==
    /\ OwnersLive /\ OneOwner /\ NewApart /\ ParentRight /\ Doomed
    /\ DeadRight /\ ExitLocks /\ CheckLocks /\ LockHolders /\ SemRight
    /\ ReapDead /\ Parented /\ ExitRight /\ GetRight

HeapInv == TypeOK /\ Types /\ StructsRight

\* NULL is no struct, thread or number; exit codes are numbers.
LEMMA Apart ==
  /\ NULL \notin Threads /\ NULL \notin Structs /\ NULL \notin Codes
  /\ Codes \subseteq Int /\ Menu \in Threads
<1>1. INT_LIMIT \in Nat /\ Codes \subseteq Ints /\ Menu \in Threads
      /\ NULL \notin Threads /\ NULL \notin Structs /\ NULL \notin Int
  BY ProcAssumptions
<1>2. Ints \subseteq Int
  BY <1>1 DEF Ints
<1> QED
  BY <1>1, <1>2

\* A status is an int.
LEMMA MkwaitExitInt ==
  ASSUME NEW code \in Int
  PROVE  MkwaitExit(code) \in Int
<1>1. INT_LIMIT \in Nat /\ INT_LIMIT > 0
  BY ProcAssumptions
<1> DEFINE n == code * 4 + INT_LIMIT
           m == 2 * INT_LIMIT
<1>2. n \in Int /\ m \in Int /\ m > 0
  BY <1>1
<1>3. n % m \in Int
  BY <1>2
<1> QED
  BY <1>1, <1>3 DEF MkwaitExit, ToInt, WEXITED

\* A struct that has not been freed has all its fields.
LEMMA LiveIs ==
  ASSUME TypeOK, NEW s \in Structs
  PROVE  proc[s].live <=> Live(s)
<1>1. proc[s] \in LiveStruct \union {FreeStruct}
  BY DEF TypeOK
<1>2. ~FreeStruct.live
  BY DEF FreeStruct
<1>3. \A r \in LiveStruct : r.live = TRUE
  BY DEF LiveStruct
<1> QED
  BY <1>1, <1>2, <1>3 DEF Live

\* Such a struct still has all its fields.
LEMMA SetLockTypes ==
  ASSUME NEW r \in LiveStruct, NEW x \in Threads \union {NULL}
  PROVE  [r EXCEPT !.lock = x] \in LiveStruct
BY ProcAssumptions DEF LiveStruct

\* lock_acquire and lock_release of a struct's lock change nothing else.
SetLock(p, x) ==
    proc' = [proc EXCEPT ![p].lock = x]
LEMMA SetLockFields ==
  ASSUME TypeOK, NEW p \in Structs, Live(p),
         NEW x \in Threads \union {NULL},
         SetLock(p, x)
  PROVE  /\ proc'[p] \in LiveStruct
         /\ proc'[p].lock = x
         /\ \A s \in Structs : s # p => proc'[s] = proc[s]
         /\ \A s \in Structs :
              /\ Live(s)' <=> Live(s)
              /\ proc'[s].p_pid = proc[s].p_pid
              /\ proc'[s].p_proc = proc[s].p_proc
              /\ proc'[s].p_is_dead = proc[s].p_is_dead
              /\ proc'[s].p_retval = proc[s].p_retval
              /\ proc'[s].p_sem = proc[s].p_sem
              /\ proc'[s].forker = proc[s].forker
<1>1. proc[p] \in LiveStruct
  BY DEF Live
<1>2. /\ proc'[p] = [proc[p] EXCEPT !.lock = x]
      /\ \A s \in Structs : s # p => proc'[s] = proc[s]
  BY DEF TypeOK, SetLock
<1>3. proc'[p] \in LiveStruct
  BY <1>1, <1>2, SetLockTypes
<1>4. /\ proc'[p].lock = x
      /\ proc'[p].p_pid = proc[p].p_pid
      /\ proc'[p].p_proc = proc[p].p_proc
      /\ proc'[p].p_is_dead = proc[p].p_is_dead
      /\ proc'[p].p_retval = proc[p].p_retval
      /\ proc'[p].p_sem = proc[p].p_sem
      /\ proc'[p].forker = proc[p].forker
  BY <1>1, <1>2 DEF LiveStruct
<1>5. \A s \in Structs : Live(s)' <=> Live(s)
  BY <1>1, <1>2, <1>3 DEF Live
<1>6. ASSUME NEW s \in Structs
      PROVE  /\ proc'[s].p_pid = proc[s].p_pid
             /\ proc'[s].p_proc = proc[s].p_proc
             /\ proc'[s].p_is_dead = proc[s].p_is_dead
             /\ proc'[s].p_retval = proc[s].p_retval
             /\ proc'[s].p_sem = proc[s].p_sem
             /\ proc'[s].forker = proc[s].forker
  BY <1>2, <1>4
<1> QED
  BY <1>2, <1>3, <1>4, <1>5, <1>6

\* Such a struct still has all its fields.
LEMMA SetSemTypes ==
  ASSUME NEW r \in LiveStruct, NEW n \in 0 .. 1
  PROVE  [r EXCEPT !.p_sem = n] \in LiveStruct
BY ProcAssumptions DEF LiveStruct

\* P and V on a struct's semaphore change nothing else.
SetSem(p, n) ==
    proc' = [proc EXCEPT ![p].p_sem = n]
LEMMA SetSemFields ==
  ASSUME TypeOK, NEW p \in Structs, Live(p),
         NEW n \in 0 .. 1,
         SetSem(p, n)
  PROVE  /\ proc'[p] \in LiveStruct
         /\ proc'[p].p_sem = n
         /\ \A s \in Structs : s # p => proc'[s] = proc[s]
         /\ \A s \in Structs :
              /\ Live(s)' <=> Live(s)
              /\ proc'[s].p_pid = proc[s].p_pid
              /\ proc'[s].p_proc = proc[s].p_proc
              /\ proc'[s].p_is_dead = proc[s].p_is_dead
              /\ proc'[s].p_retval = proc[s].p_retval
              /\ proc'[s].lock = proc[s].lock
              /\ proc'[s].forker = proc[s].forker
<1>1. proc[p] \in LiveStruct
  BY DEF Live
<1>2. /\ proc'[p] = [proc[p] EXCEPT !.p_sem = n]
      /\ \A s \in Structs : s # p => proc'[s] = proc[s]
  BY DEF TypeOK, SetSem
<1>3. proc'[p] \in LiveStruct
  BY <1>1, <1>2, SetSemTypes
<1>4. /\ proc'[p].p_sem = n
      /\ proc'[p].p_pid = proc[p].p_pid
      /\ proc'[p].p_proc = proc[p].p_proc
      /\ proc'[p].p_is_dead = proc[p].p_is_dead
      /\ proc'[p].p_retval = proc[p].p_retval
      /\ proc'[p].lock = proc[p].lock
      /\ proc'[p].forker = proc[p].forker
  BY <1>1, <1>2 DEF LiveStruct
<1>5. \A s \in Structs : Live(s)' <=> Live(s)
  BY <1>1, <1>2, <1>3 DEF Live
<1>6. ASSUME NEW s \in Structs
      PROVE  /\ proc'[s].p_pid = proc[s].p_pid
             /\ proc'[s].p_proc = proc[s].p_proc
             /\ proc'[s].p_is_dead = proc[s].p_is_dead
             /\ proc'[s].p_retval = proc[s].p_retval
             /\ proc'[s].lock = proc[s].lock
             /\ proc'[s].forker = proc[s].forker
  BY <1>2, <1>4
<1> QED
  BY <1>2, <1>3, <1>4, <1>5, <1>6

\* Such a struct still has all its fields.
LEMMA SetParentTypes ==
  ASSUME NEW r \in LiveStruct, NEW q \in Structs \union {NULL}
  PROVE  [r EXCEPT !.p_proc = q] \in LiveStruct
BY ProcAssumptions DEF LiveStruct

\* Adopting a struct changes nothing else.
SetParent(p, q) ==
    proc' = [proc EXCEPT ![p].p_proc = q]
LEMMA SetParentFields ==
  ASSUME TypeOK, NEW p \in Structs, Live(p),
         NEW q \in Structs \union {NULL},
         SetParent(p, q)
  PROVE  /\ proc'[p] \in LiveStruct
         /\ proc'[p].p_proc = q
         /\ \A s \in Structs : s # p => proc'[s] = proc[s]
         /\ \A s \in Structs :
              /\ Live(s)' <=> Live(s)
              /\ proc'[s].p_pid = proc[s].p_pid
              /\ proc'[s].p_is_dead = proc[s].p_is_dead
              /\ proc'[s].p_retval = proc[s].p_retval
              /\ proc'[s].p_sem = proc[s].p_sem
              /\ proc'[s].lock = proc[s].lock
              /\ proc'[s].forker = proc[s].forker
<1>1. proc[p] \in LiveStruct
  BY DEF Live
<1>2. /\ proc'[p] = [proc[p] EXCEPT !.p_proc = q]
      /\ \A s \in Structs : s # p => proc'[s] = proc[s]
  BY DEF TypeOK, SetParent
<1>3. proc'[p] \in LiveStruct
  BY <1>1, <1>2, SetParentTypes
<1>4. /\ proc'[p].p_proc = q
      /\ proc'[p].p_pid = proc[p].p_pid
      /\ proc'[p].p_is_dead = proc[p].p_is_dead
      /\ proc'[p].p_retval = proc[p].p_retval
      /\ proc'[p].p_sem = proc[p].p_sem
      /\ proc'[p].lock = proc[p].lock
      /\ proc'[p].forker = proc[p].forker
  BY <1>1, <1>2 DEF LiveStruct
<1>5. \A s \in Structs : Live(s)' <=> Live(s)
  BY <1>1, <1>2, <1>3 DEF Live
<1>6. ASSUME NEW s \in Structs
      PROVE  /\ proc'[s].p_pid = proc[s].p_pid
             /\ proc'[s].p_is_dead = proc[s].p_is_dead
             /\ proc'[s].p_retval = proc[s].p_retval
             /\ proc'[s].p_sem = proc[s].p_sem
             /\ proc'[s].lock = proc[s].lock
             /\ proc'[s].forker = proc[s].forker
  BY <1>2, <1>4
<1> QED
  BY <1>2, <1>3, <1>4, <1>5, <1>6

\* Such a struct still has all its fields.
LEMMA SetDeadTypes ==
  ASSUME NEW r \in LiveStruct, NEW v \in Codes \union {0},
         NEW x \in Threads \union {NULL}
  PROVE  [r EXCEPT !.p_retval = v, !.p_is_dead = TRUE, !.lock = x]
            \in LiveStruct
BY ProcAssumptions DEF LiveStruct

\* sys_exit stores the status and takes the lock.
SetDead(p, v, x) ==
    proc' = [proc EXCEPT ![p].p_retval = v,
                         ![p].p_is_dead = TRUE,
                         ![p].lock = x]
LEMMA SetDeadFields ==
  ASSUME TypeOK, NEW p \in Structs, Live(p),
         NEW v \in Codes \union {0}, NEW x \in Threads \union {NULL},
         SetDead(p, v, x)
  PROVE  /\ proc'[p] \in LiveStruct
         /\ proc'[p].p_retval = v
         /\ proc'[p].p_is_dead = TRUE
         /\ proc'[p].lock = x
         /\ \A s \in Structs : s # p => proc'[s] = proc[s]
         /\ \A s \in Structs :
              /\ Live(s)' <=> Live(s)
              /\ proc'[s].p_pid = proc[s].p_pid
              /\ proc'[s].p_proc = proc[s].p_proc
              /\ proc'[s].p_sem = proc[s].p_sem
              /\ proc'[s].forker = proc[s].forker
<1>1. proc[p] \in LiveStruct
  BY DEF Live
<1>2. /\ proc'[p] = [proc[p] EXCEPT !.p_retval = v, !.p_is_dead = TRUE,
                                     !.lock = x]
      /\ \A s \in Structs : s # p => proc'[s] = proc[s]
  BY DEF TypeOK, SetDead
<1>3. proc'[p] \in LiveStruct
  <2>1. [proc[p] EXCEPT !.p_retval = v, !.p_is_dead = TRUE, !.lock = x]
           \in LiveStruct
    BY <1>1, SetDeadTypes
  <2> QED
    BY <1>2, <2>1
<1>4. /\ proc'[p].p_retval = v
      /\ proc'[p].p_is_dead = TRUE
      /\ proc'[p].lock = x
      /\ proc'[p].p_pid = proc[p].p_pid
      /\ proc'[p].p_proc = proc[p].p_proc
      /\ proc'[p].p_sem = proc[p].p_sem
      /\ proc'[p].forker = proc[p].forker
  BY <1>1, <1>2 DEF LiveStruct
<1>5. \A s \in Structs : Live(s)' <=> Live(s)
  BY <1>1, <1>2, <1>3 DEF Live
<1>6. ASSUME NEW s \in Structs
      PROVE  /\ proc'[s].p_pid = proc[s].p_pid
             /\ proc'[s].p_proc = proc[s].p_proc
             /\ proc'[s].p_sem = proc[s].p_sem
             /\ proc'[s].forker = proc[s].forker
  BY <1>2, <1>4
<1> QED
  BY <1>2, <1>3, <1>4, <1>5, <1>6

\* A struct as proc_create makes it, and one that is not there.
LEMMA NewFields ==
  ASSUME NEW t \in Threads, NEW pid \in Pids
  PROVE  LET r == NewStruct(t, pid) IN
         /\ r \in LiveStruct /\ r # FreeStruct
         /\ r.p_pid = pid /\ r.p_proc = NULL /\ r.p_is_dead = FALSE
         /\ r.p_sem = 0 /\ r.lock = NULL /\ r.forker = t
<1>1. NewStruct(t, pid) \in LiveStruct
  BY DEF NewStruct, LiveStruct
<1>2. NewStruct(t, pid).live /\ ~FreeStruct.live
  BY DEF NewStruct, FreeStruct
<1>3. NewStruct(t, pid) # FreeStruct
  BY <1>2
<1>4. LET r == NewStruct(t, pid) IN
      /\ r.p_pid = pid /\ r.p_proc = NULL /\ r.p_is_dead = FALSE
      /\ r.p_sem = 0 /\ r.lock = NULL /\ r.forker = t
  BY DEF NewStruct
<1> QED
  BY <1>1, <1>3, <1>4

LEMMA FreeNotLive == FreeStruct \notin LiveStruct
<1>1. ~FreeStruct.live
  BY DEF FreeStruct
<1>2. \A r \in LiveStruct : r.live = TRUE
  BY DEF LiveStruct
<1> QED
  BY <1>1, <1>2

\* The menu's process is the only one at first.
LEMMA HeapInit == Init => HeapInv
<1> SUFFICES ASSUME Init
             PROVE  HeapInv
  OBVIOUS
<1> DEFINE p0 == CHOOSE s \in Structs : TRUE
<1>1. p0 \in Structs
  BY ProcAssumptions
<1> HIDE DEF p0
<1>2. /\ proc = [s \in Structs |->
                  IF s = p0 THEN NewStruct(Menu, 0) ELSE FreeStruct]
      /\ td_proc = [t \in Threads |-> IF t = Menu THEN p0 ELSE NULL]
      /\ pc = [t \in Threads |-> IF t = Menu THEN "run" ELSE "none"]
      /\ p_table = [i \in Pids |-> IF i = 0 THEN p0 ELSE NULL]
      /\ exitcode = [t \in Threads |-> NULL]
      /\ panic = "none"
  BY DEF Init, p0
<1>3. 0 \in Pids /\ Menu \in Threads /\ NULL \notin Structs
      /\ NULL \notin Threads /\ MAX_PROCESSES \in Nat
  BY ProcAssumptions DEF Pids
<1>4. LET r == NewStruct(Menu, 0) IN
      /\ r \in LiveStruct /\ r # FreeStruct
      /\ r.p_is_dead = FALSE /\ r.p_sem = 0 /\ r.lock = NULL
  BY <1>3, NewFields
<1>5. \A s \in Structs : Live(s) => s = p0 /\ proc[s] = NewStruct(Menu, 0)
  BY <1>2, FreeNotLive DEF Live
<1>6. \A t \in Threads : \A s : Own(t, s) => t = Menu /\ s = p0
  BY <1>2 DEF Own, Alive
<1>7. Live(p0) /\ proc[p0] = NewStruct(Menu, 0)
  BY <1>1, <1>2, <1>4 DEF Live
<1>8. TypeOK
  <2>1. proc \in [Structs -> LiveStruct \union {FreeStruct}]
    BY <1>2, <1>4
  <2>2. /\ next_pid = 1 /\ lk_allproc = NULL
        /\ arg = [t \in Threads |-> NoArg] /\ kids = [t \in Threads |-> {}]
    BY DEF Init
  <2>3. NoArg \in [p : Structs \union {NULL}, pid : Pids, nohang : BOOLEAN]
    BY <1>3 DEF NoArg
  <2>4. 1 \in 0 .. MAX_PROCESSES
    BY ProcAssumptions
  <2> QED
    BY <1>1, <1>2, <2>1, <2>2, <2>3, <2>4 DEF TypeOK, Labels
<1>9. Types
  BY DEF Init, Types
<1>10. OwnersLive /\ OneOwner
  BY <1>1, <1>6, <1>7 DEF OwnersLive, OneOwner
<1>11. \A t \in Threads : pc[t] \in {"run", "none"}
  BY <1>2
<1>12. /\ NewApart /\ ParentRight /\ Doomed /\ ExitLocks /\ CheckLocks
       /\ ReapDead /\ GetRight
  BY <1>11 DEF NewApart, Makes, ParentRight, Doomed, ExitLocks, CheckLocks,
               ReapDead, GetRight
<1>13. DeadRight
  BY <1>4, <1>6, <1>7, <1>11 DEF DeadRight
<1>14. SemRight /\ LockHolders
  <2>1. \A s \in Structs : Live(s) => proc[s].lock = NULL /\ proc[s].p_sem = 0
    BY <1>4, <1>5
  <2>2. \A t \in Threads, s \in Structs : Own(t, s) => proc[s].p_sem = 0
    BY <1>6, <1>7, <2>1
  <2>3. ~(0 > 0)
    OBVIOUS
  <2>4. SemRight
    BY <2>1, <2>2, <2>3 DEF SemRight
  <2> QED
    BY <1>3, <2>1, <2>4 DEF LockHolders
<1>15. Parented
  BY <1>2 DEF Parented, Alive
<1>16. ExitRight
  BY <1>2 DEF ExitRight
<1> QED
  BY <1>8, <1>9, <1>10, <1>12, <1>13, <1>14, <1>15, <1>16
     DEF HeapInv, StructsRight

\* The struct a thread runs as, makes or is to run as is allocated.
LEMMA Owners ==
  ASSUME HeapInv, NEW u \in Threads
  PROVE  /\ Alive(u) => /\ Own(u, td_proc[u]) /\ td_proc[u] \in Structs
                        /\ Live(td_proc[u])
         /\ pc[u] \in {"born", "add", "adopt"} =>
              /\ Own(u, arg[u].p) /\ arg[u].p \in Structs /\ Live(arg[u].p)
<1>1. /\ td_proc[u] \in Structs \union {NULL}
      /\ arg[u].p \in Structs \union {NULL}
  BY DEF HeapInv, TypeOK
<1>2. /\ Alive(u) => Own(u, td_proc[u])
      /\ pc[u] \in {"born", "add", "adopt"} => Own(u, arg[u].p)
  BY DEF Own
<1> QED
  BY <1>1, <1>2 DEF HeapInv, StructsRight, OwnersLive

(***************************************************************************)
(* Steps that change no struct and make no thread run as one.              *)
(***************************************************************************)
\* No other thread goes on.
Moves(t) ==
    /\ panic = "none"
    /\ \A u \in Threads \ {t} :
         pc'[u] = pc[u] /\ arg'[u] = arg[u] /\ exitcode'[u] = exitcode[u]

\* What the thread may do then: enter or leave proc_create and ___waitpid,
\* find the struct of a pid, put a new one in the table, exit, and have
\* waited.
PlainMove(t) ==
    \/ /\ pc[t] \in {"run", "kmalloc", "undo", "get", "dealloc"}
       /\ pc'[t] \in {"run", "kmalloc", "undo", "get"}
       /\ exitcode'[t] = exitcode[t]
    \/ /\ pc[t] = "get" /\ pc'[t] = "getlock" /\ arg'[t].p \in Structs
       /\ exitcode'[t] = exitcode[t]
    \/ /\ pc[t] = "getlock" /\ pc'[t] = "check" /\ panic' # "none"
       /\ exitcode'[t] = exitcode[t]
    \/ /\ pc[t] = "add" /\ pc'[t] = "adopt" /\ arg'[t] = arg[t]
       /\ exitcode'[t] = exitcode[t]
    \/ /\ pc[t] = "run" /\ pc'[t] = "exit"
       /\ t # Menu /\ exitcode'[t] \in Codes
    \/ /\ pc[t] = "reap" /\ pc'[t] = "destroy" /\ arg'[t] = arg[t]
       /\ proc[arg[t].p].lock = NULL /\ exitcode'[t] = exitcode[t]

LEMMA PlainStep ==
  ASSUME HeapInv, NEW t \in Threads, Moves(t), PlainMove(t),
         UNCHANGED <<proc, td_proc>>
  PROVE  StructsRight'
<1> USE DEF HeapInv, StructsRight, Moves
<1>1. \A s \in Structs : Live(s)' <=> Live(s)
  BY DEF Live
<1>2. \A u \in Threads : \A s : Own(u, s)' <=> Own(u, s)
  BY DEF Own, Alive, PlainMove
<1>3. OwnersLive'
  BY <1>1, <1>2 DEF OwnersLive
<1>4. OneOwner'
  BY <1>2 DEF OneOwner
<1>5. NewApart'
  BY DEF NewApart, Makes, PlainMove
<1>6. ParentRight'
  BY <1>1 DEF ParentRight, PlainMove
<1>7. Doomed'
  <2> SUFFICES ASSUME NEW w \in Threads, NEW u \in Threads,
                      (pc[w] = "destroy")', Own(u, arg[w].p)'
               PROVE  FALSE
    BY DEF Doomed
  <2>1. CASE pc[w] = "destroy"
    <3>1. w # t
      BY <2>1 DEF PlainMove
    <3> QED
      BY <1>2, <2>1, <3>1 DEF Doomed
  <2>2. CASE pc[w] # "destroy"
    <3>1. /\ w = t /\ pc[t] = "reap" /\ arg'[t] = arg[t]
          /\ proc[arg[t].p].lock = NULL
      BY <2>2 DEF PlainMove
    <3>2. arg[t].p \in Structs /\ proc[arg[t].p].p_is_dead
      BY <3>1 DEF ParentRight, ReapDead
    <3>3. Own(u, arg[t].p)
      BY <1>2, <3>1
    <3>4. pc[u] \in {"V", "unlock"}
      BY <3>2, <3>3 DEF DeadRight
    <3>5. td_proc[u] = arg[t].p
      BY <3>3, <3>4 DEF Own
    <3>6. proc[arg[t].p].lock = u
      BY <3>4, <3>5 DEF ExitLocks
    <3> QED
      BY <3>1, <3>6, Apart
  <2> QED
    BY <2>1, <2>2
<1>8. DeadRight'
  BY <1>2 DEF DeadRight, PlainMove
<1>9. ExitLocks'
  BY DEF ExitLocks, PlainMove
<1>10. CheckLocks'
  BY <1>1 DEF CheckLocks, PlainMove
<1>11. LockHolders'
  BY <1>1 DEF LockHolders, PlainMove
<1>12. SemRight'
  BY <1>1, <1>2 DEF SemRight, PlainMove
<1>13. ReapDead'
  BY DEF ReapDead, PlainMove
<1>14. Parented'
  BY DEF Parented, Alive, PlainMove
<1>15. ExitRight'
  BY DEF ExitRight, PlainMove
<1>16. GetRight'
  BY DEF GetRight, PlainMove
<1> QED
  BY <1>3, <1>4, <1>5, <1>6, <1>7, <1>8, <1>9, <1>10, <1>11, <1>12, <1>13,
     <1>14, <1>15, <1>16

(***************************************************************************)
(* The types.                                                              *)
(***************************************************************************)
\* A set of slots has a least one.
LEMMA MinOfPids ==
  ASSUME NEW S \in SUBSET Nat, S # {}
  PROVE  Min(S) \in S
<1>1. IsWellFoundedOn(OpToRel(<, Nat), Nat)
  BY NatLessThanWellFounded
<1>2. PICK x \in S : \A y \in S : <<y, x>> \notin OpToRel(<, Nat)
  BY <1>1, WFMin
<1>3. \A y \in S : ~(y < x)
  BY <1>2 DEF OpToRel
<1>4. \A y \in S : x =< y
  BY <1>3
<1> QED
  BY <1>4 DEF Min

\* proc_alloc_pid finds a slot of the table.
LEMMA FirstSlotFree ==
  ASSUME TypeOK, FreeSlots # {}
  PROVE  FirstSlot \in FreeSlots /\ FirstSlot \in Pids
<1> DEFINE from == IF next_pid >= MAX_PROCESSES THEN 0 ELSE next_pid
           later == {i \in FreeSlots : i >= from}
<1>1. FreeSlots \subseteq Pids /\ Pids \subseteq Nat
  BY ProcAssumptions DEF FreeSlots, Pids
<1>2. later \in SUBSET Nat /\ FreeSlots \in SUBSET Nat
  BY <1>1
<1>3. later # {} => Min(later) \in later
  BY <1>2, MinOfPids
<1>4. Min(FreeSlots) \in FreeSlots
  BY <1>2, MinOfPids
<1> HIDE DEF from
<1>5. FirstSlot = IF later # {} THEN Min(later) ELSE Min(FreeSlots)
  BY DEF FirstSlot, from
<1>6. later \subseteq FreeSlots
  OBVIOUS
<1> QED
  BY <1>1, <1>3, <1>4, <1>5, <1>6

LEMMA PlainTypes ==
  ASSUME HeapInv, NEW t \in Threads,
         \/ ProcAllocPid(t) \/ ProcAllocPidFull(t) \/ ProcNoMem(t)
         \/ ProcAddToAllproc(t)
         \/ \E pid \in Pids, nohang \in BOOLEAN : Waitpid(t, pid, nohang)
         \/ ProcGetFails(t) \/ ProcGet(t) \/ ProcDeallocPid(t)
         \/ WaitpidReap(t) \/ Exits(t)
  PROVE  /\ TypeOK' /\ Types'
         /\ UNCHANGED <<proc, td_proc>> /\ Moves(t) /\ PlainMove(t)
<1>a. NULL \notin Structs /\ NULL \notin Codes /\ Codes \subseteq Int
  BY Apart
<1>f. 0 \in Pids /\ \A i \in Pids : i + 1 \in 0 .. MAX_PROCESSES
  BY ProcAssumptions DEF Pids
<1>b. NoArg \in [p : Structs \union {NULL}, pid : Pids, nohang : BOOLEAN]
  BY <1>f DEF NoArg
<1>c. ProcAllocPid(t) => FirstSlot \in Pids
  BY FirstSlotFree DEF HeapInv, ProcAllocPid
<1>d. WaitpidReap(t) => proc[arg[t].p] \in LiveStruct
  BY DEF HeapInv, WaitpidReap, StructsRight, ParentRight, Live, At
<1>e. ProcAllocPidFull(t) => next_pid' \in 0 .. MAX_PROCESSES
  <2>1. next_pid \in 0 .. MAX_PROCESSES /\ MAX_PROCESSES \in Nat
    BY ProcAssumptions DEF HeapInv, TypeOK
  <2>2. (IF next_pid >= MAX_PROCESSES THEN 0 ELSE next_pid)
          \in 0 .. MAX_PROCESSES
    BY <2>1
  <2> QED
    BY <2>2 DEF ProcAllocPidFull
<1>g. \A r \in LiveStruct : MkwaitExit(r.p_retval) \in Int
  <2>1. \A r \in LiveStruct : r.p_retval \in Codes \union {0}
    BY DEF LiveStruct
  <2>2. \A c \in Codes \union {0} : c \in Int
    BY <1>a
  <2> QED
    BY <2>1, <2>2, MkwaitExitInt
<1>h. \A pid \in Pids, nohang \in BOOLEAN :
        [[arg[t] EXCEPT !.pid = pid] EXCEPT !.nohang = nohang]
          \in [p : Structs \union {NULL}, pid : Pids, nohang : BOOLEAN]
  BY DEF HeapInv, TypeOK
<1> USE <1>a, <1>b DEF HeapInv, TypeOK, Types, Labels, At, Goto, Return, Check
<1>1. CASE ProcAllocPid(t)
  <2>1. FirstSlot \in Pids
    BY <1>1, <1>c
  <2>2. FirstSlot + 1 \in 0 .. MAX_PROCESSES
    BY <2>1, <1>f
  <2>3. TypeOK' /\ Types'
    BY <1>1, <2>1, <2>2 DEF ProcAllocPid, NextPid
  <2>4. Moves(t) /\ PlainMove(t)
    BY <1>1 DEF ProcAllocPid, Moves, PlainMove
  <2> QED
    BY <1>1, <2>3, <2>4 DEF ProcAllocPid
<1>2. CASE ProcAllocPidFull(t)
  <2>2. next_pid' \in 0 .. MAX_PROCESSES
    BY <1>2, <1>e
  <2>3. TypeOK' /\ Types'
    BY <1>2, <2>2 DEF ProcAllocPidFull
  <2>4. Moves(t) /\ PlainMove(t)
    BY <1>2 DEF ProcAllocPidFull, Moves, PlainMove
  <2> QED
    BY <1>2, <2>3, <2>4 DEF ProcAllocPidFull
<1>3. CASE ProcNoMem(t)
  BY <1>3 DEF ProcNoMem, Moves, PlainMove
<1>4. CASE ProcAddToAllproc(t)
  BY <1>4 DEF ProcAddToAllproc, Moves, PlainMove
<1>5. CASE \E pid \in Pids, nohang \in BOOLEAN : Waitpid(t, pid, nohang)
  <2>0. PICK pid \in Pids, nohang \in BOOLEAN : Waitpid(t, pid, nohang)
    BY <1>5
  <2> DEFINE a == [[arg[t] EXCEPT !.pid = pid] EXCEPT !.nohang = nohang]
  <2>1. a \in [p : Structs \union {NULL}, pid : Pids, nohang : BOOLEAN]
    BY <1>h
  <2>2. arg' = [arg EXCEPT ![t] = a]
    BY <2>0 DEF Waitpid
  <2> HIDE DEF a
  <2>3. arg' \in [Threads -> [p : Structs \union {NULL}, pid : Pids,
                             nohang : BOOLEAN]]
    BY <2>1, <2>2
  <2>4. TypeOK' /\ Types' /\ UNCHANGED <<proc, td_proc>>
    BY <2>0, <2>3 DEF Waitpid
  <2>5. Moves(t) /\ PlainMove(t)
    BY <2>0, <2>2 DEF Waitpid, Moves, PlainMove
  <2> QED
    BY <2>4, <2>5
<1>6. CASE ProcGetFails(t)
  BY <1>6 DEF ProcGetFails, Moves, PlainMove
<1>7. CASE ProcGet(t)
  BY <1>7 DEF ProcGet, Moves, PlainMove
<1>8. CASE ProcDeallocPid(t)
  <2>1. pc[t] \in {"dealloc", "undo"} /\ exitcode[t] = NULL
    BY <1>8 DEF ProcDeallocPid, StructsRight, ExitRight
  <2>2. TypeOK' /\ Types'
    BY <1>8 DEF ProcDeallocPid, ClearSlot
  <2>3. Moves(t) /\ PlainMove(t)
    BY <1>8, <2>1 DEF ProcDeallocPid, Moves, PlainMove
  <2> QED
    BY <1>8, <2>2, <2>3 DEF ProcDeallocPid
<1>9. CASE WaitpidReap(t)
  <2>1. proc[arg[t].p] \in LiveStruct
    BY <1>9, <1>d
  <2>2. MkwaitExit(proc[arg[t].p].p_retval) \in Int
    BY <2>1, <1>g
  <2>3. status' \in [Threads -> Int \union {NULL}]
    BY <1>9, <2>2 DEF WaitpidReap
  <2>4. TypeOK' /\ exitcode' = exitcode /\ env' = env
    BY <1>9 DEF WaitpidReap
  <2>5. Moves(t) /\ PlainMove(t)
    BY <1>9 DEF WaitpidReap, Moves, PlainMove
  <2> QED
    BY <1>9, <2>3, <2>4, <2>5 DEF WaitpidReap
<1>10. CASE Exits(t)
  <2>1. PICK code \in env.codes : SysExit(t, code)
    BY <1>10 DEF Exits
  <2>2. code \in Codes
    BY <2>1, ProcAssumptions DEF HeapInv, Types
  <2> QED
    BY <2>1, <2>2 DEF SysExit, Moves, PlainMove
<1> QED
  BY <1>1, <1>2, <1>3, <1>4, <1>5, <1>6, <1>7, <1>8, <1>9, <1>10

(***************************************************************************)
(* Steps that take or release the lock of a struct: proc_get, the check of *)
(* ___waitpid, and the end of sys_exit.                                    *)
(***************************************************************************)
LockMove(t, p, x) ==
    \/ /\ pc[t] = "getlock" /\ pc'[t] = "check" /\ arg'[t] = arg[t]
       /\ p = arg[t].p /\ proc[p].lock = NULL /\ x = t
    \/ /\ pc[t] = "check" /\ p = arg[t].p /\ x = NULL
       /\ \/ pc'[t] = "run"
          \/ /\ pc'[t] = "P" /\ arg'[t] = arg[t]
             /\ proc[p].p_proc = td_proc[t]
    \/ pc[t] = "unlock" /\ p = td_proc[t] /\ x = NULL /\ pc'[t] = "gone"

LEMMA LockStep ==
  ASSUME HeapInv, NEW t \in Threads, Moves(t), NEW p \in Structs, Live(p),
         NEW x \in Threads \union {NULL}, SetLock(p, x), LockMove(t, p, x),
         exitcode'[t] = exitcode[t], UNCHANGED td_proc
  PROVE  StructsRight'
<1> USE DEF HeapInv, StructsRight, Moves
<1>1. /\ proc'[p].lock = x
      /\ \A s \in Structs : s # p => proc'[s] = proc[s]
      /\ \A s \in Structs :
           /\ Live(s)' <=> Live(s)
           /\ proc'[s].p_pid = proc[s].p_pid
           /\ proc'[s].p_proc = proc[s].p_proc
           /\ proc'[s].p_is_dead = proc[s].p_is_dead
           /\ proc'[s].p_sem = proc[s].p_sem
           /\ proc'[s].forker = proc[s].forker
  BY SetLockFields
<1>2. \A u \in Threads : \A s : Own(u, s)' => Own(u, s)
  BY DEF Own, Alive, LockMove
<1>a. \A s : Own(t, s)' => pc[t] # "unlock"
  BY DEF Own, Alive, LockMove
<1>3. \A u \in Threads : pc[u] \in {"V", "unlock"} =>
        /\ td_proc[u] \in Structs /\ proc[td_proc[u]].lock = u
  BY Owners DEF Alive, ExitLocks
<1>4. \A u \in Threads : pc[u] = "check" =>
        /\ arg[u].p \in Structs /\ Live(arg[u].p)
        /\ proc[arg[u].p].lock = u
  BY DEF CheckLocks
<1>5. \A u \in Threads : u # NULL
  BY Apart
<1>6. OwnersLive'
  BY <1>1, <1>2 DEF OwnersLive
<1>7. OneOwner'
  BY <1>2 DEF OneOwner
<1>8. NewApart'
  <2>1. \A u \in Threads : Makes(u)' =>
          /\ Makes(u) /\ arg'[u] = arg[u] /\ arg[u].p \in Structs
    BY Owners DEF Makes, LockMove
  <2> QED
    BY <1>1, <2>1 DEF NewApart
<1>9. ParentRight'
  BY <1>1, <1>4 DEF ParentRight, LockMove
<1>10. Doomed'
  BY <1>2 DEF Doomed, LockMove
<1>11. DeadRight'
  BY <1>1, <1>2, <1>a DEF DeadRight, LockMove
<1>12. ExitLocks'
  <2> SUFFICES ASSUME NEW u \in Threads, pc'[u] \in {"V", "unlock"}
               PROVE  proc'[td_proc[u]].lock = u
    BY DEF ExitLocks
  <2>1. pc[u] \in {"V", "unlock"} /\ u # t
    BY DEF LockMove
  <2>2. td_proc[u] # p
    BY <1>3, <1>4, <1>5, <2>1 DEF LockMove
  <2> QED
    BY <1>1, <1>3, <2>1, <2>2
<1>13. CheckLocks'
  <2> SUFFICES ASSUME NEW u \in Threads, pc'[u] = "check"
               PROVE  /\ arg'[u].p \in Structs
                      /\ Live(arg[u].p)' /\ proc'[arg'[u].p].lock = u
    BY DEF CheckLocks
  <2>1. CASE u = t
    BY <1>1, <2>1 DEF LockMove
  <2>2. CASE u # t
    <3>1. pc[u] = "check" /\ arg'[u] = arg[u]
      BY <2>2
    <3>2. arg[u].p # p
      BY <1>3, <1>4, <1>5, <2>2, <3>1 DEF LockMove
    <3> QED
      BY <1>1, <1>4, <3>1, <3>2
  <2> QED
    BY <2>1, <2>2
<1>14. LockHolders'
  <2> SUFFICES ASSUME NEW s \in Structs, NEW u \in Threads,
                      Live(s)', proc'[s].lock = u
               PROVE  \/ pc'[u] = "check" /\ arg'[u].p = s
                      \/ pc'[u] \in {"V", "unlock"} /\ td_proc'[u] = s
    BY DEF LockHolders
  <2>1. CASE s = p
    BY <1>1, <1>5, <2>1 DEF LockMove
  <2>2. CASE s # p
    BY <1>1, <2>2 DEF LockHolders, LockMove
  <2> QED
    BY <2>1, <2>2
<1>15. SemRight'
  BY <1>1, <1>2, <1>a DEF SemRight, LockMove
<1>16. ReapDead'
  BY <1>1 DEF ReapDead, ParentRight, LockMove
<1>17. Parented'
  <2>1. \A u \in Threads :
          /\ Alive(u) => td_proc[u] \in Structs
          /\ pc[u] = "born" => arg[u].p \in Structs
    BY Owners
  <2> QED
    BY <1>1, <2>1 DEF Parented, Alive, LockMove
<1>18. ExitRight' /\ GetRight'
  BY DEF ExitRight, GetRight, LockMove
<1> QED
  BY <1>6, <1>7, <1>8, <1>9, <1>10, <1>11, <1>12, <1>13, <1>14, <1>15,
     <1>16, <1>17, <1>18

(***************************************************************************)
(* sys_exit stores the status, and its V.                                  *)
(***************************************************************************)
LEMMA ExitStep ==
  ASSUME HeapInv, NEW t \in Threads, Moves(t), NEW v \in Codes \union {0},
         NEW p \in Structs, Live(p), p = td_proc[t], proc[p].lock = NULL,
         pc[t] = "exit", SetDead(p, v, t), pc'[t] = "V",
         exitcode'[t] = exitcode[t], UNCHANGED td_proc
  PROVE  StructsRight'
<1>0. TypeOK /\ t \in Threads \union {NULL}
  BY DEF HeapInv
<1>1. /\ proc'[p].lock = t /\ proc'[p].p_is_dead = TRUE
      /\ \A s \in Structs : s # p => proc'[s] = proc[s]
      /\ \A s \in Structs :
           /\ Live(s)' <=> Live(s)
           /\ proc'[s].p_pid = proc[s].p_pid
           /\ proc'[s].p_proc = proc[s].p_proc
           /\ proc'[s].p_sem = proc[s].p_sem
           /\ proc'[s].forker = proc[s].forker
  <2>1. \A s \in Structs : s # p => proc'[s] = proc[s]
    BY <1>0, SetDeadFields
  <2>4. proc'[p].lock = t
    <3>1. proc[p] \in LiveStruct /\ proc \in [Structs -> LiveStruct
                                                    \union {FreeStruct}]
      BY <1>0 DEF Live, TypeOK
    <3>2. proc'[p] = [proc[p] EXCEPT !.p_retval = v, !.p_is_dead = TRUE,
                                      !.lock = t]
      BY <3>1 DEF SetDead
    <3> QED
      BY <3>1, <3>2 DEF LiveStruct
  <2>2. proc'[p].p_is_dead = TRUE
    BY <1>0, SetDeadFields
  <2>3. \A s \in Structs :
           /\ Live(s)' <=> Live(s)
           /\ proc'[s].p_pid = proc[s].p_pid
           /\ proc'[s].p_proc = proc[s].p_proc
           /\ proc'[s].p_sem = proc[s].p_sem
           /\ proc'[s].forker = proc[s].forker
    BY <1>0, SetDeadFields
  <2> QED
    BY <2>1, <2>2, <2>3, <2>4
<1> USE DEF HeapInv, StructsRight, Moves
<1>a. Own(t, p)
  BY DEF Own, Alive
<1>2. \A u \in Threads : \A s : Own(u, s)' <=> Own(u, s)
  BY DEF Own, Alive
<1>3. \A u \in Threads : pc[u] \in {"V", "unlock"} =>
        td_proc[u] \in Structs /\ td_proc[u] # p
  BY <1>a, Owners DEF Alive, OneOwner
<1>4. \A u \in Threads : pc[u] = "check" =>
        arg[u].p \in Structs /\ Live(arg[u].p) /\ arg[u].p # p
  BY Apart DEF CheckLocks
<1>5. \A u \in Threads : pc'[u] \in {"add", "adopt", "P", "reap", "destroy",
                                     "check", "getlock", "born"} =>
        pc'[u] = pc[u] /\ arg'[u] = arg[u] /\ u # t
  OBVIOUS
<1>6. OwnersLive' /\ OneOwner'
  BY <1>1, <1>2 DEF OwnersLive, OneOwner
<1>7. NewApart'
  BY <1>1, <1>5, Owners DEF NewApart, Makes
<1>8. ParentRight'
  BY <1>1, <1>5 DEF ParentRight
<1>9. Doomed'
  BY <1>2, <1>5 DEF Doomed
<1>10. DeadRight'
  <2>1. \A u \in Threads : Own(u, p) => u = t
    BY <1>a DEF OneOwner
  <2>2. \A u \in Threads, s \in Structs : s # p /\ Own(u, s) =>
          u # t /\ proc'[s] = proc[s]
    BY <1>1 DEF Own, Alive
  <2> QED
    BY <1>1, <1>2, <2>1, <2>2 DEF DeadRight
<1>11. ExitLocks'
  BY <1>1, <1>3 DEF ExitLocks
<1>12. CheckLocks'
  BY <1>1, <1>4, <1>5 DEF CheckLocks
<1>13. LockHolders'
  BY <1>1 DEF LockHolders
<1>14. SemRight'
  BY <1>a, <1>1, <1>2 DEF SemRight
<1>15. ReapDead'
  BY <1>1, <1>5 DEF ReapDead, ParentRight
<1>16. Parented'
  BY <1>1, <1>5, Owners DEF Parented, Alive
<1>17. ExitRight' /\ GetRight'
  BY <1>5 DEF ExitRight, GetRight
<1> QED
  BY <1>6, <1>7, <1>8, <1>9, <1>10, <1>11, <1>12, <1>13, <1>14, <1>15,
     <1>16, <1>17

SemMove(t, p, n) ==
    \/ pc[t] = "V" /\ pc'[t] = "unlock" /\ p = td_proc[t]
    \/ /\ pc[t] = "P" /\ pc'[t] = "reap" /\ arg'[t] = arg[t]
       /\ p = arg[t].p /\ n = 0 /\ proc[p].p_is_dead

LEMMA SemStep ==
  ASSUME HeapInv, NEW t \in Threads, Moves(t), NEW p \in Structs, Live(p),
         NEW n \in 0 .. 1, SetSem(p, n), SemMove(t, p, n),
         exitcode'[t] = exitcode[t], UNCHANGED td_proc
  PROVE  StructsRight'
<1> USE DEF HeapInv, StructsRight, Moves
<1>1. /\ proc'[p].p_sem = n
      /\ \A s \in Structs : s # p => proc'[s] = proc[s]
      /\ \A s \in Structs :
           /\ Live(s)' <=> Live(s)
           /\ proc'[s].p_pid = proc[s].p_pid
           /\ proc'[s].p_proc = proc[s].p_proc
           /\ proc'[s].p_is_dead = proc[s].p_is_dead
           /\ proc'[s].lock = proc[s].lock
           /\ proc'[s].forker = proc[s].forker
  BY SetSemFields
<1>2. \A u \in Threads : \A s : Own(u, s)' <=> Own(u, s)
  BY DEF Own, Alive, SemMove
<1>3. \A u \in Threads : pc[u] \in {"V", "unlock"} =>
        td_proc[u] \in Structs /\ Own(u, td_proc[u])
  BY Owners DEF Alive
<1>4. \A u \in Threads : pc'[u] \in {"add", "adopt", "P", "destroy",
                                     "check", "getlock", "born"} =>
        pc'[u] = pc[u] /\ arg'[u] = arg[u]
  BY DEF SemMove
<1>5. OwnersLive' /\ OneOwner'
  BY <1>1, <1>2 DEF OwnersLive, OneOwner
<1>6. NewApart'
  BY <1>1, <1>4, Owners DEF NewApart, Makes
<1>7. ParentRight'
  BY <1>1 DEF ParentRight, SemMove
<1>8. Doomed'
  BY <1>2, <1>4 DEF Doomed
<1>9. DeadRight'
  BY <1>1, <1>2 DEF DeadRight, SemMove
<1>10. ExitLocks'
  BY <1>1, <1>3 DEF ExitLocks, SemMove
<1>11. CheckLocks'
  BY <1>1, <1>4 DEF CheckLocks
<1>12. LockHolders'
  BY <1>1 DEF LockHolders, SemMove
<1>13. SemRight'
  <2>1. CASE pc[t] = "V"
    <3>1. p = td_proc[t] /\ Own(t, p) /\ pc'[t] = "unlock"
      BY <2>1, <1>3 DEF SemMove
    <3>2. proc[p].p_is_dead
      BY <2>1, <3>1 DEF DeadRight
    <3> QED
      BY <1>1, <1>2, <3>1, <3>2 DEF SemRight, OneOwner
  <2>2. CASE pc[t] = "P"
    <3>1. n = 0 /\ pc'[t] = "reap"
      BY <2>2 DEF SemMove
    <3>2. ~(n > 0)
      BY <3>1
    <3> QED
      BY <1>1, <1>2, <2>2, <3>1, <3>2 DEF SemRight
  <2> QED
    BY <2>1, <2>2 DEF SemMove
<1>14. ReapDead'
  BY <1>1 DEF ReapDead, ParentRight, SemMove
<1>15. Parented'
  BY <1>1, <1>4, Owners DEF Parented, Alive, SemMove
<1>16. ExitRight' /\ GetRight'
  BY <1>4 DEF ExitRight, GetRight, SemMove
<1> QED
  BY <1>5, <1>6, <1>7, <1>8, <1>9, <1>10, <1>11, <1>12, <1>13, <1>14,
     <1>15, <1>16

(***************************************************************************)
(* A forked thread runs as its process, or never does.                     *)
(***************************************************************************)
LEMMA BornStep ==
  ASSUME HeapInv, NEW t \in Threads, Moves(t), pc[t] = "born",
         pc'[t] \in {"run", "gone"}, td_proc'[t] = arg[t].p,
         \A u \in Threads \ {t} : td_proc'[u] = td_proc[u],
         UNCHANGED <<proc, exitcode>>
  PROVE  StructsRight'
<1> USE DEF HeapInv, StructsRight, Moves
<1>1. \A s \in Structs : Live(s)' <=> Live(s)
  BY DEF Live
<1>2. \A u \in Threads : \A s : Own(u, s)' => Own(u, s)
  BY DEF Own, Alive
<1>3. \A u \in Threads : pc'[u] \notin {"run", "gone"} =>
        /\ u # t /\ pc'[u] = pc[u] /\ arg'[u] = arg[u]
        /\ td_proc'[u] = td_proc[u]
  OBVIOUS
<1>4. OwnersLive' /\ OneOwner'
  BY <1>1, <1>2 DEF OwnersLive, OneOwner
<1>5. NewApart'
  BY <1>3 DEF NewApart, Makes
<1>6. ParentRight'
  BY <1>1, <1>3 DEF ParentRight
<1>7. Doomed'
  BY <1>2, <1>3 DEF Doomed
<1>8. DeadRight'
  BY <1>2 DEF DeadRight
<1>9. ExitLocks'
  BY <1>3 DEF ExitLocks
<1>10. CheckLocks'
  BY <1>1, <1>3 DEF CheckLocks
<1>11. LockHolders'
  BY <1>1 DEF LockHolders
<1>12. SemRight'
  BY <1>1, <1>2 DEF SemRight
<1>13. ReapDead'
  BY <1>3 DEF ReapDead
<1>14. Parented'
  BY DEF Parented, Alive
<1>15. ExitRight' /\ GetRight'
  BY DEF ExitRight, GetRight
<1> QED
  BY <1>4, <1>5, <1>6, <1>7, <1>8, <1>9, <1>10, <1>11, <1>12, <1>13, <1>14,
     <1>15

(***************************************************************************)
(* proc_create gets a struct from kmalloc.                                 *)
(***************************************************************************)
LEMMA KmallocStep ==
  ASSUME HeapInv, NEW t \in Threads, Moves(t), pc[t] = "kmalloc",
         NEW p \in Structs, ~Live(p), pc'[t] = "add", arg'[t].p = p,
         NEW pid \in Pids, arg'[t].pid = pid,
         proc'[p] = NewStruct(t, pid),
         \A s \in Structs : s # p => proc'[s] = proc[s],
         UNCHANGED <<td_proc, exitcode>>
  PROVE  StructsRight'
<1>1. /\ proc'[p] \in LiveStruct
      /\ proc'[p].p_pid = pid /\ proc'[p].p_proc = NULL
      /\ proc'[p].p_is_dead = FALSE /\ proc'[p].p_sem = 0
      /\ proc'[p].lock = NULL /\ proc'[p].forker = t
  <2> DEFINE r == NewStruct(t, pid)
  <2>1. /\ r \in LiveStruct
        /\ r.p_pid = pid /\ r.p_proc = NULL /\ r.p_is_dead = FALSE
        /\ r.p_sem = 0 /\ r.lock = NULL /\ r.forker = t
    BY NewFields
  <2> HIDE DEF r
  <2>2. proc'[p] = r
    BY DEF r
  <2> QED
    BY <2>1, <2>2
<1> USE DEF HeapInv, StructsRight, Moves
<1>2. \A s \in Structs : Live(s)' <=> Live(s) \/ s = p
  BY <1>1 DEF Live
<1>3. \A u \in Threads : \A s : Own(u, s)' <=> Own(u, s) \/ (u = t /\ s = p)
  BY DEF Own, Alive
<1>4. \A u \in Threads : ~Own(u, p)
  BY DEF OwnersLive
<1>5. \A u \in Threads : pc'[u] # "add" =>
        u # t /\ pc'[u] = pc[u] /\ arg'[u] = arg[u]
  OBVIOUS
<1>6. \A u \in Threads : Alive(u) => td_proc[u] \in Structs /\ td_proc[u] # p
  BY Owners
<1>7. OwnersLive' /\ OneOwner'
  BY <1>2, <1>3, <1>4 DEF OwnersLive, OneOwner
<1>8. NewApart'
  <2>1. \A u \in Threads : u # t /\ Makes(u) =>
          arg[u].p \in Structs /\ arg[u].p # p
    BY Owners DEF Makes
  <2> QED
    BY <1>1, <1>6, <2>1 DEF NewApart, Makes, Alive
<1>9. ParentRight'
  BY <1>2, <1>5 DEF ParentRight
<1>10. Doomed'
  BY <1>3, <1>5 DEF Doomed, ParentRight
<1>11. DeadRight'
  <2>1. ASSUME NEW u \in Threads, NEW s \in Structs, Own(u, s)', s # p
        PROVE  proc'[s].p_is_dead <=> pc'[u] \in {"V", "unlock"}
    BY <1>3, <2>1 DEF DeadRight
  <2>2. ASSUME NEW u \in Threads, Own(u, p)'
        PROVE  proc'[p].p_is_dead <=> pc'[u] \in {"V", "unlock"}
    BY <1>1, <1>3, <1>4, <2>2
  <2> QED
    BY <2>1, <2>2 DEF DeadRight
<1>12. ExitLocks'
  BY <1>5, <1>6 DEF ExitLocks, Alive
<1>13. CheckLocks'
  BY <1>2, <1>5 DEF CheckLocks
<1>14. LockHolders'
  BY <1>1, <1>2, Apart DEF LockHolders
<1>15. SemRight'
  <2>1. ~(0 > 0)
    OBVIOUS
  <2> QED
    BY <1>1, <1>2, <1>3, <2>1 DEF SemRight
<1>16. ReapDead'
  BY <1>5 DEF ReapDead, ParentRight
<1>17. Parented'
  <2>1. \A u \in Threads : pc[u] = "born" => arg[u].p \in Structs
                                             /\ arg[u].p # p
    BY Owners
  <2> QED
    BY <1>6, <2>1 DEF Parented, Alive
<1>18. ExitRight' /\ GetRight'
  BY DEF ExitRight, GetRight
<1> QED
  BY <1>7, <1>8, <1>9, <1>10, <1>11, <1>12, <1>13, <1>14, <1>15, <1>16,
     <1>17, <1>18

(***************************************************************************)
(* The parent adopts the struct it made: thread_fork makes a thread for it *)
(* or something fails and the struct is to be freed.                       *)
(***************************************************************************)
LEMMA ForkStep ==
  ASSUME HeapInv, NEW t \in Threads, NEW u \in Threads, panic = "none",
         pc[t] = "adopt", pc[u] = "none",
         NEW p \in Structs, Live(p), p = arg[t].p, SetParent(p, td_proc[t]),
         pc'[u] = "born", arg'[u].p = p, pc'[t] \in {"get", "run"},
         \A w \in Threads \ {t, u} : pc'[w] = pc[w] /\ arg'[w] = arg[w],
         UNCHANGED <<td_proc, exitcode>>
  PROVE  StructsRight'
<1>a. Own(t, td_proc[t]) /\ td_proc[t] \in Structs
  BY Owners DEF Alive
<1>1. /\ proc'[p].p_proc = td_proc[t]
      /\ \A s \in Structs : s # p => proc'[s] = proc[s]
      /\ \A s \in Structs :
           /\ Live(s)' <=> Live(s)
           /\ proc'[s].p_pid = proc[s].p_pid
           /\ proc'[s].p_is_dead = proc[s].p_is_dead
           /\ proc'[s].p_sem = proc[s].p_sem
           /\ proc'[s].lock = proc[s].lock
           /\ proc'[s].forker = proc[s].forker
  <2> DEFINE q == td_proc[t]
  <2>1. q \in Structs \union {NULL} /\ SetParent(p, q) /\ TypeOK
    BY <1>a DEF HeapInv
  <2> HIDE DEF q
  <2>2. /\ proc'[p].p_proc = q
        /\ \A s \in Structs : s # p => proc'[s] = proc[s]
        /\ \A s \in Structs :
             /\ Live(s)' <=> Live(s)
             /\ proc'[s].p_pid = proc[s].p_pid
             /\ proc'[s].p_is_dead = proc[s].p_is_dead
             /\ proc'[s].p_sem = proc[s].p_sem
             /\ proc'[s].lock = proc[s].lock
             /\ proc'[s].forker = proc[s].forker
    BY <2>1, SetParentFields
  <2> QED
    BY <2>2 DEF q
<1> USE DEF HeapInv, StructsRight
<1>b. Own(t, p) /\ p # td_proc[t] /\ t # u
  BY DEF Own, NewApart, Makes
<1>c. \A s : ~Own(u, s)
  BY DEF Own, Alive
<1>2. \A w \in Threads, s \in Structs \union {NULL} : Own(w, s)' <=>
        \/ w \notin {t, u} /\ Own(w, s)
        \/ w = t /\ s = td_proc[t]
        \/ w = u /\ s = p
  BY <1>b DEF Own, Alive
<1>3. \A w \in Threads : pc'[w] \notin {"get", "run", "born"} =>
        w # t /\ w # u /\ pc'[w] = pc[w] /\ arg'[w] = arg[w]
  OBVIOUS
<1>4. OwnersLive'
  BY <1>a, <1>1, <1>2 DEF OwnersLive
<1>5. OneOwner'
  BY <1>a, <1>b, <1>c, <1>2 DEF OneOwner
<1>d. \A w \in Threads : w # t => ~Own(w, p)
  BY <1>b DEF OneOwner
<1>6. NewApart'
  <2>1. \A w \in Threads : w # t /\ Makes(w) =>
          arg[w].p \in Structs /\ arg[w].p # p
    BY <1>d, Owners DEF Makes
  <2> QED
    BY <1>1, <1>3, <2>1 DEF NewApart, Makes
<1>7. ParentRight'
  <2>1. proc[p].p_proc = NULL
    BY DEF NewApart, Makes
  <2>2. \A w \in Threads : pc[w] \in {"P", "reap", "destroy"} =>
          arg[w].p \in Structs /\ td_proc[w] # NULL
    BY Owners, Apart DEF ParentRight, Alive
  <2> QED
    BY <1>1, <1>3, <2>1, <2>2 DEF ParentRight
<1>8. Doomed'
  BY <1>a, <1>b, <1>2, <1>3 DEF Doomed, ParentRight
<1>9. DeadRight'
  BY <1>a, <1>b, <1>1, <1>2 DEF DeadRight
<1>10. ExitLocks'
  BY <1>1, <1>3, Owners DEF ExitLocks, Alive
<1>11. CheckLocks'
  BY <1>1, <1>3 DEF CheckLocks
<1>12. LockHolders'
  BY <1>1 DEF LockHolders
<1>13. SemRight'
  BY <1>a, <1>b, <1>1, <1>2 DEF SemRight
<1>14. ReapDead'
  BY <1>1, <1>3 DEF ReapDead, ParentRight
<1>15. Parented'
  <2>1. td_proc[t] # NULL
    BY <1>a, Apart
  <2>2. \A w \in Threads :
          /\ Alive(w) => td_proc[w] \in Structs
          /\ pc[w] = "born" => arg[w].p \in Structs
    BY Owners
  <2> QED
    BY <1>1, <2>1, <2>2 DEF Parented, Alive
<1>16. ExitRight' /\ GetRight'
  BY DEF ExitRight, GetRight
<1> QED
  BY <1>4, <1>5, <1>6, <1>7, <1>8, <1>9, <1>10, <1>11, <1>12, <1>13, <1>14,
     <1>15, <1>16

LEMMA ForkFailsStep ==
  ASSUME HeapInv, NEW t \in Threads, Moves(t), pc[t] = "adopt",
         NEW p \in Structs, Live(p), p = arg[t].p, SetParent(p, td_proc[t]),
         pc'[t] = "destroy", arg'[t] = arg[t],
         UNCHANGED <<td_proc, exitcode>>
  PROVE  StructsRight'
<1>a. Own(t, td_proc[t]) /\ td_proc[t] \in Structs
  BY Owners DEF Alive
<1>1. /\ proc'[p].p_proc = td_proc[t]
      /\ \A s \in Structs : s # p => proc'[s] = proc[s]
      /\ \A s \in Structs :
           /\ Live(s)' <=> Live(s)
           /\ proc'[s].p_pid = proc[s].p_pid
           /\ proc'[s].p_is_dead = proc[s].p_is_dead
           /\ proc'[s].p_sem = proc[s].p_sem
           /\ proc'[s].lock = proc[s].lock
           /\ proc'[s].forker = proc[s].forker
  <2> DEFINE q == td_proc[t]
  <2>1. q \in Structs \union {NULL} /\ SetParent(p, q) /\ TypeOK
    BY <1>a DEF HeapInv
  <2> HIDE DEF q
  <2>2. /\ proc'[p].p_proc = q
        /\ \A s \in Structs : s # p => proc'[s] = proc[s]
        /\ \A s \in Structs :
             /\ Live(s)' <=> Live(s)
             /\ proc'[s].p_pid = proc[s].p_pid
             /\ proc'[s].p_is_dead = proc[s].p_is_dead
             /\ proc'[s].p_sem = proc[s].p_sem
             /\ proc'[s].lock = proc[s].lock
             /\ proc'[s].forker = proc[s].forker
    BY <2>1, SetParentFields
  <2> QED
    BY <2>2 DEF q
<1> USE DEF HeapInv, StructsRight, Moves
<1>b. Own(t, p) /\ p # td_proc[t] /\ proc[p].p_proc = NULL
  BY DEF Own, NewApart, Makes
<1>d. \A w \in Threads : w # t => ~Own(w, p)
  BY <1>b DEF OneOwner
<1>2. \A w \in Threads : \A s : Own(w, s)' => Own(w, s)
  BY DEF Own, Alive
<1>3. \A w \in Threads : ~Own(w, p)'
  BY <1>b, <1>d, <1>2 DEF Own, Alive
<1>4. \A w \in Threads : pc'[w] # "destroy" =>
        w # t /\ pc'[w] = pc[w] /\ arg'[w] = arg[w]
  OBVIOUS
<1>5. OwnersLive' /\ OneOwner'
  BY <1>1, <1>2 DEF OwnersLive, OneOwner
<1>6. NewApart'
  <2>1. \A w \in Threads : w # t /\ Makes(w) =>
          arg[w].p \in Structs /\ arg[w].p # p
    BY <1>d, Owners DEF Makes
  <2> QED
    BY <1>1, <1>4, <2>1 DEF NewApart, Makes
<1>7. ParentRight'
  <2>1. \A w \in Threads : pc[w] \in {"P", "reap", "destroy"} =>
          arg[w].p \in Structs /\ td_proc[w] # NULL
    BY Owners, Apart DEF ParentRight, Alive
  <2> QED
    BY <1>b, <1>1, <1>4, <2>1 DEF ParentRight
<1>8. Doomed'
  BY <1>2, <1>3, <1>4 DEF Doomed
<1>9. DeadRight'
  BY <1>1, <1>2 DEF DeadRight
<1>10. ExitLocks'
  BY <1>1, <1>4, Owners DEF ExitLocks, Alive
<1>11. CheckLocks'
  BY <1>1, <1>4 DEF CheckLocks
<1>12. LockHolders'
  BY <1>1 DEF LockHolders
<1>13. SemRight'
  BY <1>1, <1>2 DEF SemRight
<1>14. ReapDead'
  BY <1>1, <1>4 DEF ReapDead, ParentRight
<1>15. Parented'
  <2>1. td_proc[t] # NULL
    BY <1>a, Apart
  <2>2. \A w \in Threads :
          /\ Alive(w) => td_proc[w] \in Structs
          /\ pc[w] = "born" => arg[w].p \in Structs
    BY Owners
  <2> QED
    BY <1>1, <2>1, <2>2 DEF Parented, Alive
<1>16. ExitRight' /\ GetRight'
  BY DEF ExitRight, GetRight
<1> QED
  BY <1>5, <1>6, <1>7, <1>8, <1>9, <1>10, <1>11, <1>12, <1>13, <1>14, <1>15,
     <1>16

(***************************************************************************)
(* proc_destroy frees the struct.                                          *)
(***************************************************************************)
LEMMA DestroyStep ==
  ASSUME HeapInv, NEW t \in Threads, Moves(t), pc[t] = "destroy",
         NEW p \in Structs, p = arg[t].p, proc'[p] = FreeStruct,
         \A s \in Structs : s # p => proc'[s] = proc[s],
         panic' = "none" => proc[p].lock = NULL,
         pc'[t] = "dealloc", UNCHANGED <<td_proc, exitcode>>
  PROVE  StructsRight'
<1> USE DEF HeapInv, StructsRight, Moves
<1>1. \A s \in Structs : Live(s)' <=> Live(s) /\ s # p
  BY FreeNotLive DEF Live
<1>2. \A w \in Threads : \A s : Own(w, s)' <=> Own(w, s)
  BY DEF Own, Alive
<1>3. \A w \in Threads : ~Own(w, p)
  BY DEF Doomed
<1>4. \A w \in Threads : pc'[w] # "dealloc" =>
        w # t /\ pc'[w] = pc[w] /\ arg'[w] = arg[w]
  OBVIOUS
<1>5. \A w \in Threads : Alive(w) =>
        Own(w, td_proc[w]) /\ td_proc[w] \in Structs /\ td_proc[w] # p
  BY <1>3, Owners
<1>6. \A w \in Threads : w # t /\ pc[w] \in {"P", "reap", "destroy"} =>
        arg[w].p # p
  <2>1. proc[p].p_proc = td_proc[t] /\ Alive(t)
    BY DEF ParentRight, Alive
  <2>2. \A w \in Threads : pc[w] \in {"P", "reap", "destroy"} =>
          proc[arg[w].p].p_proc = td_proc[w] /\ Alive(w)
    BY DEF ParentRight, Alive
  <2> QED
    BY <1>5, <2>1, <2>2 DEF OneOwner
<1>7. OwnersLive' /\ OneOwner'
  BY <1>1, <1>2, <1>3 DEF OwnersLive, OneOwner
<1>8. NewApart'
  <2>1. \A w \in Threads : Makes(w) => arg[w].p \in Structs /\ arg[w].p # p
    BY <1>3, Owners DEF Makes
  <2> QED
    BY <1>4, <2>1 DEF NewApart, Makes
<1>9. ParentRight'
  BY <1>1, <1>4, <1>6 DEF ParentRight
<1>10. Doomed'
  BY <1>2, <1>4 DEF Doomed
<1>11. DeadRight'
  BY <1>2, <1>3 DEF DeadRight
<1>12. ExitLocks'
  BY <1>4, <1>5 DEF ExitLocks, Alive
<1>13. CheckLocks'
  BY <1>1, <1>4, Apart DEF CheckLocks
<1>14. LockHolders'
  BY <1>1 DEF LockHolders
<1>15. SemRight'
  BY <1>1, <1>2, <1>3 DEF SemRight
<1>16. ReapDead'
  BY <1>4, <1>6 DEF ReapDead, ParentRight
<1>17. Parented'
  <2>1. \A w \in Threads : pc[w] = "born" => arg[w].p \in Structs
                                             /\ arg[w].p # p
    BY <1>3, Owners
  <2> QED
    BY <1>5, <2>1 DEF Parented, Alive
<1>18. ExitRight' /\ GetRight'
  BY DEF ExitRight, GetRight
<1> QED
  BY <1>7, <1>8, <1>9, <1>10, <1>11, <1>12, <1>13, <1>14, <1>15, <1>16,
     <1>17, <1>18

(***************************************************************************)
(* The types, step by step.                                                *)
(***************************************************************************)
\* Only proc, arg and pc change, and td_proc.
ArgTypes == [p : Structs \union {NULL}, pid : Pids, nohang : BOOLEAN]
LEMMA TypesKept ==
  ASSUME HeapInv,
         proc' \in [Structs -> LiveStruct \union {FreeStruct}],
         arg' \in [Threads -> ArgTypes], pc' \in [Threads -> Labels],
         td_proc' \in [Threads -> Structs \union {NULL}],
         kids' \in [Threads -> SUBSET (Pids \X Threads)],
         panic' \in {"none", "null p_new", "freed lock", "not dead",
                     "lock destroyed while held", "slot empty"},
         lk_allproc' \in Threads \union {NULL},
         UNCHANGED <<p_table, next_pid, exitcode, status, env>>
  PROVE  TypeOK' /\ Types'
BY DEF HeapInv, TypeOK, Types, ArgTypes

\* The whole of proc after one struct has changed.
LEMMA ProcTypes ==
  ASSUME TypeOK, NEW p \in Structs,
         proc'[p] \in LiveStruct \union {FreeStruct},
         \E r : proc' = [proc EXCEPT ![p] = r]
  PROVE  proc' \in [Structs -> LiveStruct \union {FreeStruct}]
BY DEF TypeOK

\* kmalloc, fd_create, lock_create and sem_create.
LEMMA ProcKmallocKeeps ==
  ASSUME HeapInv, NEW t \in Threads, ProcKmalloc(t)
  PROVE  HeapInv'
<1>1. TypeOK /\ Types /\ StructsRight
  BY DEF HeapInv
<1>2. PICK p \in Structs :
        /\ ~proc[p].live
        /\ proc' = [proc EXCEPT ![p] = NewStruct(t, arg[t].pid)]
        /\ arg' = [arg EXCEPT ![t].p = p]
  BY DEF ProcKmalloc
<1>3. ~Live(p)
  BY <1>1, <1>2, LiveIs
<1>4. PICK pid \in Pids : pid = arg[t].pid
  BY <1>1 DEF TypeOK
<1>5. proc' = [proc EXCEPT ![p] = NewStruct(t, pid)]
  BY <1>2, <1>4
<1>6. NewStruct(t, pid) \in LiveStruct
  BY NewFields
<1>7. proc' \in [Structs -> LiveStruct \union {FreeStruct}]
  BY <1>1, <1>5, <1>6 DEF TypeOK
<1>8. arg' \in [Threads -> ArgTypes]
  BY <1>1, <1>2 DEF TypeOK, ArgTypes
<1>9. pc' \in [Threads -> Labels] /\ pc'[t] = "add" /\ pc[t] = "kmalloc"
  BY <1>1 DEF ProcKmalloc, At, Goto, TypeOK, Labels
<1>10. TypeOK' /\ Types'
  BY <1>1, <1>7, <1>8, <1>9, TypesKept DEF ProcKmalloc, At, TypeOK
<1>11. Moves(t) /\ arg'[t].p = p /\ arg'[t].pid = pid
  BY <1>1, <1>2, <1>4 DEF ProcKmalloc, At, Goto, TypeOK, Moves
<1>12. /\ proc'[p] = NewStruct(t, pid)
       /\ \A s \in Structs : s # p => proc'[s] = proc[s]
  BY <1>1, <1>5 DEF TypeOK
<1>13. UNCHANGED <<td_proc, exitcode>>
  BY DEF ProcKmalloc
<1>14. StructsRight'
  BY <1>3, <1>9, <1>11, <1>12, <1>13, KmallocStep
<1> QED
  BY <1>10, <1>14 DEF HeapInv

\* The rest of sys_fork, when it succeeds.
LEMMA SysForkKeeps ==
  ASSUME HeapInv, NEW t \in Threads, NEW u \in Threads, SysFork(t, u)
  PROVE  HeapInv'
<1>1. TypeOK /\ Types /\ StructsRight
  BY DEF HeapInv
<1>2. pc[t] = "adopt" /\ pc[u] = "none" /\ t # u /\ panic = "none"
  BY DEF SysFork, At
<1>3. PICK p \in Structs : p = arg[t].p /\ Live(p)
  BY <1>2, Owners
<1>4. SetParent(p, td_proc[t])
  BY <1>3 DEF SysFork, Adopt, SetParent
<1>5. td_proc[t] \in Structs \union {NULL}
  BY <1>1 DEF TypeOK
<1>6. proc'[p] \in LiveStruct
  <2> DEFINE q == td_proc[t]
  <2>1. q \in Structs \union {NULL} /\ SetParent(p, q)
    BY <1>4, <1>5
  <2> HIDE DEF q
  <2> QED
    BY <1>1, <1>3, <2>1, SetParentFields
<1>7. proc' \in [Structs -> LiveStruct \union {FreeStruct}]
  BY <1>1, <1>4, <1>6, ProcTypes DEF SetParent
<1>8. arg' \in [Threads -> ArgTypes] /\ arg'[u].p = p
      /\ \A w \in Threads \ {t, u} : arg'[w] = arg[w]
  <2>1. \A r \in ArgTypes : [r EXCEPT !.p = NULL] \in ArgTypes
                            /\ [r EXCEPT !.p = p] \in ArgTypes
    BY DEF ArgTypes
  <2>2. NoArg \in ArgTypes
    BY ProcAssumptions DEF NoArg, ArgTypes, Pids
  <2>3. arg \in [Threads -> ArgTypes]
    BY <1>1 DEF TypeOK, ArgTypes
  <2>4. arg' = [arg EXCEPT ![u] = [arg[u] EXCEPT !.p = p],
                           ![t] = IF t = Menu
                                  THEN [arg[t] EXCEPT !.p = NULL]
                                  ELSE NoArg]
    BY <1>2, <1>3, <2>3 DEF SysFork
  <2>5. [arg[u] EXCEPT !.p = p].p = p
    BY <2>3 DEF ArgTypes
  <2> QED
    BY <1>2, <2>1, <2>2, <2>3, <2>4, <2>5
<1>9. /\ pc' \in [Threads -> Labels] /\ pc'[u] = "born"
      /\ pc'[t] \in {"get", "run"}
      /\ \A w \in Threads \ {t, u} : pc'[w] = pc[w]
  BY <1>1, <1>2 DEF SysFork, TypeOK, Labels
<1>10. kids' \in [Threads -> SUBSET (Pids \X Threads)]
  <2>1. <<arg[t].pid, u>> \in Pids \X Threads
    BY <1>1 DEF TypeOK
  <2>2. kids' = [kids EXCEPT ![t] = kids[t] \union {<<arg[t].pid, u>>}]
    BY DEF SysFork
  <2>3. kids \in [Threads -> SUBSET (Pids \X Threads)]
    BY <1>1 DEF TypeOK
  <2> QED
    BY <2>1, <2>2, <2>3
<1>11. TypeOK' /\ Types'
  BY <1>1, <1>7, <1>8, <1>9, <1>10, TypesKept DEF SysFork, At, TypeOK
<1>12. UNCHANGED <<td_proc, exitcode>>
  BY DEF SysFork
<1>13. StructsRight'
  BY <1>2, <1>3, <1>4, <1>8, <1>9, <1>12, ForkStep
<1> QED
  BY <1>11, <1>13 DEF HeapInv

\* ... and when it fails.
LEMMA SysForkFailsKeeps ==
  ASSUME HeapInv, NEW t \in Threads, SysForkFails(t)
  PROVE  HeapInv'
<1>1. TypeOK /\ Types /\ StructsRight
  BY DEF HeapInv
<1>2. pc[t] = "adopt" /\ panic = "none"
  BY DEF SysForkFails, At
<1>3. PICK p \in Structs : p = arg[t].p /\ Live(p)
  BY <1>2, Owners
<1>4. SetParent(p, td_proc[t])
  BY <1>3 DEF SysForkFails, Adopt, SetParent
<1>6. proc'[p] \in LiveStruct
  <2> DEFINE q == td_proc[t]
  <2>1. q \in Structs \union {NULL} /\ SetParent(p, q)
    BY <1>1, <1>4 DEF TypeOK
  <2> HIDE DEF q
  <2> QED
    BY <1>1, <1>3, <2>1, SetParentFields
<1>7. proc' \in [Structs -> LiveStruct \union {FreeStruct}]
  BY <1>1, <1>4, <1>6, ProcTypes DEF SetParent
<1>8. pc' \in [Threads -> Labels] /\ pc'[t] = "destroy" /\ Moves(t)
  BY <1>1, <1>2 DEF SysForkFails, Goto, TypeOK, Labels, Moves
<1>9. UNCHANGED <<td_proc, exitcode, arg>>
  BY DEF SysForkFails
<1>10. TypeOK' /\ Types'
  BY <1>1, <1>7, <1>8, TypesKept
     DEF SysForkFails, At, TypeOK, ArgTypes
<1>11. StructsRight'
  BY <1>2, <1>3, <1>4, <1>8, <1>9, ForkFailsStep
<1> QED
  BY <1>10, <1>11 DEF HeapInv

\* fork_child_return, and cmd_progthread whether its program loads or not.
LEMMA BornKeeps ==
  ASSUME HeapInv, NEW t \in Threads, ForkChildReturn(t) \/ RunprogramFails(t)
  PROVE  HeapInv'
<1>1. TypeOK /\ Types /\ StructsRight
  BY DEF HeapInv
<1>2. pc[t] = "born" /\ panic = "none" /\ UNCHANGED env
  BY DEF ForkChildReturn, RunprogramFails, At
<1>3. /\ td_proc' = [td_proc EXCEPT ![t] = arg[t].p]
      /\ arg' = [arg EXCEPT ![t] = NoArg]
      /\ pc' = [pc EXCEPT ![t] = "run"] \/ pc' = [pc EXCEPT ![t] = "gone"]
      /\ UNCHANGED <<p_table, next_pid, lk_allproc, proc, kids, exitcode,
                     status, panic>>
  BY DEF ForkChildReturn, RunprogramFails, Return, Goto
<1>4. NoArg \in ArgTypes
  BY ProcAssumptions DEF NoArg, ArgTypes, Pids
<1>5. pc' \in [Threads -> Labels] /\ pc'[t] \in {"run", "gone"} /\ Moves(t)
  BY <1>1, <1>2, <1>3 DEF TypeOK, Labels, Moves
<1>6. arg' \in [Threads -> ArgTypes]
  BY <1>1, <1>3, <1>4 DEF TypeOK, ArgTypes
<1>7. /\ td_proc' \in [Threads -> Structs \union {NULL}]
      /\ td_proc'[t] = arg[t].p
      /\ \A u \in Threads \ {t} : td_proc'[u] = td_proc[u]
  BY <1>1, <1>3 DEF TypeOK
<1>8. TypeOK' /\ Types'
  BY <1>1, <1>2, <1>3, <1>5, <1>6, <1>7, TypesKept DEF TypeOK
<1>9. StructsRight'
  BY <1>2, <1>3, <1>5, <1>7, BornStep
<1> QED
  BY <1>8, <1>9 DEF HeapInv

\* proc_get's lock_acquire.
LEMMA ProcGetLockKeeps ==
  ASSUME HeapInv, NEW t \in Threads, ProcGetLock(t)
  PROVE  HeapInv'
<1>1. TypeOK /\ Types /\ StructsRight
  BY DEF HeapInv
<1>2. /\ pc[t] = "getlock" /\ panic = "none" /\ lk_allproc' = NULL
      /\ UNCHANGED <<p_table, next_pid, td_proc, arg, kids, exitcode, status,
                     env>>
  BY DEF ProcGetLock, At
<1>3. PICK p \in Structs : p = arg[t].p
  BY <1>1, <1>2 DEF StructsRight, GetRight
<1>4. pc' \in [Threads -> Labels] /\ pc'[t] = "check" /\ Moves(t)
  BY <1>1, <1>2 DEF ProcGetLock, Goto, TypeOK, Labels, Moves
<1>5. CASE Live(p)
  <2>1. /\ proc[p].lock = NULL /\ SetLock(p, t) /\ UNCHANGED panic
    BY <1>1, <1>3, <1>5, LiveIs DEF ProcGetLock, SetLock
  <2>2. proc'[p] \in LiveStruct
    BY <1>1, <1>5, <2>1, SetLockFields
  <2>3. proc' \in [Structs -> LiveStruct \union {FreeStruct}]
    BY <1>1, <2>1, <2>2, ProcTypes DEF SetLock
  <2>4. TypeOK' /\ Types'
    BY <1>1, <1>2, <1>4, <2>1, <2>3, TypesKept DEF TypeOK, ArgTypes
  <2>5. LockMove(t, p, t) /\ t \in Threads \union {NULL}
    BY <1>2, <1>3, <1>4, <2>1 DEF LockMove
  <2>6. StructsRight'
    BY <1>2, <1>4, <1>5, <2>1, <2>5, LockStep
  <2> QED
    BY <2>4, <2>6 DEF HeapInv
<1>6. CASE ~Live(p)
  <2>1. UNCHANGED proc /\ panic' = "freed lock"
    BY <1>1, <1>3, <1>6, LiveIs DEF ProcGetLock, SetPanic
  <2>2. TypeOK' /\ Types'
    BY <1>1, <1>2, <1>4, <2>1, TypesKept DEF TypeOK, ArgTypes
  <2>3. PlainMove(t) /\ UNCHANGED <<proc, td_proc>>
    BY <1>2, <1>4, <2>1 DEF PlainMove
  <2>4. StructsRight'
    BY <1>4, <2>3, PlainStep
  <2> QED
    BY <2>2, <2>4 DEF HeapInv
<1> QED
  BY <1>5, <1>6

\* ___waitpid lets go of the lock, to return or to wait.
LEMMA WaitpidCheckKeeps ==
  ASSUME HeapInv, NEW t \in Threads, WaitpidCheck(t)
  PROVE  HeapInv'
<1>1. TypeOK /\ Types /\ StructsRight
  BY DEF HeapInv
<1>2. /\ pc[t] = "check" /\ panic = "none"
      /\ UNCHANGED <<p_table, next_pid, lk_allproc, td_proc, kids, exitcode,
                     status, env, panic>>
  BY DEF WaitpidCheck, At
<1>3. PICK p \in Structs : p = arg[t].p /\ Live(p)
  BY <1>1, <1>2 DEF StructsRight, CheckLocks
<1>4. SetLock(p, NULL) /\ NULL \in Threads \union {NULL}
  BY <1>3 DEF WaitpidCheck, SetLock
<1>5. \/ pc' = [pc EXCEPT ![t] = "run"] /\ arg' = [arg EXCEPT ![t] = NoArg]
      \/ /\ pc' = [pc EXCEPT ![t] = "P"] /\ arg' = arg
         /\ proc[p].p_proc = td_proc[t]
  BY <1>3 DEF WaitpidCheck, Return, Goto
<1>6. NoArg \in ArgTypes
  BY ProcAssumptions DEF NoArg, ArgTypes, Pids
<1>7. /\ pc' \in [Threads -> Labels] /\ arg' \in [Threads -> ArgTypes]
      /\ Moves(t) /\ LockMove(t, p, NULL)
  <2>1. pc' \in [Threads -> Labels] /\ arg' \in [Threads -> ArgTypes]
    <3>1. pc' \in [Threads -> Labels]
      BY <1>1, <1>5 DEF TypeOK, Labels
    <3>2. arg \in [Threads -> ArgTypes]
      BY <1>1 DEF TypeOK, ArgTypes
    <3> QED
      BY <1>5, <1>6, <3>1, <3>2
  <2>2. Moves(t)
    BY <1>1, <1>2, <1>5 DEF TypeOK, Moves
  <2>3. LockMove(t, p, NULL)
    BY <1>1, <1>2, <1>3, <1>5 DEF TypeOK, LockMove
  <2> QED
    BY <2>1, <2>2, <2>3
<1>8. proc'[p] \in LiveStruct
  BY <1>1, <1>3, <1>4, SetLockFields
<1>9. proc' \in [Structs -> LiveStruct \union {FreeStruct}]
  BY <1>1, <1>4, <1>8, ProcTypes DEF SetLock
<1>10. TypeOK' /\ Types'
  BY <1>1, <1>2, <1>7, <1>9, TypesKept DEF TypeOK
<1>11. StructsRight'
  BY <1>2, <1>3, <1>4, <1>7, LockStep
<1> QED
  BY <1>10, <1>11 DEF HeapInv

\* sys_exit's lock_release and thread_exit: the struct is still there.
LEMMA ExitUnlockKeeps ==
  ASSUME HeapInv, NEW t \in Threads, ExitUnlock(t)
  PROVE  HeapInv' /\ UNCHANGED panic
<1>1. TypeOK /\ Types /\ StructsRight
  BY DEF HeapInv
<1>2. /\ pc[t] = "unlock" /\ panic = "none"
      /\ UNCHANGED <<p_table, next_pid, lk_allproc, td_proc, kids, exitcode,
                     status, env>>
  BY DEF ExitUnlock, At
<1>3. PICK p \in Structs : p = td_proc[t] /\ Live(p)
  BY <1>2, Owners DEF Alive
<1>4. SetLock(p, NULL) /\ NULL \in Threads \union {NULL} /\ UNCHANGED panic
  BY <1>1, <1>3, LiveIs DEF ExitUnlock, SetLock
<1>5. pc' = [pc EXCEPT ![t] = "gone"] /\ arg' = [arg EXCEPT ![t] = NoArg]
  BY DEF ExitUnlock, Return, Goto
<1>6. NoArg \in ArgTypes
  BY ProcAssumptions DEF NoArg, ArgTypes, Pids
<1>7. /\ pc' \in [Threads -> Labels] /\ arg' \in [Threads -> ArgTypes]
      /\ Moves(t) /\ LockMove(t, p, NULL)
  <2>1. pc' \in [Threads -> Labels] /\ arg' \in [Threads -> ArgTypes]
    <3>1. pc' \in [Threads -> Labels]
      BY <1>1, <1>5 DEF TypeOK, Labels
    <3>2. arg \in [Threads -> ArgTypes]
      BY <1>1 DEF TypeOK, ArgTypes
    <3> QED
      BY <1>5, <1>6, <3>1, <3>2
  <2>2. Moves(t)
    BY <1>1, <1>2, <1>5 DEF TypeOK, Moves
  <2>3. LockMove(t, p, NULL)
    BY <1>1, <1>2, <1>3, <1>5 DEF TypeOK, LockMove
  <2> QED
    BY <2>1, <2>2, <2>3
<1>8. proc'[p] \in LiveStruct
  BY <1>1, <1>3, <1>4, SetLockFields
<1>9. proc' \in [Structs -> LiveStruct \union {FreeStruct}]
  BY <1>1, <1>4, <1>8, ProcTypes DEF SetLock
<1>10. TypeOK' /\ Types'
  BY <1>1, <1>2, <1>4, <1>7, <1>9, TypesKept DEF TypeOK
<1>11. StructsRight'
  BY <1>2, <1>3, <1>4, <1>7, LockStep
<1> QED
  BY <1>4, <1>10, <1>11 DEF HeapInv

\* P returns: only the process that is dead has called V.
LEMMA WaitpidPKeeps ==
  ASSUME HeapInv, NEW t \in Threads, WaitpidP(t)
  PROVE  HeapInv'
<1>1. TypeOK /\ Types /\ StructsRight
  BY DEF HeapInv
<1>2. /\ pc[t] = "P" /\ panic = "none" /\ pc' = [pc EXCEPT ![t] = "reap"]
      /\ UNCHANGED <<p_table, next_pid, lk_allproc, td_proc, arg, kids,
                     exitcode, status, env, panic>>
  BY DEF WaitpidP, At, Goto
<1>3. PICK p \in Structs : p = arg[t].p /\ Live(p)
  BY <1>1, <1>2 DEF StructsRight, ParentRight
<1>4. proc[p].p_sem \in 0 .. 1
  <2>1. \A r \in LiveStruct : r.p_sem \in 0 .. 1
    BY DEF LiveStruct
  <2> QED
    BY <1>3, <2>1 DEF Live
<1>5. proc[p].p_sem > 0 /\ proc' = [proc EXCEPT ![p].p_sem = @ - 1]
  BY <1>3 DEF WaitpidP, SemP
<1>6. SetSem(p, 0)
  <2>1. proc[p].p_sem - 1 = 0
    BY <1>4, <1>5
  <2> QED
    BY <1>5, <2>1 DEF SetSem
<1>7. proc[p].p_is_dead
  BY <1>1, <1>3, <1>5 DEF StructsRight, SemRight
<1>8. pc' \in [Threads -> Labels] /\ Moves(t) /\ SemMove(t, p, 0)
  BY <1>1, <1>2, <1>3, <1>7 DEF TypeOK, Labels, Moves, SemMove
<1>9. 0 \in 0 .. 1
  OBVIOUS
<1>10. proc'[p] \in LiveStruct
  BY <1>1, <1>3, <1>6, <1>9, SetSemFields
<1>11. proc' \in [Structs -> LiveStruct \union {FreeStruct}]
  BY <1>1, <1>6, <1>10, ProcTypes DEF SetSem
<1>12. TypeOK' /\ Types'
  BY <1>1, <1>2, <1>8, <1>11, TypesKept DEF TypeOK, ArgTypes
<1>13. StructsRight'
  BY <1>2, <1>3, <1>6, <1>8, <1>9, SemStep
<1> QED
  BY <1>12, <1>13 DEF HeapInv

\* sys_exit's V, the only one.
LEMMA ExitVKeeps ==
  ASSUME HeapInv, NEW t \in Threads, ExitV(t)
  PROVE  HeapInv'
<1>1. TypeOK /\ Types /\ StructsRight
  BY DEF HeapInv
<1>2. /\ pc[t] = "V" /\ panic = "none" /\ pc' = [pc EXCEPT ![t] = "unlock"]
      /\ UNCHANGED <<p_table, next_pid, lk_allproc, td_proc, arg, kids,
                     exitcode, status, env, panic>>
  BY DEF ExitV, At, Goto
<1>3. PICK p \in Structs : p = td_proc[t] /\ Live(p) /\ Own(t, p)
  BY <1>2, Owners DEF Alive
<1>4. proc[p].p_sem = 0
  BY <1>1, <1>2, <1>3 DEF StructsRight, SemRight
<1>5. SetSem(p, 1)
  <2>1. proc[p].p_sem + 1 = 1
    BY <1>4
  <2> QED
    BY <1>3, <2>1 DEF ExitV, SemV, SetSem
<1>6. pc' \in [Threads -> Labels] /\ Moves(t) /\ SemMove(t, p, 1)
  BY <1>1, <1>2, <1>3 DEF TypeOK, Labels, Moves, SemMove
<1>7. 1 \in 0 .. 1
  OBVIOUS
<1>8. proc'[p] \in LiveStruct
  BY <1>1, <1>3, <1>5, <1>7, SetSemFields
<1>9. proc' \in [Structs -> LiveStruct \union {FreeStruct}]
  BY <1>1, <1>5, <1>8, ProcTypes DEF SetSem
<1>10. TypeOK' /\ Types'
  BY <1>1, <1>2, <1>6, <1>9, TypesKept DEF TypeOK, ArgTypes
<1>11. StructsRight'
  BY <1>2, <1>3, <1>5, <1>6, <1>7, SemStep
<1> QED
  BY <1>10, <1>11 DEF HeapInv

\* sys_exit takes the lock: the process has a parent, so it does not free
\* its own struct.
LEMMA ExitLockKeeps ==
  ASSUME HeapInv, NEW t \in Threads, ExitLock(t)
  PROVE  HeapInv' /\ pc'[t] = "V"
<1>1. TypeOK /\ Types /\ StructsRight
  BY DEF HeapInv
<1>2. /\ pc[t] = "exit" /\ panic = "none"
      /\ UNCHANGED <<p_table, next_pid, lk_allproc, td_proc, kids, exitcode,
                     status, env, panic>>
  BY DEF ExitLock, At
<1>3. PICK p \in Structs : p = td_proc[t] /\ Live(p)
  BY <1>2, Owners DEF Alive
<1>4. exitcode[t] \in Codes /\ t # Menu
  BY <1>1, <1>2 DEF StructsRight, ExitRight
<1>5. proc[p].p_proc # NULL
  BY <1>1, <1>2, <1>3, <1>4 DEF StructsRight, Parented, Alive
<1>6. proc[p].lock = NULL
  BY <1>3 DEF ExitLock
<1>7. SetDead(p, exitcode[t], t)
  BY <1>3, <1>5 DEF ExitLock, Retval, SetDead
<1>8. pc' = [pc EXCEPT ![t] = "V"] /\ arg' = [arg EXCEPT ![t].p = p]
  BY <1>3, <1>5 DEF ExitLock, Goto
<1>9. /\ pc' \in [Threads -> Labels] /\ arg' \in [Threads -> ArgTypes]
      /\ Moves(t) /\ pc'[t] = "V"
  BY <1>1, <1>2, <1>8 DEF TypeOK, ArgTypes, Labels, Moves
<1>10. PICK v \in Codes \union {0} : v = exitcode[t]
  BY <1>4
<1>11. SetDead(p, v, t) /\ t \in Threads \union {NULL}
  BY <1>7, <1>10
<1>12. proc'[p] \in LiveStruct
  BY <1>1, <1>3, <1>11, SetDeadFields
<1>13. \E r : proc' = [proc EXCEPT ![p] = r]
  BY <1>11 DEF SetDead
<1>14. proc' \in [Structs -> LiveStruct \union {FreeStruct}]
  BY <1>1, <1>12, <1>13, ProcTypes
<1>15. TypeOK' /\ Types'
  BY <1>1, <1>2, <1>9, <1>14, TypesKept DEF TypeOK
<1>16. StructsRight'
  BY <1>2, <1>3, <1>6, <1>9, <1>11, ExitStep
<1> QED
  BY <1>9, <1>15, <1>16 DEF HeapInv

\* proc_destroy.
LEMMA ProcDestroyKeeps ==
  ASSUME HeapInv, NEW t \in Threads, ProcDestroy(t)
  PROVE  HeapInv'
<1>1. TypeOK /\ Types /\ StructsRight
  BY DEF HeapInv
<1>2. /\ pc[t] = "destroy" /\ panic = "none"
      /\ pc' = [pc EXCEPT ![t] = "dealloc"]
      /\ UNCHANGED <<p_table, next_pid, lk_allproc, td_proc, kids, exitcode,
                     status, env>>
  BY DEF ProcDestroy, At, Goto
<1>3. PICK p \in Structs : p = arg[t].p /\ Live(p)
  BY <1>1, <1>2 DEF StructsRight, ParentRight
<1>4. /\ proc' = [proc EXCEPT ![p] = FreeStruct]
      /\ arg' = [arg EXCEPT ![t].p = NULL, ![t].pid = proc[p].p_pid]
      /\ panic' = IF proc[p].lock = NULL THEN panic
                  ELSE "lock destroyed while held"
  BY <1>3 DEF ProcDestroy, Check
<1>5. proc[p].p_pid \in Pids
  BY <1>3 DEF Live, LiveStruct
<1>6. arg' \in [Threads -> ArgTypes]
  BY <1>1, <1>4, <1>5 DEF TypeOK, ArgTypes
<1>7. /\ pc' \in [Threads -> Labels] /\ pc'[t] = "dealloc" /\ Moves(t)
  BY <1>1, <1>2, <1>4 DEF TypeOK, Labels, Moves
<1>8. /\ proc' \in [Structs -> LiveStruct \union {FreeStruct}]
      /\ proc'[p] = FreeStruct
      /\ \A s \in Structs : s # p => proc'[s] = proc[s]
      /\ panic' = "none" => proc[p].lock = NULL
  BY <1>1, <1>4 DEF TypeOK
<1>9. TypeOK' /\ Types'
  BY <1>1, <1>2, <1>4, <1>6, <1>7, <1>8, TypesKept DEF TypeOK
<1>10. StructsRight'
  BY <1>2, <1>3, <1>7, <1>8, DestroyStep
<1> QED
  BY <1>9, <1>10 DEF HeapInv

(***************************************************************************)
(* Whatever programs do, the struct that a process waits on is not freed.  *)
(***************************************************************************)
LEMMA HeapNext ==
  ASSUME HeapInv, [Next]_vars
  PROVE  HeapInv'
<1>1. CASE UNCHANGED vars
  <2>1. UNCHANGED <<proc, td_proc, pc, arg, exitcode, panic>>
    BY <1>1 DEF vars
  <2>2. TypeOK' /\ Types'
    BY <1>1 DEF vars, HeapInv, TypeOK, Types
  <2>3. /\ \A s : Live(s)' <=> Live(s)
        /\ \A t, s : Own(t, s)' <=> Own(t, s)
    BY <2>1 DEF Live, Own, Alive
  <2>4. (OwnersLive /\ OneOwner /\ DeadRight /\ SemRight /\ Doomed)'
    BY <2>1, <2>3 DEF HeapInv, StructsRight, OwnersLive, OneOwner,
       DeadRight, SemRight, Doomed
  <2>5. (NewApart /\ ParentRight /\ ExitLocks /\ CheckLocks /\ LockHolders)'
    BY <2>1, <2>3 DEF HeapInv, StructsRight, NewApart, Makes, ParentRight,
       ExitLocks, CheckLocks, LockHolders
  <2>6. (ReapDead /\ Parented /\ ExitRight /\ GetRight)'
    BY <2>1 DEF HeapInv, StructsRight, ReapDead, Parented, Alive, ExitRight,
       GetRight
  <2> QED
    BY <2>2, <2>4, <2>5, <2>6 DEF HeapInv, StructsRight
<1>2. CASE Next
  <2> SUFFICES ASSUME NEW t \in Threads,
                      \/ Step(t) \/ Exits(t)
                      \/ ProcAllocPid(t) \/ ProcAllocPidFull(t)
                      \/ \E pid \in Pids, nohang \in BOOLEAN :
                           Waitpid(t, pid, nohang)
               PROVE  HeapInv'
    BY <1>2 DEF Next
  <2>1. ASSUME \/ ProcAllocPid(t) \/ ProcAllocPidFull(t) \/ ProcNoMem(t)
               \/ ProcAddToAllproc(t)
               \/ \E pid \in Pids, nohang \in BOOLEAN :
                    Waitpid(t, pid, nohang)
               \/ ProcGetFails(t) \/ ProcGet(t) \/ ProcDeallocPid(t)
               \/ WaitpidReap(t) \/ Exits(t)
        PROVE  HeapInv'
    BY <2>1, PlainTypes, PlainStep DEF HeapInv
  <2>2. ASSUME NEW u \in Threads, SysFork(t, u)
        PROVE  HeapInv'
    BY <2>2, SysForkKeeps
  <2> QED
    BY <2>1, <2>2, ProcKmallocKeeps, SysForkFailsKeeps, BornKeeps,
       ProcGetLockKeeps, WaitpidCheckKeeps, WaitpidPKeeps, ProcDestroyKeeps,
       ExitLockKeeps, ExitVKeeps, ExitUnlockKeeps DEF Step
<1> QED
  BY <1>1, <1>2

LEMMA HeapAlways == Spec => []HeapInv
BY HeapInit, HeapNext, PTL DEF Spec

\* ___waitpid waits on a struct that proc_destroy has not freed, and when its
\* P returns the child has exited, even if forks race, pids are foreign and
\* allocations or program loads fail.
THEOREM ProcWaitedStaysLive == Spec => []WaitedStaysLive
<1>1. HeapInv => WaitedStaysLive
  <2> SUFFICES ASSUME HeapInv, NEW t \in Threads
               PROVE  /\ pc[t] \in {"P", "reap"} => proc[arg[t].p].live
                      /\ pc[t] = "reap" => proc[arg[t].p].p_is_dead
    BY DEF WaitedStaysLive
  <2>1. pc[t] \in {"P", "reap"} => arg[t].p \in Structs /\ Live(arg[t].p)
    BY DEF HeapInv, StructsRight, ParentRight
  <2>2. pc[t] \in {"P", "reap"} => proc[arg[t].p].live
    BY <2>1, LiveIs DEF HeapInv
  <2> QED
    BY <2>2 DEF HeapInv, StructsRight, ReapDead
<1> QED
  BY <1>1, HeapAlways, PTL

(***************************************************************************)
(* What a step leaves of the structs that it neither makes nor frees.      *)
(***************************************************************************)
StructsKept(t) ==
    \A s \in Structs :
        /\ Live(s)' <=> Live(s)
        /\ proc'[s].p_pid = proc[s].p_pid
        /\ proc'[s].forker = proc[s].forker
        /\ \/ proc'[s].p_proc = proc[s].p_proc
           \/ pc[t] = "adopt" /\ s = arg[t].p
        /\ \/ proc'[s].p_is_dead = proc[s].p_is_dead
              /\ proc'[s].p_retval = proc[s].p_retval
           \/ pc[t] = "exit" /\ s = td_proc[t]
              /\ proc'[s].p_retval = exitcode[t]

LEMMA StructsKeptStep ==
  ASSUME HeapInv, NEW t \in Threads,
         \/ UNCHANGED proc
         \/ ProcGetLock(t) \/ WaitpidCheck(t) \/ ExitUnlock(t)
         \/ WaitpidP(t) \/ ExitV(t) \/ ExitLock(t)
         \/ SysForkFails(t) \/ \E u \in Threads : SysFork(t, u)
  PROVE  StructsKept(t)
<1>1. TypeOK /\ Types /\ StructsRight
  BY DEF HeapInv
<1>2. CASE UNCHANGED proc
  BY <1>2 DEF StructsKept, Live
<1>3. ASSUME NEW p \in Structs, Live(p), NEW x \in Threads \union {NULL},
             SetLock(p, x)
      PROVE  StructsKept(t)
  BY <1>1, <1>3, SetLockFields DEF StructsKept
<1>4. ASSUME NEW p \in Structs, Live(p), NEW n \in 0 .. 1, SetSem(p, n)
      PROVE  StructsKept(t)
  BY <1>1, <1>4, SetSemFields DEF StructsKept
<1>5. ASSUME NEW p \in Structs, Live(p), p = arg[t].p, pc[t] = "adopt",
             NEW q \in Structs \union {NULL}, SetParent(p, q)
      PROVE  StructsKept(t)
  BY <1>1, <1>5, SetParentFields DEF StructsKept
<1>6. ASSUME NEW p \in Structs, Live(p), p = td_proc[t], pc[t] = "exit",
             NEW v \in Codes \union {0}, v = exitcode[t],
             NEW x \in Threads \union {NULL}, SetDead(p, v, x)
      PROVE  StructsKept(t)
  <2>1. /\ proc'[p].p_retval = v
        /\ \A s \in Structs : s # p => proc'[s] = proc[s]
        /\ \A s \in Structs :
             /\ Live(s)' <=> Live(s)
             /\ proc'[s].p_pid = proc[s].p_pid
             /\ proc'[s].p_proc = proc[s].p_proc
             /\ proc'[s].forker = proc[s].forker
    BY <1>1, <1>6, SetDeadFields
  <2> QED
    BY <1>6, <2>1 DEF StructsKept
<1>7. CASE ProcGetLock(t)
  <2>1. PICK p \in Structs : p = arg[t].p
    BY <1>1, <1>7 DEF StructsRight, GetRight, ProcGetLock, At
  <2>2. Live(p) => SetLock(p, t)
    BY <1>1, <1>7, <2>1, LiveIs DEF ProcGetLock, SetLock
  <2>3. ~Live(p) => UNCHANGED proc
    BY <1>1, <1>7, <2>1, LiveIs DEF ProcGetLock
  <2>4. t \in Threads \union {NULL}
    OBVIOUS
  <2> QED
    BY <1>2, <1>3, <2>2, <2>3, <2>4
<1>8. CASE WaitpidCheck(t)
  <2>1. PICK p \in Structs : p = arg[t].p /\ Live(p)
    BY <1>1, <1>8 DEF StructsRight, CheckLocks, WaitpidCheck, At
  <2>2. SetLock(p, NULL) /\ NULL \in Threads \union {NULL}
    BY <1>8, <2>1 DEF WaitpidCheck, SetLock
  <2> QED
    BY <1>3, <2>1, <2>2
<1>9. CASE ExitUnlock(t)
  <2>1. PICK p \in Structs : p = td_proc[t] /\ Live(p)
    BY <1>9, Owners DEF Alive, ExitUnlock, At
  <2>2. SetLock(p, NULL) /\ NULL \in Threads \union {NULL}
    BY <1>1, <1>9, <2>1, LiveIs DEF ExitUnlock, SetLock
  <2> QED
    BY <1>3, <2>1, <2>2
<1>10. CASE WaitpidP(t)
  <2>1. PICK p \in Structs : p = arg[t].p /\ Live(p)
    BY <1>1, <1>10 DEF StructsRight, ParentRight, WaitpidP, At
  <2>2. \A r \in LiveStruct : r.p_sem \in 0 .. 1
    BY DEF LiveStruct
  <2>3. proc[p].p_sem \in 0 .. 1 /\ proc[p].p_sem > 0
    BY <1>10, <2>1, <2>2 DEF Live, WaitpidP, SemP
  <2>4. proc[p].p_sem - 1 = 0 /\ 0 \in 0 .. 1
    BY <2>3
  <2>5. SetSem(p, 0)
    BY <1>10, <2>1, <2>4 DEF WaitpidP, SemP, SetSem
  <2> QED
    BY <1>4, <2>1, <2>4, <2>5
<1>11. CASE ExitV(t)
  <2>1. pc[t] = "V"
    BY <1>11 DEF ExitV, At
  <2>2. PICK p \in Structs : p = td_proc[t] /\ Live(p) /\ Own(t, p)
    BY <2>1, Owners DEF Alive
  <2>3. proc[p].p_sem = 0
    BY <1>1, <2>1, <2>2 DEF StructsRight, SemRight
  <2>4. proc[p].p_sem + 1 = 1 /\ 1 \in 0 .. 1
    BY <2>3
  <2>5. SetSem(p, 1)
    BY <1>11, <2>2, <2>4 DEF ExitV, SemV, SetSem
  <2> QED
    BY <1>4, <2>2, <2>4, <2>5
<1>12. CASE ExitLock(t)
  <2>1. pc[t] = "exit"
    BY <1>12 DEF ExitLock, At
  <2>2. PICK p \in Structs : p = td_proc[t] /\ Live(p)
    BY <2>1, Owners DEF Alive
  <2>3. exitcode[t] \in Codes /\ t # Menu
    BY <1>1, <2>1 DEF StructsRight, ExitRight
  <2>4. proc[p].p_proc # NULL
    BY <1>1, <2>1, <2>2, <2>3 DEF StructsRight, Parented, Alive
  <2>5. PICK v \in Codes \union {0} : v = exitcode[t]
    BY <2>3
  <2>6. SetDead(p, v, t) /\ t \in Threads \union {NULL}
    BY <1>12, <2>2, <2>4, <2>5 DEF ExitLock, Retval, SetDead
  <2> QED
    BY <1>6, <2>1, <2>2, <2>5, <2>6
<1>13. CASE SysForkFails(t) \/ \E u \in Threads : SysFork(t, u)
  <2>1. pc[t] = "adopt"
    BY <1>13 DEF SysForkFails, SysFork, At
  <2>2. PICK p \in Structs : p = arg[t].p /\ Live(p)
    BY <2>1, Owners
  <2>3. PICK q \in Structs \union {NULL} : q = td_proc[t]
    BY <1>1 DEF TypeOK
  <2>4. SetParent(p, q)
    BY <1>13, <2>2, <2>3 DEF SysForkFails, SysFork, Adopt, SetParent
  <2> QED
    BY <1>5, <2>1, <2>2, <2>4
<1> QED
  BY <1>2, <1>7, <1>8, <1>9, <1>10, <1>11, <1>12, <1>13

(***************************************************************************)
(* What a slot of the table leads to, when no two threads are inside       *)
(* proc_create together.                                                   *)
(***************************************************************************)
OneForker ==
    \A t, u \in Threads : InCreate(t) /\ InCreate(u) => t = u
\* proc_alloc_pid does not mark the slot, but nobody else takes it.
SlotKept ==
    \A t \in Threads : InCreate(t) => p_table[arg[t].pid] = NULL
\* Every struct but one being made is where its pid says.
InTable ==
    \A s \in Structs :
        Live(s) /\ (\A t \in Threads : pc[t] = "add" => arg[t].p # s) =>
            p_table[proc[s].p_pid] = s
\* Until its slot is cleared, the pid of a freed struct is not used again.
Leaving ==
    \A t \in Threads : pc[t] = "dealloc" =>
        /\ p_table[arg[t].pid] # NULL
        /\ \A s \in Structs : Live(s) => proc[s].p_pid # arg[t].pid
        /\ \A u \in Threads \ {t} :
             pc[u] = "dealloc" => arg[u].pid # arg[t].pid
SlotsRight == OneForker /\ SlotKept /\ InTable /\ Leaving
SlotInv == "concurrent" \notin env.events => SlotsRight

\* A step that leaves the table, the pids and proc_create alone.
SlotMoves ==
    \A w \in Threads :
        /\ pc'[w] \in {"kmalloc", "add", "undo", "dealloc"} =>
             /\ \/ pc'[w] = pc[w]
                \/ pc[w] = "kmalloc" /\ pc'[w] = "undo"
             /\ arg'[w].pid = arg[w].pid
        /\ pc[w] = "add" <=> pc'[w] = "add"
        /\ pc[w] = "add" => arg'[w] = arg[w]

LEMMA SlotQuiet ==
  ASSUME TypeOK, SlotsRight, NEW t \in Threads, StructsKept(t), SlotMoves,
         UNCHANGED p_table
  PROVE  SlotsRight'
<1>1. \A w \in Threads :
        InCreate(w)' => InCreate(w) /\ arg'[w].pid = arg[w].pid
  BY DEF InCreate, SlotMoves
<1>2. OneForker' /\ SlotKept'
  BY <1>1 DEF OneForker, SlotKept, SlotsRight
<1>3. InTable'
  BY DEF InTable, SlotsRight, StructsKept, SlotMoves
<1>4. \A w \in Threads : pc'[w] = "dealloc" =>
        pc[w] = "dealloc" /\ arg'[w].pid = arg[w].pid
  BY DEF SlotMoves
<1>5. Leaving'
  BY <1>4 DEF Leaving, SlotsRight, StructsKept
<1> QED
  BY <1>2, <1>3, <1>5 DEF SlotsRight

\* Such steps are all but those that take, fill or clear a slot.
LEMMA SlotQuietSteps ==
  ASSUME HeapInv, SlotsRight, NEW t \in Threads,
         \/ ProcAllocPidFull(t) \/ ProcNoMem(t) \/ Exits(t)
         \/ \E pid \in Pids, nohang \in BOOLEAN : Waitpid(t, pid, nohang)
         \/ ProcGetFails(t) \/ ProcGet(t) \/ WaitpidReap(t)
         \/ ForkChildReturn(t) \/ RunprogramFails(t)
         \/ ProcGetLock(t) \/ WaitpidCheck(t) \/ ExitUnlock(t)
         \/ WaitpidP(t) \/ ExitV(t) \/ ExitLock(t)
         \/ SysForkFails(t) \/ \E u \in Threads : SysFork(t, u)
  PROVE  SlotsRight'
<1>1. TypeOK
  BY DEF HeapInv
<1>2. UNCHANGED p_table
  BY DEF ProcAllocPidFull, ProcNoMem, Exits, SysExit, Waitpid, ProcGetFails,
     ProcGet, WaitpidReap, ForkChildReturn, RunprogramFails, ProcGetLock,
     WaitpidCheck, ExitUnlock, WaitpidP, ExitV, ExitLock, SysForkFails,
     SysFork
<1>3. StructsKept(t)
  <2>1. CASE \/ ProcAllocPidFull(t) \/ ProcNoMem(t) \/ Exits(t)
             \/ \E pid \in Pids, nohang \in BOOLEAN : Waitpid(t, pid, nohang)
             \/ ProcGetFails(t) \/ ProcGet(t) \/ WaitpidReap(t)
             \/ ForkChildReturn(t) \/ RunprogramFails(t)
    <3>1. UNCHANGED proc
      BY <2>1 DEF ProcAllocPidFull, ProcNoMem, Exits, SysExit, Waitpid,
         ProcGetFails, ProcGet, WaitpidReap, ForkChildReturn,
         RunprogramFails
    <3> QED
      BY <3>1, StructsKeptStep
  <2> QED
    BY <2>1, StructsKeptStep
<1>4. SlotMoves
  <2> USE <1>1 DEF TypeOK, SlotMoves, At, Goto, Return
  <2>1. CASE ProcAllocPidFull(t)
    BY <2>1 DEF ProcAllocPidFull
  <2>2. CASE ProcNoMem(t)
    BY <2>2 DEF ProcNoMem
  <2>3. CASE Exits(t)
    BY <2>3 DEF Exits, SysExit
  <2>4. CASE \E pid \in Pids, nohang \in BOOLEAN : Waitpid(t, pid, nohang)
    BY <2>4 DEF Waitpid
  <2>5. CASE ProcGetFails(t)
    BY <2>5 DEF ProcGetFails
  <2>6. CASE ProcGet(t)
    BY <2>6 DEF ProcGet
  <2>7. CASE WaitpidReap(t)
    BY <2>7 DEF WaitpidReap
  <2>8. CASE ForkChildReturn(t)
    BY <2>8 DEF ForkChildReturn
  <2>9. CASE RunprogramFails(t)
    BY <2>9 DEF RunprogramFails
  <2>10. CASE ProcGetLock(t)
    BY <2>10 DEF ProcGetLock
  <2>11. CASE WaitpidCheck(t)
    BY <2>11 DEF WaitpidCheck
  <2>12. CASE ExitUnlock(t)
    BY <2>12 DEF ExitUnlock
  <2>13. CASE WaitpidP(t)
    BY <2>13 DEF WaitpidP
  <2>14. CASE ExitV(t)
    BY <2>14 DEF ExitV
  <2>15. CASE ExitLock(t)
    BY <2>15, ExitLockKeeps DEF ExitLock
  <2>16. CASE SysForkFails(t)
    BY <2>16 DEF SysForkFails
  <2>17. CASE \E u \in Threads : SysFork(t, u)
    BY <2>17 DEF SysFork
  <2> QED
    BY <2>1, <2>2, <2>3, <2>4, <2>5, <2>6, <2>7, <2>8, <2>9, <2>10, <2>11,
       <2>12, <2>13, <2>14, <2>15, <2>16, <2>17
<1> QED
  BY <1>1, <1>2, <1>3, <1>4, SlotQuiet

\* proc_alloc_pid finds a slot that is free, and stays so.
LEMMA SlotAlloc ==
  ASSUME HeapInv, SlotsRight, NEW t \in Threads, ProcAllocPid(t),
         "concurrent" \notin env.events
  PROVE  SlotsRight'
<1>1. TypeOK
  BY DEF HeapInv
<1>2. FirstSlot \in FreeSlots /\ FirstSlot \in Pids
  BY <1>1, FirstSlotFree DEF ProcAllocPid
<1>3. PICK i \in Pids : i = FirstSlot /\ p_table[i] = NULL
  BY <1>2 DEF FreeSlots
<1>4. /\ pc[t] = "run" /\ \A u \in Threads : ~InCreate(u)
      /\ arg' = [arg EXCEPT ![t].pid = i]
      /\ pc' = [pc EXCEPT ![t] = "kmalloc"] /\ UNCHANGED <<p_table, proc>>
  BY <1>3 DEF ProcAllocPid, At, Goto
<1>5. /\ pc'[t] = "kmalloc" /\ arg'[t].pid = i
      /\ \A u \in Threads \ {t} : pc'[u] = pc[u] /\ arg'[u] = arg[u]
  BY <1>1, <1>4 DEF TypeOK
<1>6. OneForker' /\ SlotKept'
  BY <1>3, <1>4, <1>5 DEF OneForker, SlotKept, InCreate
<1>7. InTable'
  BY <1>4, <1>5 DEF InTable, SlotsRight, Live
<1>8. Leaving'
  BY <1>4, <1>5 DEF Leaving, SlotsRight, Live
<1> QED
  BY <1>6, <1>7, <1>8 DEF SlotsRight

\* A struct being made has the pid of that slot.
LEMMA SlotKmalloc ==
  ASSUME HeapInv, SlotsRight, NEW t \in Threads, ProcKmalloc(t)
  PROVE  SlotsRight'
<1>1. TypeOK
  BY DEF HeapInv
<1>2. PICK p \in Structs :
        /\ ~proc[p].live
        /\ proc' = [proc EXCEPT ![p] = NewStruct(t, arg[t].pid)]
        /\ arg' = [arg EXCEPT ![t].p = p]
  BY DEF ProcKmalloc
<1>3. PICK pid \in Pids : pid = arg[t].pid
  BY <1>1 DEF TypeOK
<1>4. /\ proc'[p] = NewStruct(t, pid)
      /\ \A s \in Structs : s # p => proc'[s] = proc[s]
  BY <1>1, <1>2, <1>3 DEF TypeOK
<1>5. proc'[p].p_pid = pid
  BY <1>4 DEF NewStruct
<1>6. /\ pc[t] = "kmalloc" /\ pc'[t] = "add" /\ UNCHANGED p_table
      /\ arg'[t].p = p /\ arg'[t].pid = pid
      /\ \A u \in Threads \ {t} : pc'[u] = pc[u] /\ arg'[u] = arg[u]
  BY <1>1, <1>2, <1>3 DEF ProcKmalloc, At, Goto, TypeOK
<1>7. OneForker' /\ SlotKept'
  BY <1>3, <1>6 DEF OneForker, SlotKept, InCreate, SlotsRight
<1>8. InTable'
  BY <1>4, <1>6 DEF InTable, SlotsRight, Live
<1>9. Leaving'
  <2>1. p_table[pid] = NULL
    BY <1>3, <1>6 DEF SlotsRight, SlotKept, InCreate
  <2>2. \A u \in Threads : pc'[u] = "dealloc" =>
          /\ pc[u] = "dealloc" /\ arg'[u] = arg[u] /\ u # t
          /\ arg[u].pid # pid
    BY <1>6, <2>1 DEF SlotsRight, Leaving
  <2>3. \A s \in Structs : s # p =>
          (Live(s)' <=> Live(s)) /\ proc'[s].p_pid = proc[s].p_pid
    BY <1>4 DEF Live
  <2> QED
    BY <1>5, <1>6, <2>2, <2>3 DEF SlotsRight, Leaving
<1> QED
  BY <1>7, <1>8, <1>9 DEF SlotsRight

\* proc_add_to_allproc puts it there.
LEMMA SlotAdd ==
  ASSUME HeapInv, SlotsRight, NEW t \in Threads, ProcAddToAllproc(t)
  PROVE  SlotsRight'
<1>1. TypeOK /\ StructsRight
  BY DEF HeapInv
<1>2. /\ pc[t] = "add" /\ UNCHANGED <<proc, arg>>
      /\ p_table' = [p_table EXCEPT ![arg[t].pid] = arg[t].p]
      /\ pc' = [pc EXCEPT ![t] = "adopt"]
  BY DEF ProcAddToAllproc, At, Goto
<1>3. arg[t].pid \in Pids /\ arg[t].p \in Structs
  BY <1>1, <1>2, Owners DEF TypeOK
<1>4. /\ pc'[t] = "adopt"
      /\ \A u \in Threads \ {t} : pc'[u] = pc[u]
      /\ p_table'[arg[t].pid] = arg[t].p /\ p_table[arg[t].pid] = NULL
      /\ \A i \in Pids \ {arg[t].pid} : p_table'[i] = p_table[i]
  BY <1>1, <1>2, <1>3 DEF TypeOK, SlotsRight, SlotKept, InCreate
<1>5. OneForker' /\ SlotKept'
  BY <1>1, <1>2, <1>4
     DEF OneForker, SlotKept, InCreate, SlotsRight, TypeOK
<1>6. InTable'
  <2> SUFFICES ASSUME NEW s \in Structs, Live(s)',
                      \A u \in Threads : pc'[u] = "add" => arg'[u].p # s
               PROVE  p_table'[proc'[s].p_pid] = s
    BY DEF InTable
  <2>1. Live(s) /\ proc'[s] = proc[s] /\ proc[s].p_pid \in Pids
    BY <1>2 DEF Live, LiveStruct
  <2>2. CASE s = arg[t].p
    <3>1. proc[s].p_pid = arg[t].pid
      BY <1>1, <1>2, <2>2 DEF StructsRight, NewApart, Makes
    <3> QED
      BY <1>4, <2>1, <2>2, <3>1
  <2>3. CASE s # arg[t].p
    <3>1. p_table[proc[s].p_pid] = s
      BY <1>2, <1>4, <2>1, <2>3 DEF SlotsRight, InTable
    <3>2. proc[s].p_pid # arg[t].pid
      BY <1>4, <3>1, Apart
    <3> QED
      BY <1>4, <2>1, <3>1, <3>2
  <2> QED
    BY <2>2, <2>3
<1>7. Leaving'
  <2>1. \A u \in Threads : pc'[u] = "dealloc" =>
          /\ pc[u] = "dealloc" /\ arg[u].pid \in Pids
          /\ p_table'[arg[u].pid] = p_table[arg[u].pid]
    <3>1. \A u \in Threads : arg[u].pid \in Pids
      BY <1>1 DEF TypeOK
    <3>2. \A u \in Threads : pc'[u] = "dealloc" => pc[u] = "dealloc"
      BY <1>4
    <3> QED
      BY <1>4, <3>1, <3>2 DEF SlotsRight, Leaving
  <2> QED
    BY <1>2, <2>1 DEF SlotsRight, Leaving, Live
<1> QED
  BY <1>5, <1>6, <1>7 DEF SlotsRight

\* proc_destroy leaves the slot, which still points where the struct was.
LEMMA SlotDestroy ==
  ASSUME HeapInv, SlotsRight, NEW t \in Threads, ProcDestroy(t)
  PROVE  SlotsRight'
<1>1. TypeOK /\ StructsRight
  BY DEF HeapInv
<1>2. /\ pc[t] = "destroy" /\ UNCHANGED p_table
      /\ pc' = [pc EXCEPT ![t] = "dealloc"]
  BY DEF ProcDestroy, At, Goto
<1>3. PICK p \in Structs : p = arg[t].p /\ Live(p)
  BY <1>1, <1>2 DEF StructsRight, ParentRight
<1>4. /\ proc' = [proc EXCEPT ![p] = FreeStruct]
      /\ arg' = [arg EXCEPT ![t].p = NULL, ![t].pid = proc[p].p_pid]
  BY <1>3 DEF ProcDestroy
<1>5. PICK pid \in Pids : pid = proc[p].p_pid
  BY <1>3 DEF Live, LiveStruct
<1>6. /\ pc'[t] = "dealloc" /\ arg'[t].pid = pid
      /\ \A u \in Threads \ {t} : pc'[u] = pc[u] /\ arg'[u] = arg[u]
  BY <1>1, <1>2, <1>4, <1>5 DEF TypeOK
<1>7. \A s \in Structs : Live(s)' => s # p /\ Live(s) /\ proc'[s] = proc[s]
  BY <1>1, <1>4, FreeNotLive DEF TypeOK, Live
<1>8. \A u \in Threads : pc[u] = "add" => arg[u].p # p
  BY <1>1, <1>2, <1>3 DEF StructsRight, Doomed, Own
<1>9. p_table[pid] = p /\ p # NULL
  BY <1>3, <1>5, <1>8, Apart DEF SlotsRight, InTable
<1>10. OneForker' /\ SlotKept'
  BY <1>2, <1>6 DEF OneForker, SlotKept, InCreate, SlotsRight
<1>11. InTable'
  BY <1>2, <1>6, <1>7 DEF InTable, SlotsRight
<1>12. \A s \in Structs : s # p /\ Live(s) => proc[s].p_pid # pid
  <2> SUFFICES ASSUME NEW s \in Structs, s # p, Live(s), proc[s].p_pid = pid
               PROVE  FALSE
    OBVIOUS
  <2>1. PICK u \in Threads : pc[u] = "add" /\ arg[u].p = s
    BY <1>9 DEF SlotsRight, InTable
  <2>2. arg[u].pid = pid
    BY <1>1, <2>1 DEF StructsRight, NewApart, Makes
  <2> QED
    BY <1>9, <2>1, <2>2 DEF SlotsRight, SlotKept, InCreate
<1>13. Leaving'
  <2>1. \A u \in Threads \ {t} : pc'[u] = "dealloc" =>
          /\ pc[u] = "dealloc" /\ arg'[u] = arg[u] /\ arg[u].pid # pid
    BY <1>3, <1>5, <1>6 DEF SlotsRight, Leaving
  <2> QED
    BY <1>2, <1>6, <1>7, <1>9, <1>12, <2>1 DEF SlotsRight, Leaving
<1> QED
  BY <1>10, <1>11, <1>13 DEF SlotsRight

\* proc_dealloc_pid clears it.
LEMMA SlotDealloc ==
  ASSUME HeapInv, SlotsRight, NEW t \in Threads, ProcDeallocPid(t)
  PROVE  SlotsRight'
<1>1. TypeOK /\ StructsRight
  BY DEF HeapInv
<1>2. PICK i \in Pids : i = arg[t].pid
  BY <1>1 DEF TypeOK
<1>3. /\ pc[t] \in {"dealloc", "undo"} /\ UNCHANGED proc
      /\ p_table' = [p_table EXCEPT ![i] = NULL]
      /\ pc'[t] \in {"run", "gone"}
      /\ \A u \in Threads \ {t} : pc'[u] = pc[u] /\ arg'[u] = arg[u]
  BY <1>1, <1>2
     DEF TypeOK, ProcDeallocPid, At, Return, Goto, ClearSlot
<1>4. \A j \in Pids : p_table'[j] = IF j = i THEN NULL ELSE p_table[j]
  BY <1>1, <1>3 DEF TypeOK
<1>5. \A u \in Threads : arg[u].pid \in Pids
  BY <1>1 DEF TypeOK
<1>6. OneForker' /\ SlotKept'
  BY <1>3, <1>4, <1>5 DEF OneForker, SlotKept, InCreate, SlotsRight
<1>7. \A s \in Structs : Live(s) => proc[s].p_pid \in Pids
  BY DEF Live, LiveStruct
<1>8. InTable'
  <2> SUFFICES ASSUME NEW s \in Structs, Live(s)',
                      \A u \in Threads : pc'[u] = "add" => arg'[u].p # s
               PROVE  p_table'[proc'[s].p_pid] = s
    BY DEF InTable
  <2>1. Live(s) /\ proc'[s] = proc[s] /\ p_table[proc[s].p_pid] = s
    BY <1>3 DEF Live, SlotsRight, InTable
  <2>2. proc[s].p_pid # i
    <3>1. CASE pc[t] = "dealloc"
      BY <1>2, <2>1, <3>1 DEF SlotsRight, Leaving
    <3>2. CASE pc[t] = "undo"
      BY <1>2, <2>1, <3>2, Apart DEF SlotsRight, SlotKept, InCreate
    <3> QED
      BY <1>3, <3>1, <3>2
  <2> QED
    BY <1>4, <1>7, <2>1, <2>2
<1>9. Leaving'
  <2>1. \A u \in Threads : pc'[u] = "dealloc" =>
          /\ pc[u] = "dealloc" /\ arg'[u] = arg[u] /\ u # t
          /\ arg[u].pid # i
    <3>1. CASE pc[t] = "dealloc"
      BY <1>2, <1>3, <3>1 DEF SlotsRight, Leaving
    <3>2. CASE pc[t] = "undo"
      BY <1>2, <1>3, <3>2 DEF SlotsRight, Leaving, SlotKept, InCreate
    <3> QED
      BY <1>3, <3>1, <3>2
  <2> QED
    BY <1>3, <1>4, <1>5, <2>1 DEF SlotsRight, Leaving, Live
<1> QED
  BY <1>6, <1>8, <1>9 DEF SlotsRight

LEMMA SlotNext ==
  ASSUME HeapInv, SlotInv, [Next]_vars
  PROVE  SlotInv' /\ env' = env
<1>1. CASE UNCHANGED vars
  BY <1>1 DEF vars, SlotInv, SlotsRight, OneForker, SlotKept, InCreate,
     InTable, Leaving, Live
<1>2. CASE Next
  <2> SUFFICES ASSUME NEW t \in Threads,
                      \/ Step(t) \/ Exits(t)
                      \/ ProcAllocPid(t) \/ ProcAllocPidFull(t)
                      \/ \E pid \in Pids, nohang \in BOOLEAN :
                           Waitpid(t, pid, nohang)
               PROVE  SlotInv' /\ env' = env
    BY <1>2 DEF Next
  <2>1. env' = env
    BY DEF Step, Exits, At, ProcAllocPidFull, ProcNoMem, SysExit, Waitpid,
       ProcGetFails, ProcGet, WaitpidReap, ForkChildReturn, RunprogramFails,
       ProcGetLock, WaitpidCheck, ExitUnlock, WaitpidP, ExitV, ExitLock,
       SysForkFails, SysFork, ProcAllocPid, ProcKmalloc, ProcAddToAllproc,
       ProcDestroy, ProcDeallocPid
  <2>2. ASSUME "concurrent" \notin env.events
        PROVE  SlotsRight'
    <3>1. SlotsRight
      BY <2>2 DEF SlotInv
    <3> QED
      BY <2>2, <3>1, SlotAlloc, SlotKmalloc, SlotAdd, SlotDestroy,
         SlotDealloc, SlotQuietSteps DEF Step
  <2> QED
    BY <2>1, <2>2 DEF SlotInv
<1> QED
  BY <1>1, <1>2

LEMMA SlotInit == Init => SlotInv
<1> SUFFICES ASSUME Init
             PROVE  SlotsRight
  BY DEF SlotInv
<1> DEFINE p0 == CHOOSE s \in Structs : TRUE
<1>1. \A t \in Threads : pc[t] \in {"run", "none"}
  BY DEF Init
<1>2. /\ proc = [s \in Structs |->
                   IF s = p0 THEN NewStruct(Menu, 0) ELSE FreeStruct]
      /\ p_table = [i \in Pids |-> IF i = 0 THEN p0 ELSE NULL]
  BY DEF Init
<1> HIDE DEF p0
<1>3. \A s \in Structs : Live(s) => s = p0 /\ proc[s].p_pid = 0
  BY <1>2, FreeNotLive DEF Live, NewStruct
<1>4. 0 \in Pids
  BY ProcAssumptions DEF Pids
<1> QED
  BY <1>1, <1>2, <1>3, <1>4
     DEF SlotsRight, OneForker, SlotKept, InCreate, InTable, Leaving

(***************************************************************************)
(* Where the pid of a child leads, when programs also wait only for their  *)
(* own children.                                                           *)
(***************************************************************************)
\* k is the pid and the thread of a child of t that it has not waited for.
KidRight(t, k) ==
    LET s == StructOf(k[2]) IN
    /\ k[2] # t /\ pc[k[2]] # "none"
    /\ s \in Structs /\ Live(s)
    /\ p_table[k[1]] = s /\ proc[s].p_pid = k[1]
    /\ proc[s].p_proc = td_proc[t] /\ proc[s].forker = t
    /\ \A w \in Threads : Own(w, s) => w = k[2]
    /\ proc[s].p_is_dead =>
         exitcode[k[2]] \in Codes /\ proc[s].p_retval = exitcode[k[2]]
    /\ pc[t] = "destroy" => arg[t].p # s

\* What a step does to the rest of the system while a child is not waited
\* for: its thread keeps its struct, ...
Made(s) == \E x \in Threads : Makes(x) /\ arg[x].p = s
ThreadFrame ==
    \A w \in Threads :
        /\ pc[w] # "none" =>
             pc'[w] # "none" /\ StructOf(w)' = StructOf(w)
        /\ pc[w] \notin {"none", "born"} =>
             pc'[w] \notin {"none", "born"} /\ td_proc'[w] = td_proc[w]
        /\ pc[w] = "gone" => pc'[w] = "gone"
        /\ exitcode'[w] = exitcode[w] \/ pc[w] = "run"
        /\ pc'[w] = "destroy" =>
             pc[w] \in {"destroy", "adopt", "reap"} /\ arg'[w] = arg[w]
\* ... which nobody else gets ...
OwnFrame ==
    \A w \in Threads, s \in Structs :
        Live(s) /\ Own(w, s)' => Own(w, s) \/ Made(s)
\* ... or changes, but who makes it, frees it or exits as it, ...
StructFrame ==
    \A s \in Structs :
        \/ ~Live(s) \/ Made(s)
        \/ \E x \in Threads : pc[x] = "destroy" /\ arg[x].p = s
        \/ /\ Live(s)'
           /\ proc'[s].p_pid = proc[s].p_pid
           /\ proc'[s].forker = proc[s].forker
           /\ proc'[s].p_proc = proc[s].p_proc
           /\ \/ /\ proc'[s].p_is_dead = proc[s].p_is_dead
                 /\ proc'[s].p_retval = proc[s].p_retval
              \/ \E x \in Threads :
                   /\ pc[x] = "exit" /\ td_proc[x] = s
                   /\ proc'[s].p_retval = exitcode[x]
\* ... and its slot is neither taken nor cleared.
TableFrame ==
    \A i \in Pids :
        \/ p_table'[i] = p_table[i] \/ p_table[i] = NULL
        \/ \E x \in Threads : pc[x] = "dealloc" /\ arg[x].pid = i
KidFrame == ThreadFrame /\ OwnFrame /\ StructFrame /\ TableFrame

LEMMA KidKept ==
  ASSUME HeapInv, SlotsRight, KidFrame, NEW t \in Threads,
         NEW k \in Pids \X Threads, KidRight(t, k), Alive(t),
         pc'[t] = "destroy" /\ pc[t] = "reap" =>
           arg[t].p # StructOf(k[2])
  PROVE  KidRight(t, k)'
<1>1. TypeOK /\ StructsRight
  BY DEF HeapInv
<1>2. PICK u \in Threads, i \in Pids : u = k[2] /\ i = k[1]
  OBVIOUS
<1>3. PICK s \in Structs : s = StructOf(u)
  BY <1>2 DEF KidRight
<1>4. /\ u # t /\ pc[u] # "none" /\ Live(s) /\ p_table[i] = s
      /\ proc[s].p_pid = i /\ proc[s].p_proc = td_proc[t]
      /\ proc[s].forker = t
      /\ \A w \in Threads : Own(w, s) => w = u
      /\ proc[s].p_is_dead =>
           exitcode[u] \in Codes /\ proc[s].p_retval = exitcode[u]
      /\ pc[t] = "destroy" => arg[t].p # s
  BY <1>2, <1>3 DEF KidRight
<1>5. ~Made(s)
  <2> SUFFICES ASSUME NEW x \in Threads, Makes(x), arg[x].p = s
               PROVE  FALSE
    BY DEF Made
  <2>1. x = u
    BY <1>4 DEF Own, Makes
  <2>2. s = td_proc[x]
    BY <1>3, <2>1 DEF StructOf, Makes
  <2> QED
    BY <1>1, <2>2 DEF StructsRight, NewApart
<1>6. \A x \in Threads : pc[x] = "destroy" => arg[x].p # s
  <2> SUFFICES ASSUME NEW x \in Threads, pc[x] = "destroy", arg[x].p = s
               PROVE  FALSE
    OBVIOUS
  <2>1. td_proc[x] = td_proc[t] /\ Alive(x)
    BY <1>1, <1>4 DEF StructsRight, ParentRight, Alive
  <2>2. x = t
    BY <1>1, <2>1, Owners DEF StructsRight, OneOwner
  <2> QED
    BY <1>4, <2>2
<1>7. /\ Live(s)' /\ proc'[s].p_pid = i /\ proc'[s].forker = t
      /\ proc'[s].p_proc = td_proc[t]
      /\ \/ /\ proc'[s].p_is_dead = proc[s].p_is_dead
            /\ proc'[s].p_retval = proc[s].p_retval
         \/ \E x \in Threads :
              /\ pc[x] = "exit" /\ td_proc[x] = s
              /\ proc'[s].p_retval = exitcode[x]
  BY <1>4, <1>5, <1>6 DEF KidFrame, StructFrame
<1>8. p_table'[i] = s
  <2>1. s # NULL
    BY Apart
  <2>2. \A x \in Threads : pc[x] = "dealloc" => arg[x].pid # i
    BY <1>4 DEF SlotsRight, Leaving
  <2> QED
    BY <1>4, <2>1, <2>2 DEF KidFrame, TableFrame
<1>9. pc'[u] # "none" /\ StructOf(u)' = s
  BY <1>3, <1>4 DEF KidFrame, ThreadFrame
<1>10. td_proc'[t] = td_proc[t]
  BY DEF KidFrame, ThreadFrame, Alive
<1>11. \A w \in Threads : Own(w, s)' => w = u
  BY <1>4, <1>5 DEF KidFrame, OwnFrame
<1>12. proc'[s].p_is_dead =>
         exitcode'[u] \in Codes /\ proc'[s].p_retval = exitcode'[u]
  <2>1. ASSUME NEW x \in Threads, pc[x] = "exit", td_proc[x] = s,
               proc'[s].p_retval = exitcode[x]
        PROVE  exitcode'[u] \in Codes /\ proc'[s].p_retval = exitcode'[u]
    <3>1. x = u
      BY <1>4, <2>1 DEF Own, Alive
    <3>2. exitcode'[u] = exitcode[u] /\ exitcode[u] \in Codes
      BY <1>1, <2>1, <3>1
         DEF KidFrame, ThreadFrame, StructsRight, ExitRight
    <3> QED
      BY <2>1, <3>1, <3>2
  <2>2. ASSUME proc[s].p_is_dead, proc'[s].p_retval = proc[s].p_retval
        PROVE  exitcode'[u] \in Codes /\ proc'[s].p_retval = exitcode'[u]
    <3>1. exitcode[u] \in Codes /\ proc[s].p_retval = exitcode[u]
      BY <1>4, <2>2
    <3>2. pc[u] # "run"
      BY <1>1, <3>1, Apart DEF StructsRight, ExitRight
    <3> QED
      BY <2>2, <3>1, <3>2 DEF KidFrame, ThreadFrame
  <2> QED
    BY <1>7, <2>1, <2>2
<1>13. pc'[t] = "destroy" => arg'[t].p # s
  <2>1. pc'[t] = "destroy" =>
          pc[t] \in {"destroy", "adopt", "reap"} /\ arg'[t] = arg[t]
    BY DEF KidFrame, ThreadFrame
  <2>2. pc[t] = "adopt" => arg[t].p # s
    BY <1>5 DEF Made, Makes
  <2> QED
    BY <1>2, <1>3, <1>4, <2>1, <2>2
<1> QED
  BY <1>2, <1>4, <1>7, <1>8, <1>9, <1>10, <1>11, <1>12, <1>13 DEF KidRight

\* Every step of the system is one.
Steps(t) ==
    \/ Step(t) \/ Exits(t) \/ ProcAllocPid(t) \/ ProcAllocPidFull(t)
    \/ \E pid \in Pids, nohang \in BOOLEAN : Waitpid(t, pid, nohang)

LEMMA ThreadFrameStep ==
  ASSUME HeapInv, NEW t \in Threads, Steps(t)
  PROVE  ThreadFrame /\ OwnFrame
<1>1. TypeOK /\ StructsRight
  BY DEF HeapInv
<1> USE <1>1 DEF TypeOK, ThreadFrame, OwnFrame, StructOf, Own, Alive, At,
                 Goto, Return
<1>2. CASE ProcAllocPid(t)
  BY <1>2 DEF ProcAllocPid
<1>3. CASE ProcAllocPidFull(t)
  BY <1>3 DEF ProcAllocPidFull
<1>4. CASE ProcNoMem(t)
  BY <1>4 DEF ProcNoMem
<1>5. CASE Exits(t)
  BY <1>5 DEF Exits, SysExit
<1>6. CASE \E pid \in Pids, nohang \in BOOLEAN : Waitpid(t, pid, nohang)
  BY <1>6 DEF Waitpid
<1>7. CASE ProcGetFails(t)
  BY <1>7 DEF ProcGetFails
<1>8. CASE ProcGet(t)
  BY <1>8 DEF ProcGet
<1>9. CASE WaitpidReap(t)
  BY <1>9 DEF WaitpidReap
<1>10. CASE ProcAddToAllproc(t)
  BY <1>10 DEF ProcAddToAllproc
<1>11. CASE ForkChildReturn(t)
  BY <1>11 DEF ForkChildReturn
<1>12. CASE RunprogramFails(t)
  BY <1>12 DEF RunprogramFails
<1>13. CASE ProcGetLock(t)
  BY <1>13 DEF ProcGetLock
<1>14. CASE WaitpidCheck(t)
  BY <1>14 DEF WaitpidCheck
<1>15. CASE ExitUnlock(t)
  BY <1>15 DEF ExitUnlock
<1>16. CASE WaitpidP(t)
  BY <1>16 DEF WaitpidP
<1>17. CASE ExitV(t)
  BY <1>17 DEF ExitV
<1>18. CASE ExitLock(t)
  BY <1>18, ExitLockKeeps DEF ExitLock
<1>19. CASE SysForkFails(t)
  BY <1>19 DEF SysForkFails
<1>20. CASE ProcDestroy(t)
  BY <1>20 DEF ProcDestroy
<1>21. CASE ProcDeallocPid(t)
  <2>1. exitcode[t] = NULL /\ pc[t] \in {"dealloc", "undo"}
    BY <1>21 DEF StructsRight, ExitRight, ProcDeallocPid
  <2> QED
    BY <1>21, <2>1 DEF ProcDeallocPid
<1>22. CASE ProcKmalloc(t)
  <2>1. PICK p \in Structs : ~Live(p) /\ arg' = [arg EXCEPT ![t].p = p]
    BY <1>22, LiveIs DEF ProcKmalloc
  <2> QED
    BY <1>22, <2>1 DEF ProcKmalloc
<1>23. CASE \E u \in Threads : SysFork(t, u)
  <2>1. PICK u \in Threads : SysFork(t, u)
    BY <1>23
  <2>2. pc[t] = "adopt" /\ pc[u] = "none" /\ t # u
    BY <2>1 DEF SysFork
  <2>3. arg'[u].p = arg[t].p
    BY <2>1, <2>2 DEF SysFork
  <2>4. /\ pc'[u] = "born" /\ pc'[t] \in {"get", "run"}
        /\ \A w \in Threads \ {t, u} : pc'[w] = pc[w] /\ arg'[w] = arg[w]
        /\ UNCHANGED <<td_proc, exitcode>>
    BY <2>1, <2>2 DEF SysFork
  <2>5. Made(arg[t].p)
    BY <2>2 DEF Made, Makes
  <2> QED
    BY <2>2, <2>3, <2>4, <2>5
<1> QED
  BY <1>2, <1>3, <1>4, <1>5, <1>6, <1>7, <1>8, <1>9, <1>10, <1>11, <1>12,
     <1>13, <1>14, <1>15, <1>16, <1>17, <1>18, <1>19, <1>20, <1>21, <1>22,
     <1>23 DEF Steps, Step

LEMMA StructFrameStep ==
  ASSUME HeapInv, NEW t \in Threads, Steps(t)
  PROVE  StructFrame
<1>1. TypeOK /\ StructsRight
  BY DEF HeapInv
<1>2. ASSUME StructsKept(t)
      PROVE  StructFrame
  BY <1>2 DEF StructsKept, StructFrame, Made, Makes
<1>3. CASE ProcKmalloc(t)
  <2>1. PICK p \in Structs : ~Live(p) /\
               \A s \in Structs : s # p => proc'[s] = proc[s]
    <3>1. PICK p \in Structs :
            /\ ~proc[p].live
            /\ proc' = [proc EXCEPT ![p] = NewStruct(t, arg[t].pid)]
      BY <1>3 DEF ProcKmalloc
    <3> QED
      BY <1>1, <3>1, LiveIs DEF TypeOK
  <2> QED
    BY <2>1 DEF StructFrame, Live
<1>4. CASE ProcDestroy(t)
  <2>1. /\ pc[t] = "destroy"
        /\ \A s \in Structs : s # arg[t].p => proc'[s] = proc[s]
    BY <1>1, <1>4 DEF ProcDestroy, At, TypeOK
  <2> QED
    BY <2>1 DEF StructFrame, Live
<1>5. CASE \/ ProcAllocPid(t) \/ ProcAllocPidFull(t) \/ ProcNoMem(t)
           \/ Exits(t) \/ ProcGetFails(t) \/ ProcGet(t) \/ WaitpidReap(t)
           \/ \E pid \in Pids, nohang \in BOOLEAN : Waitpid(t, pid, nohang)
           \/ ForkChildReturn(t) \/ RunprogramFails(t)
           \/ ProcAddToAllproc(t) \/ ProcDeallocPid(t)
  <2>1. UNCHANGED proc
    BY <1>5 DEF ProcAllocPid, ProcAllocPidFull, ProcNoMem, Exits, SysExit,
       ProcGetFails, ProcGet, WaitpidReap, Waitpid, ForkChildReturn,
       RunprogramFails, ProcAddToAllproc, ProcDeallocPid
  <2> QED
    BY <1>2, <2>1, StructsKeptStep
<1>6. CASE \/ ProcGetLock(t) \/ WaitpidCheck(t) \/ ExitUnlock(t)
           \/ WaitpidP(t) \/ ExitV(t) \/ ExitLock(t)
           \/ SysForkFails(t) \/ \E u \in Threads : SysFork(t, u)
  BY <1>2, <1>6, StructsKeptStep
<1> QED
  BY <1>3, <1>4, <1>5, <1>6 DEF Steps, Step

LEMMA TableFrameStep ==
  ASSUME HeapInv, SlotsRight, NEW t \in Threads, Steps(t)
  PROVE  TableFrame
<1>1. TypeOK
  BY DEF HeapInv
<1>2. CASE ProcAddToAllproc(t)
  <2>1. /\ pc[t] = "add"
        /\ \A i \in Pids : i # arg[t].pid => p_table'[i] = p_table[i]
    BY <1>1, <1>2 DEF ProcAddToAllproc, At, TypeOK
  <2> QED
    BY <2>1 DEF TableFrame, SlotsRight, SlotKept, InCreate
<1>3. CASE ProcDeallocPid(t)
  <2>1. /\ pc[t] \in {"dealloc", "undo"}
        /\ \A i \in Pids : i # arg[t].pid => p_table'[i] = p_table[i]
    BY <1>1, <1>3 DEF ProcDeallocPid, ClearSlot, At, TypeOK
  <2> QED
    BY <2>1 DEF TableFrame, SlotsRight, SlotKept, InCreate
<1>4. CASE ~(ProcAddToAllproc(t) \/ ProcDeallocPid(t))
  <2>1. UNCHANGED p_table
    BY <1>4 DEF Steps, Step, ProcAllocPid, ProcAllocPidFull, ProcNoMem,
       Exits, SysExit, Waitpid, ProcGetFails, ProcGet, WaitpidReap,
       ForkChildReturn, RunprogramFails, ProcGetLock, WaitpidCheck,
       ExitUnlock, WaitpidP, ExitV, ExitLock, SysForkFails, SysFork,
       ProcKmalloc, ProcDestroy
  <2> QED
    BY <2>1 DEF TableFrame
<1> QED
  BY <1>2, <1>3, <1>4

KidsRight ==
    \A t \in Threads : kids[t] # {} =>
        /\ pc[t] \notin {"none", "born"}
        /\ pc[t] # "gone" => \A k \in kids[t] : KidRight(t, k)
\* ___waitpid has the pid of a child, and from proc_get on its struct.
Waits(t) == pc[t] \in {"get", "getlock", "check", "P", "reap"}
WaitsFor(t, k) ==
    k[1] = arg[t].pid /\ (pc[t] # "get" => arg[t].p = StructOf(k[2]))
WaitRight ==
    \A t \in Threads : Waits(t) => \E k \in kids[t] : WaitsFor(t, k)
StatusRight ==
    \A u \in Threads : status[u] # NULL =>
        exitcode[u] \in Codes /\ status[u] = MkwaitExit(exitcode[u])
KidsInv == KidsRight /\ WaitRight /\ StatusRight
KidInv == Orderly => KidsInv

\* The children of a process, and its wait, are its own.
LEMMA KidsMove ==
  ASSUME HeapInv, NEW t \in Threads, Steps(t)
  PROVE  /\ \A w \in Threads \ {t} : kids'[w] = kids[w]
         /\ kids'[t] = kids[t] \/ WaitpidReap(t)
            \/ \E u \in Threads : SysFork(t, u)
         /\ UNCHANGED status \/ WaitpidReap(t)
         /\ \A w \in Threads \ {t} : Waits(w)' =>
              Waits(w) /\ pc'[w] = pc[w] /\ arg'[w] = arg[w]
<1>1. TypeOK
  BY DEF HeapInv
<1>2. CASE WaitpidReap(t)
  <2>1. \A w \in Threads \ {t} : kids'[w] = kids[w]
    BY <1>1, <1>2 DEF WaitpidReap, TypeOK
  <2>2. \A w \in Threads \ {t} : pc'[w] = pc[w] /\ arg'[w] = arg[w]
    BY <1>1, <1>2 DEF WaitpidReap, Goto, TypeOK
  <2> QED
    BY <1>2, <2>1, <2>2 DEF Waits
<1>3. CASE \E u \in Threads : SysFork(t, u)
  <2>1. PICK u \in Threads : SysFork(t, u)
    BY <1>3
  <2>2. UNCHANGED status /\ \A w \in Threads \ {t} : kids'[w] = kids[w]
    BY <1>1, <2>1 DEF SysFork, TypeOK
  <2>3. /\ pc'[u] = "born"
        /\ \A w \in Threads \ {t, u} : pc'[w] = pc[w] /\ arg'[w] = arg[w]
    <3>1. t # u
      BY <2>1 DEF SysFork, At
    <3> QED
      BY <1>1, <2>1, <3>1 DEF SysFork, TypeOK
  <2> QED
    BY <1>3, <2>2, <2>3 DEF Waits
<1>4. CASE ~WaitpidReap(t) /\ ~\E u \in Threads : SysFork(t, u)
  <2>1. UNCHANGED <<kids, status>>
    BY <1>4 DEF Steps, Step, ProcAllocPid, ProcAllocPidFull, ProcNoMem,
       Exits, SysExit, Waitpid, ProcGetFails, ProcGet, ProcAddToAllproc,
       ForkChildReturn, RunprogramFails, ProcGetLock, WaitpidCheck,
       ExitUnlock, WaitpidP, ExitV, ExitLock, SysForkFails,
       ProcKmalloc, ProcDestroy, ProcDeallocPid
  <2>2. \A w \in Threads \ {t} : pc'[w] = pc[w] /\ arg'[w] = arg[w]
    <3> USE <1>1 DEF TypeOK, Goto, Return
    <3>1. CASE \/ ProcAllocPid(t) \/ ProcAllocPidFull(t) \/ ProcNoMem(t)
               \/ Exits(t) \/ ProcGetFails(t) \/ ProcGet(t)
               \/ \E pid \in Pids, nohang \in BOOLEAN :
                    Waitpid(t, pid, nohang)
      BY <3>1 DEF ProcAllocPid, ProcAllocPidFull, ProcNoMem, Exits, SysExit,
         ProcGetFails, ProcGet, Waitpid
    <3>2. CASE \/ ForkChildReturn(t) \/ RunprogramFails(t)
               \/ ProcAddToAllproc(t) \/ ProcDeallocPid(t)
               \/ ProcKmalloc(t) \/ ProcDestroy(t) \/ SysForkFails(t)
      BY <3>2 DEF ForkChildReturn, RunprogramFails, ProcAddToAllproc,
         ProcDeallocPid, ProcKmalloc, ProcDestroy, SysForkFails
    <3>3. CASE \/ ProcGetLock(t) \/ WaitpidCheck(t) \/ ExitUnlock(t)
               \/ WaitpidP(t) \/ ExitV(t) \/ ExitLock(t)
      BY <3>3 DEF ProcGetLock, WaitpidCheck, ExitUnlock, WaitpidP, ExitV,
         ExitLock
    <3> QED
      BY <1>4, <3>1, <3>2, <3>3 DEF Steps, Step
  <2> QED
    BY <2>1, <2>2 DEF Waits
<1> QED
  BY <1>2, <1>3, <1>4

\* The pids of the children that are left still lead to them.
LEMMA KidsStay ==
  ASSUME HeapInv, SlotsRight, KidsInv, NEW t \in Threads, Steps(t),
         NEW w \in Threads, pc'[w] # "gone",
         NEW k \in kids[w], k \in kids'[w]
  PROVE  KidRight(w, k)'
<1>1. TypeOK
  BY DEF HeapInv
<1>2. KidFrame
  BY ThreadFrameStep, StructFrameStep, TableFrameStep DEF KidFrame
<1>3. k \in Pids \X Threads
  BY <1>1 DEF TypeOK
<1>4. Alive(w) /\ KidRight(w, k)
  BY <1>2 DEF KidFrame, ThreadFrame, KidsInv, KidsRight, Alive
<1>5. ASSUME pc'[w] = "destroy", pc[w] = "reap"
      PROVE  arg[w].p # StructOf(k[2])
  <2>1. w = t /\ WaitpidReap(t)
    <3> USE <1>1, <1>5 DEF TypeOK, Goto, Return, At
    <3>1. CASE WaitpidReap(t)
      BY <3>1 DEF WaitpidReap
    <3>2. CASE \/ ProcAllocPid(t) \/ ProcAllocPidFull(t) \/ ProcNoMem(t)
               \/ Exits(t) \/ ProcGetFails(t) \/ ProcGet(t)
               \/ \E pid \in Pids, nohang \in BOOLEAN :
                    Waitpid(t, pid, nohang)
      BY <3>2 DEF ProcAllocPid, ProcAllocPidFull, ProcNoMem, Exits, SysExit,
         ProcGetFails, ProcGet, Waitpid
    <3>3. CASE \/ ForkChildReturn(t) \/ RunprogramFails(t)
               \/ ProcAddToAllproc(t) \/ ProcDeallocPid(t)
               \/ ProcKmalloc(t) \/ ProcDestroy(t) \/ SysForkFails(t)
      BY <3>3 DEF ForkChildReturn, RunprogramFails, ProcAddToAllproc,
         ProcDeallocPid, ProcKmalloc, ProcDestroy, SysForkFails
    <3>4. CASE \/ ProcGetLock(t) \/ WaitpidCheck(t) \/ ExitUnlock(t)
               \/ WaitpidP(t) \/ ExitV(t) \/ ExitLock(t)
      BY <3>4 DEF ProcGetLock, WaitpidCheck, ExitUnlock, WaitpidP, ExitV,
         ExitLock
    <3>5. CASE \E u \in Threads : SysFork(t, u)
      BY <3>5 DEF SysFork
    <3> QED
      BY <3>1, <3>2, <3>3, <3>4, <3>5 DEF Steps, Step
  <2>2. k[1] # arg[t].pid
    BY <1>1, <2>1 DEF WaitpidReap, TypeOK
  <2>3. PICK l \in kids[t] : l[1] = arg[t].pid /\ arg[t].p = StructOf(l[2])
    BY <1>5, <2>1 DEF KidsInv, WaitRight, Waits, WaitsFor
  <2>4. KidRight(t, l)
    BY <1>5, <2>1, <2>3 DEF KidsInv, KidsRight
  <2> QED
    BY <1>4, <2>1, <2>2, <2>3, <2>4 DEF KidRight
<1> QED
  BY <1>2, <1>3, <1>4, <1>5, KidKept

\* The pid that fork returns leads to the new child.
LEMMA KidBorn ==
  ASSUME HeapInv, SlotsRight, NEW t \in Threads, NEW u \in Threads,
         SysFork(t, u), NEW i \in Pids, i = arg[t].pid
  PROVE  /\ KidRight(t, <<i, u>>)'
         /\ kids'[t] = kids[t] \union {<<i, u>>}
         /\ pc'[t] \in {"get", "run"} /\ pc'[u] = "born"
<1>1. TypeOK /\ StructsRight
  BY DEF HeapInv
<1>2. pc[t] = "adopt" /\ pc[u] = "none" /\ t # u
  BY DEF SysFork, At
<1>3. PICK p \in Structs : p = arg[t].p /\ Live(p) /\ Own(t, p)
  BY <1>2, Owners
<1>5. kids'[t] = kids[t] \union {<<i, u>>}
  BY <1>1 DEF SysFork, TypeOK
<1>6. /\ pc'[u] = "born" /\ pc'[t] \in {"get", "run"}
      /\ UNCHANGED <<td_proc, exitcode, p_table>>
  BY <1>1, <1>2 DEF SysFork, TypeOK
<1>7. arg'[u].p = p
  <2>1. arg' = [arg EXCEPT ![u] = [arg[u] EXCEPT !.p = p],
                           ![t] = IF t = Menu
                                  THEN [arg[t] EXCEPT !.p = NULL]
                                  ELSE NoArg]
    BY <1>1, <1>2, <1>3 DEF SysFork, TypeOK
  <2>2. arg'[u] = [arg[u] EXCEPT !.p = p]
    BY <1>1, <1>2, <2>1 DEF TypeOK
  <2> QED
    BY <1>1, <2>2 DEF TypeOK
<1>8. StructOf(u)' = p
  BY <1>6, <1>7 DEF StructOf
<1>9. StructsKept(t)
  BY StructsKeptStep
<1>10. proc'[p].p_proc = td_proc[t]
  <2> DEFINE q == td_proc[t]
  <2>1. q \in Structs \union {NULL} /\ SetParent(p, q)
    BY <1>1, <1>3 DEF TypeOK, SysFork, Adopt, SetParent
  <2> HIDE DEF q
  <2>2. proc'[p].p_proc = q
    BY <1>1, <1>3, <2>1, SetParentFields
  <2> QED
    BY <2>2 DEF q
<1>11. /\ proc[p].p_pid = i /\ proc[p].forker = t
       /\ proc[p].p_is_dead = FALSE
  <2>1. proc[p].p_is_dead \in BOOLEAN
    BY <1>3 DEF Live, LiveStruct
  <2> QED
    BY <1>1, <1>2, <1>3, <2>1
       DEF StructsRight, NewApart, Makes, DeadRight
<1>12. p_table[i] = p
  <2>1. \A w \in Threads : pc[w] = "add" => arg[w].p # p
    BY <1>1, <1>2, <1>3 DEF StructsRight, OneOwner, Own
  <2> QED
    BY <1>3, <1>11, <2>1 DEF SlotsRight, InTable
<1>13. /\ Live(p)' /\ proc'[p].p_pid = i /\ proc'[p].forker = t
       /\ ~proc'[p].p_is_dead
  <2>1. /\ Live(p)' /\ proc'[p].p_pid = i /\ proc'[p].forker = t
        /\ proc'[p].p_is_dead = proc[p].p_is_dead
    BY <1>2, <1>3, <1>9, <1>11 DEF StructsKept
  <2> QED
    BY <1>11, <2>1
<1>14. \A w \in Threads : Own(w, p)' => w = u
  <2>1. HeapInv'
    BY SysForkKeeps
  <2>2. Own(u, p)'
    BY <1>6, <1>7 DEF Own
  <2> QED
    BY <2>1, <2>2 DEF HeapInv, StructsRight, OneOwner
<1>15. LET k == <<i, u>> IN
       /\ k[2] # t /\ pc'[k[2]] # "none"
       /\ StructOf(k[2])' = p /\ p_table'[k[1]] = p /\ proc'[p].p_pid = k[1]
       /\ \A w \in Threads : Own(w, p)' => w = k[2]
  BY <1>2, <1>6, <1>8, <1>12, <1>13, <1>14
<1>16. KidRight(t, <<i, u>>)'
  BY <1>6, <1>10, <1>13, <1>15 DEF KidRight
<1> QED
  BY <1>5, <1>6, <1>16

LEMMA KidsRightNext ==
  ASSUME HeapInv, SlotsRight, KidsInv, NEW t \in Threads, Steps(t)
  PROVE  KidsRight'
<1>1. TypeOK
  BY DEF HeapInv
<1>2. ThreadFrame
  BY ThreadFrameStep
<1>a. PICK i \in Pids : i = arg[t].pid
  BY <1>1 DEF TypeOK
<1>3. \A w \in Threads : \A k \in kids'[w] :
        \/ k \in kids[w]
        \/ \E u \in Threads :
             w = t /\ SysFork(t, u) /\ k = <<i, u>>
  <2>1. CASE WaitpidReap(t)
    BY <1>1, <2>1 DEF WaitpidReap, TypeOK
  <2>2. ASSUME NEW u \in Threads, SysFork(t, u)
        PROVE  \A w \in Threads : \A k \in kids'[w] :
                 \/ k \in kids[w]
                 \/ w = t /\ SysFork(t, u) /\ k = <<i, u>>
    BY <1>a, <1>1, <2>2 DEF SysFork, TypeOK
  <2> QED
    BY <2>1, <2>2, KidsMove
<1>4. ASSUME NEW w \in Threads, kids'[w] # {}
      PROVE  pc'[w] \notin {"none", "born"}
  <2>1. CASE kids[w] # {}
    BY <1>2, <2>1 DEF ThreadFrame, KidsInv, KidsRight
  <2>2. CASE kids[w] = {}
    <3>1. w = t /\ \E u \in Threads : SysFork(t, u)
      BY <1>3, <1>4, <2>2
    <3> QED
      BY <1>a, <3>1, KidBorn
  <2> QED
    BY <2>1, <2>2
<1>5. ASSUME NEW w \in Threads, pc'[w] # "gone", NEW k \in kids'[w]
      PROVE  KidRight(w, k)'
  <2>1. CASE k \in kids[w]
    BY <1>5, <2>1, KidsStay
  <2>2. ASSUME NEW u \in Threads, w = t, SysFork(t, u),
               k = <<i, u>>
        PROVE  KidRight(w, k)'
    BY <1>a, <2>2, KidBorn
  <2> QED
    BY <1>3, <2>1, <2>2
<1> QED
  BY <1>4, <1>5 DEF KidsRight

LEMMA WaitRightNext ==
  ASSUME HeapInv, SlotsRight, KidsInv, Orderly, NEW t \in Threads, Steps(t)
  PROVE  WaitRight'
<1>1. TypeOK
  BY DEF HeapInv
<1>2. \A w \in Threads : pc[w] # "gone" => \A k \in kids[w] :
        KidRight(w, k) /\ StructOf(k[2])' = StructOf(k[2])
  <2>1. ThreadFrame
    BY ThreadFrameStep
  <2>2. \A w \in Threads : \A k \in kids[w] : k[2] \in Threads
    <3>1. \A w \in Threads : kids[w] \subseteq Pids \X Threads
      BY <1>1 DEF TypeOK
    <3>2. \A k \in Pids \X Threads : k[2] \in Threads
      OBVIOUS
    <3> QED
      BY <3>1, <3>2
  <2> QED
    BY <2>1, <2>2 DEF ThreadFrame, KidRight, KidsInv, KidsRight
<1>3. ASSUME NEW w \in Threads \ {t}, Waits(w)'
      PROVE  \E k \in kids'[w] : WaitsFor(w, k)'
  <2>1. /\ Waits(w) /\ pc'[w] = pc[w] /\ arg'[w] = arg[w]
        /\ kids'[w] = kids[w]
    BY <1>3, KidsMove
  <2>2. PICK k \in kids[w] : WaitsFor(w, k)
    BY <2>1 DEF KidsInv, WaitRight
  <2>3. StructOf(k[2])' = StructOf(k[2])
    BY <1>2, <2>1 DEF Waits
  <2> QED
    BY <2>1, <2>2, <2>3 DEF WaitsFor
<1>4. ASSUME Waits(t)'
      PROVE  \E k \in kids'[t] : WaitsFor(t, k)'
  <2>1. CASE \E pid \in Pids, nohang \in BOOLEAN : Waitpid(t, pid, nohang)
    <3>1. PICK pid \in Pids, nohang \in BOOLEAN : Waitpid(t, pid, nohang)
      BY <2>1
    <3>2. PICK k \in kids[t] : k[1] = pid
      BY <3>1 DEF Waitpid, Orderly
    <3>3. pc'[t] = "get" /\ arg'[t].pid = pid /\ kids' = kids
      BY <1>1, <3>1 DEF Waitpid, Goto, TypeOK
    <3> QED
      BY <3>2, <3>3 DEF WaitsFor
  <2>2. CASE ProcGet(t)
    <3>1. /\ pc[t] = "get" /\ arg'[t].p = p_table[arg[t].pid]
          /\ arg'[t].pid = arg[t].pid /\ kids' = kids
      BY <1>1, <2>2 DEF ProcGet, At, TypeOK
    <3>2. PICK k \in kids[t] : k[1] = arg[t].pid
      BY <3>1 DEF KidsInv, WaitRight, Waits, WaitsFor
    <3>3. p_table[k[1]] = StructOf(k[2])
      BY <1>2, <3>1 DEF KidRight
    <3> QED
      BY <1>2, <3>1, <3>2, <3>3 DEF WaitsFor
  <2>3. CASE ProcGetLock(t) \/ WaitpidCheck(t) \/ WaitpidP(t)
    <3>1. /\ pc[t] \in {"getlock", "check", "P"} /\ kids' = kids
          /\ arg'[t] = arg[t]
      BY <1>1, <1>4, <2>3
         DEF ProcGetLock, WaitpidCheck, WaitpidP, At, Goto, Return, Waits,
             TypeOK
    <3>2. PICK k \in kids[t] : WaitsFor(t, k)
      BY <3>1 DEF KidsInv, WaitRight, Waits
    <3>3. StructOf(k[2])' = StructOf(k[2])
      BY <1>2, <3>1
    <3> QED
      BY <3>1, <3>2, <3>3 DEF WaitsFor
  <2>4. CASE \E u \in Threads : SysFork(t, u)
    <3>1. PICK u \in Threads : SysFork(t, u)
      BY <2>4
    <3>2. PICK i \in Pids : i = arg[t].pid
      BY <1>1 DEF TypeOK
    <3>3. <<i, u>> \in kids'[t] /\ pc'[t] = "get"
      BY <1>4, <3>1, <3>2, KidBorn DEF Waits
    <3>4. arg'[t].pid = i
      <4>0. t # u
        BY <3>1 DEF SysFork, At
      <4>a. pc'[t] = IF t = Menu THEN "get" ELSE "run"
        BY <1>1, <3>1, <4>0 DEF SysFork, TypeOK
      <4>1. t # u /\ t = Menu
        BY <3>3, <4>0, <4>a
      <4>2. PICK r \in ArgTypes : r = [arg[t] EXCEPT !.p = NULL]
        BY <1>1 DEF TypeOK, ArgTypes
      <4>3. arg' = [arg EXCEPT ![u] = [arg[u] EXCEPT !.p = arg[t].p],
                               ![t] = r]
        BY <3>1, <4>1, <4>2 DEF SysFork
      <4>4. arg'[t] = r
        BY <1>1, <4>1, <4>3 DEF TypeOK
      <4>5. r.pid = arg[t].pid
        BY <1>1, <4>2 DEF TypeOK
      <4> QED
        BY <3>2, <4>4, <4>5
    <3> QED
      BY <3>3, <3>4 DEF WaitsFor
  <2>5. CASE \/ ProcAllocPid(t) \/ ProcAllocPidFull(t) \/ ProcNoMem(t)
             \/ Exits(t) \/ ProcGetFails(t) \/ WaitpidReap(t)
             \/ ForkChildReturn(t) \/ RunprogramFails(t)
             \/ ProcAddToAllproc(t) \/ ProcDeallocPid(t)
             \/ ProcKmalloc(t) \/ ProcDestroy(t) \/ SysForkFails(t)
             \/ ExitUnlock(t) \/ ExitV(t) \/ ExitLock(t)
    <3> USE <1>1, <1>4 DEF TypeOK, Goto, Return, At, Waits
    <3>1. CASE \/ ProcAllocPid(t) \/ ProcAllocPidFull(t) \/ ProcNoMem(t)
               \/ Exits(t) \/ ProcGetFails(t) \/ WaitpidReap(t)
      BY <3>1 DEF ProcAllocPid, ProcAllocPidFull, ProcNoMem, Exits, SysExit,
         ProcGetFails, WaitpidReap
    <3>2. CASE \/ ForkChildReturn(t) \/ RunprogramFails(t)
               \/ ProcAddToAllproc(t) \/ ProcDeallocPid(t)
               \/ ProcKmalloc(t) \/ ProcDestroy(t) \/ SysForkFails(t)
      BY <3>2 DEF ForkChildReturn, RunprogramFails, ProcAddToAllproc,
         ProcDeallocPid, ProcKmalloc, ProcDestroy, SysForkFails
    <3>3. CASE ExitUnlock(t) \/ ExitV(t) \/ ExitLock(t)
      BY <3>3 DEF ExitUnlock, ExitV, ExitLock
    <3> QED
      BY <2>5, <3>1, <3>2, <3>3
  <2> QED
    BY <2>1, <2>2, <2>3, <2>4, <2>5 DEF Steps, Step
<1> QED
  BY <1>3, <1>4 DEF WaitRight

LEMMA StatusRightNext ==
  ASSUME HeapInv, SlotsRight, KidsInv, NEW t \in Threads, Steps(t)
  PROVE  StatusRight'
<1>1. TypeOK /\ StructsRight /\ ThreadFrame
  BY ThreadFrameStep DEF HeapInv
<1>2. \A u \in Threads : exitcode[u] \in Codes => exitcode'[u] = exitcode[u]
  BY <1>1, Apart DEF ThreadFrame, StructsRight, ExitRight
<1>3. CASE UNCHANGED status
  BY <1>2, <1>3 DEF KidsInv, StatusRight
<1>4. CASE WaitpidReap(t)
  <2> DEFINE p == arg[t].p
             mine == {k \in kids[t] : k[1] = arg[t].pid}
  <2>1. /\ pc[t] = "reap" /\ UNCHANGED exitcode
        /\ \A u \in Threads : status'[u] =
             IF \E k \in mine : k[2] = u
             THEN MkwaitExit(proc[p].p_retval) ELSE status[u]
    BY <1>4 DEF WaitpidReap, At
  <2>2. PICK l \in kids[t] : l[1] = arg[t].pid /\ p = StructOf(l[2])
    BY <2>1 DEF KidsInv, WaitRight, Waits, WaitsFor
  <2>3. proc[p].p_is_dead
    BY <1>1, <2>1 DEF StructsRight, ReapDead
  <2>4. ASSUME NEW u \in Threads, NEW k \in mine, k[2] = u
        PROVE  exitcode[u] \in Codes /\ proc[p].p_retval = exitcode[u]
    <3>1. KidRight(t, k) /\ KidRight(t, l)
      BY <2>1, <2>2 DEF KidsInv, KidsRight
    <3>2. StructOf(u) = p
      BY <2>2, <2>4, <3>1 DEF KidRight
    <3> QED
      BY <2>3, <2>4, <3>1, <3>2 DEF KidRight
  <2> HIDE DEF mine, p
  <2> QED
    BY <2>1, <2>4 DEF KidsInv, StatusRight
<1> QED
  BY <1>3, <1>4, KidsMove

LEMMA KidNext ==
  ASSUME HeapInv, SlotInv, KidInv, [Next]_vars
  PROVE  KidInv'
<1>1. CASE UNCHANGED vars
  <2>1. UNCHANGED <<proc, p_table, td_proc, pc, arg, kids, exitcode, status,
                    env>>
    BY <1>1 DEF vars
  <2>2. /\ \A u : StructOf(u)' = StructOf(u)
        /\ \A s : Live(s)' <=> Live(s)
        /\ \A u, s : Own(u, s)' <=> Own(u, s)
    BY <2>1 DEF StructOf, Live, Own, Alive
  <2>3. \A t, k : KidRight(t, k)' <=> KidRight(t, k)
    BY <2>1, <2>2 DEF KidRight
  <2>4. \A t, k : WaitsFor(t, k)' <=> WaitsFor(t, k)
    BY <2>1, <2>2 DEF WaitsFor
  <2>5. Orderly' <=> Orderly
    BY <2>1 DEF Orderly
  <2>6. KidsInv => KidsInv'
    BY <2>1, <2>3, <2>4
       DEF KidsInv, KidsRight, WaitRight, Waits, StatusRight
  <2> QED
    BY <2>5, <2>6 DEF KidInv
<1>2. CASE Next
  <2>1. PICK t \in Threads : Steps(t)
    BY <1>2 DEF Next, Steps
  <2>2. env' = env
    BY SlotNext
  <2>3. ASSUME Orderly
        PROVE  KidsInv'
    <3>1. KidsInv /\ SlotsRight
      BY <2>3 DEF KidInv, SlotInv, Orderly
    <3> QED
      BY <2>1, <2>3, <3>1, KidsRightNext, WaitRightNext, StatusRightNext
         DEF KidsInv
  <2> QED
    BY <2>2, <2>3 DEF KidInv, Orderly
<1> QED
  BY <1>1, <1>2

LEMMA KidInit == Init => KidInv
BY DEF Init, KidInv, KidsInv, KidsRight, WaitRight, Waits, StatusRight

(***************************************************************************)
(* Where the pid of a child leads, and what waitpid reports.               *)
(***************************************************************************)
LEMMA ProcAlways == Spec => [](HeapInv /\ SlotInv /\ KidInv)
<1>1. Init => HeapInv /\ SlotInv /\ KidInv
  BY HeapInit, SlotInit, KidInit
<1>2. HeapInv /\ SlotInv /\ KidInv /\ [Next]_vars
        => (HeapInv /\ SlotInv /\ KidInv)'
  BY HeapNext, SlotNext, KidNext
<1> QED
  BY <1>1, <1>2, PTL DEF Spec

\* WEXITSTATUS gives back what _MKWAIT_EXIT was given.
LEMMA StatusOfExit ==
  ASSUME NEW code \in Int, Fits(code)
  PROVE  WExitStatus(MkwaitExit(code)) = code
<1>1. INT_LIMIT \in Nat /\ INT_LIMIT > 0
  BY ProcAssumptions
<1> DEFINE n == code * 4 + INT_LIMIT
           m == 2 * INT_LIMIT
<1>2. n \in Nat /\ m \in Nat /\ n < m
  BY <1>1 DEF Fits, Ints
<1>3. n % m = n
  BY <1>2
<1>4. MkwaitExit(code) = code * 4
  BY <1>1, <1>3 DEF MkwaitExit, ToInt, WEXITED
<1>5. (code * 4) \div 4 = code
  OBVIOUS
<1> QED
  BY <1>4, <1>5 DEF WExitStatus

\* The pid that fork returned leads to the child's own struct until it has
\* been waited for; waitpid returns the exit code of that child; and its
\* struct is there meanwhile, whatever other processes do with the table and
\* the heap.
THEOREM ProcWaitsForItsChild == Spec => []WaitsForItsChild
<1>1. HeapInv /\ KidInv => TypeOK /\ PidFindsChild /\ StatusIsExitCode
  <2> SUFFICES ASSUME HeapInv, KidInv
               PROVE  PidFindsChild /\ StatusIsExitCode
    BY DEF HeapInv
  <2>1. PidFindsChild
    <3> SUFFICES ASSUME NEW t \in Threads, Orderly, pc[t] # "gone",
                        NEW k \in kids[t]
                 PROVE  LET s == StructOf(k[2])
                        IN  /\ p_table[k[1]] = s
                            /\ proc[s].live /\ proc[s].p_pid = k[1]
                            /\ proc[s].forker = t
      BY DEF PidFindsChild
    <3>1. KidRight(t, k)
      BY DEF KidInv, KidsInv, KidsRight
    <3>2. proc[StructOf(k[2])].live
      BY <3>1, LiveIs DEF KidRight, HeapInv
    <3> QED
      BY <3>1, <3>2 DEF KidRight
  <2>2. StatusIsExitCode
    <3> SUFFICES ASSUME NEW u \in Threads, Orderly, status[u] # NULL
                 PROVE  /\ exitcode[u] # NULL
                        /\ Fits(exitcode[u]) =>
                             WExitStatus(status[u]) = exitcode[u]
      BY DEF StatusIsExitCode
    <3>1. exitcode[u] \in Codes /\ status[u] = MkwaitExit(exitcode[u])
      BY DEF KidInv, KidsInv, StatusRight
    <3>2. exitcode[u] \in Int /\ exitcode[u] # NULL
      BY <3>1, Apart
    <3> QED
      BY <3>1, <3>2, StatusOfExit
  <2> QED
    BY <2>1, <2>2
<1>2. HeapInv /\ SlotInv /\ KidInv /\ WaitedStaysLive => WaitsForItsChild
  BY <1>1 DEF WaitsForItsChild
<1> QED
  BY <1>2, ProcAlways, ProcWaitedStaysLive, PTL

(***************************************************************************)
(* Which event makes which assertion fail.                                 *)
(***************************************************************************)
UndoRight == \A t \in Threads : pc[t] = "undo" => "nomem" \in env.events

LEMMA BreaksMay ==
  ASSUME NEW e \in env.events, NEW why \in Breaks[e], panic' = why,
         env' = env
  PROVE  NoPanic'
BY DEF NoPanic

LEMMA UndoNext ==
  ASSUME HeapInv, UndoRight, NEW t \in Threads, Steps(t), env' = env
  PROVE  UndoRight'
<1>1. TypeOK
  BY DEF HeapInv
<1>2. CASE ProcNoMem(t)
  BY <1>1, <1>2 DEF ProcNoMem, Goto, UndoRight, TypeOK
<1>3. ASSUME ~ProcNoMem(t), NEW w \in Threads, pc'[w] = "undo"
      PROVE  pc[w] = "undo"
  <2> USE <1>1, <1>3 DEF TypeOK, Goto, Return
  <2>1. CASE \/ ProcAllocPid(t) \/ ProcAllocPidFull(t) \/ WaitpidReap(t)
             \/ Exits(t) \/ ProcGetFails(t) \/ ProcGet(t)
             \/ \E pid \in Pids, nohang \in BOOLEAN :
                  Waitpid(t, pid, nohang)
    BY <2>1 DEF ProcAllocPid, ProcAllocPidFull, Exits, SysExit,
       ProcGetFails, ProcGet, Waitpid, WaitpidReap
  <2>2. CASE \/ ForkChildReturn(t) \/ RunprogramFails(t)
             \/ ProcAddToAllproc(t) \/ ProcDeallocPid(t)
             \/ ProcKmalloc(t) \/ ProcDestroy(t) \/ SysForkFails(t)
    BY <2>2 DEF ForkChildReturn, RunprogramFails, ProcAddToAllproc,
       ProcDeallocPid, ProcKmalloc, ProcDestroy, SysForkFails
  <2>3. CASE \/ ProcGetLock(t) \/ WaitpidCheck(t) \/ ExitUnlock(t)
             \/ WaitpidP(t) \/ ExitV(t) \/ ExitLock(t)
    BY <2>3 DEF ProcGetLock, WaitpidCheck, ExitUnlock, WaitpidP, ExitV,
       ExitLock
  <2>4. CASE \E u \in Threads : SysFork(t, u)
    BY <2>4 DEF SysFork
  <2> QED
    BY <1>3, <2>1, <2>2, <2>3, <2>4 DEF Steps, Step
<1> QED
  BY <1>2, <1>3 DEF UndoRight

\* A struct that is freed is not locked by a waitpid: that would be its
\* parent's.
LEMMA DestroyUnlocked ==
  ASSUME HeapInv, KidInv, Orderly, panic = "none", NEW t \in Threads,
         pc[t] = "destroy"
  PROVE  proc[arg[t].p].lock = NULL
<1>1. TypeOK /\ StructsRight
  BY DEF HeapInv
<1>2. PICK p \in Structs :
        p = arg[t].p /\ Live(p) /\ proc[p].p_proc = td_proc[t]
  BY <1>1 DEF StructsRight, ParentRight
<1>3. SUFFICES ASSUME NEW w \in Threads, proc[p].lock = w
               PROVE  FALSE
  BY <1>2 DEF Live, LiveStruct
<1>4. pc[w] = "check" /\ arg[w].p = p
  <2>1. ~(pc[w] \in {"V", "unlock"} /\ td_proc[w] = p)
    BY <1>1, <1>2 DEF StructsRight, Doomed, Own, Alive
  <2> QED
    BY <1>1, <1>2, <1>3, <2>1 DEF StructsRight, LockHolders
<1>5. PICK k \in kids[w] : WaitsFor(w, k)
  BY <1>4 DEF KidInv, KidsInv, WaitRight, Waits
<1>6. KidRight(w, k) /\ StructOf(k[2]) = p
  BY <1>4, <1>5 DEF KidInv, KidsInv, KidsRight, WaitsFor
<1>7. td_proc[w] = td_proc[t]
  BY <1>2, <1>6 DEF KidRight
<1>8. w = t
  BY <1>1, <1>4, <1>7, Owners DEF StructsRight, OneOwner, Alive
<1> QED
  BY <1>4, <1>8

\* proc_get finds a struct that has not been freed.
LEMMA GetLive ==
  ASSUME HeapInv, KidInv, Orderly, NEW t \in Threads, pc[t] = "getlock"
  PROVE  proc[arg[t].p].live
<1>1. PICK k \in kids[t] : WaitsFor(t, k)
  BY DEF KidInv, KidsInv, WaitRight, Waits
<1>2. KidRight(t, k) /\ arg[t].p = StructOf(k[2])
  BY <1>1 DEF KidInv, KidsInv, KidsRight, WaitsFor
<1> QED
  BY <1>2, LiveIs DEF KidRight, HeapInv

LEMMA NoPanicNext ==
  ASSUME HeapInv, SlotInv, KidInv, UndoRight, NoPanic, NEW t \in Threads,
         Steps(t), env' = env
  PROVE  NoPanic'
<1>1. TypeOK /\ StructsRight
  BY DEF HeapInv
<1>2. CASE UNCHANGED panic
  BY <1>2 DEF NoPanic
<1>3. ASSUME ~Orderly
      PROVE  \E e \in env.events : StaleStruct \subseteq Breaks[e]
  <2>1. "concurrent" \in env.events \/ "foreign" \in env.events
    BY <1>3 DEF Orderly
  <2>2. /\ StaleStruct \subseteq Breaks["concurrent"]
        /\ StaleStruct \subseteq Breaks["foreign"]
    BY DEF Breaks
  <2> QED
    BY <2>1, <2>2
<1>4. CASE ProcAllocPidFull(t)
  <2>1. t = Menu => UNCHANGED panic
    BY <1>4 DEF ProcAllocPidFull, Check
  <2>2. t # Menu => "full" \in env.events /\ panic' = "null p_new"
    BY <1>4 DEF ProcAllocPidFull, Check
  <2>3. "null p_new" \in Breaks["full"]
    BY DEF Breaks
  <2> QED
    BY <1>2, <2>1, <2>2, <2>3, BreaksMay
<1>5. CASE ProcGetLock(t)
  <2>1. pc[t] = "getlock"
    BY <1>5 DEF ProcGetLock, At
  <2>2. UNCHANGED panic \/ (~Orderly /\ panic' = "freed lock")
    BY <1>5, <2>1, GetLive DEF ProcGetLock, SetPanic
  <2>3. "freed lock" \in StaleStruct
    BY DEF StaleStruct
  <2> QED
    BY <1>2, <1>3, <2>2, <2>3, BreaksMay
<1>6. CASE WaitpidReap(t)
  <2>1. pc[t] = "reap"
    BY <1>6 DEF WaitpidReap, At
  <2>2. proc[arg[t].p].p_is_dead
    BY <1>1, <2>1 DEF StructsRight, ReapDead
  <2> QED
    BY <1>2, <1>6, <2>2 DEF WaitpidReap, Check
<1>7. CASE ProcDestroy(t)
  <2>1. pc[t] = "destroy" /\ panic = "none"
    BY <1>7 DEF ProcDestroy, At
  <2>2. \/ UNCHANGED panic
        \/ ~Orderly /\ panic' = "lock destroyed while held"
    BY <1>7, <2>1, DestroyUnlocked DEF ProcDestroy, Check
  <2>3. "lock destroyed while held" \in StaleStruct
    BY DEF StaleStruct
  <2> QED
    BY <1>2, <1>3, <2>2, <2>3, BreaksMay
<1>8. CASE ProcDeallocPid(t)
  <2>1. pc[t] \in {"dealloc", "undo"}
    BY <1>8 DEF ProcDeallocPid, At
  <2>2. CASE pc[t] = "undo"
    <3>1. "nomem" \in env.events
      BY <2>2 DEF UndoRight
    <3>2. UNCHANGED panic \/ panic' \in {"slot empty", "null p_new"}
      BY <1>8 DEF ProcDeallocPid
    <3>3. {"slot empty", "null p_new"} \subseteq Breaks["nomem"]
      BY DEF Breaks
    <3> QED
      BY <1>2, <3>1, <3>2, <3>3, BreaksMay
  <2>3. CASE pc[t] = "dealloc" /\ "concurrent" \in env.events
    <3>1. UNCHANGED panic \/ panic' = "slot empty"
      BY <1>8, <2>3 DEF ProcDeallocPid
    <3>2. "slot empty" \in Breaks["concurrent"]
      BY DEF Breaks
    <3> QED
      BY <1>2, <2>3, <3>1, <3>2, BreaksMay
  <2>4. CASE pc[t] = "dealloc" /\ "concurrent" \notin env.events
    <3>1. p_table[arg[t].pid] # NULL
      BY <2>4 DEF SlotInv, SlotsRight, Leaving
    <3> QED
      BY <1>2, <1>8, <2>4, <3>1 DEF ProcDeallocPid
  <2> QED
    BY <2>1, <2>2, <2>3, <2>4
<1>9. CASE ExitUnlock(t)
  BY <1>2, <1>9, ExitUnlockKeeps
<1>10. CASE ~(\/ ProcAllocPidFull(t) \/ ProcGetLock(t) \/ WaitpidReap(t)
              \/ ProcDestroy(t) \/ ProcDeallocPid(t) \/ ExitUnlock(t))
  <2>1. UNCHANGED panic
    BY <1>10 DEF Steps, Step, ProcAllocPid, ProcNoMem, Exits, SysExit,
       Waitpid, ProcGetFails, ProcGet, ForkChildReturn, RunprogramFails,
       WaitpidCheck, WaitpidP, ExitV, ExitLock, SysForkFails, SysFork,
       ProcKmalloc, ProcAddToAllproc
  <2> QED
    BY <1>2, <2>1
<1> QED
  BY <1>4, <1>5, <1>6, <1>7, <1>8, <1>9, <1>10

\* No assertion of the process code fails, no pointer is NULL and no freed
\* lock is taken, but by what the events of the environment may break.
THEOREM ProcNoPanic == Spec => []NoPanic
<1>1. Init => UndoRight /\ NoPanic
  BY DEF Init, UndoRight, NoPanic
<1>2. HeapInv /\ SlotInv /\ KidInv /\ UndoRight /\ NoPanic /\ [Next]_vars
        => UndoRight' /\ NoPanic'
  <2> SUFFICES ASSUME HeapInv, SlotInv, KidInv, UndoRight, NoPanic,
                      [Next]_vars
               PROVE  UndoRight' /\ NoPanic'
    OBVIOUS
  <2>1. CASE UNCHANGED vars
    BY <2>1 DEF vars, UndoRight, NoPanic
  <2>2. CASE Next
    <3>1. PICK t \in Threads : Steps(t)
      BY <2>2 DEF Next, Steps
    <3>2. env' = env
      BY SlotNext
    <3> QED
      BY <3>1, <3>2, UndoNext, NoPanicNext
  <2> QED
    BY <2>1, <2>2
<1> QED
  BY <1>1, <1>2, ProcAlways, PTL DEF Spec

=============================================================================
