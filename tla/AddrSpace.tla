----------------------------- MODULE AddrSpace -----------------------------
(***************************************************************************)
(* Address spaces under dumbvm, and what a process does to them: faults,   *)
(* loading a program, fork, execv, exit, and system calls that copy to and *)
(* from it, with threads that move between processors.  Addresses are      *)
(* counted in pages; a page's contents are one value.                      *)
(***************************************************************************)
EXTENDS Ram, Sequences

CONSTANTS
    CPUs,                  \* of which a machine has budget.cpus
    NUM_TLB,
    AsIds,                 \* the struct addrspaces there may be, numbered
    USERSTACK,             \* the page after the stack's last one
    DUMBVM_STACKPAGES,
    Programs               \* sequences of segments: p_vaddr, p_memsz and
                           \* p_filesz, all in bytes

\* What a program or the machine may do that the kernel is not up to.
AsEvents == {"huge", "one segment", "empty segment", "page 0", "many pages",
             "bad access", "read", "getcwd", "long arguments"}
\* struct addrspace
Addrspace == [vbase1 : Nat, pbase1 : Nat, npages1 : Nat, vbase2 : Nat,
              pbase2 : Nat, npages2 : Nat, stackpbase : Nat]
ASSUME AsAssumptions ==
    /\ \A s \in Settings : s.env \subseteq AsEvents
    /\ AsIds \subseteq Nat /\ NULL \notin AsIds \union Addrspace
    /\ NUM_TLB \in Nat
    /\ USERSTACK \in 1 .. (ADDRPAGES - 1)
    /\ DUMBVM_STACKPAGES \in 1 .. (USERSTACK - 1)
    /\ ~Wraps(DUMBVM_STACKPAGES)

\* What as_define_region makes of a segment: a first page, and a number of
\* pages that is 0 for an empty one or when the sum wraps around.
SegBase(s) == s.vaddr \div PAGE_SIZE
SegSize(s) == RoundedPages((s.vaddr % PAGE_SIZE) + s.memsz)

\* Programs that load_elf does not refuse (LoadError): with no third region,
\* and from the file nothing beyond the top of the stack, but something.
ASSUME ProgramAssumptions ==
    \A prog \in Programs :
        /\ prog \in Seq([vaddr : Nat, memsz : Nat, filesz : Nat])
        /\ Len(prog) \in 1 .. 3
        /\ Len(prog) = 3 => SegBase(prog[1]) = 0 \/ SegBase(prog[2]) = 0
        /\ \A i \in DOMAIN prog :
             /\ prog[i].filesz <= prog[i].memsz
             /\ prog[i].vaddr + prog[i].filesz <= USERSTACK * PAGE_SIZE
        /\ \E i \in DOMAIN prog : prog[i].filesz > 0

VARIABLES
    as,            \* of each struct addrspace its fields, or NULL
    t_addrspace,
    c_curthread,   \* of each processor; NULL when it is idle
    tlb,           \* of each processor: its valid entries, from the first on
    mem,           \* the contents of each physical page
    view,          \* not in the code: what a process should find at a page
    pc, loc,
    lk_exec,       \* who holds it, or NULL
    kargbuf        \* whose arguments it has

asvars == <<as, t_addrspace>>
hwvars == <<c_curthread, tlb>>
memvars == <<mem, view>>
thvars == <<pc, loc, lk_exec, kargbuf>>
avars == <<asvars, hwvars, memvars, thvars>>

Pages == FIRSTPADDR .. (LASTPADDR - 1)
VPages == 0 .. (USERSTACK - 1)
NewAs == [vbase1 |-> 0, pbase1 |-> 0, npages1 |-> 0,
          vbase2 |-> 0, pbase2 |-> 0, npages2 |-> 0, stackpbase |-> 0]
NoLocals == [prog |-> << >>, todo |-> << >>, fault |-> << >>,
             new |-> NULL, old |-> NULL, child |-> NULL, exec |-> FALSE]

AsInit ==
    /\ as = [a \in AsIds |-> NULL]
    /\ t_addrspace = [t \in Threads |-> NULL]
    /\ \E cs \in SUBSET CPUs : /\ Cardinality(cs) = budget.cpus
                              /\ c_curthread = [c \in cs |-> NULL]
                              /\ tlb = [c \in cs |-> << >>]
    /\ mem = [p \in Pages |-> "junk"]
    /\ view = [a \in AsIds |-> [v \in VPages |-> "none"]]
    /\ pc = [t \in Threads |-> "new"]
    /\ loc = [t \in Threads |-> NoLocals]
    /\ lk_exec = NULL /\ kargbuf = NULL

Boards == DOMAIN c_curthread

\* A thread takes a step on the processor it is on.
On(t) == {c \in Boards : c_curthread[c] = t}
AtAny(t, labels) == panic = "none" /\ On(t) # {} /\ pc[t] \in labels
                    /\ UNCHANGED env
At(t, label) == AtAny(t, {label})
Spend(kind) == /\ budget[kind] > 0
               /\ budget' = [budget EXCEPT ![kind] = @ - 1]
Call(t, label) == At(t, label) /\ Spend("proc")
Goto(t, label, l) == /\ pc' = [pc EXCEPT ![t] = label]
                     /\ loc' = [loc EXCEPT ![t] = l]
Panic(why) == /\ panic' = why
              /\ UNCHANGED <<firstpaddr, avars>>

(***************************************************************************)
(* Translation.                                                            *)
(***************************************************************************)
\* The three regions, as <<first page, number of pages, physical page>>.
Regions(a) == << <<a.vbase1, a.npages1, a.pbase1>>,
                 <<a.vbase2, a.npages2, a.pbase2>>,
                 <<USERSTACK - DUMBVM_STACKPAGES, DUMBVM_STACKPAGES,
                   a.stackpbase>> >>
Holds(r, v) == r[1] <= v /\ v < (r[1] + r[2]) % ADDRPAGES
\* vm_fault's paddr, or 0.
Translate(a, v) ==
    LET in == {i \in 1 .. 3 : Holds(Regions(a)[i], v)}
        i == CHOOSE k \in in : \A m \in in : k <= m
        r == Regions(a)[i]
    IN  IF in = {} THEN 0 ELSE r[3] + (v - r[1])
SetUp(a) == \A f \in DOMAIN NewAs : a[f] # 0

Hit(t, v) == \E c \in On(t) : \E i \in DOMAIN tlb[c] : tlb[c][i].v = v
Paddr(t, v) == LET c == CHOOSE x \in On(t) : TRUE
                   i == CHOOSE k \in DOMAIN tlb[c] : tlb[c][k].v = v
               IN  tlb[c][i].p

\* as_activate: every entry goes.
Flush(t) == /\ tlb' = [c \in Boards |-> IF c \in On(t) THEN << >> ELSE tlb[c]]
            /\ UNCHANGED c_curthread

\* There is no memory behind the entry: the processor takes a bus error.
NoRam(t, v) == Paddr(t, v) \notin Pages

\* The contents of page v change, through the TLB; what the process of t
\* should see there changes with it.
Store(t, v, x) ==
    /\ mem' = [mem EXCEPT ![Paddr(t, v)] = x]
    /\ view' = [view EXCEPT ![t_addrspace[t]][v] = x]

(***************************************************************************)
(* Threads on processors: thread_switch, at any moment.                    *)
(***************************************************************************)
\* (Threads that have nothing more to do are left alone.)
Busy == budget.proc > 0 \/ \E t \in Threads : pc[t] # "new"
Activates_not(t) == FALSE  \* mutant
Activates(t) == t_addrspace[t] # NULL
Switch(c, t) ==
    /\ panic = "none" /\ Busy /\ On(t) \subseteq {c}
    /\ c_curthread' = [c_curthread EXCEPT ![c] = t]
    /\ tlb' = IF Activates(t) THEN [tlb EXCEPT ![c] = << >>] ELSE tlb
    /\ UNCHANGED <<asvars, memvars, thvars, ramvars>>

\* The thread goes to sleep in the kernel and there is no other: the processor
\* idles, its TLB as it is.
Idle(c) ==
    /\ panic = "none" /\ Busy /\ c_curthread[c] # NULL
    /\ pc[c_curthread[c]] # "user"
    /\ c_curthread' = [c_curthread EXCEPT ![c] = NULL]
    /\ UNCHANGED <<tlb, asvars, memvars, thvars, ramvars>>

(***************************************************************************)
(* The end of a load that fails, and of a process.                         *)
(***************************************************************************)
\* sys_execv goes back to the old address space; what was loaded is lost.
ExecFails(t) ==
    LET l == loc[t] IN
    /\ t_addrspace' = [t_addrspace EXCEPT ![t] = l.old]
    /\ as' = [as EXCEPT ![t_addrspace[t]] = NULL]
    /\ Flush(t)
    /\ lk_exec' = NULL
    /\ Goto(t, "user", NoLocals)
    /\ UNCHANGED <<memvars, kargbuf>>

\* thread_exit; runprogram's thread goes there when it fails.
ThreadExit(t) ==
    /\ t_addrspace' = [t_addrspace EXCEPT ![t] = NULL]
    /\ as' = IF t_addrspace[t] = NULL THEN as
             ELSE [as EXCEPT ![t_addrspace[t]] = NULL]
    /\ IF t_addrspace[t] = NULL THEN UNCHANGED hwvars ELSE Flush(t)
    /\ Goto(t, "new", NoLocals)
    /\ UNCHANGED <<memvars, lk_exec, kargbuf>>

LoadFails(t) == IF loc[t].exec THEN ExecFails(t) ELSE ThreadExit(t)

(***************************************************************************)
(* TLB faults.                                                             *)
(***************************************************************************)
\* The page that the kernel is about to copy to, in a load, with the arguments
\* of execv and for a system call.
Copying == {"load", "args", "copy", "printf"}
Wanted(t) == Head(loc[t].todo)

\* vm_fault, with interrupts on: mips_trap ends in copyfail when it fails on
\* behalf of a copy, and in a panic otherwise.
FaultFails(t) ==
    CASE pc[t] \in {"load", "args"} -> /\ LoadFails(t)
                                       /\ UNCHANGED <<firstpaddr, panic>>
      [] pc[t] = "copy" -> /\ Goto(t, "user", NoLocals)
                           /\ UNCHANGED <<asvars, hwvars, memvars, lk_exec,
                                          kargbuf, firstpaddr, panic>>
      [] pc[t] = "printf" -> Panic("kernel fault")
      [] OTHER -> Panic("user fault")

VmFault(t, v) ==
    LET a == as[t_addrspace[t]]
        p == Translate(a, v)
    IN
    /\ ~Hit(t, v) /\ loc[t].fault = << >>
    /\ IF ~SetUp(a) THEN Panic("as not set up")
       ELSE IF p = 0 THEN FaultFails(t)
       ELSE /\ Goto(t, pc[t], [loc[t] EXCEPT !.fault = <<v, p>>])
            /\ UNCHANGED <<asvars, hwvars, memvars, lk_exec, kargbuf,
                           firstpaddr, panic>>
    /\ UNCHANGED budget

\* The entry is made, with interrupts off, on whatever processor this is now.
Full(c) == Len(tlb[c]) = NUM_TLB
TlbWrite(t) ==
    LET f == loc[t].fault
        c == CHOOSE x \in On(t) : TRUE
    IN
    /\ AtAny(t, {"user"} \union Copying)
    /\ f # << >>
    /\ IF Full(c) THEN FaultFails(t)
       ELSE /\ tlb' = [tlb EXCEPT ![c] = Append(@, [v |-> f[1], p |-> f[2]])]
            /\ Goto(t, pc[t], [loc[t] EXCEPT !.fault = << >>])
            /\ UNCHANGED <<c_curthread, asvars, memvars, lk_exec, kargbuf,
                           firstpaddr, panic>>
    /\ UNCHANGED budget

CopyFault(t) == /\ AtAny(t, Copying) /\ loc[t].todo # << >>
                /\ VmFault(t, Wanted(t))

(***************************************************************************)
(* Loading a program: runprogram, and execv after its arguments are in     *)
(* kargbuf.                                                                *)
(***************************************************************************)
\* as_define_region: a region with base 0 counts as not defined yet.
AsDefineRegion(a, s) ==
    IF a.vbase1 = 0
    THEN [a EXCEPT !.vbase1 = SegBase(s), !.npages1 = SegSize(s)]
    ELSE [a EXCEPT !.vbase2 = SegBase(s), !.npages2 = SegSize(s)]
Define(a, prog, i) ==
    IF i \in DOMAIN prog THEN AsDefineRegion(a, prog[i]) ELSE a
Defined(prog) == Define(Define(Define(NewAs, prog, 1), prog, 2), prog, 3)

\* What comes from the file; the rest of a segment stays zero.
FilePages(s) ==
    IF s.filesz = 0 THEN 0 ELSE WholePages((s.vaddr % PAGE_SIZE) + s.filesz)
SegmentPages(prog, i) ==
    IF i \in DOMAIN prog
    THEN [k \in 1 .. FilePages(prog[i]) |-> SegBase(prog[i]) + k - 1]
    ELSE << >>
LoadPages(prog) ==
    SegmentPages(prog, 1) \o SegmentPages(prog, 2) \o SegmentPages(prog, 3)

\* The struct that as_create gets, if there is one: which does not matter.
FreshAs == {a \in AsIds : /\ as[a] = NULL
                          /\ \A b \in AsIds : as[b] = NULL => a <= b}

\* as_create, as_activate and the first loop of load_elf.
Create(t, prog, l) ==
    \E a \in FreshAs :
        /\ t_addrspace' = [t_addrspace EXCEPT ![t] = a]
        /\ Flush(t)
        /\ as' = [as EXCEPT ![a] = Defined(prog)]
        /\ Goto(t, "prepare", [l EXCEPT !.prog = prog, !.new = a])
        /\ UNCHANGED <<memvars, lk_exec, kargbuf, firstpaddr, panic>>

\* Programs are of two segments, each of a page or more, none in page 0, of a
\* size that memory could have, and use no more pages than the TLB has entries,
\* but for these environments.
LastPage == USERSTACK - 1
Mapped(a) == {v \in VPages : Translate(a, v) # 0}
InUse(prog) ==
    {LoadPages(prog)[i] : i \in DOMAIN LoadPages(prog)} \union {LastPage}
    \union {v \in budget.touched :
              \E k \in 1 .. 3 : Holds(Regions(Defined(prog))[k], v)}
MayRun(prog) ==
    /\ Len(prog) = 1 => "one segment" \in env
    /\ (\E i \in DOMAIN prog : SegSize(prog[i]) = 0) => "empty segment" \in env
    /\ (\E i \in DOMAIN prog : SegBase(prog[i]) = 0) => "page 0" \in env
    /\ (\E i \in DOMAIN prog : Wraps(SegSize(prog[i]))) => "huge" \in env
    /\ Cardinality(InUse(prog)) > NUM_TLB => "many pages" \in env

Runprogram(t, prog) ==
    /\ Call(t, "new")
    /\ MayRun(prog)
    /\ Create(t, prog, NoLocals)

\* as_prepare_load: one of three calls of getppages, and the zeros at last.
Field(a) == IF a.pbase1 = 0 THEN "pbase1"
            ELSE IF a.pbase2 = 0 THEN "pbase2" ELSE "stackpbase"
Npages(a) == CASE Field(a) = "pbase1" -> a.npages1
               [] Field(a) = "pbase2" -> a.npages2
               [] OTHER -> DUMBVM_STACKPAGES
Zeroed(a, id) ==
    /\ mem' = [p \in Pages |->
                 IF \E v \in Mapped(a) : p = Translate(a, v) THEN "zero"
                 ELSE mem[p]]
    /\ view' = [view EXCEPT ![id] = [v \in VPages |->
                  IF v \in Mapped(a) THEN "zero" ELSE "none"]]

Prepare(t, label, next, todo, Fails) ==
    LET id == loc[t].new
        a == as[id]
        n == Npages(a)
        b == [a EXCEPT ![Field(a)] = firstpaddr]
    IN
    /\ At(t, label)
    /\ Advance(n)
    /\ IF Getppages(n) = 0 THEN Fails
       ELSE /\ as' = [as EXCEPT ![id] = b]
            /\ IF Field(a) = "stackpbase"
               THEN /\ Zeroed(b, id)
                    /\ Goto(t, next, [loc[t] EXCEPT !.todo = todo])
               ELSE UNCHANGED <<memvars, pc, loc>>
            /\ UNCHANGED <<t_addrspace, hwvars, lk_exec, kargbuf>>
    /\ UNCHANGED <<budget, panic>>

PrepareLoad(t) ==
    Prepare(t, "prepare", "load", LoadPages(loc[t].prog), LoadFails(t))

\* By copyout: a page of a segment in the second loop of load_elf, then the
\* arguments at the top of the stack, or what a system call returns.
Copied(t, rest) ==
    LET l == [loc[t] EXCEPT !.todo = rest] IN
    IF rest # << >> \/ pc[t] = "args" THEN Goto(t, pc[t], l)
    ELSE IF l.exec THEN Goto(t, "args", [l EXCEPT !.todo = <<LastPage>>])
    ELSE Goto(t, "user", NoLocals)
CopyPage(t) ==
    LET l == loc[t]
        x == CASE pc[t] = "args" -> kargbuf
               [] pc[t] = "copy" -> t
               [] OTHER -> "program"
    IN
    /\ AtAny(t, {"load", "args", "copy"}) /\ l.todo # << >>
    /\ Hit(t, Wanted(t))
    /\ IF NoRam(t, Wanted(t)) THEN Panic("bus error")
       ELSE /\ Store(t, Wanted(t), x)
            /\ Copied(t, Tail(l.todo))
            /\ UNCHANGED <<asvars, hwvars, lk_exec, kargbuf, firstpaddr,
                           panic>>
    /\ UNCHANGED budget

\* The file cannot be read, or is not what it should be.
LoadError(t) ==
    /\ AtAny(t, {"prepare", "load"})
    /\ Spend("errors")
    /\ LoadFails(t)
    /\ UNCHANGED <<firstpaddr, panic>>

(***************************************************************************)
(* execv.                                                                  *)
(***************************************************************************)
\* The name, the file and copy_args, under lk_exec; each of them may fail.
LockFree_always == TRUE  \* mutant
LockFree == lk_exec = NULL
Execv(t, prog) ==
    /\ Call(t, "user") /\ loc[t].fault = << >>
    /\ LockFree
    /\ MayRun(prog)
    /\ lk_exec' = t
    /\ kargbuf' = t
    /\ Goto(t, "create", [NoLocals EXCEPT !.prog = prog, !.exec = TRUE,
                                          !.old = t_addrspace[t]])
    /\ UNCHANGED <<asvars, hwvars, memvars, firstpaddr, panic>>

\* Arguments for which kargbuf is too small: copy_args does not look.
ExecvOverflows(t) ==
    /\ At(t, "user") /\ loc[t].fault = << >>
    /\ LockFree
    /\ "long arguments" \in env
    /\ Panic("beyond kargbuf") /\ UNCHANGED budget

ExecvCreate(t) ==
    /\ At(t, "create")
    /\ \/ Create(t, loc[t].prog, loc[t])
       \/ /\ lk_exec' = NULL  \* no memory
          /\ Goto(t, "user", NoLocals)
          /\ UNCHANGED <<asvars, hwvars, memvars, kargbuf, firstpaddr, panic>>
    /\ UNCHANGED budget

\* The end: the old address space goes.
Destroyed(t) == loc[t].old
ExecvEnd(t) ==
    /\ At(t, "args") /\ loc[t].todo = << >>
    /\ lk_exec' = NULL
    /\ as' = [as EXCEPT ![Destroyed(t)] = NULL]
    /\ Goto(t, "user", NoLocals)
    /\ UNCHANGED <<t_addrspace, hwvars, memvars, kargbuf, ramvars>>

(***************************************************************************)
(* fork, exit and the other system calls.                                  *)
(***************************************************************************)
\* as_copy: a new address space of the same shape, its pages by
\* as_prepare_load.
Fork(t, u) ==
    LET old == as[t_addrspace[t]] IN
    /\ Call(t, "user") /\ loc[t].fault = << >>
    /\ pc[u] = "new" /\ u # t
    /\ \E a \in FreshAs :
          /\ as' = [as EXCEPT ![a] = [NewAs EXCEPT
                      !.vbase1 = old.vbase1, !.npages1 = old.npages1,
                      !.vbase2 = old.vbase2, !.npages2 = old.npages2]]
          /\ Goto(t, "fork", [NoLocals EXCEPT !.new = a, !.child = u])
    /\ UNCHANGED <<t_addrspace, hwvars, memvars, lk_exec, kargbuf, firstpaddr,
                   panic>>

ForkFails(t) == /\ as' = [as EXCEPT ![loc[t].new] = NULL]
                /\ Goto(t, "user", NoLocals)
                /\ UNCHANGED <<t_addrspace, hwvars, memvars, lk_exec, kargbuf>>
ForkPrepare(t) == Prepare(t, "fork", "copied", << >>, ForkFails(t))

\* The contents, and thread_fork, which may fail.
PagesCopied(old, new) ==
    [p \in Pages |->
        IF \E v \in Mapped(new) : Translate(new, v) = p
        THEN mem[Translate(old, CHOOSE v \in Mapped(new) :
                                    Translate(new, v) = p)]
        ELSE mem[p]]
ForkEnd(t) ==
    LET l == loc[t]
        id == t_addrspace[t]
    IN
    /\ At(t, "copied")
    /\ \/ /\ pc[l.child] = "new"
          /\ mem' = PagesCopied(as[id], as[l.new])
          /\ view' = [view EXCEPT ![l.new] = view[id]]
          /\ pc' = [pc EXCEPT ![t] = "user", ![l.child] = "child"]
          /\ loc' = [loc EXCEPT ![t] = NoLocals,
                                ![l.child] = [NoLocals EXCEPT !.new = l.new]]
          /\ UNCHANGED <<asvars, hwvars, lk_exec, kargbuf>>
       \/ ForkFails(t)
    /\ UNCHANGED ramvars

\* fork_child_return
ChildReturn(u) ==
    /\ At(u, "child")
    /\ t_addrspace' = [t_addrspace EXCEPT ![u] = loc[u].new]
    /\ Flush(u)
    /\ Goto(u, "user", NoLocals)
    /\ UNCHANGED <<as, memvars, lk_exec, kargbuf, ramvars>>

Exit(t) ==
    /\ At(t, "user") /\ loc[t].fault = << >>
    /\ ThreadExit(t)
    /\ UNCHANGED ramvars

\* A call that copies one datum out to page v: time, waitpid, read.  sys_read
\* prints the buffer first, without copyin.
CopyCall(t, v, label) ==
    /\ At(t, "user") /\ Spend("copy") /\ loc[t].fault = << >>
    /\ label = "printf" => "read" \in env
    /\ Goto(t, label, [NoLocals EXCEPT !.todo = <<v>>])
    /\ UNCHANGED <<asvars, hwvars, memvars, lk_exec, kargbuf, firstpaddr,
                   panic>>

Printed(t) ==
    /\ At(t, "printf") /\ Hit(t, Wanted(t))
    /\ Goto(t, "copy", loc[t])
    /\ UNCHANGED <<asvars, hwvars, memvars, lk_exec, kargbuf, ramvars>>

\* sys_getcwd gives uiomove the address space of the process, which nothing
\* ever sets.
Getcwd(t) ==
    /\ At(t, "user") /\ loc[t].fault = << >>
    /\ "getcwd" \in env
    /\ Panic("not the address space") /\ UNCHANGED budget

\* User code touches a page.
UserStore(t, v) ==
    /\ At(t, "user") /\ Hit(t, v)
    /\ IF NoRam(t, v) THEN Panic("bus error")
       ELSE /\ Store(t, v, t)
            /\ UNCHANGED <<asvars, hwvars, thvars, firstpaddr, panic>>
    /\ UNCHANGED budget

UserFault(t, v) ==
    /\ At(t, "user")
    /\ Translate(as[t_addrspace[t]], v) = 0 =>
         "bad access" \in env \/ (v = 0 /\ "page 0" \in env)
    /\ VmFault(t, v)

ProcNext ==
    \/ \E c \in Boards : Idle(c) \/ \E t \in Threads : Switch(c, t)
    \/ \E t \in Threads :
          \/ TlbWrite(t) \/ CopyFault(t) \/ PrepareLoad(t)
          \/ CopyPage(t) \/ LoadError(t) \/ ExecvCreate(t)
          \/ ExecvEnd(t) \/ ForkPrepare(t) \/ ForkEnd(t) \/ ChildReturn(t)
          \/ Exit(t) \/ Printed(t) \/ Getcwd(t) \/ ExecvOverflows(t)
          \/ \E prog \in Programs : Runprogram(t, prog) \/ Execv(t, prog)
          \/ \E u \in Threads : Fork(t, u)
          \/ \E v \in budget.touched :
                \/ UserStore(t, v) \/ UserFault(t, v)
                \/ CopyCall(t, v, "copy") \/ CopyCall(t, v, "printf")

(***************************************************************************)
(* Properties.                                                             *)
(***************************************************************************)
Sane == env \cap {"huge"} = {}

\* A processor that runs a thread with an address space has no entry that
\* leads elsewhere, and no two for one page: whatever switches, migrations,
\* execs and exits there were since it was made (as_activate in thread_switch,
\* execv and thread_exit; vm_fault looks for a free entry only).
TlbRight == Sane =>
    \A c \in Boards :
        LET t == c_curthread[c]
            id == IF t = NULL THEN NULL ELSE t_addrspace[t]
        IN
        id # NULL =>
            \A i \in DOMAIN tlb[c] :
                /\ tlb[c][i].p = Translate(as[id], tlb[c][i].v)
                /\ \A k \in DOMAIN tlb[c] : tlb[c][k].v = tlb[c][i].v => k = i

\* A process finds in its memory what was loaded, copied and stored there by
\* itself, its arguments and, after a fork, its parent before it, and what
\* nobody else did (as_prepare_load, as_copy, execv's kargbuf).
Prepared(id) == as[id] # NULL /\ SetUp(as[id])
                /\ \A t \in Threads : loc[t].new = id => pc[t] # "copied"
ContentsRight == Sane =>
    /\ \A id \in AsIds : Prepared(id) =>
          \A v \in Mapped(as[id]) : mem[Translate(as[id], v)] = view[id][v]
    /\ \A t \in Threads : pc[t] = "args" => kargbuf = t

\* Every struct addrspace belongs to one thread, or to one fork or exec that
\* is under way, and is freed once: by exit, by exec or where these fail.
Owners(id) ==
    {t \in Threads : t_addrspace[t] = id \/ loc[t].old = id}
      \union {t \in Threads : /\ loc[t].new = id
                              /\ pc[t] \in {"fork", "copied", "child"}}
AsOwned ==
    /\ \A id \in AsIds :
          Cardinality(Owners(id)) = IF as[id] = NULL THEN 0 ELSE 1
    /\ \A t \in Threads : lk_exec = t <=> loc[t].exec

=============================================================================
