----------------------------- MODULE FileTable -----------------------------
(***************************************************************************)
(* Open files: the descriptor tables of kern/io/filedesc.c, the counted    *)
(* struct files of kern/io/file.c, and the system calls on them of         *)
(* kern/syscall/file_syscall.c.                                            *)
(*                                                                         *)
(* A process has one thread, so its table is used by that thread alone and *)
(* fd_lk matters only in that it exists; a struct file is shared by the    *)
(* processes a fork copied it to.  A step ends where another process can   *)
(* come in between: where f_lk is waited for, around the VOP of a read or  *)
(* a write, and between a change of f_refcount and the test of it.         *)
(* A vnode is its reference count, 0 when it is reclaimed.                 *)
(***************************************************************************)
EXTENDS Integers, FiniteSets, FiniteSetsExt

CONSTANTS
    Procs, First,    \* processes, and the one that is there at the start
    Files,           \* heap addresses for struct file; bound
    Vnodes,          \* what paths lead to
    MAX_OPEN_FILES,  \* entries of a table
    OPEN_MAX,        \* what the system calls check descriptors against
    MaxOffset,       \* bound on f_offset
    MaxLeak,         \* bound on references leaked to a vnode
    Modes,           \* access modes that programs open with
    Environments,    \* sets of events of EnvEvents, one of them for good
    NULL

\* "overlap": two processes in a read, write or lseek of one file at a time.
\* "close" and "dup2": the system calls of these names.  "full": open with
\* no free entry.  "stat": VOP_STAT fails for O_APPEND.  "nomem": kmalloc or
\* lock_create fails.  "badfd": a descriptor past the table, below OPEN_MAX.
\* "flags": open with more than an access mode.
EnvEvents == {"overlap", "close", "dup2", "full", "stat", "nomem", "badfd",
              "flags"}

ASSUME FileTableAssumptions ==
    /\ First \in Procs
    /\ MAX_OPEN_FILES \in Nat \ {0}
    /\ OPEN_MAX \in Nat /\ OPEN_MAX >= MAX_OPEN_FILES
    /\ MaxOffset \in Nat
    /\ NULL \notin Procs \union Files
    /\ Modes \subseteq {"rdonly", "wronly", "rdwr", "badmode"}
    /\ \A e \in Environments : e \subseteq EnvEvents

Fds == 0 .. MAX_OPEN_FILES - 1

\* The flags of open: an access mode and others, of which only O_APPEND is
\* looked at ("others": O_CREAT, O_EXCL, O_TRUNC, O_NOCTTY).
Flags == [acc : Modes, more : SUBSET {"append", "others"}]
Only(mode) == [acc |-> mode, more |-> {}]

\* The values of the counts of descriptors, which are uint16_t.
WORD == 65536
Uint16(n) == n % WORD

\* All descriptors together are fewer: 32 processes of 8 each.
ASSUME CountsFit ==
    IsFiniteSet(Procs) /\ IsFiniteSet(Files)
      /\ Cardinality(Procs \X Fds) < WORD

VARIABLES
    fd_ofiles,    \* each process's table
    fd_nfiles,
    fd_lk,        \* whether the lock of the table exists
    file,         \* what is at each heap address
    vn_refcount,
    pc,
    loc,          \* locals of the call: descriptor, file, offset, child
    env, panic

vars == <<fd_ofiles, fd_nfiles, fd_lk, file, vn_refcount, pc, loc, env, panic>>
tables == <<fd_ofiles, fd_nfiles, fd_lk>>

FreeFile == [live |-> FALSE]
NoLoc == [fd |-> 0, f |-> NULL, op |-> "none", off |-> 0, child |-> NULL]

Init ==
    /\ fd_ofiles = [p \in Procs |-> [i \in Fds |-> NULL]]
    /\ fd_nfiles = [p \in Procs |-> 0]
    /\ fd_lk = [p \in Procs |-> p = First]
    /\ file = [f \in Files |-> FreeFile]
    /\ vn_refcount = [v \in Vnodes |-> 0]
    /\ pc = [p \in Procs |-> IF p = First THEN "run" ELSE "none"]
    /\ loc = [p \in Procs |-> NoLoc]
    /\ env \in Environments
    /\ panic = "none"

At(p, label) == panic = "none" /\ pc[p] = label /\ UNCHANGED env
Goto(p, label) == pc' = [pc EXCEPT ![p] = label]
Enter(p, locals) == loc' = [loc EXCEPT ![p] = locals]
Check(ok, why) == panic' = IF ok THEN "none" ELSE why
Panic(why) ==
    panic' = why /\ UNCHANGED <<tables, file, vn_refcount, pc, loc>>

\* A step A of p that takes its table's lock and uses the file f.
Using(p, f, A) ==
    \/ ~fd_lk[p] /\ Panic("freed fd_lk")
    \/ fd_lk[p] /\ ~file[f].live /\ Panic("freed file")
    \/ fd_lk[p] /\ file[f].live /\ A

\* What the system calls find under fd.  They check fd against OPEN_MAX only;
\* past the table is other memory.
FileAt(p, fd) == IF fd \in Fds THEN fd_ofiles[p][fd] ELSE NULL
Lookup(p, fd, A) ==
    /\ At(p, "run")
    /\ \/ FileAt(p, fd) # NULL /\ A
       \/ "badfd" \in env /\ fd \in MAX_OPEN_FILES .. OPEN_MAX + 1
                          /\ Panic("past the table")

\* vnode_decref: the last reference is reclaimed, and there must be one.
Decref(v) ==
    /\ vn_refcount' = [vn_refcount EXCEPT ![v] = @ - 1]
    /\ Check(vn_refcount[v] > 0, "freed vnode")

Overlaps(p, f) ==
    \E q \in Procs \ {p} : pc[q] \in {"io", "seek"} /\ loc[q].f = f

(***************************************************************************)
(* k_open: vfs_open, a struct file with no references, fd_attach, and then *)
(* a reference from the table and one more to the vnode.                   *)
(***************************************************************************)
ValidFlags(flags) == flags.acc \in {"rdonly", "wronly", "rdwr"}

FreeFds(p) == {i \in Fds : fd_ofiles[p][i] = NULL}

\* fd_attach: the first free entry.
FdAttach(p, f) ==
    /\ fd_ofiles' = [fd_ofiles EXCEPT ![p][Min(FreeFds(p))] = f]
    /\ fd_nfiles' = [fd_nfiles EXCEPT ![p] = Uint16(@ + 1)]

NewFile(v, flags, off) ==
    [live |-> TRUE, f_vnode |-> v, f_oflags |-> flags, f_refcount |-> 1,
     f_offset |-> off, f_lk |-> NULL,
     moved |-> off]  \* not in the code: the start plus the bytes moved since

\* With O_APPEND the offset is what VOP_STAT gives as the size.
KOpen(p, v, flags, off) ==
    /\ At(p, "run")
    /\ ValidFlags(flags)
    /\ "flags" \in env \/ flags.more = {}
    /\ off = 0 \/ "append" \in flags.more
    /\ FreeFds(p) # {}
    /\ \/ ~fd_lk[p] /\ Panic("freed fd_lk")
       \/ /\ fd_lk[p]
          /\ \E f \in Files :
               /\ ~file[f].live
               /\ FdAttach(p, f)
               /\ file' = [file EXCEPT ![f] = NewFile(v, flags, off)]
          /\ vn_refcount' = [vn_refcount EXCEPT ![v] = @ + 2]
          /\ UNCHANGED <<fd_lk, pc, loc, panic>>

\* VOP_STAT or fd_attach fails: vfs_close, and des_file closes once more.
KOpenUndone(p, v) ==
    /\ At(p, "run")
    /\ "stat" \in env \/ ("full" \in env /\ FreeFds(p) = {} /\ fd_lk[p])
    /\ Decref(v)
    /\ UNCHANGED <<tables, file, pc, loc>>

\* kmalloc fails and the vnode stays referenced; or lock_create does, and
\* k_open goes on with a struct it has freed.
KOpenNoMem(p, v) ==
    /\ At(p, "run")
    /\ "nomem" \in env
    /\ \/ /\ vn_refcount[v] < MaxLeak
          /\ vn_refcount' = [vn_refcount EXCEPT ![v] = @ + 1]
          /\ UNCHANGED <<tables, file, pc, loc, panic>>
       \/ Panic("freed file")

(***************************************************************************)
(* sys_read and sys_write: f_offset is read with the table's lock held and *)
(* written after the VOP, which waits for the vnode and may fail.          *)
(***************************************************************************)
Against(op) == IF op = "read" THEN "wronly" ELSE "rdonly"

\* The flags are compared without O_ACCMODE: who opened with more than the
\* mode is refused nothing.
Permitted(f, op) == file[f].f_oflags # Only(Against(op))

IoStart(p, fd, op) ==
    LET f == FileAt(p, fd) IN
    Lookup(p, fd,
        /\ "overlap" \in env \/ ~Overlaps(p, f)
        /\ Using(p, f,
             /\ Permitted(f, op)
             /\ Enter(p, [NoLoc EXCEPT !.fd = fd, !.f = f, !.op = op,
                                       !.off = file[f].f_offset])
             /\ Goto(p, "io")
             /\ UNCHANGED <<tables, file, vn_refcount, panic>>))

Advance_not(f, off) == file[f].f_offset  \* mutant
Advance(f, off) == off

\* n is 0 at the end of the file, or when the VOP fails.
IoEnd(p, n) ==
    LET f == loc[p].f
        off == loc[p].off + n
    IN
    /\ At(p, "io")
    /\ off <= MaxOffset
    /\ Using(p, f,
         /\ file' = [file EXCEPT
                       ![f].f_offset = IF n = 0 THEN @ ELSE Advance(f, off),
                       ![f].moved = @ + n]
         /\ Enter(p, NoLoc)
         /\ Goto(p, "run")
         /\ UNCHANGED <<tables, vn_refcount, panic>>)

(***************************************************************************)
(* sys_lseek, on a file that get_file returns locked.                      *)
(***************************************************************************)
LseekStart(p, fd) ==
    LET f == fd_ofiles[p][fd] IN
    /\ At(p, "run")
    /\ f # NULL
    /\ "overlap" \in env \/ ~Overlaps(p, f)
    /\ Using(p, f,
         /\ file[f].f_lk = NULL
         /\ file' = [file EXCEPT ![f].f_lk = p]
         /\ Enter(p, [NoLoc EXCEPT !.fd = fd, !.f = f])
         /\ Goto(p, "seek")
         /\ UNCHANGED <<tables, vn_refcount, panic>>)

LseekRefused_locked(f) == UNCHANGED file  \* mutant
LseekRefused(f) == file' = [file EXCEPT ![f].f_lk = NULL]

\* SEEK_SET, SEEK_CUR and SEEK_END reach every offset; whence may be wrong,
\* VOP_STAT fail and VOP_TRYSEEK refuse.
LseekEnd(p, off) ==
    LET f == loc[p].f IN
    /\ At(p, "seek")
    /\ Using(p, f,
         /\ \/ file' = [file EXCEPT ![f].f_offset = off, ![f].moved = off,
                                    ![f].f_lk = NULL]
            \/ LseekRefused(f)
         /\ Enter(p, NoLoc)
         /\ Goto(p, "run")
         /\ UNCHANGED <<tables, vn_refcount, panic>>)

(***************************************************************************)
(* sys_close: the entry is cleared only with the last reference, and then  *)
(* the lock destroyed is the table's.  The vnode keeps one reference.      *)
(***************************************************************************)
CloseStart(p, fd) ==
    LET f == FileAt(p, fd) IN
    /\ "close" \in env
    /\ Lookup(p, fd, Using(p, f,
         /\ Check(file[f].f_refcount > 0, "refcount")
         /\ file' = [file EXCEPT ![f].f_refcount = Uint16(@ - 1)]
         /\ Enter(p, [NoLoc EXCEPT !.fd = fd, !.f = f])
         /\ Goto(p, "close")
         /\ UNCHANGED <<tables, vn_refcount>>))

CloseEnd(p) ==
    LET f == loc[p].f IN
    /\ At(p, "close")
    /\ Using(p, f,
         /\ \/ /\ file[f].f_refcount = 0
               /\ Decref(file[f].f_vnode)
               /\ fd_lk' = [fd_lk EXCEPT ![p] = FALSE]
               /\ file' = [file EXCEPT ![f] = FreeFile]
               /\ fd_ofiles' = [fd_ofiles EXCEPT ![p][loc[p].fd] = NULL]
            \/ /\ file[f].f_refcount # 0
               /\ UNCHANGED <<vn_refcount, fd_lk, file, fd_ofiles, panic>>
         /\ Enter(p, NoLoc)
         /\ Goto(p, "run")
         /\ UNCHANGED fd_nfiles)

(***************************************************************************)
(* sys_dup2: onto an entry in use, it gives back a reference of the file   *)
(* it copied instead of the one it replaced.  fd_nfiles is not touched.    *)
(***************************************************************************)
Dup2Start(p, old, new) ==
    LET f == FileAt(p, old) IN
    /\ "dup2" \in env
    /\ old # new
    /\ new \in Fds
    /\ Lookup(p, old, Using(p, f,
         /\ fd_ofiles' = [fd_ofiles EXCEPT ![p][new] = f]
         /\ file' = [file EXCEPT ![f].f_refcount = Uint16(@ + 1)]
         /\ Enter(p, [NoLoc EXCEPT !.f = f])
         /\ Goto(p, IF fd_ofiles[p][new] = NULL THEN "run" ELSE "dup2")
         /\ UNCHANGED <<fd_nfiles, fd_lk, vn_refcount, panic>>))

\* The descriptor to copy to is looked up past the table, and written there.
Dup2Past(p, old, new) ==
    /\ "badfd" \in env
    /\ At(p, "run")
    /\ fd_ofiles[p][old] # NULL
    /\ new \in MAX_OPEN_FILES .. OPEN_MAX - 1
    /\ Panic("past the table")

Dup2End(p) ==
    LET f == loc[p].f IN
    /\ At(p, "dup2")
    /\ Using(p, f,
         /\ file' = [file EXCEPT ![f].f_refcount = Uint16(@ - 1)]
         /\ \/ /\ file[f].f_refcount = 1  \* the table itself is freed
               /\ fd_lk' = [fd_lk EXCEPT ![p] = FALSE]
               /\ Decref(file[f].f_vnode)
            \/ /\ file[f].f_refcount # 1
               /\ UNCHANGED <<fd_lk, vn_refcount, panic>>
         /\ Enter(p, NoLoc)
         /\ Goto(p, "run")
         /\ UNCHANGED <<fd_ofiles, fd_nfiles>>)

(***************************************************************************)
(* fork: proc_copy makes a table (fd_create) and file_copy fills it, file  *)
(* by file, each locked meanwhile.                                         *)
(***************************************************************************)
Fork(p, q) ==
    /\ At(p, "run")
    /\ pc[q] = "none"
    /\ \/ ~fd_lk[p] /\ Panic("freed fd_lk")
       \/ /\ fd_lk[p]
          /\ fd_lk' = [fd_lk EXCEPT ![q] = TRUE]
          /\ fd_ofiles' = [fd_ofiles EXCEPT ![q] = [i \in Fds |-> NULL]]
          /\ fd_nfiles' = [fd_nfiles EXCEPT ![q] = 0]
          /\ pc' = [pc EXCEPT ![p] = "copy", ![q] = "born"]
          /\ Enter(p, [NoLoc EXCEPT !.child = q])
          /\ UNCHANGED <<file, vn_refcount, panic>>

CopyRef_none(f) == UNCHANGED file  \* mutant
CopyRef(f) == file' = [file EXCEPT ![f].f_refcount = Uint16(@ + 1)]

VnodeRef(v) == vn_refcount' = [vn_refcount EXCEPT ![v] = @ + 1]

CopyNext(p) ==
    Enter(p, [NoLoc EXCEPT !.fd = loc[p].fd + 1, !.child = loc[p].child])

FileCopy(p) ==
    LET i == loc[p].fd
        q == loc[p].child
        f == fd_ofiles[p][i]
    IN
    /\ At(p, "copy")
    /\ i \in Fds
    /\ \/ /\ f = NULL
          /\ CopyNext(p)
          /\ UNCHANGED <<tables, file, vn_refcount, pc, panic>>
       \/ /\ f # NULL
          /\ Using(p, f,
               /\ file[f].f_lk = NULL
               /\ fd_ofiles' = [fd_ofiles EXCEPT ![q][i] = f]
               /\ fd_nfiles' = [fd_nfiles EXCEPT ![q] = Uint16(@ + 1)]
               /\ CopyRef(f)
               /\ VnodeRef(file[f].f_vnode)
               /\ CopyNext(p)
               /\ UNCHANGED <<fd_lk, pc, panic>>)

\* The rest of sys_fork may fail: the new table is closed again, as the
\* child would at its exit.
FileCopied(p) ==
    LET q == loc[p].child IN
    /\ At(p, "copy")
    /\ loc[p].fd \notin Fds
    /\ Check(fd_nfiles[p] = fd_nfiles[q], "nfiles differ")
    /\ Enter(p, NoLoc)
    /\ \E label \in {"run", "exit"} :
         pc' = [pc EXCEPT ![p] = "run", ![q] = label]
    /\ UNCHANGED <<tables, file, vn_refcount>>

(***************************************************************************)
(* sys_exit: close_all_f calls des_descriptor for each entry, and the      *)
(* table is destroyed with the struct proc.                                *)
(***************************************************************************)
Exit(p) ==
    /\ At(p, "run")
    /\ Goto(p, "exit")
    /\ UNCHANGED <<tables, file, vn_refcount, loc, panic>>

Used(p) == {i \in Fds : fd_ofiles[p][i] # NULL}

\* get_file, fd_detach, and both counts, with f_lk held.
DesDescriptor(p) ==
    LET i == Min(Used(p))
        f == fd_ofiles[p][i]
    IN
    /\ At(p, "exit")
    /\ Used(p) # {}
    /\ Using(p, f,
         /\ file[f].f_lk = NULL
         /\ file' = [file EXCEPT ![f].f_lk = p,
                                 ![f].f_refcount = Uint16(@ - 1)]
         /\ fd_ofiles' = [fd_ofiles EXCEPT ![p][i] = NULL]
         /\ fd_nfiles' = [fd_nfiles EXCEPT ![p] = Uint16(@ - 1)]
         /\ vn_refcount' = [vn_refcount EXCEPT ![file[f].f_vnode] = @ - 1]
         /\ panic' = IF file[f].f_refcount = 0 THEN "refcount"
                     ELSE IF vn_refcount[file[f].f_vnode] = 0
                     THEN "freed vnode" ELSE "none"
         /\ Enter(p, [NoLoc EXCEPT !.f = f])
         /\ Goto(p, "des")
         /\ UNCHANGED fd_lk)

LastClose(f) == file[f].f_refcount = 0

DesFile(p) ==
    LET f == loc[p].f IN
    /\ At(p, "des")
    /\ Using(p, f,
         /\ \/ /\ LastClose(f)
               /\ file' = [file EXCEPT ![f] = FreeFile]
               /\ Decref(file[f].f_vnode)
            \/ /\ ~LastClose(f)
               /\ file' = [file EXCEPT ![f].f_lk = NULL]
               /\ UNCHANGED <<vn_refcount, panic>>
         /\ Enter(p, NoLoc)
         /\ Goto(p, "exit")
         /\ UNCHANGED tables)

FdDestroy(p) ==
    /\ At(p, "exit")
    /\ Used(p) = {}
    /\ panic' = IF ~fd_lk[p] THEN "freed fd_lk"
                ELSE IF fd_nfiles[p] # 0 THEN "nfiles" ELSE "none"
    /\ fd_lk' = [fd_lk EXCEPT ![p] = FALSE]
    /\ Goto(p, "none")
    /\ UNCHANGED <<fd_ofiles, fd_nfiles, file, vn_refcount, loc>>

-----------------------------------------------------------------------------
\* What a process does inside a call it has begun.
Step(p) ==
    \/ \E n \in 0 .. 1 : IoEnd(p, n)
    \/ \E off \in {0, MaxOffset} : LseekEnd(p, off)
    \/ CloseEnd(p) \/ Dup2End(p)
    \/ FileCopy(p) \/ FileCopied(p)
    \/ DesDescriptor(p) \/ DesFile(p) \/ FdDestroy(p)

Call(p) ==
    \/ \E v \in Vnodes :
         \/ \E flags \in Flags, off \in {0, MaxOffset} :
              KOpen(p, v, flags, off)
         \/ KOpenUndone(p, v) \/ KOpenNoMem(p, v)
    \/ \E fd \in 0 .. OPEN_MAX + 1 :
         \/ \E op \in {"read", "write"} : IoStart(p, fd, op)
         \/ CloseStart(p, fd)
    \/ \E old \in 0 .. OPEN_MAX - 1, new \in Fds : Dup2Start(p, old, new)
    \/ \E old \in Fds, new \in 0 .. OPEN_MAX - 1 :
         Dup2Past(p, old, new)
    \/ \E fd \in Fds : LseekStart(p, fd)
    \/ \E q \in Procs : Fork(p, q)
    \/ Exit(p)

Next == \E p \in Procs : Step(p) \/ Call(p)

\* Fairness: a call that can go on does, and gets the sleep locks it waits
\* for (AcquireReturns of Monitor).
Fairness == \A p \in Procs : WF_vars(Step(p)) /\ SF_vars(DesDescriptor(p))

Spec == Init /\ [][Next]_vars /\ Fairness

-----------------------------------------------------------------------------
LiveFile ==
    [live : {TRUE}, f_vnode : Vnodes, f_oflags : Flags,
     f_refcount : 0 .. WORD - 1, f_offset : 0 .. MaxOffset,
     f_lk : Procs \union {NULL}, moved : Nat]

\* Tables hold files, the counts of descriptors are uint16_t, and those of
\* vnodes do not go below 0 unnoticed.
TypeOK ==
    /\ fd_ofiles \in [Procs -> [Fds -> Files \union {NULL}]]
    /\ fd_nfiles \in [Procs -> 0 .. WORD - 1]
    /\ fd_lk \in [Procs -> BOOLEAN]
    /\ panic = "none" =>
         /\ file \in [Files -> LiveFile \union {FreeFile}]
         /\ vn_refcount \in [Vnodes -> Nat]

\* The assertions and freed objects that each event can lead to.  With dup2 a
\* count may be anything.
Breaks ==
    [overlap |-> {},
     close |-> {"freed fd_lk", "freed file", "refcount"},
     dup2 |-> {"freed file", "freed fd_lk", "freed vnode", "refcount",
               "nfiles", "nfiles differ"},
     full |-> {"freed vnode"},
     stat |-> {"freed vnode"},
     nomem |-> {"freed file"},
     badfd |-> {"past the table"},
     flags |-> {}]

\* Programs that open, read, write, seek, fork and exit, in any order and
\* sharing their files, meet no failed assertion and no freed object; each
\* of the other events leads only to what its own code gets wrong.
NoPanic == panic \in {"none"} \union UNION {Breaks[e] : e \in env}

Slots(f) == {s \in Procs \X Fds : fd_ofiles[s[1]][s[2]] = f}
None(events) == env \intersect events = {}

\* f_refcount is the number of descriptors, over all processes, that lead to
\* the file: it is freed with the last of them, by the process that closes
\* it, and not before.
CountsSlots ==
    None({"close", "dup2"}) /\ panic = "none" =>
        \A f \in Files :
            /\ file[f].live =>
                  /\ file[f].f_refcount = Cardinality(Slots(f))
                  /\ \/ Slots(f) # {}
                     \/ \E p \in Procs : pc[p] = "des" /\ loc[p].f = f
            /\ ~file[f].live => Slots(f) = {}

\* One reference for each descriptor that f_refcount counts and one for the
\* struct file, of those with the vnode v.
References(v) ==
    UNION {{f} \X (0 .. file[f].f_refcount) :
           f \in {g \in Files : file[g].live /\ file[g].f_vnode = v}}

\* A vnode is counted once for each descriptor and once for each struct file,
\* so that it can be reclaimed and its file system unmounted as soon as
\* nobody has it open.
VnodeCounted ==
    None(EnvEvents \ {"overlap", "badfd", "flags"}) /\ panic = "none" =>
        \A v \in Vnodes : vn_refcount[v] = Cardinality(References(v))

\* f_offset is where the last seek went plus what was read and written since
\* by all the processes that share the file.  With "overlap" one of two
\* updates may be lost.
OffsetCounts ==
    None({"overlap", "close", "dup2"}) /\ panic = "none" =>
        \A f \in Files : file[f].live => file[f].f_offset = file[f].moved

\* No VOP_READ of a file opened O_WRONLY, and no VOP_WRITE of one opened
\* O_RDONLY, however the descriptor came to the process; unless the file is
\* closed under the call and its memory used for another.  That is so of files
\* opened with the mode alone: more flags, and nothing is refused.
ModeKept ==
    None({"close", "dup2"}) /\ panic = "none" =>
        \A p \in Procs : pc[p] = "io" =>
            LET flags == file[loc[p].f].f_oflags
            IN  flags.acc = Against(loc[p].op) => flags.more # {}

\* exit returns: it does not wait for ever for a file another process has
\* locked.
ExitReturns ==
    \A p \in Procs : pc[p] = "exit" ~> pc[p] = "none" \/ panic # "none"

\* Files are shared right: whatever processes do with them at the same time,
\* counts, offsets and modes are those of all their descriptors together.
FilesRight ==
    TypeOK /\ CountsSlots /\ VnodeCounted /\ OffsetCounts /\ ModeKept

=============================================================================
