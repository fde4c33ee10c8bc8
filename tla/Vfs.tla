-------------------------------- MODULE Vfs --------------------------------
(***************************************************************************)
(* The VFS layer, kern/vfs: devices and mounted volumes, vnodes and their  *)
(* reference counts, path lookup, current directories; and emufs,          *)
(* kern/dev/lamebus/emu.c, the file system that is always there.           *)
(*                                                                         *)
(* The big lock is held from the beginning to the end of every function of *)
(* vfslist.c and vfslookup.c and taken by every VOP, VOP_INCREF and        *)
(* VOP_DECREF: each of these is one step.  The functions of vfspath.c and  *)
(* vfscwd.c let go of it between the VOPs they consist of.  biglock is the *)
(* thread that returned without having released it.                        *)
(*                                                                         *)
(* What a name in an SFS volume leads to is the subject of Sfs: here a     *)
(* lookup there finds a file or does not.                                  *)
(***************************************************************************)
EXTENDS Integers, Sequences, FiniteSets, VnodeOps

CONSTANTS
    Threads,
    Disks,          \* devices that can be mounted
    RawName,        \* the name of the raw device of each
    VolName,        \* the name of the volume on each
    Names,          \* of files
    SubDirs,        \* those that are directories on the emulated disk
    Handles,        \* of the emulator; ROOTHANDLE is one
    EMU_ROOTHANDLE,
    Paths,          \* records of start, via and last; bound
    OpenModes,      \* pairs: for writing, O_TRUNC; bound
    MAXCALLS,       \* calls; bound
    Environments,
    NULL

\* "shared": the emulator has one handle for all that open a file, else one
\* for each.  "media": it reports errors.  "nomem": emufs_loadvnode finds no
\* memory.  "seek": lseek on something that has no vop_tryseek.  "reused":
\* kmalloc puts vnodes into blocks that were freed before.
EnvEvents == {"shared", "media", "nomem", "seek", "reused"}

ASSUME VfsAssumptions ==
    /\ IsFiniteSet(Threads) /\ Threads # {}
    /\ "none" \notin Disks /\ "emu0" \notin Disks
    /\ EMU_ROOTHANDLE \in Handles
    /\ SubDirs \subseteq Names /\ "root" \notin Names
    /\ \A p \in Paths : {p.via, p.last} \subseteq Names \union {NULL}
    /\ OpenModes \subseteq BOOLEAN \X BOOLEAN
    /\ \A e \in Environments : e \subseteq EnvEvents

VARIABLES
    kd_fs,         \* of each disk: NULL, "swap" or "mounted"
    knowndevs,     \* the devices that were added
    vn_refcount,   \* of every vnode there can be; 0: it is not loaded
    ev_file,       \* not in the code: what an emufs vnode was opened as
    hw,            \* the emulator: what a handle is open on, or NULL
    t_cwd,         \* of each thread, or NULL
    bootfs_vnode,
    swapped,       \* vnodes that vfs_swapon handed out
    live,          \* threads there are
    pc, loc,       \* where each is, and its locals
    open,          \* the vnode each has open, or NULL
    biglock,
    calls, env, panic

devvars == <<kd_fs, knowndevs, swapped>>
vnvars == <<vn_refcount, ev_file, hw>>
refvars == <<t_cwd, bootfs_vnode, open>>
thvars == <<live, pc, loc>>
vars == <<devvars, vnvars, refvars, thvars, biglock, calls, env, panic>>

(***************************************************************************)
(* Vnodes: of devices, of the root and the files of the volume on a disk,  *)
(* and of the emulator's handles.                                          *)
(***************************************************************************)
EMU == "emu0"
Devices == {"null", EMU} \union Disks
Vn(fs, obj) == [fs |-> fs, obj |-> obj]
DevVn(dev) == Vn("none", dev)
RootVn(disk) == Vn(disk, "root")
EmuVn(h) == Vn(EMU, h)
EmuRoot == EmuVn(EMU_ROOTHANDLE)
DevVnodes == {DevVn(d) : d \in Devices}
EmuVnodes == {EmuVn(h) : h \in Handles}
SfsNames == Names \ SubDirs
SfsVnodes(disk) == {Vn(disk, o) : o \in {"root"} \union SfsNames}
Vnodes == DevVnodes \union EmuVnodes \union UNION {SfsVnodes(d) : d \in Disks}

\* NULL is none of the things it stands for the lack of.
ASSUME NullAssumption ==
    /\ NULL \notin Vnodes /\ NULL \notin Handles /\ NULL \notin Seq(Names)
    /\ NULL \notin {"swap", "mounted"}

\* A file of the emulator is the sequence of names that leads to it.
IsDir(file) == file = <<>> \/ file[Len(file)] \in SubDirs
Kind(v) ==
    CASE v.fs = "none" -> "dev"
      [] v.fs = EMU -> IF IsDir(ev_file[v.obj]) THEN "emudir" ELSE "emufile"
      [] OTHER -> IF v.obj = "root" THEN "sfsdir" ELSE "sfsfile"

NoLoc == [rename |-> FALSE, write |-> FALSE, creat |-> FALSE, trunc |-> FALSE,
          path |-> NULL, dir |-> NULL, dir2 |-> NULL, vn |-> NULL,
          h |-> NULL, file |-> NULL]

\* The end of boot: vfs_bootstrap with null:, and what the probe of the bus
\* and vfs_setbootfs("emu0") have done.
Init ==
    /\ kd_fs = [d \in Disks |-> NULL]
    /\ knowndevs = {"null"}
    /\ vn_refcount = [v \in Vnodes |-> IF v = DevVn("null") THEN 1 ELSE 0]
    /\ ev_file = [h \in Handles |-> NULL]
    /\ hw = [h \in Handles |-> IF h = EMU_ROOTHANDLE THEN <<>> ELSE NULL]
    /\ t_cwd = [t \in Threads |-> NULL]
    /\ bootfs_vnode = NULL
    /\ swapped = [d \in Disks |-> 0]
    /\ live = {CHOOSE t \in Threads : TRUE}
    /\ pc = [t \in Threads |-> "idle"]
    /\ loc = [t \in Threads |-> NoLoc]
    /\ open = [t \in Threads |-> NULL]
    /\ biglock = NULL /\ calls = 0
    /\ env \in Environments
    /\ panic = "none"

Running(t) ==
    /\ panic = "none" /\ t \in live
    /\ biglock \in {NULL, t}
    /\ UNCHANGED env
At(t, label) == Running(t) /\ pc[t] = label /\ UNCHANGED calls
Call(t) == /\ Running(t) /\ pc[t] = "idle" /\ Devices \subseteq knowndevs
           /\ calls < MAXCALLS /\ calls' = calls + 1
Goto(t, label) == pc' = [pc EXCEPT ![t] = label]
Set(t, l) == loc' = [loc EXCEPT ![t] = l]
Return(t) == Goto(t, "idle") /\ Set(t, NoLoc)

\* The references a call has to give up, and its end when it fails.
Refs(l) == {f \in {"dir2", "dir", "vn"} : l[f] # NULL}
Abandon(t) == IF Refs(loc[t]) = {} THEN Return(t)
              ELSE Goto(t, "drop") /\ UNCHANGED loc
Panic(why) ==
    /\ panic' = why
    /\ UNCHANGED <<devvars, vnvars, refvars, thvars, biglock>>

Incref(v) == vn_refcount' = [vn_refcount EXCEPT ![v] = @ + 1]

(***************************************************************************)
(* The emulator and its vnodes.                                            *)
(***************************************************************************)
Media == "media" \in env

\* The handle an open of file gets; NULL when there is none left.
FreeHandles == {h \in Handles : hw[h] = NULL}
HandleFor(file) ==
    LET same == {h \in Handles : "shared" \in env /\ hw[h] = file}
        from == IF same # {} THEN same ELSE FreeHandles
    IN  IF from = {} THEN NULL ELSE CHOOSE h \in from : TRUE

\* emufs_loadvnode: the vnode that has the handle, or a new one.
Load(h, file) ==
    /\ Incref(EmuVn(h))
    /\ ev_file' = IF vn_refcount[EmuVn(h)] > 0 THEN ev_file
                  ELSE [ev_file EXCEPT ![h] = file]
LoadNoMem(h) == "nomem" \in env /\ vn_refcount[EmuVn(h)] = 0

\* VOP_DECREF.  The last reference: dev_reclaim does nothing, sfs_reclaim and
\* emufs_reclaim end the vnode, this one by closing the handle, which after
\* ten retries it gives up.
CloseHandle_not(h) == UNCHANGED hw  \* mutant
CloseHandle(h) == hw' = [hw EXCEPT ![h] = NULL]

EmuReclaim(h) ==
    \/ /\ vn_refcount' = [vn_refcount EXCEPT ![EmuVn(h)] = 0]
       /\ CloseHandle(h)
       /\ ev_file' = [ev_file EXCEPT ![h] = NULL]
    \/ Media /\ UNCHANGED vnvars

Decref(v) ==
    \/ /\ vn_refcount[v] > 1 \/ v.fs \in Disks
       /\ vn_refcount' = [vn_refcount EXCEPT ![v] = @ - 1]
       /\ UNCHANGED <<ev_file, hw>>
    \/ vn_refcount[v] = 1 /\ v.fs = "none" /\ UNCHANGED vnvars
    \/ vn_refcount[v] = 1 /\ v.fs = EMU /\ EmuReclaim(v.obj)

\* emufs_reclaim takes vn_countlock, which nothing initialises: in a block
\* that kfree has filled it looks held, and the CPU spins for ever, with the
\* big lock.
Spins(t, v) ==
    /\ "reused" \in env /\ vn_refcount[v] = 1 /\ v.fs = EMU
    /\ biglock' = t
    /\ Goto(t, "spins")
    /\ UNCHANGED <<devvars, vnvars, refvars, live, loc, panic>>

\* An operation on a handle, with e_lock held.
BadHandle(v) == v.fs = EMU /\ hw[v.obj] = NULL

(***************************************************************************)
(* Devices: vfs_doadd, vfs_mount and the others of vfslist.c.              *)
(***************************************************************************)
DevNames(d) == {d} \union (IF d \in Disks THEN {RawName[d]} ELSE {})
                   \union (IF d \in Disks /\ kd_fs[d] = "mounted"
                           THEN {VolName[d]} ELSE {})

\* vfs_doadd; emufs_addtovfs loads the root directory first, for good.
BadNames(d) == DevNames(d) \cap UNION {DevNames(k) : k \in knowndevs} # {}
AddDev(t, d) ==
    /\ Running(t) /\ d \notin knowndevs
    /\ ~BadNames(d)
    /\ knowndevs' = knowndevs \union {d}
    /\ vn_refcount' = [v \in Vnodes |->
          IF v = DevVn(d) \/ (d = EMU /\ v = EmuRoot) THEN 1
          ELSE vn_refcount[v]]
    /\ ev_file' = IF d = EMU THEN [ev_file EXCEPT ![EMU_ROOTHANDLE] = <<>>]
                  ELSE ev_file
    /\ UNCHANGED <<kd_fs, swapped, hw, refvars, thvars, biglock, calls, panic>>

\* vfs_mount: mountfunc may fail.
CanMount(d) == kd_fs[d] = NULL
Mount(t, d) ==
    /\ Call(t)
    /\ CanMount(d)
    /\ kd_fs' = [kd_fs EXCEPT ![d] = "mounted"]
    /\ UNCHANGED <<knowndevs, swapped, vnvars, refvars, thvars, biglock,
                   panic>>

\* vfs_unmount: FSOP_SYNC, then FSOP_UNMOUNT, EBUSY when a vnode is loaded.
Busy(d) == \E v \in SfsVnodes(d) : vn_refcount[v] > 0
Unmount(t, d) ==
    /\ Call(t)
    /\ kd_fs[d] = "mounted" /\ ~Busy(d)
    /\ kd_fs' = [kd_fs EXCEPT ![d] = NULL]
    /\ UNCHANGED <<knowndevs, swapped, vnvars, refvars, thvars, biglock,
                   panic>>

\* vfs_swapon hands out the raw device; vfs_swapoff does not ask for it back.
Swapon(t, d) ==
    /\ Call(t)
    /\ CanMount(d)
    /\ kd_fs' = [kd_fs EXCEPT ![d] = "swap"]
    /\ Incref(DevVn(d))
    /\ swapped' = [swapped EXCEPT ![d] = @ + 1]
    /\ UNCHANGED <<knowndevs, ev_file, hw, refvars, thvars, biglock, panic>>

Swapoff(t, d) ==
    /\ Call(t)
    /\ kd_fs[d] = "swap"
    /\ kd_fs' = [kd_fs EXCEPT ![d] = NULL]
    /\ UNCHANGED <<knowndevs, swapped, vnvars, refvars, thvars, biglock,
                   panic>>

\* vfs_unmountall; a volume that cannot be synced is left alone.
Unmountall(t) ==
    /\ Call(t)
    /\ \E failing \in SUBSET Disks :
          kd_fs' = [d \in Disks |->
                      IF kd_fs[d] = "mounted" /\ (Busy(d) \/ d \in failing)
                      THEN "mounted" ELSE NULL]
    /\ UNCHANGED <<knowndevs, swapped, vnvars, refvars, thvars, biglock,
                   panic>>

(***************************************************************************)
(* Lookup.  A path is what it begins with, perhaps a directory, and a name.*)
(***************************************************************************)
\* (start is a name or "cwd", "/" or ":"; via and last may be NULL.)

\* vfs_getroot: a vnode, or NULL.
Getroot(name) ==
    LET of == {d \in knowndevs : name \in DevNames(d)}
        d == CHOOSE x \in of : TRUE
    IN
    IF of = {} THEN NULL
    ELSE IF d \notin Disks THEN IF d = EMU THEN EmuRoot ELSE DevVn(d)
    ELSE IF name = RawName[d] THEN DevVn(d)
    ELSE IF kd_fs[d] = "mounted" THEN RootVn(d) ELSE NULL

\* getdevice
FsRoot(fs) == IF fs = EMU THEN EmuRoot ELSE RootVn(fs)
StartOf(t, start) ==
    CASE start = "cwd" -> t_cwd[t]
      [] start = "/" -> bootfs_vnode
      [] start = ":" -> IF t_cwd[t] = NULL THEN NULL ELSE FsRoot(t_cwd[t].fs)
      [] OTHER -> Getroot(start)
NoFs(t, start) == start = ":" /\ t_cwd[t] # NULL /\ t_cwd[t].fs = "none"

\* The lookup fails; the big lock is released on every way out.
NotFound_locked(t) == biglock' = t  \* mutant
NotFound(t) == UNCHANGED biglock
Fails(t) == /\ NotFound(t)
            /\ Abandon(t)
            /\ UNCHANGED <<devvars, vnvars, refvars, live, panic>>

\* VOP_LOOKUP of a file of the emulator, from a directory with handle h.
EmuFind(t, h, name, l, f, label) ==
    LET file == Append(hw[h], name)
        n == HandleFor(file)
    IN
    IF n = NULL THEN Fails(t)
    ELSE IF LoadNoMem(n)
    THEN \* the big lock is not released
         /\ biglock' = t
         /\ Abandon(t)
         /\ UNCHANGED <<devvars, vnvars, refvars, live, panic>>
    ELSE /\ hw' = [hw EXCEPT ![n] = file]
         /\ Load(n, file)
         /\ Set(t, [l EXCEPT ![f] = EmuVn(n)])
         /\ Goto(t, label)
         /\ UNCHANGED <<devvars, refvars, live, biglock, panic>>

\* The reference to startvn is given up again, or handed on.
Found(t, v, l, f, label) ==
    /\ Incref(v)
    /\ Set(t, [l EXCEPT ![f] = v]) /\ Goto(t, label)
    /\ UNCHANGED <<devvars, ev_file, hw, refvars, live, biglock, panic>>

\* vfs_lookup of p; the rest of the call is at label, with the vnode in vn.
Lookup(t, p, l, label) ==
    LET v == StartOf(t, p.start) IN
    IF NoFs(t, p.start) THEN Panic("no fs")
    ELSE IF v = NULL THEN Fails(t)
    ELSE IF p.last = NULL THEN Found(t, v, l, "vn", label)
    ELSE IF BadHandle(v) THEN Panic("bad handle")
    ELSE \/ Fails(t)
         \/ v.fs = EMU /\ EmuFind(t, v.obj, p.last, l, "vn", label)
         \/ v.fs \in Disks /\ p.last \in SfsNames
            /\ Found(t, Vn(v.fs, p.last), l, "vn", label)

\* vfs_lookparent: the directory is startvn, or on the emulator the one that
\* the rest of the path is in; it goes to the local f.
Lookparent(t, p, l, f, label) ==
    LET v == StartOf(t, p.start) IN
    IF NoFs(t, p.start) THEN Panic("no fs")
    ELSE IF v = NULL \/ p.last = NULL THEN Fails(t)
    ELSE IF Vop(Kind(v), "lookparent") # "ok" THEN Fails(t)
    ELSE IF p.via = NULL \/ v.fs # EMU THEN Found(t, v, l, f, label)
    ELSE IF BadHandle(v) THEN Panic("bad handle")
    ELSE Fails(t) \/ EmuFind(t, v.obj, p.via, l, f, label)

(***************************************************************************)
(* vfs_open.                                                               *)
(***************************************************************************)
OpenCreat(t, p, write, trunc) ==
    /\ Call(t) /\ open[t] = NULL
    /\ Lookparent(t, p, [NoLoc EXCEPT !.write = write,
                           !.creat = TRUE, !.trunc = trunc, !.path = p.last],
                  "dir", "creat")

OpenThere(t, p, write, trunc) ==
    /\ Call(t) /\ open[t] = NULL
    /\ Lookup(t, p, [NoLoc EXCEPT !.write = write,
                                  !.trunc = trunc], "eachopen")

\* VOP_CREAT.  emufs_creat opens the file at the emulator first and looks for
\* the vnode of the handle then.
CreatFails(t) == /\ Goto(t, "drop")
                 /\ UNCHANGED <<devvars, vnvars, refvars, live, loc, biglock,
                                panic>>
EmuOpen(t, h) ==
    LET file == Append(hw[h], loc[t].path)
        n == HandleFor(file)
    IN
    /\ n # NULL
    /\ hw' = [hw EXCEPT ![n] = file]
    /\ Set(t, [loc[t] EXCEPT !.h = n, !.file = file])
    /\ Goto(t, "load")
    /\ UNCHANGED <<devvars, vn_refcount, ev_file, refvars, live, biglock,
                   panic>>

Creat(t) ==
    LET dir == loc[t].dir IN
    /\ At(t, "creat")
    /\ IF Vop(Kind(dir), "creat") # "ok" THEN CreatFails(t)
       ELSE IF BadHandle(dir) THEN Panic("bad handle")
       ELSE \/ CreatFails(t)
            \/ dir.fs = EMU /\ EmuOpen(t, dir.obj)
            \/ dir.fs \in Disks /\ loc[t].path \in SfsNames
               /\ Found(t, Vn(dir.fs, loc[t].path), loc[t], "vn", "dropdir")

CreatLoad(t) ==
    LET h == loc[t].h IN
    /\ At(t, "load")
    /\ IF LoadNoMem(h)
       THEN /\ biglock' = t  \* not released
            /\ Goto(t, "closeh")
            /\ UNCHANGED <<vn_refcount, ev_file, loc>>
       ELSE /\ Load(h, loc[t].file)
            /\ Set(t, [loc[t] EXCEPT !.vn = EmuVn(h), !.h = NULL])
            /\ Goto(t, "dropdir")
            /\ UNCHANGED biglock
    /\ UNCHANGED <<devvars, hw, refvars, live, panic>>

CreatClose(t) ==
    /\ At(t, "closeh")
    /\ hw' = [hw EXCEPT ![loc[t].h] = NULL]
    /\ Goto(t, "drop")
    /\ Set(t, [loc[t] EXCEPT !.h = NULL])
    /\ UNCHANGED <<devvars, vn_refcount, ev_file, refvars, live, biglock,
                   panic>>

\* VOP_DECREF of a local; the call is at label then.
DropTo(t, f, label) ==
    LET v == loc[t][f] IN
    IF vn_refcount[v] = 0 THEN Panic("refcount")
    ELSE \/ Spins(t, v)
         \/ /\ Decref(v)
            /\ Set(t, IF label = "idle" THEN NoLoc
                      ELSE [loc[t] EXCEPT ![f] = NULL])
            /\ Goto(t, label)
            /\ UNCHANGED <<devvars, refvars, live, biglock, panic>>

DropDir(t) == At(t, "dropdir") /\ DropTo(t, "dir", "eachopen")

\* The end of every call: the second directory, the first, the vnode.
Drop(t) ==
    LET refs == Refs(loc[t])
        f == IF "dir2" \in refs THEN "dir2"
             ELSE IF "dir" \in refs THEN "dir" ELSE "vn"
    IN  /\ At(t, "drop")
        /\ DropTo(t, f, IF refs = {f} THEN "idle" ELSE "drop")

\* VOP_EACHOPEN, and VOP_TRUNCATE when asked for.
Opens(t) ==
    LET l == loc[t]
        kind == Kind(l.vn)
    IN  /\ Eachopen(kind, l.write, l.creat, l.trunc) = "ok"
        /\ l.trunc => l.write /\ Vop(kind, "truncate") = "ok"

DoOpen(t) ==
    LET l == loc[t] IN
    /\ At(t, "eachopen")
    /\ IF ~Opens(t) THEN CreatFails(t)
       ELSE IF l.trunc /\ BadHandle(l.vn) THEN Panic("bad handle")
       ELSE \/ l.trunc /\ CreatFails(t)
            \/ /\ open' = [open EXCEPT ![t] = l.vn]
               /\ Return(t)
               /\ UNCHANGED <<devvars, vnvars, t_cwd, bootfs_vnode, live,
                              biglock, panic>>

(***************************************************************************)
(* The other calls.                                                        *)
(***************************************************************************)
\* vfs_close
Close(t) ==
    /\ Running(t) /\ pc[t] = "idle" /\ UNCHANGED calls
    /\ open[t] # NULL
    /\ \/ Spins(t, open[t])
       \/ /\ Decref(open[t])
          /\ open' = [open EXCEPT ![t] = NULL]
          /\ UNCHANGED <<devvars, t_cwd, bootfs_vnode, thvars, biglock, panic>>

\* A system call on the open file: one of the vnode's functions.
OnHandle == {"read", "write", "getdirentry", "stat", "truncate"}
Use(t, op) ==
    LET v == open[t] IN
    /\ Running(t) /\ pc[t] = "idle" /\ UNCHANGED calls
    /\ v # NULL
    /\ op = "tryseek" => "seek" \in env \/ Kind(v) = "emufile"
    /\ \/ Vop(Kind(v), op) = "null" /\ Panic("null function")
       \/ Vop(Kind(v), op) = "ok" /\ op \in OnHandle /\ BadHandle(v)
          /\ Panic("bad handle")

\* vfs_remove, vfs_symlink, vfs_mkdir, vfs_rmdir: the name is the directory's
\* affair.
NameCall(t, p) ==
    Call(t) /\ Lookparent(t, p, NoLoc, "dir", "drop")

\* vfs_readlink
Readlink(t, p) == Call(t) /\ Lookup(t, p, NoLoc, "drop")

\* vfs_rename
RenameFirst(t, p) ==
    /\ Call(t)
    /\ Lookparent(t, p, [NoLoc EXCEPT !.rename = TRUE], "dir", "second")

\* vfs_link
LinkFirst(t, p) ==
    Call(t) /\ Lookup(t, p, NoLoc, "second")

\* The second path of both.
Second(t, p) == At(t, "second") /\ Lookparent(t, p, loc[t], "dir2", "both")

\* VOP_RENAME when both are on one file system; sfs_rename asserts that there
\* is but one directory.
SameFs_any(v, w) == TRUE  \* mutant
SameFs(v, w) == v.fs # "none" /\ v.fs = w.fs
Both(t) ==
    LET l == loc[t] IN
    /\ At(t, "both")
    /\ IF l.rename /\ SameFs(l.dir, l.dir2) /\ l.dir # l.dir2
          /\ Kind(l.dir) = "sfsdir"
       THEN Panic("two directories") ELSE CreatFails(t)

\* vfs_chdir: vfs_lookup, then vfs_setcurdir of a directory.
Chdir(t, p) ==
    Call(t) /\ Lookup(t, p, NoLoc, "setcurdir")

CanBeCwd(v) == IsDirectory(Kind(v))
Setcurdir(t) ==
    LET v == loc[t].vn IN
    /\ At(t, "setcurdir")
    /\ IF ~CanBeCwd(v) THEN CreatFails(t)
       ELSE /\ Incref(v)
            /\ t_cwd' = [t_cwd EXCEPT ![t] = v]
            /\ Set(t, [loc[t] EXCEPT !.dir = t_cwd[t]])
            /\ Goto(t, "drop")
            /\ UNCHANGED <<devvars, ev_file, hw, bootfs_vnode, open, live,
                           biglock, panic>>

\* vfs_getcwd: the directory, then the name of its file system.
Getcwd(t) ==
    /\ Call(t)
    /\ t_cwd[t] # NULL
    /\ Found(t, t_cwd[t], NoLoc, "vn", "name")

GetcwdName(t) ==
    LET fs == loc[t].vn.fs IN
    /\ At(t, "name")
    /\ IF fs = "none" THEN Panic("no fs")
       ELSE IF fs \in Disks /\ kd_fs[fs] # "mounted" THEN Panic("fs gone")
       ELSE CreatFails(t)

\* Changing the current directory and bootfs_vnode to v; the old ones are
\* given up next.  vfs_setbootfs holds the big lock until it has done so too.
Change(t, v, newcwd, newboot) ==
    LET l == [NoLoc EXCEPT !.dir2 = IF newcwd THEN t_cwd[t] ELSE NULL,
                           !.dir = IF newboot THEN bootfs_vnode ELSE NULL]
    IN
    /\ vn_refcount' = IF v = NULL THEN vn_refcount
                      ELSE [vn_refcount EXCEPT ![v] = @ + 2]
    /\ t_cwd' = IF newcwd THEN [t_cwd EXCEPT ![t] = v] ELSE t_cwd
    /\ bootfs_vnode' = IF newboot THEN v ELSE bootfs_vnode
    /\ IF Refs(l) = {} THEN Return(t) ELSE Goto(t, "drop") /\ Set(t, l)
    /\ UNCHANGED <<devvars, ev_file, hw, open, live, biglock, panic>>

Setbootfs(t, name) ==
    LET v == Getroot(name) IN
    /\ Call(t)
    /\ v # NULL /\ CanBeCwd(v)
    /\ Change(t, v, TRUE, TRUE)
Clearbootfs(t) ==
    Call(t) /\ bootfs_vnode # NULL /\ Change(t, NULL, FALSE, TRUE)
Clearcurdir(t) ==
    Call(t) /\ t_cwd[t] # NULL /\ Change(t, NULL, TRUE, FALSE)

\* thread_fork and thread_exit, as far as the current directory goes.
Inherits_uncounted(v) == UNCHANGED vn_refcount  \* mutant
Inherits(v) == IF v = NULL THEN UNCHANGED vn_refcount ELSE Incref(v)
Fork(t, u) ==
    /\ Running(t) /\ pc[t] = "idle" /\ u \notin live /\ UNCHANGED calls
    /\ Devices \subseteq knowndevs
    /\ live' = live \union {u}
    /\ t_cwd' = [t_cwd EXCEPT ![u] = t_cwd[t]]
    /\ Inherits(t_cwd[t])
    /\ UNCHANGED <<devvars, ev_file, hw, bootfs_vnode, open, pc, loc, biglock,
                   panic>>

Exit(t) ==
    /\ Running(t) /\ pc[t] = "idle" /\ open[t] = NULL /\ UNCHANGED calls
    /\ live # {t}
    /\ \/ t_cwd[t] # NULL /\ Spins(t, t_cwd[t])
       \/ /\ live' = live \ {t}
          /\ IF t_cwd[t] = NULL THEN UNCHANGED vnvars ELSE Decref(t_cwd[t])
          /\ t_cwd' = [t_cwd EXCEPT ![t] = NULL]
          /\ UNCHANGED <<devvars, bootfs_vnode, open, pc, loc, biglock, panic>>

Step(t) ==
    \/ Creat(t) \/ CreatLoad(t) \/ CreatClose(t) \/ DropDir(t) \/ Drop(t)
    \/ DoOpen(t) \/ Both(t) \/ Setcurdir(t) \/ GetcwdName(t)
    \/ \E p \in Paths : Second(t, p)

Next == \E t \in Threads :
    \/ Step(t) \/ Close(t) \/ Getcwd(t) \/ Clearbootfs(t) \/ Clearcurdir(t)
    \/ Exit(t) \/ Unmountall(t)
    \/ \E p \in Paths :
          \/ NameCall(t, p) \/ Readlink(t, p) \/ RenameFirst(t, p)
          \/ LinkFirst(t, p) \/ Chdir(t, p)
          \/ \E mode \in OpenModes :
                \/ OpenCreat(t, p, mode[1], mode[2])
                \/ OpenThere(t, p, mode[1], mode[2])
    \/ \E op \in FileOps : Use(t, op)
    \/ \E name \in {"null", EMU} \union Disks : Setbootfs(t, name)
    \/ \E d \in Disks : Mount(t, d) \/ Unmount(t, d) \/ Swapon(t, d)
                        \/ Swapoff(t, d)
    \/ \E d \in Devices : AddDev(t, d)
    \/ \E u \in Threads : Fork(t, u)

Spec == Init /\ [][Next]_vars /\ \A t \in Threads : WF_vars(Step(t))

-----------------------------------------------------------------------------
\* Vnodes, devices and threads are in states the code knows.
TypeOK ==
    /\ \A d \in Disks : kd_fs[d] \in {NULL, "mounted", "swap"}
    /\ \A v \in Vnodes : vn_refcount[v] \in Nat
    /\ \A h \in Handles : ev_file[h] # NULL <=> vn_refcount[EmuVn(h)] > 0
    /\ live \subseteq Threads /\ live # {}

\* What each event leads to.
Breaks ==
    [shared |-> {"bad handle"}, media |-> {}, nomem |-> {},
     seek |-> {"null function"}, reused |-> {}]

\* No vnode is given up more often than it was taken, no path begins at a
\* current directory without a file system or with one that was unmounted,
\* no function is called that a vnode does not have, and the emulator is never
\* given a handle that is not open; but for what is listed.
NoPanic == panic \in {"none"} \union UNION {Breaks[e] : e \in env}

\* Who has a reference to v: open files, current directories, locals of calls,
\* and what keeps it for good.
Holders(v) ==
    {<<"open", t>> : t \in {u \in live : open[u] = v}}
      \union {<<"cwd", t>> : t \in {u \in live : t_cwd[u] = v}}
      \union {ft \in {"dir", "dir2", "vn"} \X live : loc[ft[2]][ft[1]] = v}
      \union (IF bootfs_vnode = v THEN {<<"boot", NULL>>} ELSE {})
      \union (IF v = EmuRoot \/ v \in DevVnodes THEN {<<"kept", NULL>>}
              ELSE {})
SwapRefs(v) == IF v.fs = "none" /\ v.obj \in Disks THEN swapped[v.obj] ELSE 0

\* A vnode's count is the number of those who have it, at every moment of
\* every call, whichever step of it fails: none is lost, none given up twice.
RefsMatch ==
    env \cap {"media"} = {} /\ Devices \subseteq knowndevs =>
        \A v \in Vnodes :
            vn_refcount[v] = Cardinality(Holders(v)) + SwapRefs(v)

\* A volume stays mounted as long as somebody has one of its vnodes: a current
\* directory, an open file, a call in its middle.
FsStays == \A d \in Disks : kd_fs[d] # "mounted" =>
              \A v \in SfsVnodes(d) : vn_refcount[v] = 0

\* The boot directory and every current directory are directories of a file
\* system, never devices: what vfs_getcwd and paths that begin with : rely on.
CwdIsDir ==
    \A v \in {t_cwd[t] : t \in live} \union {bootfs_vnode} :
        v # NULL => IsDirectory(Kind(v))

\* An emufs vnode works on the file it was opened as: its handle is not closed
\* and not given to another file while it is there.
RightFile ==
    "shared" \notin env =>
        \A h \in Handles : ev_file[h] # NULL => hw[h] = ev_file[h]

\* The emulator's handles are all in use: a vnode has it, or a call that is
\* about to make one.
HandlesClosed ==
    env \cap {"media", "shared"} = {} /\ EMU \in knowndevs =>
        \A h \in Handles : hw[h] # NULL =>
            vn_refcount[EmuVn(h)] > 0 \/ \E t \in live : loc[t].h = h

\* A call returns: no thread waits for the big lock forever, unless one has
\* kept it for lack of memory or spins for the lock of a vnode in a block that
\* was used before.
CallsReturn == \A t \in Threads :
    pc[t] # "idle" /\ env \cap {"nomem", "reused"} = {}
        ~> pc[t] = "idle" \/ panic # "none"

\* References are right: counted, keeping their volume mounted, and to a
\* directory where one is needed.
RefsRight == TypeOK /\ RefsMatch /\ FsStays /\ CwdIsDir

\* Handles of the emulator belong to vnodes: each vnode has the one of its
\* file, and none is left open without a vnode.
HandlesRight == RightFile /\ HandlesClosed

=============================================================================
