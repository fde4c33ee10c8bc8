-------------------------------- MODULE Sfs --------------------------------
(***************************************************************************)
(* SFS, kern/fs/sfs: a volume with one directory.  Every operation holds   *)
(* the VFS's big lock from beginning to end, so an operation is one step;  *)
(* what can happen in its middle is that the disk fails or the power does. *)
(* An operation is therefore a function on the state s of the volume: its  *)
(* fields are the disk, what is in memory, and how many more times the disk*)
(* works.                                                                  *)
(*                                                                         *)
(* Sizes are in cells; a block has BLOCKSIZE of them, a directory entry    *)
(* DIRSIZE.  An inode number is the number of its block.                   *)
(***************************************************************************)
EXTENDS Integers, Sequences, FiniteSets
Seqs == INSTANCE SequencesExt

CONSTANTS
    Names,
    NBLOCKS, BLOCKSIZE, DIRSIZE, NDIRECT, DBPERIDB,
    WRITES,        \* pairs of offset and length that are written; bound
    LENGTHS,       \* lengths to truncate to; bound
    MAXREFS,       \* references to vnodes at one time; bound
    MAXIO,         \* more than the disk accesses of any operation
    MAXCALLS,      \* of calls; bound
    Environments,
    NULL

\* "eio": one access to the disk fails, or one kmalloc.  "crash": the power
\* fails, in an operation or between two.  "badbuf": programs write from
\* buffers that end before their length does.
EnvEvents == {"eio", "crash", "badbuf"}

ASSUME SfsAssumptions ==
    /\ {NBLOCKS, BLOCKSIZE, DIRSIZE, NDIRECT, DBPERIDB} \subseteq Nat \ {0}
    /\ BLOCKSIZE % DIRSIZE = 0
    /\ \A e \in Environments : e \subseteq EnvEvents

VARIABLES
    disk,               \* the contents of every block
    sfs_freemap,        \* the blocks in use, as far as memory knows
    sfs_freemapdirty,
    sfs_vnodes,         \* for every inode its vnode, or NULL
    held,               \* references that open files and directories are
    mounted,
    fault,              \* "eio" or "crash" when it has happened
    calls,              \* operations so far that change names or contents
    safe,               \* not in the code: files not touched since a sync
    env, panic

volume == <<disk, sfs_freemap, sfs_freemapdirty, sfs_vnodes>>
vars == <<volume, held, mounted, fault, calls, safe, env, panic>>

SFS_SUPER_BLOCK == 0
SFS_ROOTDIR_INO == 1
SFS_FREEMAP == 2    \* SFS_FREEMAP_START; the map fills one block
NINDIRECT == 1
NOINO == 0
Blocks == 0 .. NBLOCKS - 1
Min2(a, b) == IF a < b THEN a ELSE b
DivRoundUp(a, b) == (a + b - 1) \div b

(***************************************************************************)
(* What a block may hold, and what it is taken for.  A block of zeros is   *)
(* an empty anything; any other kind than the expected one is garbage.     *)
(***************************************************************************)
Zero == [k |-> "zero"]
ZeroInode == [type |-> "inval", links |-> 0, size |-> 0,
              direct |-> [i \in 1 .. NDIRECT |-> 0], indirect |-> 0]
ZeroTable == [j \in 1 .. DBPERIDB |-> 0]
NoEntry == [ino |-> NOINO, name |-> NULL]
PerBlock == BLOCKSIZE \div DIRSIZE
As(c, kind, zero) == IF c.k = kind THEN c.v ELSE zero
Inode(c) == As(c, "inode", ZeroInode)
Table(c) == As(c, "table", ZeroTable)
Cells(c) == As(c, "cells", [i \in 1 .. BLOCKSIZE |-> 0])
Entries(c) == As(c, "entries", [i \in 1 .. PerBlock |-> NoEntry])
Holds(kind, value) == [k |-> kind, v |-> value]
Value == 1

(***************************************************************************)
(* The volume as an operation sees it.                                     *)
(***************************************************************************)
NEVER == -1
\* fuel: how many accesses go well before one does not.  ret: what the last
\* function handed back.
St(fuel) ==
    [disk |-> disk, map |-> sfs_freemap, dirty |-> sfs_freemapdirty,
     vn |-> sfs_vnodes, fuel |-> fuel, hit |-> FALSE, ret |-> 0,
     err |-> "ok", panic |-> "none"]
Ok(s) == s.err = "ok" /\ s.panic = "none"
Ret(s, x) == [s EXCEPT !.ret = x]
\* The next step of an operation, unless one before it has failed.
Then(s, Step(_)) == IF Ok(s) THEN Step(s) ELSE s
Fail(s, why) == IF Ok(s) THEN [s EXCEPT !.err = why] ELSE s
Require(s, ok, why) == IF Ok(s) /\ ~ok THEN [s EXCEPT !.panic = why] ELSE s

\* In a crash the disk does nothing from then on; else one access fails.
Tick(s) ==
    [s EXCEPT !.hit = @ \/ s.fuel = 0,
              !.fuel = IF @ > 0 THEN @ - 1
                       ELSE IF @ = 0 /\ "crash" \in env THEN 0 ELSE NEVER]

\* sfs_readblock: sfs_rwblock tries a failing read again, ten times.
Readblock(s) ==
    IF ~Ok(s) \/ "eio" \notin env THEN s
    ELSE IF s.fuel = 0 THEN Fail(Tick(s), "EIO") ELSE Tick(s)

\* sfs_writeblock: a failing write is tried again too, but lhd_io has moved
\* the uio's data already: the second try moves nothing and returns 0.
Writeblock(s, block, c) ==
    IF ~Ok(s) THEN s
    ELSE IF s.fuel = 0 THEN Tick(s) ELSE [Tick(s) EXCEPT !.disk[block] = c]

Kmalloc(s) ==
    IF Ok(s) /\ s.fuel = 0 /\ "eio" \in env THEN Fail(Tick(s), "ENOMEM") ELSE s

(***************************************************************************)
(* Blocks.                                                                 *)
(***************************************************************************)
Marked_not(s, block) == s.map  \* mutant
Marked(s, block) == s.map \union {block}

\* sfs_balloc, bitmap_alloc: the first free block, cleared.
Balloc(s) ==
    LET free == Blocks \ s.map
        block == CHOOSE b \in free : \A c \in free : b <= c
    IN
    IF ~Ok(s) THEN s
    ELSE IF free = {} THEN Fail(s, "ENOSPC")
    ELSE Ret(Writeblock([s EXCEPT !.map = Marked(s, block), !.dirty = TRUE],
                        block, Zero), block)

\* sfs_bfree of each of blocks; bitmap_unmark asserts that it is in use.
Bfree(s, blocks) ==
    IF ~Ok(s) \/ blocks = {} THEN s
    ELSE [Require(s, blocks \subseteq s.map, "unmark")
             EXCEPT !.map = @ \ blocks, !.dirty = TRUE]

\* The end of sfs_bmap: what is handed back must be in use.
Handed(s) == Require(s, s.ret = 0 \/ s.ret \in s.map, "block marked free")

BmapDirect(s, ino, fileblock, doalloc) ==
    LET block == s.vn[ino].i.direct[fileblock + 1] IN
    IF block # 0 \/ ~doalloc THEN Handed(Ret(s, block))
    ELSE Then(Balloc(s), LAMBDA r :
            Handed([r EXCEPT !.vn[ino].i.direct[fileblock + 1] = r.ret,
                             !.vn[ino].dirty = TRUE]))

\* The indirect block is there, or is made when something goes into it.
BmapTable(s, ino) ==
    LET idblock == s.vn[ino].i.indirect IN
    IF idblock # 0
    THEN Require(Readblock(s), s.disk[idblock].k \in {"zero", "table"},
                "garbage")
    ELSE Then(Balloc(s), LAMBDA r :
            [r EXCEPT !.vn[ino].i.indirect = r.ret, !.vn[ino].dirty = TRUE])

BmapIndirect(s, ino, idoff, doalloc) ==
    LET old == s.vn[ino].i.indirect
        table == IF old = 0 THEN ZeroTable ELSE Table(s.disk[old])
    IN
    IF old = 0 /\ ~doalloc THEN Ret(s, 0)
    ELSE Then(BmapTable(s, ino), LAMBDA r1 :
            IF table[idoff + 1] # 0 \/ ~doalloc
            THEN Handed(Ret(r1, table[idoff + 1]))
            ELSE Then(Balloc(r1), LAMBDA r2 :
                    Handed(Writeblock(r2, r2.vn[ino].i.indirect,
                      Holds("table", [table EXCEPT ![idoff + 1] = r2.ret])))))

TooBig(fileblock) == (fileblock - NDIRECT) \div DBPERIDB >= NINDIRECT

\* sfs_bmap
Bmap(s, ino, fileblock, doalloc) ==
    IF ~Ok(s) THEN s
    ELSE IF fileblock < NDIRECT THEN BmapDirect(s, ino, fileblock, doalloc)
    ELSE IF TooBig(fileblock) THEN Fail(s, "EFBIG")
    ELSE BmapIndirect(s, ino, fileblock - NDIRECT, doalloc)

\* sfs_itrunc: the direct blocks past the end, then the indirect ones.  The
\* first block past the end stays when it is an indirect one.
Keeps(i, drop) ==
    [i EXCEPT !.direct = [k \in DOMAIN @ |-> IF k \in drop THEN 0 ELSE @[k]]]

PastEnd(k, blocklen) == k > blocklen

ItruncDirect(s, ino, blocklen) ==
    LET i == s.vn[ino].i
        drop == {k \in 1 .. NDIRECT : PastEnd(k, blocklen) /\ i.direct[k] # 0}
    IN  IF drop = {} THEN s
        ELSE [Bfree(s, {i.direct[k] : k \in drop})
                 EXCEPT !.vn[ino].i = Keeps(i, drop), !.vn[ino].dirty = TRUE]

ItruncIndirect(s, ino, blocklen) ==
    LET idblock == s.vn[ino].i.indirect
        table == Table(s.disk[idblock])
        drop == {j \in 1 .. DBPERIDB :
                    blocklen < NDIRECT + j - 1 /\ table[j] # 0}
        left == [j \in 1 .. DBPERIDB |-> IF j \in drop THEN 0 ELSE table[j]]
        sound == s.disk[idblock].k \in {"zero", "table"}
    IN
    IF idblock = 0 \/ blocklen >= NDIRECT + DBPERIDB - 1 THEN s
    ELSE Then(Bfree(Require(Readblock(s), sound, "garbage"),
                    {table[j] : j \in drop}), LAMBDA r :
            IF left = ZeroTable
            THEN [Bfree(r, {idblock}) EXCEPT !.vn[ino].i.indirect = 0,
                                             !.vn[ino].dirty = TRUE]
            ELSE IF drop = {} THEN r
            ELSE Writeblock(r, idblock, Holds("table", left)))

Itrunc(s, ino, len) ==
    LET blocklen == DivRoundUp(len, BLOCKSIZE) IN
    Then(ItruncIndirect(ItruncDirect(s, ino, blocklen), ino, blocklen),
         LAMBDA r : [r EXCEPT !.vn[ino].i.size = len, !.vn[ino].dirty = TRUE])

(***************************************************************************)
(* Inodes and vnodes.                                                      *)
(***************************************************************************)
SyncInode(s, ino) ==
    IF ~Ok(s) \/ ~s.vn[ino].dirty THEN s
    ELSE [Writeblock(s, ino, Holds("inode", s.vn[ino].i))
             EXCEPT !.vn[ino].dirty = FALSE]

\* sfs_reclaim, of the last reference.
Reclaim(s, ino) ==
    LET gone == s.vn[ino].i.links = 0 IN
    Then(Bfree(SyncInode(IF gone THEN Itrunc(s, ino, 0) ELSE s, ino),
               IF gone THEN {ino} ELSE {}),
         LAMBDA r : [r EXCEPT !.vn[ino] = NULL])

\* VOP_DECREF, after a failure too; what VOP_RECLAIM returns is only printed.
Decref(s, ino) ==
    LET ok == [s EXCEPT !.err = "ok"] IN
    IF s.panic # "none" THEN s
    ELSE [IF s.vn[ino].ref > 1 THEN [ok EXCEPT !.vn[ino].ref = @ - 1]
          ELSE Reclaim(ok, ino) EXCEPT !.err = s.err]

\* sfs_loadvnode: of an inode that is in memory, or from the disk; forcetype
\* is what the caller makes.
LoadKnown(s, ino, forcetype) ==
    Ret([Require(s, forcetype = "inval", "forcetype")
            EXCEPT !.vn[ino].ref = @ + 1], ino)

LoadNew(s, ino, forcetype) ==
    LET i == Inode(s.disk[ino])
        new == IF forcetype = "inval" THEN i ELSE [i EXCEPT !.type = forcetype]
        usable(r) == Require(Require(Require(r,
              s.disk[ino].k \in {"zero", "inode"}, "garbage"),
              forcetype # "inval" => i.type = "inval", "forcetype"),
              new.type # "inval", "invalid type")
    IN
    Then(usable(Readblock(Require(Kmalloc(s), ino \in s.map,
                                 "load from unallocated block"))),
         LAMBDA r : Ret([r EXCEPT !.vn[ino] = [i |-> new, ref |-> 1,
                                     dirty |-> forcetype # "inval"]], ino))

Loadvnode(s, ino, forcetype) ==
    Then(Require(s, \A x \in Blocks : s.vn[x] # NULL => x \in s.map,
                "inode in unallocated block"),
         LAMBDA r : IF r.vn[ino] # NULL THEN LoadKnown(r, ino, forcetype)
                    ELSE LoadNew(r, ino, forcetype))

\* sfs_makeobj
FreeAgain(r, block) ==
    IF r.err = "ok" \/ r.panic # "none" THEN r
    ELSE [Bfree([r EXCEPT !.err = "ok"], {block}) EXCEPT !.err = r.err]
Makeobj(s) ==
    Then(Balloc(s), LAMBDA r : FreeAgain(Loadvnode(r, r.ret, "file"), r.ret))

(***************************************************************************)
(* The directory.                                                          *)
(***************************************************************************)
Root(s) == s.vn[SFS_ROOTDIR_INO].i
NEntries(s) == Root(s).size \div DIRSIZE
SlotBlock(slot) == (slot * DIRSIZE) \div BLOCKSIZE

\* The block an inode has at fileblock, or 0.
BlockAt(d, i, fileblock) ==
    IF fileblock < NDIRECT THEN i.direct[fileblock + 1]
    ELSE IF i.indirect = 0 \/ TooBig(fileblock) THEN 0
    ELSE Table(d[i.indirect])[fileblock - NDIRECT + 1]

EntryAt(d, i, slot) ==
    LET block == BlockAt(d, i, SlotBlock(slot))
    IN  IF block = 0 THEN NoEntry
        ELSE Entries(d[block])[(slot % PerBlock) + 1]

\* sfs_readdir of a slot: sfs_metaio, reading.
Readdir(s, slot) ==
    Then(Bmap(s, SFS_ROOTDIR_INO, SlotBlock(slot), FALSE), LAMBDA r :
        IF r.ret = 0 THEN r
        ELSE Require(Readblock(r), r.disk[r.ret].k \in {"zero", "entries"},
                     "garbage"))

Slots(s) == [k \in 1 .. NEntries(s) |-> k - 1]
SlotsOf(s, name) ==
    {k \in Seqs!ToSet(Slots(s)) :
        LET e == EntryAt(s.disk, Root(s), k)
        IN  e.ino # NOINO /\ e.name = name}

\* sfs_dir_findname: every slot is read, the name may be there once.
Findname(s, name) ==
    LET found == SlotsOf(s, name) IN
    Ret(Require(Seqs!FoldLeft(Readdir, s, Slots(s)),
                Cardinality(found) <= 1, "name twice"),
        IF found = {} THEN NULL ELSE CHOOSE k \in found : TRUE)

\* sfs_writedir: sfs_metaio, writing.
WithEntry(c, slot, entry) ==
    Holds("entries", [Entries(c) EXCEPT ![(slot % PerBlock) + 1] = entry])
Extended(s, end) ==
    IF end <= Root(s).size THEN s
    ELSE [s EXCEPT !.vn[SFS_ROOTDIR_INO].i.size = end,
                   !.vn[SFS_ROOTDIR_INO].dirty = TRUE]
Writedir(s, slot, entry) ==
    Then(Readblock(Bmap(s, SFS_ROOTDIR_INO, SlotBlock(slot), TRUE)), LAMBDA r :
        Extended(Writeblock(r, r.ret,
                            WithEntry(r.disk[r.ret], slot, entry)),
                 (slot + 1) * DIRSIZE))

\* sfs_dir_link: the last empty slot, or a new one.
DirLink(s, name, ino) ==
    LET empty == {k \in Seqs!ToSet(Slots(s)) :
                     EntryAt(s.disk, Root(s), k).ino = NOINO}
        slot == IF empty = {} THEN NEntries(s)
                ELSE CHOOSE k \in empty : \A l \in empty : k >= l
    IN
    Then(Findname(s, name), LAMBDA r :
        IF r.ret # NULL THEN Fail(r, "EEXIST")
        ELSE Ret(Writedir(r, slot, [ino |-> ino, name |-> name]), slot))

DirUnlink(s, slot) == Writedir(s, slot, NoEntry)

\* sfs_lookonce; ret is the inode, the slot is found again by SlotOf.
InoAt(s, slot) == EntryAt(s.disk, Root(s), slot).ino
Lookonce(s, name) ==
    Then(Findname(s, name), LAMBDA r :
        IF r.ret = NULL THEN Fail(r, "ENOENT")
        ELSE Then(Loadvnode(r, InoAt(s, r.ret), "inval"), LAMBDA v :
                Require(v, v.vn[v.ret].i.links # 0, "linkcount 0")))

SlotOf(s, name) == CHOOSE k \in SlotsOf(s, name) : TRUE

AddLinks(s, ino, n) ==
    IF ~Ok(s) THEN s
    ELSE [s EXCEPT !.vn[ino].i.links = @ + n, !.vn[ino].dirty = TRUE]

(***************************************************************************)
(* Vnode operations.                                                       *)
(***************************************************************************)
\* sfs_creat, with what was there or something new.
CreatLinked(r, ino) ==
    IF Ok(r) THEN Ret(AddLinks(r, ino, 1), ino) ELSE Decref(r, ino)
Creat(s, name) ==
    Then(Findname(s, name), LAMBDA r :
        IF r.ret # NULL THEN Loadvnode(r, InoAt(s, r.ret), "inval")
        ELSE Then(Makeobj(r), LAMBDA new :
                CreatLinked(DirLink(new, name, new.ret), new.ret)))

\* sfs_link
LinkTo(s, name, ino) == AddLinks(DirLink(s, name, ino), ino, 1)

Unlinked_kept(s, ino) == s  \* mutant
Unlinked(s, ino) == AddLinks(s, ino, -1)

\* sfs_remove
RemoveName(s, name) ==
    Then(Lookonce(s, name), LAMBDA r :
        Decref(Unlinked(DirUnlink(r, SlotOf(s, name)), r.ret), r.ret))

RenameUnlink_not(s, slot) == s  \* mutant
RenameUnlink(s, slot) == DirUnlink(s, slot)

\* sfs_rename: link, unlink; when that fails, unlink the new name again.
RenameUndone(r, why) ==
    IF Ok(r) THEN Fail(r, why) ELSE [r EXCEPT !.panic = "rename"]
RenameUndo(r, slot) ==
    IF Ok(r) \/ r.panic # "none" THEN r
    ELSE RenameUndone(DirUnlink([r EXCEPT !.err = "ok"], slot), r.err)
RenameEnd(r, ino) ==
    IF r.panic # "none" THEN r
    ELSE Decref([r EXCEPT !.vn[ino].i.links = @ - 1,
                          !.vn[ino].dirty = @ \/ Ok(r)], ino)
RenameLinked(r, slot, ino) ==
    IF ~Ok(r) THEN Decref(r, ino)
    ELSE RenameEnd(RenameUndo(RenameUnlink(AddLinks(r, ino, 1), slot), r.ret),
                   ino)
Rename(s, n1, n2) ==
    Then(Lookonce(s, n1), LAMBDA r :
        RenameLinked(DirLink(r, n2, r.ret), SlotOf(s, n1), r.ret))

\* sfs_partialio and sfs_blockio, writing: the cells of one block from off
\* on; a block that is not written as a whole is read first.  The user's
\* buffer ends at bad, which uiomove notices when the block is there.  ret
\* counts.
Uiomove(r, stop, bad) == IF stop > bad THEN Fail(r, "EFAULT") ELSE r

Blockio(s, ino, off, end, bad) ==
    LET fileblock == off \div BLOCKSIZE
        stop == Min2(end, (fileblock + 1) * BLOCKSIZE)
        whole == stop - off = BLOCKSIZE
        written(c) == Holds("cells", [k \in 1 .. BLOCKSIZE |->
            LET at == fileblock * BLOCKSIZE + k
            IN  IF at > off /\ at <= stop THEN Value ELSE Cells(c)[k]])
        put(r) == Then(Uiomove(IF whole THEN r ELSE Readblock(r), stop, bad),
            LAMBDA r1 :
            Ret(Writeblock(r1, r1.ret, written(r1.disk[r1.ret])), stop))
        count(r) == IF Ok(r) THEN r ELSE Ret(r, off)
    IN  count(Then(Bmap(s, ino, fileblock, TRUE), put))

Grows(size, end) == IF end > size THEN end ELSE size

\* sfs_io, writing: block by block; the size covers what was written.
IoEnd(r, ino, off) ==
    LET size == Grows(r.vn[ino].i.size, r.ret)
    IN  IF r.ret = off \/ r.panic # "none" THEN r
        ELSE [r EXCEPT !.vn[ino].i.size = size,
                       !.vn[ino].dirty = @ \/ size # r.vn[ino].i.size]
Io(s, ino, off, len, bad) ==
    LET blocks == (off + len - 1) \div BLOCKSIZE - off \div BLOCKSIZE + 1
        one(r, unused) ==
            IF Ok(r) THEN Blockio(r, ino, r.ret, off + len, bad) ELSE r
    IN  IoEnd(Seqs!FoldLeft(one, Ret(s, off), [k \in 1 .. blocks |-> k]),
              ino, off)

\* sfs_sync: the inodes, whatever becomes of them, then the map.
SyncVnodes_none(s) == s  \* mutant
SyncVnodes(s) ==
    Seqs!FoldLeft(SyncInode, s,
                  Seqs!SetToSeq({ino \in Blocks : s.vn[ino] # NULL}))
SyncFreemap(s) ==
    IF ~s.dirty THEN s
    ELSE [Writeblock(s, SFS_FREEMAP, Holds("map", s.map))
             EXCEPT !.dirty = FALSE]
Sync(s) == SyncFreemap(SyncVnodes(s))

(***************************************************************************)
(* The system.                                                             *)
(***************************************************************************)
NoVnodes == [b \in Blocks |-> NULL]
NoneHeld == [b \in Blocks |-> 0]
NoneSafe == [n \in Names |-> NULL]

\* A volume as mksfs makes it.
Init ==
    /\ disk = [b \in Blocks |->
                 CASE b = SFS_ROOTDIR_INO ->
                        Holds("inode", [ZeroInode EXCEPT !.type = "dir",
                                                         !.links = 1])
                   [] b = SFS_FREEMAP -> Holds("map", 0 .. 2)
                   [] OTHER -> Zero]
    /\ sfs_freemap = {} /\ sfs_freemapdirty = FALSE
    /\ sfs_vnodes = NoVnodes
    /\ held = NoneHeld
    /\ mounted = FALSE /\ fault = "none" /\ calls = 0
    /\ safe = NoneSafe
    /\ env \in Environments
    /\ panic = "none"

\* What can be seen of a disk with some of its inodes in memory.
InodeOf(d, vn, ino) == IF vn[ino] # NULL THEN vn[ino].i ELSE Inode(d[ino])
DirView(d, vn) ==
    LET i == InodeOf(d, vn, SFS_ROOTDIR_INO)
        entries == {EntryAt(d, i, k) : k \in 0 .. (i.size \div DIRSIZE) - 1}
    IN  [n \in Names |->
           IF \E e \in entries : e.ino # NOINO /\ e.name = n
           THEN (CHOOSE e \in entries : e.ino # NOINO /\ e.name = n).ino
           ELSE NULL]
Content(d, i) ==
    [p \in 1 .. i.size |->
       LET b == BlockAt(d, i, (p - 1) \div BLOCKSIZE)
       IN  IF b = 0 THEN 0 ELSE Cells(d[b])[((p - 1) % BLOCKSIZE) + 1]]
DataView(d, vn) ==
    LET named == {DirView(d, vn)[n] : n \in Names}
    IN  [f \in Blocks |->
           IF f \in named \/ (vn[f] # NULL /\ f # SFS_ROOTDIR_INO)
           THEN Content(d, InodeOf(d, vn, f)) ELSE <<>>]

dir == DirView(disk, sfs_vnodes)
NamesOf(ino) == {n \in Names : dir[n] = ino}
Contents(d, vn) ==
    [n \in Names |-> LET ino == DirView(d, vn)[n]
                     IN  IF ino = NULL THEN NULL
                         ELSE Content(d, InodeOf(d, vn, ino))]

\* safe matters when the power may fail.
Synced == IF "crash" \in env THEN Contents(disk, sfs_vnodes) ELSE NoneSafe

Running == panic = "none" /\ fault # "crash" /\ UNCHANGED env
Mounted == Running /\ mounted
Fuels == IF env \subseteq {"badbuf"} \/ fault # "none" THEN {NEVER}
         ELSE {NEVER} \union 0 .. MAXIO
Total == LET count[S \in SUBSET Blocks] ==
                 IF S = {} THEN 0
                 ELSE LET b == CHOOSE x \in S : TRUE
                      IN  held[b] + count[S \ {b}]
         IN  count[Blocks]

\* An operation has ended with r, or the power has failed in it: then only
\* the disk is left.
Commit(r, newheld, newsafe, crashsafe) ==
    /\ disk' = r.disk
    /\ \/ /\ "crash" \in env /\ r.fuel = 0
          /\ sfs_freemap' = {} /\ sfs_freemapdirty' = FALSE
          /\ sfs_vnodes' = NoVnodes /\ held' = NoneHeld
          /\ fault' = "crash"
          /\ safe' = crashsafe
          /\ UNCHANGED panic
       \/ /\ r.fuel = NEVER
          /\ sfs_freemap' = r.map /\ sfs_freemapdirty' = r.dirty
          /\ sfs_vnodes' = r.vn /\ held' = newheld
          /\ fault' = IF r.hit THEN "eio" ELSE fault
          /\ safe' = newsafe /\ panic' = r.panic
    /\ UNCHANGED mounted

\* It leaves the references as they are, or adds one to r.ret; the files of
\* the names in touched are changed.
Count == calls < MAXCALLS /\ calls' = calls + 1
Done(r, touched) ==
    LET s == [n \in Names |-> IF n \in touched THEN NULL ELSE safe[n]]
    IN  Commit(r, held, s, s)
DoneRef(r, touched) ==
    LET s == [n \in Names |-> IF n \in touched THEN NULL ELSE safe[n]]
    IN  Commit(r, IF Ok(r) THEN [held EXCEPT ![r.ret] = @ + 1] ELSE held, s, s)

InDir == Mounted /\ held[SFS_ROOTDIR_INO] > 0
Open(ino) == Mounted /\ held[ino] > 0 /\ ino # SFS_ROOTDIR_INO

Getroot == \E fuel \in Fuels :
    /\ Mounted /\ Total < MAXREFS
    /\ DoneRef(Loadvnode(St(fuel), SFS_ROOTDIR_INO, "inval"), {})
    /\ UNCHANGED calls

DoLookup(n) == \E fuel \in Fuels :
    /\ InDir /\ Total < MAXREFS
    /\ DoneRef(Lookonce(St(fuel), n), {})
    /\ UNCHANGED calls

DoCreat(n) == \E fuel \in Fuels :
    /\ InDir /\ Total < MAXREFS
    /\ Count
    /\ DoneRef(Creat(St(fuel), n), {n} \ {m \in Names : dir[m] # NULL})

DoLink(n, ino) == \E fuel \in Fuels :
    /\ InDir /\ Open(ino)
    /\ Count
    /\ Done(LinkTo(St(fuel), n, ino), {n} \ {m \in Names : dir[m] # NULL})

DoRemove(n) == \E fuel \in Fuels :
    /\ InDir
    /\ Count
    /\ Done(RemoveName(St(fuel), n), {n})

DoRename(n1, n2) == \E fuel \in Fuels :
    /\ InDir
    /\ Count
    /\ Done(Rename(St(fuel), n1, n2), {n1, n2})

BufferEnds(w) ==
    {w[1] + w[2]} \union
        IF "badbuf" \in env THEN w[1] .. w[1] + w[2] ELSE {}

DoWrite(ino, w) == \E fuel \in Fuels, bad \in BufferEnds(w) :
    /\ Open(ino)
    /\ Count
    /\ Done(Io(St(fuel), ino, w[1], w[2], bad), NamesOf(ino))

DoTruncate(ino, len) == \E fuel \in Fuels :
    /\ Open(ino)
    /\ Count
    /\ Done(Itrunc(St(fuel), ino, len), NamesOf(ino))

DoFsync(ino) == \E fuel \in Fuels :
    /\ Mounted /\ held[ino] > 0
    /\ Done(SyncInode(St(fuel), ino), {})
    /\ UNCHANGED calls

Close(ino) == \E fuel \in Fuels :
    /\ Mounted /\ held[ino] > 0
    /\ Commit(Decref(St(fuel), ino), [held EXCEPT ![ino] = @ - 1], safe, safe)
    /\ UNCHANGED calls

DoSync == \E fuel \in Fuels :
    /\ Mounted
    /\ Commit(Sync(St(fuel)), held, Synced, safe)
    /\ UNCHANGED calls

\* vfs_unmount: FS_SYNC, and sfs_unmount when no vnode is left.
Unmount ==
    LET r == Sync(St(NEVER)) IN
    /\ Mounted
    /\ sfs_vnodes = NoVnodes
    /\ disk' = r.disk
    /\ sfs_freemap' = {} /\ sfs_freemapdirty' = FALSE
    /\ mounted' = FALSE
    /\ safe' = Synced
    /\ UNCHANGED <<sfs_vnodes, held, fault, calls, panic>>

\* sfs_domount: the super block, then the map.
Mount ==
    /\ Running /\ ~mounted
    /\ sfs_freemap' = disk[SFS_FREEMAP].v
    /\ sfs_freemapdirty' = FALSE
    /\ mounted' = TRUE
    /\ UNCHANGED <<disk, sfs_vnodes, held, fault, calls, safe, panic>>

Next ==
    \/ Mount \/ Unmount \/ Getroot \/ DoSync
    \/ \E n \in Names :
          \/ DoLookup(n) \/ DoCreat(n) \/ DoRemove(n)
          \/ \E m \in Names : DoRename(n, m)
          \/ \E ino \in Blocks : DoLink(n, ino)
    \/ \E ino \in Blocks :
          \/ \E w \in WRITES : DoWrite(ino, w)
          \/ \E len \in LENGTHS : DoTruncate(ino, len)
          \/ DoFsync(ino) \/ Close(ino)

Spec == Init /\ [][Next]_vars

-----------------------------------------------------------------------------
\* The free map, what is loaded and what is open are about blocks there are.
TypeOK ==
    /\ sfs_freemap \subseteq Blocks
    /\ \A b \in Blocks :
          /\ disk[b].k \in
                {"zero", "inode", "table", "cells", "entries", "map"}
          /\ sfs_vnodes[b] # NULL => sfs_vnodes[b].ref \in 1 .. MAXREFS + 1
          /\ sfs_vnodes[b] # NULL =>
                sfs_vnodes[b].i.size \in 0 .. (NDIRECT + DBPERIDB) * BLOCKSIZE
    /\ held \in [Blocks -> 0 .. MAXREFS]

\* The assertions that fail after a lost write or a failing read.
Breaks ==
    [eio |-> {"linkcount 0", "invalid type", "load from unallocated block",
              "forcetype", "garbage", "unmark", "block marked free",
              "inode in unallocated block"},
     crash |-> {}, badbuf |-> {}]

\* On a disk that works none of SFS's assertions and consistency checks
\* fails, whatever was done before; power failures included, up to the mount
\* that follows.
NoPanic == panic \in {"none"} \union UNION {Breaks[e] : e \in env}

Reliable == fault = "none"
FreemapNow == IF mounted THEN sfs_freemap ELSE disk[SFS_FREEMAP].v
LiveInodes ==
    {SFS_ROOTDIR_INO} \union {dir[n] : n \in {m \in Names : dir[m] # NULL}}
        \union {b \in Blocks : sfs_vnodes[b] # NULL}
Live(ino) == InodeOf(disk, sfs_vnodes, ino)

\* The places where a block is referred to: a live inode, one of its direct
\* or indirect blocks, the block of its table.
PlacesOf(ino) ==
    {<<ino, fb, BlockAt(disk, Live(ino), fb)>> :
        fb \in 0 .. NDIRECT + DBPERIDB - 1}
      \union {<<ino, -1, Live(ino).indirect>>, <<ino, -2, ino>>}
Places == UNION {PlacesOf(ino) : ino \in LiveInodes}
PlacesWith(b) == {p \in Places : p[3] = b}

\* The free map has exactly the blocks that something leads to, and one thing
\* each: nothing is allocated twice, freed while used, or leaked, by any
\* sequence of calls, those included that fail for lack of space.
BlocksOnce ==
    Reliable => \A b \in Blocks \ {SFS_SUPER_BLOCK, SFS_FREEMAP} :
        Cardinality(PlacesWith(b)) = IF b \in FreemapNow THEN 1 ELSE 0

\* The link count of a file, in memory or on disk, is the number of its names:
\* creat, link, remove and rename change both or none.
LinksMatch ==
    Reliable => \A ino \in LiveInodes \ {SFS_ROOTDIR_INO} :
        Live(ino).links = Cardinality(NamesOf(ino))

\* A vnode is in memory as long as something refers to it, and no longer: no
\* path through an operation forgets the reference it took.
RefsMatch ==
    Reliable => \A ino \in Blocks :
        held[ino] = IF sfs_vnodes[ino] = NULL THEN 0 ELSE sfs_vnodes[ino].ref

\* Past the end of a file there are no blocks, but for the first one, which
\* sfs_itrunc spares when it is an indirect one, and for those that a write
\* from a bad buffer has allocated and not come to fill.
NothingPastEnd ==
    Reliable => \A ino \in LiveInodes, fb \in 0 .. NDIRECT + DBPERIDB - 1 :
        LET blocklen == DivRoundUp(Live(ino).size, BLOCKSIZE)
            block == BlockAt(disk, Live(ino), fb)
        IN  fb >= blocklen /\ block # 0
                => \/ fb = blocklen /\ fb >= NDIRECT
                   \/ "badbuf" \in env /\ disk[block] = Zero

\* A file that was synced and not touched since is on the disk, whole, with
\* its blocks in the disk's free map, at every moment and whatever else was
\* under way when the power failed.
SyncedSurvives ==
    fault # "eio" => \A n \in Names : safe[n] # NULL =>
        LET ino == DirView(disk, NoVnodes)[n] IN
        /\ Contents(disk, NoVnodes)[n] = safe[n]
        /\ {ino} \union {BlockAt(disk, Inode(disk[ino]), fb) :
                fb \in 0 .. DivRoundUp(Inode(disk[ino]).size, BLOCKSIZE) - 1}
              \subseteq disk[SFS_FREEMAP].v

\* SFS implements the file system of the module FileSystem: what can be seen
\* through names and contents changes as one call at a time says, and syncing,
\* closing, unmounting and mounting do not change it.
AbstractFs == INSTANCE FileSystem WITH
    Files <- Blocks, Offsets <- 0 .. (NDIRECT + DBPERIDB) * BLOCKSIZE,
    data <- DataView(disk, sfs_vnodes), broken <- ~Reliable
Refines == AbstractFs!Spec

\* The volume is consistent, between any two calls and whichever failed: what
\* a file system check would look for, on disk and vnodes taken together.
Consistent ==
    TypeOK /\ BlocksOnce /\ LinksMatch /\ RefsMatch /\ NothingPastEnd

=============================================================================
