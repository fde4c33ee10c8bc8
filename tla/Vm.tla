--------------------------------- MODULE Vm ---------------------------------
(***************************************************************************)
(* The kernel heap and the address spaces of processes on one memory.      *)
(***************************************************************************)
EXTENDS Kmalloc, AddrSpace, Copyinout

vars == <<ramvars, kvars, avars>>
Init == RamInit /\ KmallocInit /\ AsInit
Next == \/ HeapNext /\ UNCHANGED avars
        \/ ProcNext /\ UNCHANGED kvars
Spec == Init /\ [][Next]_vars

(***************************************************************************)
(* Properties.                                                             *)
(***************************************************************************)
TypeOK ==
    /\ firstpaddr \in 0 .. LASTPADDR
    /\ \A t \in Callers : kpc[t] \in {"idle", "page", "ref", "refpage",
                                      "gotpage"}
    /\ \A i \in Roots : /\ kheaproots[i].page \in 0 .. LASTPADDR
                        /\ kheaproots[i].inuse \subseteq Entries
    /\ t_addrspace \in [Threads -> AsIds \union {NULL}]
    /\ \A c \in Boards : c_curthread[c] \in Threads \union {NULL}
    /\ \A c \in Boards : Len(tlb[c]) <= NUM_TLB
    /\ DOMAIN mem = Pages
    /\ lk_exec \in Threads \union {NULL}

\* What each environment can make of the assertions and panics of kmalloc.c,
\* dumbvm.c, trap.c and uio.c.
Breaks(e) ==
    CASE e = "huge" -> {"heap", "bus error"}
      [] e \in {"one segment", "empty segment"} -> {"as not set up"}
      [] e = "page 0" -> {"as not set up", "user fault"}
      [] e \in {"many pages", "bad access"} -> {"user fault"}
      [] e = "read" -> {"kernel fault"}
      [] e = "getcwd" -> {"not the address space"}
      [] e = "long arguments" -> {"beyond kargbuf"}

\* With programs of two segments, neither of them empty or in page 0, that
\* touch only what they have, and no more of it than the TLB has room for, no
\* assertion fails and nothing panics, out of memory or not; each environment
\* breaks what is listed for it and no more (as_define_region and load_elf let
\* all of these programs pass).
NoPanic == panic \in {"none"} \union UNION {Breaks(e) : e \in env}

\* A page that was handed out is in one place: a page of pagerefs, a page of
\* the heap, a large block, a call on its way or a region of an address space.
RootClaims(roots) ==
    {[who |-> <<"root", i>>, page |-> roots[i].page] : i \in Roots}
HeapClaims(refs) ==
    {[who |-> <<"heap", r>>, page |-> refs[r].page] : r \in DOMAIN refs}
NewClaims(l) == {[who |-> <<"new", t>>, page |-> l[t].page] : t \in Callers}
RefClaims(l) == {[who |-> <<"ref", t>>, page |-> l[t].va] : t \in Callers}
LargeClaims(blocks) ==
    UNION {{[who |-> <<"large", b>>, page |-> b.page + i] :
              i \in 0 .. (b.npages - 1)} : b \in blocks}
AsClaims(spaces) ==
    UNION {UNION {{[who |-> <<"as", a, k>>,
                    page |-> Regions(spaces[a])[k][3] + i] :
                     i \in 0 .. (Regions(spaces[a])[k][2] - 1)} :
                    k \in {j \in 1 .. 3 : Regions(spaces[a])[j][3] # 0}} :
             a \in {x \in AsIds : spaces[x] # NULL}}
Claims == RootClaims(kheaproots) \union HeapClaims(pagerefs)
            \union NewClaims(kloc) \union RefClaims(kloc)
            \union LargeClaims(AllHeld) \union AsClaims(as)
PagesOnce == "huge" \notin env =>
    LET claims == {x \in Claims : x.page # 0} IN
    /\ \A x, y \in claims : x.page = y.page => x.who = y.who
    /\ \A x \in claims : x.page \in FIRSTPADDR .. (firstpaddr - 1)

\* The heap is sound at every step of two callers: each block and page of
\* pagerefs is held once, and the lists and counts of kmalloc.c agree.
HeapSound == TypeOK /\ BlocksOnce /\ ListsMatch /\ RefsCounted

\* Memory is kept apart: a page has one owner, an address space one process,
\* and no TLB leads a process to a page that is not its own.
MemoryApart == PagesOnce /\ AsOwned /\ TlbRight

\* A program sees the right data: in its memory what it or its loader put
\* there, and from the kernel's copies exactly what was asked for.
UserDataRight ==
    ContentsRight /\ CopyStaysInUser /\ UiomoveMovesN /\ ArgvRight

=============================================================================
