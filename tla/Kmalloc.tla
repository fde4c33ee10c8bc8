------------------------------ MODULE Kmalloc ------------------------------
(***************************************************************************)
(* The kernel heap: kmalloc and kfree of vm/kmalloc.c as built, without    *)
(* its debugging modes.  A step is what happens under kmalloc_spinlock;    *)
(* the lock is dropped around alloc_kpages.  A page of the heap is cut     *)
(* into blocks of one of the sizes; its pageref has the list of the free   *)
(* ones.  nfree is the length of that list, and numinuse the number of     *)
(* bits set in pagerefs_inuse.                                             *)
(***************************************************************************)
EXTENDS Ram, Sequences
Seqs == INSTANCE SequencesExt
Fns == INSTANCE Functions

CONSTANTS
    sizes,
    NUM_PAGEREFPAGES, NPAGEREFS_PER_PAGE,
    Callers,    \* threads that call kmalloc and kfree
    Requests,   \* what kmalloc is asked for
    MAXHELD     \* blocks a thread has at a time

ASSUME KmallocAssumptions ==
    /\ sizes \in Seq(Nat \ {0}) /\ sizes # << >>
    /\ \A i \in DOMAIN sizes : sizes[i] <= PAGE_SIZE
    /\ \A i, j \in DOMAIN sizes : i < j => sizes[i] < sizes[j]
    /\ NUM_PAGEREFPAGES \in Nat /\ NPAGEREFS_PER_PAGE \in Nat
    /\ IsFiniteSet(Callers) /\ Cardinality(Callers) < NPAGEREFS_PER_PAGE
    /\ Requests \subseteq Nat

VARIABLES
    kheaproots,  \* of each root: its page or 0, and the entries in use
    pagerefs,    \* of each pageref in use: page, type and free list
    sizebases, allbase,
    held,        \* not in the code: the blocks each thread has
    kpc, kloc

heapvars == <<kheaproots, pagerefs, sizebases, allbase>>
kthvars == <<held, kpc, kloc>>
kvars == <<heapvars, kthvars>>

Types == DOMAIN sizes
LARGEST_SUBPAGE_SIZE == sizes[Len(sizes)]
Roots == 1 .. NUM_PAGEREFPAGES
Entries == 0 .. (NPAGEREFS_PER_PAGE - 1)
NBlocks(type) == PAGE_SIZE \div sizes[type]
NoLoc == [type |-> 0, page |-> 0, root |-> 0, entry |-> 0, va |-> 0]
Block(page, blk) == [page |-> page, blk |-> blk, npages |-> 0]
Large(page, n) == [page |-> page, blk |-> 0, npages |-> n]

KmallocInit ==
    /\ kheaproots = [i \in Roots |-> [page |-> 0, inuse |-> {}]]
    /\ pagerefs = << >>
    /\ sizebases = [i \in Types |-> << >>]
    /\ allbase = << >>
    /\ held = [t \in Callers |-> {}]
    /\ kpc = [t \in Callers |-> "idle"]
    /\ kloc = [t \in Callers |-> NoLoc]

KAt(t, label) == panic = "none" /\ kpc[t] = label /\ UNCHANGED <<env>>
KGoto(t, label, l) == /\ kpc' = [kpc EXCEPT ![t] = label]
                      /\ kloc' = [kloc EXCEPT ![t] = l]
KReturn(t) == KGoto(t, "idle", NoLoc)
Gets(t, b) == held' = [held EXCEPT ![t] = @ \union {b}]

(***************************************************************************)
(* kmalloc.                                                                *)
(***************************************************************************)
Blocktype(sz) ==
    CHOOSE i \in Types : /\ sz <= sizes[i]
                         /\ \A j \in Types : sz <= sizes[j] => i <= j

\* Where on the type's list the first page is that has a free block, or 0.
WithRoom(type) ==
    Seqs!SelectInSeq(sizebases[type], LAMBDA r : pagerefs[r].free # << >>)

\* doalloc, with the pagerefs in which r is.
Doalloc(t, r, prs) ==
    /\ pagerefs' = [prs EXCEPT ![r].free = Tail(@)]
    /\ Gets(t, Block(prs[r].page, Head(prs[r].free)))
    /\ KReturn(t)

\* The large ones: whole pages.
KmallocLarge(t, sz) ==
    LET n == RoundedPages(sz) IN
    /\ sz >= LARGEST_SUBPAGE_SIZE
    /\ Advance(n)
    /\ IF Getppages(n) # 0 THEN Gets(t, Large(Getppages(n), n))
       ELSE UNCHANGED held
    /\ UNCHANGED <<heapvars, kpc, kloc>>

\* subpage_kmalloc, as far as the first release of the lock.
SubpageKmalloc(t, sz) ==
    LET type == Blocktype(sz)
        room == WithRoom(type)
    IN
    /\ sz < LARGEST_SUBPAGE_SIZE
    /\ IF room # 0
       THEN /\ Doalloc(t, sizebases[type][room], pagerefs)
            /\ UNCHANGED <<kheaproots, sizebases, allbase>>
       ELSE /\ KGoto(t, "page", [NoLoc EXCEPT !.type = type])
            /\ UNCHANGED <<heapvars, held>>
    /\ UNCHANGED firstpaddr

Kmalloc(t, sz) ==
    /\ KAt(t, "idle")
    /\ budget.heap > 0 /\ budget' = [budget EXCEPT !.heap = @ - 1]
    /\ Cardinality(held[t]) < MAXHELD
    /\ Wraps(WholePages(sz)) => "huge" \in env
    /\ KmallocLarge(t, sz) \/ SubpageKmalloc(t, sz)
    /\ UNCHANGED panic

\* alloc_kpages(1), without the lock.
KmallocPage(t) ==
    /\ KAt(t, "page")
    /\ Advance(1)
    /\ IF Getppages(1) # 0
       THEN KGoto(t, "ref", [kloc[t] EXCEPT !.page = Getppages(1)])
       ELSE KReturn(t)
    /\ UNCHANGED <<heapvars, held, budget, panic>>

\* The new page becomes one of the heap: every block is on its list, the last
\* one first.
Fresh(type) == [i \in 1 .. NBlocks(type) |-> NBlocks(type) - i]
NewPage(t, r) ==
    LET l == kloc[t]
        pr == [page |-> l.page, type |-> l.type, free |-> Fresh(l.type)]
    IN
    /\ sizebases' = [sizebases EXCEPT ![l.type] = <<r>> \o @]
    /\ allbase' = <<r>> \o allbase
    /\ Doalloc(t, r, [x \in DOMAIN pagerefs \union {r} |->
                        IF x = r THEN pr ELSE pagerefs[x]])

\* No pageref to be had: the page is given back, to no effect.
NoRef(t) == KReturn(t) /\ UNCHANGED <<pagerefs, sizebases, allbase, held>>

\* allocpageref, as far as allocpagerefpage.
Allocpageref(t) ==
    LET room == {i \in Roots :
                   Cardinality(kheaproots[i].inuse) < NPAGEREFS_PER_PAGE}
        root == CHOOSE i \in room : \A j \in room : i <= j
        unused == Entries \ kheaproots[root].inuse
        entry == CHOOSE e \in unused : \A f \in unused : e <= f
    IN
    /\ KAt(t, "ref")
    /\ IF room = {} THEN NoRef(t) /\ UNCHANGED kheaproots
       ELSE /\ kheaproots' = [kheaproots EXCEPT ![root].inuse =
                                @ \union {entry}]
            /\ IF kheaproots[root].page # 0
               THEN NewPage(t, <<kheaproots[root].page, entry>>)
               ELSE /\ KGoto(t, "refpage", [kloc[t] EXCEPT !.root = root,
                                                           !.entry = entry])
                    /\ UNCHANGED <<pagerefs, sizebases, allbase, held>>
    /\ UNCHANGED <<firstpaddr, budget, panic>>

\* allocpagerefpage: the page first, without the lock.
RefPage(t) ==
    /\ KAt(t, "refpage")
    /\ Advance(1)
    /\ KGoto(t, "gotpage", [kloc[t] EXCEPT !.va = Getppages(1)])
    /\ UNCHANGED <<heapvars, held, budget, panic>>

\* Then it is the root's page, unless somebody else has given it one.
Becomes_always(root, va) ==  \* mutant
    IF va = 0 THEN kheaproots[root].page ELSE va
Becomes(root, va) == IF kheaproots[root].page # 0 THEN kheaproots[root].page
                     ELSE va
Allocpagerefpage(t) ==
    LET l == kloc[t]
        page == Becomes(l.root, l.va)
    IN
    /\ KAt(t, "gotpage")
    /\ kheaproots' = [kheaproots EXCEPT ![l.root].page = page]
    /\ IF page = 0 THEN NoRef(t) ELSE NewPage(t, <<page, l.entry>>)
    /\ UNCHANGED <<firstpaddr, budget, panic>>

(***************************************************************************)
(* kfree.                                                                  *)
(***************************************************************************)
\* freepageref, when the roots before r's are as it asserts.
RootOf(r) == {i \in Roots : kheaproots[i].page = r[1]}
FreepagerefFails(r) ==
    \/ RootOf(r) = {}
    \/ \E i \in Roots : /\ \A k \in RootOf(r) : i < k
                        /\ kheaproots[i].page = 0 /\ kheaproots[i].inuse # {}
Freepageref(r) ==
    kheaproots' = [i \in Roots |->
        IF i \in RootOf(r) THEN [kheaproots[i] EXCEPT !.inuse = @ \ {r[2]}]
        ELSE kheaproots[i]]

RemoveLists_all(r) ==  \* mutant
    /\ allbase' = Seqs!RemoveFirst(allbase, r)
    /\ UNCHANGED sizebases
RemoveLists(r) ==
    /\ sizebases' = [sizebases EXCEPT
                        ![pagerefs[r].type] = Seqs!RemoveFirst(@, r)]
    /\ allbase' = Seqs!RemoveFirst(allbase, r)

\* Where on the list of all its page is, or 0.
OnPage(b) == Seqs!SelectInSeq(allbase, LAMBDA r : pagerefs[r].page = b.page)

\* subpage_kfree of a block on the page of r; a page that is all free goes.
SubpageKfree(r, blk) ==
    LET pr == [pagerefs[r] EXCEPT !.free = <<blk>> \o @]
        n == NBlocks(pr.type)
    IN
    IF Len(pr.free) > n
       \/ (Len(pr.free) > 1 /\ pr.free[1] = pr.free[2])
       \/ (Len(pr.free) = n /\ FreepagerefFails(r))
    THEN /\ panic' = "heap"
         /\ UNCHANGED heapvars
    ELSE IF Len(pr.free) = n
    THEN /\ RemoveLists(r)
         /\ Freepageref(r)
         /\ pagerefs' = Fns!Restrict(pagerefs, DOMAIN pagerefs \ {r})
         /\ UNCHANGED panic
    ELSE /\ pagerefs' = [pagerefs EXCEPT ![r] = pr]
         /\ UNCHANGED <<kheaproots, sizebases, allbase, panic>>

Kfree(t, b) ==
    /\ KAt(t, "idle")
    /\ b \in held[t]
    /\ held' = [held EXCEPT ![t] = @ \ {b}]
    /\ IF OnPage(b) = 0 THEN UNCHANGED <<heapvars, panic>>
       ELSE SubpageKfree(allbase[OnPage(b)], b.blk)
    /\ UNCHANGED <<kpc, kloc, firstpaddr, budget>>

HeapNext == \E t \in Callers :
    \/ \E sz \in Requests : Kmalloc(t, sz)
    \/ KmallocPage(t) \/ Allocpageref(t) \/ RefPage(t) \/ Allocpagerefpage(t)
    \/ \E b \in held[t] : Kfree(t, b)

(***************************************************************************)
(* Properties.                                                             *)
(***************************************************************************)
AllHeld == UNION {held[t] : t \in Callers}
HeldOn(page) == {b.blk : b \in {x \in AllHeld : x.npages = 0
                                               /\ x.page = page}}

\* On every page of the heap each block is either on the free list, once, or
\* with one caller of kmalloc; every block that somebody has is on a page of
\* the heap (subpage_kmalloc, subpage_kfree).
BlocksOnce == "huge" \notin env =>
    /\ \A i \in DOMAIN allbase :
          LET pr == pagerefs[allbase[i]]
              free == {pr.free[k] : k \in DOMAIN pr.free}
          IN  /\ Cardinality(free) = Len(pr.free)
              /\ free \cap HeldOn(pr.page) = {}
              /\ free \union HeldOn(pr.page) = 0 .. (NBlocks(pr.type) - 1)
    /\ \A t \in Callers : \A b \in held[t] :
          /\ b.npages = 0 => OnPage(b) # 0
          /\ \A u \in Callers \ {t} : b \notin held[u]

\* A page with a block in use is on the list of all and on the list of its
\* size, and on no other; a page without one is on none (remove_lists).
ListsMatch == "huge" \notin env =>
    LET all == {allbase[i] : i \in DOMAIN allbase} IN
    /\ DOMAIN pagerefs = all /\ Cardinality(all) = Len(allbase)
    /\ \A type \in Types :
          /\ {sizebases[type][i] : i \in DOMAIN sizebases[type]}
                = {r \in all : pagerefs[r].type = type}
          /\ \A r \in all : Len(pagerefs[r].free) < NBlocks(pagerefs[r].type)

\* While there is memory, an entry of a pageref page is marked exactly when
\* a page of the heap has it or a call on its way will (allocpageref and
\* freepageref, with the lock dropped in between).
RefsCounted == (firstpaddr < LASTPADDR /\ "huge" \notin env) =>
    \A i \in Roots :
        kheaproots[i].inuse =
            {r[2] : r \in {x \in DOMAIN pagerefs : x[1] = kheaproots[i].page}}
            \union {kloc[t].entry : t \in {u \in Callers :
                       kpc[u] \in {"refpage", "gotpage"} /\ kloc[u].root = i}}

=============================================================================
