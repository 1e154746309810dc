------------------------------- MODULE Paging -------------------------------
(****************************************************************************)
(* The page allocator of src/drivers/paging.c after paging_init: the bitmap *)
(* of physical pages, the page tables of the kernel heap at 0xD0000000 and  *)
(* the ranges paging_alloc_pages hands out.                                 *)
(*                                                                          *)
(* Pages are heap pages by number, frames physical pages by number, and a   *)
(* page directory entry covers PerTable pages.  paging_alloc_pages is taken *)
(* one page at a time, so that running out of frames is met at every point. *)
(****************************************************************************)
EXTENDS Naturals

CONSTANTS
    NFrames,     \* physical pages the bitmap covers
    NKernel,     \* pages paging_init marks used: kernel, directory, bitmap
    HeapPages,   \* pages of the heap paging_alloc_pages searches
    MaxCount,    \* bound: pages of one allocation
    PerTable,    \* PAGE_ENTRIES
    DemandPaging \* is paging_handle_page_fault called on a page fault?

ASSUME FrameAssumption == NFrames \in Nat /\ NKernel \in 1 .. NFrames
ASSUME HeapAssumption  == HeapPages \in Nat /\ MaxCount \in Nat /\ PerTable \in Nat \ {0}
ASSUME DemandAssumption == DemandPaging \in BOOLEAN

VARIABLES
    used,        \* the frames whose bit in page_bitmap is set
    table,       \* page_directory: the frame of each page table, or NoFrame
    pte,         \* the page table entries: the frame of each page, or NoFrame
    want,        \* count of the paging_alloc_pages call in progress, 0 if none
    base, done,  \* its first page and how many of its pages it went through
    before,      \* pte when it began (history)
    owned,       \* <<first page, count>> of what callers hold (history)
    lost         \* frames that paging_map_page failed to map (history)

heapVars == <<used, table, pte>>
callVars == <<want, base, done, before>>
vars     == <<heapVars, callVars, owned, lost>>

Frames   == 0 .. NFrames - 1
Kernel   == 0 .. NKernel - 1
NoFrame  == 0
Heap     == 0 .. HeapPages - 1
Pages    == 0 .. HeapPages + MaxCount    \* a range may end behind the heap
Dir(p)   == p \div PerTable
Dirs     == {Dir(p) : p \in Pages}
Counts   == 1 .. MaxCount
Span(b, n) == b .. b + n - 1

TypeOK ==
    /\ used \in SUBSET Frames
    /\ table \in [Dirs -> Frames]
    /\ pte \in [Pages -> Frames]
    /\ \A p \in Pages : pte[p] # NoFrame => table[Dir(p)] # NoFrame
    /\ want \in 0 .. MaxCount
    /\ base \in Heap \cup {0}
    /\ done \in 0 .. want
    /\ before \in [Pages -> Frames]
    /\ owned \in SUBSET (Heap \X Counts)
    /\ lost \in SUBSET Frames

\* What paging_init leaves: the kernel's frames taken, no table in the heap.
Init ==
    /\ used = Kernel
    /\ table = [d \in Dirs |-> NoFrame]
    /\ pte = [p \in Pages |-> NoFrame]
    /\ want = 0 /\ base = 0 /\ done = 0
    /\ before = pte
    /\ owned = {}
    /\ lost = {}

----------------------------------------------------------------------------
\* alloc_physical_page takes the lowest free frame.  (As mutated: the bit is
\* not tested.)
TakesAny(u, f) == f \in Frames \ Kernel
Takes(u, f) ==
    /\ f \in Frames \ u
    /\ \A g \in Frames \ u : f <= g
Full(u) == Frames \subseteq u

\* paging_map_page of page p on frame f, where u is the bitmap with f taken.  A
\* missing page table takes a frame of its own; when there is none the call
\* fails, and no caller looks at its result.  (As mutated, MapOverTable: the new
\* table is not taken from the bitmap but put into f; MapUnchecked: the result
\* of alloc_physical_page is not tested and the entry goes into frame 0.)
MapOverTable(p, f, u) ==
    /\ table' = [table EXCEPT ![Dir(p)] = IF @ = NoFrame THEN f ELSE @]
    /\ used' = u
    /\ pte' = [pte EXCEPT ![p] = f]
    /\ UNCHANGED lost
MapUnchecked(p, f, u) ==
    /\ pte' = [pte EXCEPT ![p] = f]
    /\ \/ /\ table[Dir(p)] # NoFrame \/ Full(u)
          /\ used' = u
          /\ UNCHANGED <<table, lost>>
       \/ \E t \in Frames :
             /\ table[Dir(p)] = NoFrame
             /\ Takes(u, t)
             /\ used' = u \cup {t}
             /\ table' = [table EXCEPT ![Dir(p)] = t]
             /\ UNCHANGED lost
Map(p, f, u) ==
    \/ /\ table[Dir(p)] # NoFrame
       /\ used' = u
       /\ pte' = [pte EXCEPT ![p] = f]
       /\ UNCHANGED <<table, lost>>
    \/ \E t \in Frames :
          /\ table[Dir(p)] = NoFrame
          /\ Takes(u, t)
          /\ used' = u \cup {t}
          /\ table' = [table EXCEPT ![Dir(p)] = t]
          /\ pte' = [pte EXCEPT ![p] = f]
          /\ UNCHANGED lost
    \/ /\ table[Dir(p)] = NoFrame
       /\ Full(u)
       /\ used' = u
       /\ lost' = lost \cup {f}
       /\ UNCHANGED <<table, pte>>

free_physical_page(frames) == used' = used \ frames

\* paging_unmap_page of each page in P: its frame and its entry are freed, page
\* tables stay.  (As mutated: the entry is cleared before the frame is read.)
UnmapKeepsFrames(P) ==
    /\ pte' = [p \in Pages |-> IF p \in P THEN NoFrame ELSE pte[p]]
    /\ UNCHANGED used
Unmap(P) ==
    /\ pte' = [p \in Pages |-> IF p \in P THEN NoFrame ELSE pte[p]]
    /\ free_physical_page({pte[p] : p \in P} \ {NoFrame})

----------------------------------------------------------------------------
Idle == want = 0

\* The search of paging_alloc_pages: the first range with no mapped page.  (As
\* mutated: only the first page of the range is looked at.)
FitsFirstPage(b, n) == pte[b] = NoFrame
Fits(b, n)          == \A p \in Span(b, n) : pte[p] = NoFrame

AllocStart(n) ==
    /\ Idle
    /\ \E b \in Heap :
          /\ Fits(b, n)
          /\ \A c \in Heap : c < b => ~Fits(c, n)
          /\ base' = b
    /\ want' = n /\ done' = 0
    /\ before' = pte
    /\ UNCHANGED <<heapVars, owned, lost>>

AllocPage ==
    /\ done < want
    /\ \E f \in Frames :
          /\ Takes(used, f)
          /\ Map(base + done, f, used \cup {f})
    /\ done' = done + 1
    /\ UNCHANGED <<want, base, before, owned>>

\* No frame for the next page: the pages mapped so far are unmapped and the
\* call returns 0.  (As mutated: the clean-up stops one page early.)
CleanedUpShort == Span(base, done - 1)
CleanedUp      == Span(base, done)

AllocFails ==
    /\ done < want
    /\ Full(used)
    /\ Unmap(CleanedUp)
    /\ want' = 0 /\ done' = 0
    /\ UNCHANGED <<table, base, before, owned, lost>>

AllocReturns ==
    /\ ~Idle /\ done = want
    /\ owned' = owned \cup {<<base, want>>}
    /\ want' = 0 /\ done' = 0
    /\ UNCHANGED <<heapVars, base, before, lost>>

\* paging_free_pages of a range its caller holds.
FreePages(r) ==
    /\ Idle
    /\ r \in owned
    /\ owned' = owned \ {r}
    /\ Unmap(Span(r[1], r[2]))
    /\ UNCHANGED <<table, callVars, lost>>

\* paging_handle_page_fault on a heap page that is not present.
PageFault(p) ==
    /\ DemandPaging
    /\ Idle
    /\ pte[p] = NoFrame
    /\ \E f \in Frames :
          /\ Takes(used, f)
          /\ Map(p, f, used \cup {f})
    /\ UNCHANGED <<callVars, owned>>

Next ==
    \/ \E n \in Counts : AllocStart(n)
    \/ AllocPage \/ AllocFails \/ AllocReturns
    \/ \E r \in owned : FreePages(r)
    \/ \E p \in Heap : PageFault(p)

Spec == Init /\ [][Next]_vars

----------------------------------------------------------------------------
TableFrames  == {table[d] : d \in Dirs} \ {NoFrame}
MappedFrames == {pte[p] : p \in Pages} \ {NoFrame}

\* No frame serves twice: as two pages, as two page tables, as a page and a
\* page table, or as either and part of the kernel.
NoFrameTwice ==
    /\ \A p, q \in Pages : pte[p] = pte[q] /\ p # q => pte[p] = NoFrame
    /\ \A d, e \in Dirs : table[d] = table[e] /\ d # e => table[d] = NoFrame
    /\ MappedFrames \cap TableFrames = {}
    /\ (MappedFrames \cup TableFrames) \cap Kernel = {}

\* The bitmap and the page tables agree: a frame is marked used because the
\* kernel, a page table or a page has it, or because a failed paging_map_page
\* dropped it; no frame in use is marked free, and nothing else leaks.
FramesAccounted ==
    /\ used = Kernel \cup TableFrames \cup MappedFrames \cup lost
    /\ lost \cap (Kernel \cup TableFrames \cup MappedFrames) = {}

\* While no paging_map_page has failed, each range a caller holds is mapped
\* from end to end and no two ranges share a page.
RangesExclusive ==
    lost = {} =>
        /\ \A r \in owned : \A p \in Span(r[1], r[2]) : pte[p] # NoFrame
        /\ \A r, s \in owned : r # s => Span(r[1], r[2]) \cap Span(s[1], s[2]) = {}

\* A paging_alloc_pages that fails leaves the mappings as it found them,
\* however many pages it had mapped.
FailureUndone == [][~Idle /\ want' = 0 /\ done < want => pte' = before]_vars

\* paging.c: paging_alloc_pages finds a "free virtual address range".  No two
\* callers hold the same page.
OwnersDisjoint ==
    \A r, s \in owned : r # s => Span(r[1], r[2]) \cap Span(s[1], s[2]) = {}
=============================================================================
