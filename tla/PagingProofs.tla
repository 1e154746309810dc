---------------------------- MODULE PagingProofs ----------------------------
(****************************************************************************)
(* Proofs about the page allocator of module Paging, for every number of    *)
(* frames, of heap pages and of pages per table.                            *)
(****************************************************************************)
EXTENDS Paging, TLAPS

\* What a paging_alloc_pages call in progress knows: its whole range was
\* unmapped when it began, and it has touched only the pages it went through.
InProgress ==
    want # 0 =>
        /\ base \in Heap
        /\ \A p \in Pages :
              /\ p \in Span(base, want) => before[p] = NoFrame
              /\ p \notin Span(base, done) => pte[p] = before[p]

\* The inductive invariant of the frames.  NoFrameTwice and FramesAccounted
\* need each other (a frame is free to be taken because the bitmap is exact),
\* and need InProgress: a page mapped over would leave its old frame behind.
Inv == TypeOK /\ NoFrameTwice /\ FramesAccounted /\ InProgress

----------------------------------------------------------------------------
\* Mapping a free frame on an unmapped page keeps the frames exact.
LEMMA MapKeeps ==
    ASSUME TypeOK, NoFrameTwice, FramesAccounted,
           NEW p \in Pages, NEW f \in Frames, pte[p] = NoFrame,
           Takes(used, f), Map(p, f, used \cup {f})
    PROVE  /\ used' \in SUBSET Frames /\ table' \in [Dirs -> Frames]
           /\ pte' \in [Pages -> Frames] /\ lost' \in SUBSET Frames
           /\ \A q \in Pages : pte'[q] # NoFrame => table'[Dir(q)] # NoFrame
           /\ \A q \in Pages : q # p => pte'[q] = pte[q]
           /\ pte'[p] \in {f, NoFrame} /\ (lost' = {} => pte'[p] = f)
           /\ lost \subseteq lost'
           /\ NoFrameTwice' /\ FramesAccounted'
  <1> USE FrameAssumption DEF NoFrame
  <1>1. Dir(p) \in Dirs
    BY DEF Dirs
  <1>2. /\ f \notin used /\ f \notin Kernel /\ f # 0
        /\ f \notin TableFrames /\ f \notin MappedFrames /\ f \notin lost
    BY DEF Takes, FramesAccounted, Kernel
  <1>3. CASE /\ table[Dir(p)] # NoFrame
             /\ used' = used \cup {f}
             /\ pte' = [pte EXCEPT ![p] = f]
             /\ UNCHANGED <<table, lost>>
    <2>1. MappedFrames' = MappedFrames \cup {f}
      BY <1>2, <1>3 DEF MappedFrames, TypeOK
    <2>2. TableFrames' = TableFrames
      BY <1>3 DEF TableFrames
    <2>3. FramesAccounted'
      BY <1>2, <1>3, <2>1, <2>2 DEF FramesAccounted
    <2>4. NoFrameTwice'
      <3>1. \A q \in Pages : pte[q] # f
        BY <1>2 DEF MappedFrames
      <3>2. \A q, r \in Pages : pte'[q] = pte'[r] /\ q # r => pte'[q] = 0
        BY <1>3, <3>1 DEF NoFrameTwice, TypeOK
      <3> QED
        BY <1>2, <1>3, <2>1, <2>2, <3>2 DEF NoFrameTwice
    <2> QED
      BY <1>2, <1>3, <2>3, <2>4 DEF TypeOK
  <1>4. ASSUME NEW t \in Frames,
               table[Dir(p)] = NoFrame, Takes(used \cup {f}, t),
               used' = used \cup {f} \cup {t},
               table' = [table EXCEPT ![Dir(p)] = t],
               pte' = [pte EXCEPT ![p] = f],
               UNCHANGED lost
        PROVE  /\ used' \in SUBSET Frames /\ table' \in [Dirs -> Frames]
               /\ pte' \in [Pages -> Frames] /\ lost' \in SUBSET Frames
               /\ \A q \in Pages : pte'[q] # NoFrame => table'[Dir(q)] # NoFrame
               /\ \A q \in Pages : q # p => pte'[q] = pte[q]
               /\ pte'[p] \in {f, NoFrame} /\ (lost' = {} => pte'[p] = f)
               /\ lost \subseteq lost'
               /\ NoFrameTwice' /\ FramesAccounted'
    <2>1. /\ t \notin used /\ t # f /\ t \notin Kernel /\ t # 0
          /\ t \notin TableFrames /\ t \notin MappedFrames /\ t \notin lost
      BY <1>4 DEF Takes, FramesAccounted, Kernel
    <2>2. MappedFrames' = MappedFrames \cup {f}
      BY <1>2, <1>4 DEF MappedFrames, TypeOK
    <2>3. TableFrames' = TableFrames \cup {t}
      BY <1>1, <1>4, <2>1 DEF TableFrames, TypeOK
    <2>4. FramesAccounted'
      BY <1>2, <1>4, <2>1, <2>2, <2>3 DEF FramesAccounted
    <2>5. NoFrameTwice'
      <3>1. \A q \in Pages : pte[q] # f
        BY <1>2 DEF MappedFrames
      <3>2. \A q, r \in Pages : pte'[q] = pte'[r] /\ q # r => pte'[q] = 0
        BY <1>4, <3>1 DEF NoFrameTwice, TypeOK
      <3>3. \A d \in Dirs : table[d] # t
        BY <2>1 DEF TableFrames
      <3>4. \A d, e \in Dirs : table'[d] = table'[e] /\ d # e => table'[d] = 0
        BY <1>4, <3>3 DEF NoFrameTwice, TypeOK
      <3> QED
        BY <1>2, <1>4, <2>1, <2>2, <2>3, <3>2, <3>4 DEF NoFrameTwice
    <2> QED
      BY <1>1, <1>2, <1>4, <2>1, <2>4, <2>5 DEF TypeOK
  <1>5. CASE /\ used' = used \cup {f}
             /\ lost' = lost \cup {f}
             /\ UNCHANGED <<table, pte>>
    <2>1. MappedFrames' = MappedFrames /\ TableFrames' = TableFrames
      BY <1>5 DEF MappedFrames, TableFrames
    <2>2. NoFrameTwice'
      BY <1>5, <2>1 DEF NoFrameTwice
    <2> QED
      BY <1>2, <1>5, <2>1, <2>2 DEF TypeOK, FramesAccounted
  <1> QED
    BY <1>3, <1>4, <1>5 DEF Map

\* Unmapping a set of pages gives back exactly their frames.
LEMMA UnmapKeeps ==
    ASSUME TypeOK, NoFrameTwice, FramesAccounted,
           NEW P \in SUBSET Pages, Unmap(P), UNCHANGED <<table, lost>>
    PROVE  /\ used' \in SUBSET Frames /\ pte' \in [Pages -> Frames]
           /\ \A q \in Pages : pte'[q] # NoFrame => table'[Dir(q)] # NoFrame
           /\ \A q \in Pages : q \notin P => pte'[q] = pte[q]
           /\ \A q \in P : pte'[q] = NoFrame
           /\ NoFrameTwice' /\ FramesAccounted'
  <1> USE FrameAssumption DEF NoFrame
  <1> DEFINE freed == {pte[p] : p \in P} \ {0}
  <1>1. 0 \in Frames
    BY DEF Frames
  <1>2. /\ used' = used \ freed /\ used \subseteq Frames
        /\ pte' = [p \in Pages |-> IF p \in P THEN 0 ELSE pte[p]]
        /\ pte \in [Pages -> Frames]
        /\ table' = table /\ lost' = lost
    BY DEF Unmap, free_physical_page, TypeOK
  <1>3. \A q \in Pages : pte'[q] = IF q \in P THEN 0 ELSE pte[q]
    BY <1>2
  <1>4. pte' \in [Pages -> Frames]
    BY <1>1, <1>2
  <1>5. MappedFrames' = MappedFrames \ freed
    <2>1. \A p \in P, q \in Pages : q \notin P /\ pte[p] = pte[q] => pte[q] = 0
      BY DEF NoFrameTwice
    <2> QED
      BY <1>3, <2>1 DEF MappedFrames
  <1>6. freed \subseteq MappedFrames
    BY DEF MappedFrames
  <1>7. TableFrames' = TableFrames
    BY <1>2 DEF TableFrames
  <1>8. NoFrameTwice'
    BY <1>2, <1>3, <1>5, <1>7 DEF NoFrameTwice
  <1>9. FramesAccounted'
    <2>1. /\ freed \cap Kernel = {} /\ freed \cap TableFrames = {}
          /\ freed \cap lost = {}
      BY <1>6 DEF NoFrameTwice, FramesAccounted
    <2> QED
      BY <1>2, <1>5, <1>7, <2>1 DEF FramesAccounted
  <1>10. \A q \in Pages : pte'[q] # 0 => table'[Dir(q)] # 0
    BY <1>2, <1>3 DEF TypeOK
  <1> QED
    BY <1>2, <1>3, <1>4, <1>8, <1>9, <1>10

----------------------------------------------------------------------------
\* The pages of a call in progress are pages the model has.
LEMMA SpanInPages ==
    ASSUME NEW b \in Heap, NEW n \in 0 .. MaxCount
    PROVE  Span(b, n) \subseteq Pages
  BY HeapAssumption DEF Heap, Span, Pages

LEMMA InvInit == Init => Inv
  <1> SUFFICES ASSUME Init PROVE Inv
    OBVIOUS
  <1> USE FrameAssumption, HeapAssumption DEF Init, NoFrame
  <1>1. 0 \in Frames /\ 0 \in Kernel /\ Kernel \subseteq Frames
    BY DEF Frames, Kernel
  <1>2. MappedFrames = {} /\ TableFrames = {}
    BY DEF MappedFrames, TableFrames
  <1>3. TypeOK
    BY <1>1 DEF TypeOK
  <1>4. NoFrameTwice
    BY <1>2 DEF NoFrameTwice
  <1>5. FramesAccounted
    BY <1>2 DEF FramesAccounted
  <1> QED
    BY <1>3, <1>4, <1>5 DEF Inv, InProgress

LEMMA InvNext == Inv /\ [Next]_vars => Inv'
  <1> SUFFICES ASSUME Inv, [Next]_vars PROVE Inv'
    OBVIOUS
  <1> USE HeapAssumption
  <1>0. TypeOK /\ NoFrameTwice /\ FramesAccounted /\ InProgress
    BY DEF Inv
  <1>1. ASSUME NEW n \in Counts, AllocStart(n) PROVE Inv'
    <2>1. PICK b \in Heap : Fits(b, n) /\ base' = b
      BY <1>1 DEF AllocStart
    <2>2. UNCHANGED <<used, table, pte, owned, lost>> /\ want' = n /\ done' = 0 /\ before' = pte
      BY <1>1 DEF AllocStart, heapVars
    <2>3. TypeOK'
      BY <1>0, <2>1, <2>2 DEF TypeOK, Counts
    <2>4. NoFrameTwice' /\ FramesAccounted'
      BY <1>0, <2>2 DEF NoFrameTwice, FramesAccounted, MappedFrames, TableFrames
    <2>5. InProgress'
      BY <2>1, <2>2 DEF InProgress, Fits
    <2> QED
      BY <2>3, <2>4, <2>5 DEF Inv
  <1>2. CASE AllocPage
    <2> DEFINE p == base + done
    <2>1. PICK f \in Frames : Takes(used, f) /\ Map(p, f, used \cup {f})
      BY <1>2 DEF AllocPage
    <2>2. done < want /\ done' = done + 1 /\ UNCHANGED <<want, base, before, owned>>
      BY <1>2 DEF AllocPage
    <2>3. /\ want \in Nat /\ done \in Nat /\ want <= MaxCount /\ want # 0
          /\ base \in Heap /\ base \in Nat
      BY <1>0, <2>2 DEF TypeOK, InProgress, Heap
    <2>4. p \in Pages /\ p \in Span(base, want) /\ p \notin Span(base, done)
      BY <2>2, <2>3 DEF Pages, Span, Heap
    <2>5. pte[p] = NoFrame /\ before[p] = NoFrame
      BY <1>0, <2>3, <2>4 DEF InProgress
    <2> HIDE DEF p
    <2>6. /\ used' \in SUBSET Frames /\ table' \in [Dirs -> Frames]
          /\ pte' \in [Pages -> Frames] /\ lost' \in SUBSET Frames
          /\ \A q \in Pages : pte'[q] # NoFrame => table'[Dir(q)] # NoFrame
          /\ \A q \in Pages : q # p => pte'[q] = pte[q]
          /\ NoFrameTwice' /\ FramesAccounted'
      BY <1>0, <2>1, <2>4, <2>5, MapKeeps
    <2>7. TypeOK'
      BY <1>0, <2>2, <2>3, <2>6 DEF TypeOK
    <2>8. InProgress'
      <3>1. p \in Span(base, done')
        BY <2>2, <2>3 DEF Span, p
      <3>2. Span(base, done) \subseteq Span(base, done')
        BY <2>2, <2>3 DEF Span
      <3> QED
        BY <1>0, <2>2, <2>3, <2>6, <3>1, <3>2 DEF InProgress
    <2> QED
      BY <2>6, <2>7, <2>8 DEF Inv
  <1>3. CASE AllocFails
    <2>1. /\ done < want /\ Unmap(Span(base, done)) /\ want' = 0 /\ done' = 0
          /\ UNCHANGED <<table, base, before, owned, lost>>
      BY <1>3 DEF AllocFails, CleanedUp
    <2>2. Span(base, done) \in SUBSET Pages
      BY <1>0, <2>1, SpanInPages DEF TypeOK, InProgress
    <2>3. /\ used' \in SUBSET Frames /\ pte' \in [Pages -> Frames]
          /\ \A q \in Pages : pte'[q] # NoFrame => table'[Dir(q)] # NoFrame
          /\ NoFrameTwice' /\ FramesAccounted'
      BY <1>0, <2>1, <2>2, UnmapKeeps
    <2>4. TypeOK'
      BY <1>0, <2>1, <2>3 DEF TypeOK
    <2> QED
      BY <2>1, <2>3, <2>4 DEF Inv, InProgress
  <1>4. CASE AllocReturns
    <2>1. /\ want # 0 /\ owned' = owned \cup {<<base, want>>}
          /\ want' = 0 /\ done' = 0
          /\ UNCHANGED <<used, table, pte, base, before, lost>>
      BY <1>4 DEF AllocReturns, heapVars, Idle
    <2>2. TypeOK'
      <3>1. <<base, want>> \in Heap \X Counts
        BY <1>0, <2>1 DEF TypeOK, InProgress, Counts
      <3> QED
        BY <1>0, <2>1, <3>1 DEF TypeOK
    <2>3. NoFrameTwice' /\ FramesAccounted'
      BY <1>0, <2>1 DEF NoFrameTwice, FramesAccounted, MappedFrames, TableFrames
    <2> QED
      BY <2>1, <2>2, <2>3 DEF Inv, InProgress
  <1>5. ASSUME NEW r \in owned, FreePages(r) PROVE Inv'
    <2>1. /\ want = 0 /\ owned' = owned \ {r} /\ Unmap(Span(r[1], r[2]))
          /\ UNCHANGED <<table, want, base, done, before, lost>>
      BY <1>5 DEF FreePages, callVars, Idle
    <2>2. Span(r[1], r[2]) \in SUBSET Pages
      BY <1>0, SpanInPages DEF TypeOK, Counts
    <2>3. /\ used' \in SUBSET Frames /\ pte' \in [Pages -> Frames]
          /\ \A q \in Pages : pte'[q] # NoFrame => table'[Dir(q)] # NoFrame
          /\ NoFrameTwice' /\ FramesAccounted'
      BY <1>0, <2>1, <2>2, UnmapKeeps
    <2>4. TypeOK'
      BY <1>0, <2>1, <2>3 DEF TypeOK
    <2> QED
      BY <2>1, <2>3, <2>4 DEF Inv, InProgress
  <1>6. ASSUME NEW p \in Heap, PageFault(p) PROVE Inv'
    <2>1. PICK f \in Frames : Takes(used, f) /\ Map(p, f, used \cup {f})
      BY <1>6 DEF PageFault
    <2>2. /\ want = 0 /\ pte[p] = NoFrame
          /\ UNCHANGED <<want, base, done, before, owned>>
      BY <1>6 DEF PageFault, callVars, Idle
    <2>3. p \in Pages
      BY DEF Heap, Pages
    <2>4. /\ used' \in SUBSET Frames /\ table' \in [Dirs -> Frames]
          /\ pte' \in [Pages -> Frames] /\ lost' \in SUBSET Frames
          /\ \A q \in Pages : pte'[q] # NoFrame => table'[Dir(q)] # NoFrame
          /\ NoFrameTwice' /\ FramesAccounted'
      BY <1>0, <2>1, <2>2, <2>3, MapKeeps
    <2>5. TypeOK'
      BY <1>0, <2>2, <2>4 DEF TypeOK
    <2> QED
      BY <2>2, <2>4, <2>5 DEF Inv, InProgress
  <1>7. CASE UNCHANGED vars
    BY <1>0, <1>7 DEF Inv, TypeOK, NoFrameTwice, FramesAccounted, InProgress,
          MappedFrames, TableFrames, vars, heapVars, callVars
  <1> QED
    BY <1>1, <1>2, <1>3, <1>4, <1>5, <1>6, <1>7 DEF Next

LEMMA InvAlways == Spec => []Inv
  BY InvInit, InvNext, PTL DEF Spec

\* Pages, page tables and the kernel have the types paging.c declares.
THEOREM PagingTypes == Spec => []TypeOK
  BY InvAlways, PTL DEF Inv

\* No physical page ever serves twice, whatever mixture of allocations, frees,
\* page faults and failures came before (alloc_physical_page, paging_map_page).
THEOREM FramesNeverShared == Spec => []NoFrameTwice
  BY InvAlways, PTL DEF Inv

\* The bitmap is exact: a set bit is a frame in use, or one that a failed
\* paging_map_page dropped (alloc_physical_page, free_physical_page).
THEOREM BitmapExact == Spec => []FramesAccounted
  BY InvAlways, PTL DEF Inv

\* A paging_alloc_pages that runs out of frames leaves no page behind and has
\* touched no page of anyone else.
THEOREM FailedAllocUndone == Spec => FailureUndone
  <1>1. ASSUME Inv, [Next]_vars, ~Idle /\ want' = 0 /\ done < want
        PROVE  pte' = before
    <2>1. AllocFails
      BY <1>1 DEF Inv, TypeOK, Next, vars, callVars, AllocStart, AllocPage,
            AllocReturns, FreePages, PageFault, Idle
    <2>2. pte' = [p \in Pages |-> IF p \in Span(base, done) THEN NoFrame ELSE pte[p]]
      BY <2>1 DEF AllocFails, Unmap, CleanedUp
    <2>3. Span(base, done) \subseteq Span(base, want)
      BY <1>1 DEF Inv, TypeOK, InProgress, Heap, Idle, Span
    <2>4. \A p \in Pages : (IF p \in Span(base, done) THEN NoFrame ELSE pte[p]) = before[p]
      BY <1>1, <2>3 DEF Inv, InProgress, Idle
    <2>5. before = [p \in Pages |-> before[p]]
      BY <1>1 DEF Inv, TypeOK
    <2> QED
      BY <2>2, <2>4, <2>5
  <1>2. Inv /\ [Next]_vars => [~Idle /\ want' = 0 /\ done < want => pte' = before]_vars
    BY <1>1
  <1> QED
    BY <1>2, InvAlways, PTL DEF Spec, FailureUndone

----------------------------------------------------------------------------
\* RangesExclusive needs to speak of the range being handed out as well: the
\* part gone through is mapped, and no caller holds any of it.
Exclusive ==
    lost = {} =>
        /\ RangesExclusive
        /\ \A p \in Span(base, done) : pte[p] # NoFrame
        /\ want # 0 => \A r \in owned : Span(r[1], r[2]) \cap Span(base, want) = {}

LEMMA ExclusiveNext == Inv /\ Exclusive /\ [Next]_vars => Exclusive'
  <1> SUFFICES ASSUME Inv, Exclusive, [Next]_vars PROVE Exclusive'
    OBVIOUS
  <1> USE HeapAssumption, FrameAssumption
  <1>0. TypeOK /\ NoFrameTwice /\ FramesAccounted /\ InProgress
    BY DEF Inv
  <1>00. \A r \in owned : Span(r[1], r[2]) \subseteq Pages
    BY <1>0, SpanInPages DEF TypeOK, Counts
  <1>1. ASSUME NEW n \in Counts, AllocStart(n) PROVE Exclusive'
    <2>1. PICK b \in Heap : Fits(b, n) /\ base' = b
      BY <1>1 DEF AllocStart
    <2>2. UNCHANGED <<pte, owned, lost>> /\ want' = n /\ done' = 0
      BY <1>1 DEF AllocStart, heapVars
    <2>3. Span(base', done') = {}
      BY <2>1, <2>2 DEF Span, Heap
    <2>4. lost = {} => \A r \in owned : Span(r[1], r[2]) \cap Span(b, n) = {}
      BY <2>1, <2>2 DEF Exclusive, RangesExclusive, Fits
    <2> QED
      BY <2>1, <2>2, <2>3, <2>4 DEF Exclusive, RangesExclusive
  <1>2. CASE AllocPage
    <2> DEFINE p == base + done
    <2>1. PICK f \in Frames : Takes(used, f) /\ Map(p, f, used \cup {f})
      BY <1>2 DEF AllocPage
    <2>2. done < want /\ done' = done + 1 /\ UNCHANGED <<want, base, before, owned>>
      BY <1>2 DEF AllocPage
    <2>3. /\ want \in Nat /\ done \in Nat /\ want <= MaxCount /\ want # 0
          /\ base \in Heap /\ base \in Nat
      BY <1>0, <2>2 DEF TypeOK, InProgress, Heap
    <2>4. p \in Pages /\ p \in Span(base, want) /\ p \notin Span(base, done)
      BY <2>2, <2>3 DEF Pages, Span, Heap
    <2>5. pte[p] = NoFrame
      BY <1>0, <2>3, <2>4 DEF InProgress
    <2>6. Span(base, done') = Span(base, done) \cup {p} /\ Span(base, done') \subseteq Pages
      BY <2>2, <2>3 DEF Span, Pages, Heap
    <2> HIDE DEF p
    <2>7. /\ \A q \in Pages : q # p => pte'[q] = pte[q]
          /\ lost' = {} => pte'[p] = f
          /\ lost \subseteq lost'
      BY <1>0, <2>1, <2>4, <2>5, MapKeeps
    <2>8. lost' = {} => lost = {} /\ \A q \in Pages : pte[q] # NoFrame => pte'[q] # NoFrame
      BY <2>5, <2>7
    <2>9. f # NoFrame
      BY <1>0, <2>1 DEF Takes, FramesAccounted, Kernel, NoFrame
    <2> QED
      BY <1>00, <2>2, <2>6, <2>7, <2>8, <2>9 DEF Exclusive, RangesExclusive
  <1>3. CASE AllocFails
    <2>1. /\ done < want /\ Unmap(Span(base, done)) /\ want' = 0 /\ done' = 0
          /\ UNCHANGED <<table, base, before, owned, lost>>
      BY <1>3 DEF AllocFails, CleanedUp
    <2>2. /\ want \in Nat /\ done \in Nat /\ want # 0 /\ base \in Heap /\ base \in Nat
      BY <1>0, <2>1 DEF TypeOK, InProgress, Heap
    <2>3. Span(base, done) \subseteq Span(base, want) /\ Span(base, done') = {}
      BY <2>1, <2>2 DEF Span
    <2>4. Span(base, done) \in SUBSET Pages
      BY <1>0, <2>1, <2>2, SpanInPages DEF TypeOK
    <2>5. \A q \in Pages : q \notin Span(base, done) => pte'[q] = pte[q]
      BY <1>0, <2>1, <2>4, UnmapKeeps
    <2> QED
      BY <1>00, <2>1, <2>2, <2>3, <2>5 DEF Exclusive, RangesExclusive
  <1>4. CASE AllocReturns
    <2>1. /\ want # 0 /\ done = want /\ owned' = owned \cup {<<base, want>>}
          /\ want' = 0 /\ done' = 0
          /\ UNCHANGED <<pte, base, lost>>
      BY <1>4 DEF AllocReturns, heapVars, Idle
    <2>2. Span(base', done') = {}
      BY <1>0, <2>1 DEF TypeOK, InProgress, Heap, Span
    <2> QED
      BY <2>1, <2>2 DEF Exclusive, RangesExclusive
  <1>5. ASSUME NEW r \in owned, FreePages(r) PROVE Exclusive'
    <2>1. /\ want = 0 /\ owned' = owned \ {r} /\ Unmap(Span(r[1], r[2]))
          /\ UNCHANGED <<table, want, base, done, before, lost>>
      BY <1>5 DEF FreePages, callVars, Idle
    <2>2. Span(r[1], r[2]) \in SUBSET Pages
      BY <1>00
    <2>3. \A q \in Pages : q \notin Span(r[1], r[2]) => pte'[q] = pte[q]
      BY <1>0, <2>1, <2>2, UnmapKeeps
    <2>4. Span(base', done') = {}
      BY <1>0, <2>1 DEF TypeOK, Heap, Span
    <2> QED
      BY <1>00, <2>1, <2>3, <2>4 DEF Exclusive, RangesExclusive
  <1>6. ASSUME NEW p \in Heap, PageFault(p) PROVE Exclusive'
    <2>1. PICK f \in Frames : Takes(used, f) /\ Map(p, f, used \cup {f})
      BY <1>6 DEF PageFault
    <2>2. /\ want = 0 /\ pte[p] = NoFrame
          /\ UNCHANGED <<want, base, done, before, owned>>
      BY <1>6 DEF PageFault, callVars, Idle
    <2>3. p \in Pages
      BY DEF Heap, Pages
    <2>4. /\ \A q \in Pages : q # p => pte'[q] = pte[q]
          /\ lost \subseteq lost'
      BY <1>0, <2>1, <2>2, <2>3, MapKeeps
    <2>5. Span(base', done') = {}
      BY <1>0, <2>2 DEF TypeOK, Heap, Span
    <2> QED
      BY <1>00, <2>2, <2>4, <2>5 DEF Exclusive, RangesExclusive
  <1>7. CASE UNCHANGED vars
    BY <1>7 DEF Exclusive, RangesExclusive, vars, heapVars, callVars
  <1> QED
    BY <1>1, <1>2, <1>3, <1>4, <1>5, <1>6, <1>7 DEF Next

\* While no paging_map_page has failed, the ranges paging_alloc_pages has handed
\* out are mapped from end to end and disjoint.
THEOREM RangesStayExclusive == Spec => []RangesExclusive
  <1>1. Init => Exclusive
    BY DEF Init, Exclusive, RangesExclusive, Span
  <1>2. Exclusive => RangesExclusive
    BY DEF Exclusive, RangesExclusive
  <1> QED
    BY <1>1, <1>2, InvAlways, ExclusiveNext, PTL DEF Spec
=============================================================================
