------------------------- MODULE MemorySpacesProofs -------------------------
(***************************************************************************)
(* Proofs about frame allocation in MemorySpaces, for every board, program *)
(* layout and workload that satisfies the assumptions of PhysPages and     *)
(* MemorySpaces.                                                           *)
(***************************************************************************)
EXTENDS MemorySpaces, FiniteSetTheorems, TLAPS

-----------------------------------------------------------------------------
(***************************************************************************)
(* The allocators.                                                         *)
(***************************************************************************)

\* The size that System::memSize reports is a number of pages.
LEMMA TotalPagesType == TotalPages \in Nat
  BY LayoutAssumption, FS_CardinalityType DEF TotalPages

\* allocPhysPages, when it does not run out of memory, returns the frame at
\* pagePtr and stays below the NVM: a request that has to be moved behind the
\* NVM is fatal on a board without memory there.
LEMMA AllocStaysBelow ==
  ASSUME NEW ptr \in Nat, NEW n \in Nat \ {0}, ptr < NvmStart,
         ~OutOfMemory(allocPhysPages(ptr, n).ptr)
  PROVE  /\ allocPhysPages(ptr, n).frame = ptr
         /\ allocPhysPages(ptr, n).ptr = ptr + n
         /\ ptr + n < NvmStart
  BY LayoutAssumption, BoardAssumption, TotalPagesType
     DEF OutOfMemory, allocPhysPages, SkipNvm, InNvm

\* The same for a series of k one-page requests.
LEMMA SeriesStaysBelow ==
  ASSUME NEW ptr \in Nat, NEW k \in Nat, ptr < NvmStart,
         k > 0 => ~OutOfMemory(VolatileEnd(ptr, k))
  PROVE  VolatileEnd(ptr, k) = ptr + k /\ ptr + k < NvmStart
  BY LayoutAssumption, BoardAssumption, TotalPagesType
     DEF OutOfMemory, VolatileEnd

\* The pages a loop allocates can be counted.
LEMMA CountType ==
  ASSUME NEW pages \in SUBSET VPage
  PROVE  VolatileCount(pages) \in Nat /\ NvmCount(pages) \in Nat
  <1>1. IsFiniteSet(VPage)
    <2>1. 0 \in Int /\ VPages - 1 \in Int
      BY SpacesAssumption
    <2>2. QED
      BY <2>1, FS_Interval DEF VPage
  <1>2. /\ IsFiniteSet({v \in pages : ~InNvm(v)})
        /\ IsFiniteSet({v \in pages : InNvm(v)})
    BY <1>1, FS_Subset
  <1>3. QED
    BY <1>2, FS_CardinalityType DEF VolatileCount, NvmCount

\* A frame that a request obtains while the pointers move from ptr to ptr2 and
\* from nvmPtr to nvmPtr2.
Fresh(f, ptr, nvmPtr, ptr2, nvmPtr2) ==
    \/ ptr <= f /\ f < ptr2
    \/ NvmStart + nvmPtr <= f /\ f < NvmStart + nvmPtr2

\* A loop that allocates a frame for each page of a set moves both pointers
\* forward, pagePtr not into the NVM, and gives the pages distinct fresh
\* frames, each of the memory its address selects.
LEMMA PlacementFresh ==
  ASSUME NEW pages \in SUBSET VPage, NEW ptr \in Nat, NEW nvmPtr \in Nat,
         ptr < NvmStart, ~Exhausted(pages, ptr)
  PROVE  /\ VolatilePtr(pages, ptr) \in Nat /\ NvmPtr(pages, nvmPtr) \in Nat
         /\ ptr <= VolatilePtr(pages, ptr) /\ VolatilePtr(pages, ptr) < NvmStart
         /\ nvmPtr <= NvmPtr(pages, nvmPtr)
         /\ \A g \in Placements(pages, ptr, nvmPtr) :
              /\ DOMAIN g = pages
              /\ \A v \in pages :
                   /\ g[v] \in Nat
                   /\ Fresh(g[v], ptr, nvmPtr, VolatilePtr(pages, ptr),
                            NvmPtr(pages, nvmPtr))
                   /\ v \in NvmStart .. NvmEnd <=> g[v] >= NvmStart
              /\ \A v, w \in pages : g[v] = g[w] => v = w
  <1>1. PICK k \in Nat, j \in Nat : k = VolatileCount(pages) /\ j = NvmCount(pages)
    BY CountType
  <1>2. VolatileEnd(ptr, k) = ptr + k /\ ptr + k < NvmStart
    <2>1. k > 0 => ~OutOfMemory(VolatileEnd(ptr, k))
      BY <1>1 DEF Exhausted, VolatilePtr
    <2>2. QED
      BY <2>1, SeriesStaysBelow
  <1>3. VolatilePtr(pages, ptr) = ptr + k /\ NvmPtr(pages, nvmPtr) = nvmPtr + j
    BY <1>1, <1>2 DEF VolatilePtr, NvmPtr
  <1>4. ASSUME NEW g \in Placements(pages, ptr, nvmPtr), NEW v \in pages
        PROVE  /\ g[v] \in Nat
               /\ Fresh(g[v], ptr, nvmPtr, ptr + k, nvmPtr + j)
               /\ v \in NvmStart .. NvmEnd <=> g[v] >= NvmStart
    <2>1. g[v] \in FrameChoices(pages, ptr, nvmPtr, v)
      BY <1>4 DEF Placements
    <2>2. v \in Int
      BY SpacesAssumption DEF VPage
    <2>3. CASE InNvm(v)
      <3>1. g[v] \in NvmRun(nvmPtr, j)
        BY <1>1, <2>1, <2>3 DEF FrameChoices
      <3>2. QED
        BY <2>2, <2>3, <3>1, LayoutAssumption DEF NvmRun, Fresh, InNvm
    <2>4. CASE ~InNvm(v)
      <3>1. g[v] \in VolatileRun(ptr, k)
        BY <1>1, <2>1, <2>4 DEF FrameChoices
      <3>2. g[v] \in ptr .. (ptr + k - 1)
        BY <1>2, <3>1 DEF VolatileRun
      <3>3. QED
        BY <1>2, <2>2, <2>4, <3>2, LayoutAssumption DEF Fresh, InNvm
    <2>5. QED
      BY <2>3, <2>4
  <1>5. \A g \in Placements(pages, ptr, nvmPtr) :
          DOMAIN g = pages /\ \A v, w \in pages : g[v] = g[w] => v = w
    BY DEF Placements
  <1>6. QED
    BY <1>2, <1>3, <1>4, <1>5

-----------------------------------------------------------------------------
(***************************************************************************)
(* How an event may change the page tables, and why FrameInv survives it.  *)
(***************************************************************************)
Tables == [Space -> [VPage -> Frame]]

\* Each frame of T2 is one of T or fresh; two entries of T2 share a frame only
\* if two entries of T did, or if a fresh frame is in T already.
Inherits(T, T2, ptr, nvmPtr, ptr2, nvmPtr2) ==
    /\ \A x \in Entry : FrameAt(T2, x) # Unmapped =>
         \/ \E y \in Entry : FrameAt(T, y) = FrameAt(T2, x)
         \/ Fresh(FrameAt(T2, x), ptr, nvmPtr, ptr2, nvmPtr2)
    /\ \A x, y \in Entry :
         /\ x # y /\ FrameAt(T2, x) = FrameAt(T2, y)
         /\ FrameAt(T2, x) # Unmapped
         => \/ \E x0, y0 \in Entry : /\ x0 # y0
                                     /\ FrameAt(T, x0) = FrameAt(T2, x)
                                     /\ FrameAt(T, y0) = FrameAt(T2, x)
            \/ /\ Fresh(FrameAt(T2, x), ptr, nvmPtr, ptr2, nvmPtr2)
               /\ \E y0 \in Entry : FrameAt(T, y0) = FrameAt(T2, x)

\* An entry of a table holds a frame number or Unmapped.
LEMMA FrameAtType ==
  ASSUME NEW T \in Tables, NEW x \in Entry
  PROVE  FrameAt(T, x) \in Frame /\ x[1] \in Space /\ x[2] \in VPage
  BY DEF Tables, Entry, FrameAt

\* Entries are determined by their space and their page.
LEMMA EntryEquality ==
  ASSUME NEW x \in Entry, NEW y \in Entry, x # y
  PROVE  x[1] # y[1] \/ x[2] # y[2]
  BY DEF Entry

\* Such a change keeps frames private and below the allocators' pointers.
LEMMA InheritsPreserves ==
  ASSUME NEW T \in Tables, NEW T2 \in Tables, NEW r \in BOOLEAN,
         NEW ptr \in Nat, NEW ptr2 \in Nat, NEW nvmPtr \in Nat, NEW nvmPtr2 \in Nat,
         ptr <= ptr2, ptr2 < NvmStart, nvmPtr <= nvmPtr2,
         HandedOut(T, ptr, nvmPtr, r), Private(T, r),
         Inherits(T, T2, ptr, nvmPtr, ptr2, nvmPtr2)
  PROVE  HandedOut(T2, ptr2, nvmPtr2, r) /\ Private(T2, r)
  <1>1. HandedOut(T2, ptr2, nvmPtr2, r)
    <2> SUFFICES ASSUME NEW x \in Entry, FrameAt(T2, x) # Unmapped
                 PROVE  \/ FrameAt(T2, x) < ptr2
                        \/ /\ FrameAt(T2, x) >= NvmStart
                           /\ r \/ FrameAt(T2, x) < NvmStart + nvmPtr2
      BY DEF HandedOut
    <2>1. FrameAt(T2, x) \in Nat
      BY FrameAtType DEF Frame
    <2>2. CASE \E y \in Entry : FrameAt(T, y) = FrameAt(T2, x)
      BY <2>1, <2>2, LayoutAssumption DEF HandedOut
    <2>3. CASE Fresh(FrameAt(T2, x), ptr, nvmPtr, ptr2, nvmPtr2)
      BY <2>1, <2>3, LayoutAssumption DEF Fresh
    <2>4. QED
      BY <2>2, <2>3 DEF Inherits
  <1>2. Private(T2, r)
    <2> SUFFICES ASSUME NEW x \in Entry, NEW y \in Entry, x # y,
                        FrameAt(T2, x) = FrameAt(T2, y), FrameAt(T2, x) # Unmapped
                 PROVE  r /\ FrameAt(T2, x) >= NvmStart
      BY DEF Private
    <2>1. FrameAt(T2, x) \in Nat
      BY FrameAtType DEF Frame
    <2>2. CASE \E x0, y0 \in Entry : /\ x0 # y0
                                     /\ FrameAt(T, x0) = FrameAt(T2, x)
                                     /\ FrameAt(T, y0) = FrameAt(T2, x)
      BY <2>2 DEF Private
    <2>3. CASE /\ Fresh(FrameAt(T2, x), ptr, nvmPtr, ptr2, nvmPtr2)
               /\ \E y0 \in Entry : FrameAt(T, y0) = FrameAt(T2, x)
      BY <2>1, <2>3, LayoutAssumption DEF Fresh, HandedOut
    <2>4. QED
      BY <2>2, <2>3 DEF Inherits
  <1>3. QED
    BY <1>1, <1>2

\* Two changes in a row are one change.
LEMMA InheritsTransitive ==
  ASSUME NEW T \in Tables, NEW T1 \in Tables, NEW T2 \in Tables,
         NEW ptr \in Nat, NEW ptr1 \in Nat, NEW ptr2 \in Nat,
         NEW nvmPtr \in Nat, NEW nvmPtr1 \in Nat, NEW nvmPtr2 \in Nat,
         ptr <= ptr1, ptr1 <= ptr2, ptr2 < NvmStart,
         nvmPtr <= nvmPtr1, nvmPtr1 <= nvmPtr2,
         Inherits(T, T1, ptr, nvmPtr, ptr1, nvmPtr1),
         Inherits(T1, T2, ptr1, nvmPtr1, ptr2, nvmPtr2)
  PROVE  Inherits(T, T2, ptr, nvmPtr, ptr2, nvmPtr2)
  <1>1. ASSUME NEW f \in Nat
        PROVE  /\ Fresh(f, ptr, nvmPtr, ptr1, nvmPtr1) => Fresh(f, ptr, nvmPtr, ptr2, nvmPtr2)
               /\ Fresh(f, ptr1, nvmPtr1, ptr2, nvmPtr2) => Fresh(f, ptr, nvmPtr, ptr2, nvmPtr2)
               /\ ~(/\ Fresh(f, ptr, nvmPtr, ptr1, nvmPtr1)
                    /\ Fresh(f, ptr1, nvmPtr1, ptr2, nvmPtr2))
    BY LayoutAssumption DEF Fresh
  <1>2. ASSUME NEW x \in Entry, FrameAt(T2, x) # Unmapped
        PROVE  \/ \E y \in Entry : FrameAt(T, y) = FrameAt(T2, x)
               \/ Fresh(FrameAt(T2, x), ptr, nvmPtr, ptr2, nvmPtr2)
    BY <1>1, <1>2, FrameAtType DEF Inherits, Frame
  <1>3. ASSUME NEW x \in Entry, NEW y \in Entry, x # y,
               FrameAt(T2, x) = FrameAt(T2, y), FrameAt(T2, x) # Unmapped
        PROVE  \/ \E x0, y0 \in Entry : /\ x0 # y0
                                        /\ FrameAt(T, x0) = FrameAt(T2, x)
                                        /\ FrameAt(T, y0) = FrameAt(T2, x)
               \/ /\ Fresh(FrameAt(T2, x), ptr, nvmPtr, ptr2, nvmPtr2)
                  /\ \E y0 \in Entry : FrameAt(T, y0) = FrameAt(T2, x)
    <2>1. FrameAt(T2, x) \in Nat
      BY <1>3, FrameAtType DEF Frame
    <2>2. CASE \E x0, y0 \in Entry : /\ x0 # y0
                                     /\ FrameAt(T1, x0) = FrameAt(T2, x)
                                     /\ FrameAt(T1, y0) = FrameAt(T2, x)
      BY <1>1, <1>3, <2>1, <2>2 DEF Inherits
    <2>3. CASE /\ Fresh(FrameAt(T2, x), ptr1, nvmPtr1, ptr2, nvmPtr2)
               /\ \E y0 \in Entry : FrameAt(T1, y0) = FrameAt(T2, x)
      BY <1>1, <1>3, <2>1, <2>3 DEF Inherits
    <2>4. QED
      BY <1>3, <2>2, <2>3 DEF Inherits
  <1>4. QED
    BY <1>2, <1>3 DEF Inherits

-----------------------------------------------------------------------------
(***************************************************************************)
(* The changes the actions make.                                           *)
(***************************************************************************)

\* Reading a table in which the entries of one space were replaced.
LEMMA ReplacedSpace ==
  ASSUME NEW T \in Tables, NEW sp \in Space, NEW tab \in [VPage -> Frame]
  PROVE  /\ [T EXCEPT ![sp] = tab] \in Tables
         /\ \A x \in Entry : FrameAt([T EXCEPT ![sp] = tab], x) =
                               IF x[1] = sp THEN tab[x[2]] ELSE FrameAt(T, x)
  BY DEF Tables, Entry, FrameAt

\* A space whose pages keep their frame or lose it (munmap, MAP_FIXED).
LEMMA LosingPages ==
  ASSUME NEW T \in Tables, NEW sp \in Space, NEW tab \in [VPage -> Frame],
         \A v \in VPage : tab[v] \in {T[sp][v], Unmapped},
         NEW ptr, NEW nvmPtr
  PROVE  Inherits(T, [T EXCEPT ![sp] = tab], ptr, nvmPtr, ptr, nvmPtr)
  <1>1. \A x \in Entry : FrameAt([T EXCEPT ![sp] = tab], x) \in {FrameAt(T, x), Unmapped}
    BY ReplacedSpace, FrameAtType DEF FrameAt
  <1>2. QED
    BY <1>1 DEF Inherits

\* A space that gets distinct fresh frames for some pages, over a table whose
\* other entries it keeps or drops (faults, initState, clone, mremap's tail).
LEMMA GainingPages ==
  ASSUME NEW T \in Tables, NEW sp \in Space, NEW base \in [VPage -> Frame],
         \A v \in VPage : base[v] \in {T[sp][v], Unmapped},
         NEW ptr, NEW nvmPtr, NEW ptr2, NEW nvmPtr2,
         NEW g, DOMAIN g \subseteq VPage,
         \A v \in DOMAIN g : g[v] \in Nat /\ Fresh(g[v], ptr, nvmPtr, ptr2, nvmPtr2),
         \A v, w \in DOMAIN g : g[v] = g[w] => v = w
  PROVE  /\ WithPages(base, g) \in [VPage -> Frame]
         /\ Inherits(T, [T EXCEPT ![sp] = WithPages(base, g)],
                     ptr, nvmPtr, ptr2, nvmPtr2)
  <1> DEFINE tab == WithPages(base, g)
             T2 == [T EXCEPT ![sp] = tab]
             New(x) == x[1] = sp /\ x[2] \in DOMAIN g
  <1>1. tab \in [VPage -> Frame]
    BY DEF WithPages, Frame
  <1>2. \A v \in VPage : IF v \in DOMAIN g THEN tab[v] = g[v]
                         ELSE tab[v] \in {T[sp][v], Unmapped}
    BY DEF WithPages
  <1> HIDE DEF tab
  <1>3. ASSUME NEW x \in Entry
        PROVE  IF New(x) THEN FrameAt(T2, x) = g[x[2]]
               ELSE FrameAt(T2, x) \in {FrameAt(T, x), Unmapped}
    <2>1. /\ FrameAt(T2, x) = IF x[1] = sp THEN tab[x[2]] ELSE FrameAt(T, x)
          /\ x[2] \in VPage
      BY <1>1, ReplacedSpace, FrameAtType
    <2>2. CASE x[1] = sp
      <3>1. FrameAt(T, x) = T[sp][x[2]]
        BY <2>2 DEF FrameAt
      <3>2. QED
        BY <1>2, <2>1, <2>2, <3>1
    <2>3. CASE x[1] # sp
      BY <2>1, <2>3
    <2>4. QED
      BY <2>2, <2>3
  <1>4. ASSUME NEW x \in Entry, NEW y \in Entry, x # y, New(x), New(y)
        PROVE  FrameAt(T2, x) # FrameAt(T2, y)
    BY <1>3, <1>4, EntryEquality, ZenonT(60)
  <1>5. \A x \in Entry : New(x) => Fresh(FrameAt(T2, x), ptr, nvmPtr, ptr2, nvmPtr2)
    BY <1>3, ZenonT(60)
  <1> HIDE DEF T2, New
  <1>6. ASSUME NEW x \in Entry, FrameAt(T2, x) # Unmapped
        PROVE  \/ \E y \in Entry : FrameAt(T, y) = FrameAt(T2, x)
               \/ Fresh(FrameAt(T2, x), ptr, nvmPtr, ptr2, nvmPtr2)
    BY <1>3, <1>5, <1>6
  <1>7. ASSUME NEW x \in Entry, NEW y \in Entry, x # y,
               FrameAt(T2, x) = FrameAt(T2, y), FrameAt(T2, x) # Unmapped
        PROVE  \/ \E x0, y0 \in Entry : /\ x0 # y0
                                        /\ FrameAt(T, x0) = FrameAt(T2, x)
                                        /\ FrameAt(T, y0) = FrameAt(T2, x)
               \/ /\ Fresh(FrameAt(T2, x), ptr, nvmPtr, ptr2, nvmPtr2)
                  /\ \E y0 \in Entry : FrameAt(T, y0) = FrameAt(T2, x)
    BY <1>3, <1>4, <1>5, <1>7
  <1>8. Inherits(T, T2, ptr, nvmPtr, ptr2, nvmPtr2)
    BY <1>6, <1>7 DEF Inherits
  <1>9. QED
    BY <1>1, <1>8 DEF T2, tab

\* A space in which the pages of [s, e) moved to new (remapRegion).
LEMMA MovingPages ==
  ASSUME NEW T \in Tables, NEW sp \in Space, NEW ptr, NEW nvmPtr,
         NEW s \in Int, NEW e \in Int, NEW new \in Int,
         s >= 0, e <= VPages
  PROVE  /\ MovePages(T[sp], s, e, new) \in [VPage -> Frame]
         /\ Inherits(T, [T EXCEPT ![sp] = MovePages(T[sp], s, e, new)],
                     ptr, nvmPtr, ptr, nvmPtr)
  <1> DEFINE old == T[sp]
             tab == MovePages(old, s, e, new)
             T2 == [T EXCEPT ![sp] = tab]
             Mover(w) == CHOOSE v \in Movers(old, s, e, new, w) : TRUE
             From(w) == IF Movers(old, s, e, new, w) # {} THEN Mover(w) ELSE w
  <1>0. old \in [VPage -> Frame] /\ VPages \in Nat
    BY SpacesAssumption DEF Tables
  <1> HIDE DEF old
  <1>1. \A w \in VPage : Movers(old, s, e, new, w) # {} =>
          /\ Mover(w) \in VPage /\ s <= Mover(w) /\ Mover(w) < e
          /\ Landing(s, e, new, Mover(w)) = w
    <2> TAKE w \in VPage
    <2> HAVE Movers(old, s, e, new, w) # {}
    <2>1. Mover(w) \in Movers(old, s, e, new, w)
      OBVIOUS
    <2> HIDE DEF Mover
    <2>2. QED
      BY <1>0, <2>1 DEF Movers, VPage
  <1>2. tab \in [VPage -> Frame]
    <2> HIDE DEF Mover
    <2>1. tab = [w \in VPage |-> IF Movers(old, s, e, new, w) # {} THEN old[Mover(w)]
                                 ELSE IF s <= w /\ w < e THEN Unmapped ELSE old[w]]
      BY DEF MovePages, Mover
    <2> HIDE DEF tab
    <2>2. QED
      BY <1>0, <1>1, <2>1 DEF Frame
  <1>3. \A w \in VPage : tab[w] # Unmapped =>
          /\ From(w) \in VPage /\ tab[w] = old[From(w)]
          /\ Movers(old, s, e, new, w) = {} => ~(s <= w /\ w < e)
    BY <1>0, <1>1 DEF MovePages
  <1>4. \A v, w \in VPage : tab[v] # Unmapped /\ tab[w] # Unmapped /\ v # w
                            => From(v) # From(w)
    <2> HIDE DEF Mover, tab
    <2>1. QED
      BY <1>1, <1>3
  <1> HIDE DEF tab, From
  <1>5. ASSUME NEW x \in Entry
        PROVE  FrameAt(T2, x) = IF x[1] = sp THEN tab[x[2]] ELSE FrameAt(T, x)
    BY <1>2, ReplacedSpace
  <1> DEFINE Source(x) == IF x[1] = sp THEN <<sp, From(x[2])>> ELSE x
  <1>6. ASSUME NEW x \in Entry, FrameAt(T2, x) # Unmapped
        PROVE  Source(x) \in Entry /\ FrameAt(T, Source(x)) = FrameAt(T2, x)
    BY <1>3, <1>5, <1>6 DEF Entry, FrameAt, old
  <1>7. ASSUME NEW x \in Entry, NEW y \in Entry, x # y,
               FrameAt(T2, x) # Unmapped, FrameAt(T2, y) # Unmapped
        PROVE  Source(x) # Source(y)
    BY <1>4, <1>5, <1>7, EntryEquality, FrameAtType
  <1> HIDE DEF T2, Source
  <1>8. Inherits(T, T2, ptr, nvmPtr, ptr, nvmPtr)
    BY <1>6, <1>7 DEF Inherits
  <1>9. QED
    BY <1>2, <1>8 DEF T2, tab, old

-----------------------------------------------------------------------------
(***************************************************************************)
(* Every action except Checkpoint and Restore is such a change.            *)
(***************************************************************************)
FrameStep ==
    /\ pagePtr' \in Nat /\ pagePtr <= pagePtr' /\ pagePtr' < NvmStart
    /\ pageNVMPtr' \in Nat /\ pageNVMPtr <= pageNVMPtr'
    /\ pTable' \in Tables
    /\ Inherits(pTable, pTable', pagePtr, pageNVMPtr, pagePtr', pageNVMPtr')
    /\ live' \subseteq Space /\ sim' \in Ended \cup {"running"}
    /\ UNCHANGED <<ckpt, restored>>

\* The part of FrameInv the actions use.
LEMMA FrameInvFacts ==
  ASSUME FrameInv
  PROVE  /\ pagePtr \in Nat /\ pageNVMPtr \in Nat /\ pagePtr < NvmStart
         /\ pTable \in Tables
         /\ live \subseteq Space /\ sim \in Ended \cup {"running"}
  BY DEF FrameInv, FrameTypeOK, Tables

\* The end of a simulation changes no frame.
LEMMA EndStep ==
  ASSUME FrameInv, NEW how \in Ended, End(how)
  PROVE  FrameStep
  BY FrameInvFacts DEF End, FrameStep, Inherits

\* Updates that give no page a new frame.
LEMMA UpdateStep ==
  ASSUME FrameInv, NEW sp \in Space, NEW m, NEW tab \in [VPage -> Frame],
         \A v \in VPage : tab[v] \in {pTable[sp][v], Unmapped},
         Update(sp, tab, m)
  PROVE  FrameStep
  <1>1. pTable' \in Tables
        /\ Inherits(pTable, pTable', pagePtr, pageNVMPtr, pagePtr, pageNVMPtr)
    BY FrameInvFacts, ReplacedSpace, LosingPages DEF Update
  <1>2. QED
    BY <1>1, FrameInvFacts DEF Update, FrameStep

\* The page table of a space, unchanged or after munmap.
LEMMA OwnTable ==
  ASSUME FrameInv, NEW sp \in Space, NEW s, NEW e
  PROVE  /\ pTable[sp] \in [VPage -> Frame]
         /\ WithoutPages(pTable[sp], s, e) \in [VPage -> Frame]
         /\ \A v \in VPage :
              WithoutPages(pTable[sp], s, e)[v] \in {pTable[sp][v], Unmapped}
  BY FrameInvFacts DEF Tables, WithoutPages, Frame

\* mapRegion, over the table munmap leaves or the current one.
LEMMA MapRegionStep ==
  ASSUME FrameInv, NEW sp \in Space, NEW m,
         NEW s, NEW n, NEW file,
         NEW tab \in [VPage -> Frame],
         \A v \in VPage : tab[v] \in {pTable[sp][v], Unmapped},
         MapRegion(sp, tab, m, s, n, file)
  PROVE  FrameStep
  <1>1. \/ \E m2 : Update(sp, tab, m2)
        \/ End("filePanic") \/ End("assert") \/ End("vmaPanic")
    BY DEF MapRegion
  <1>2. QED
    BY <1>1, UpdateStep, EndStep DEF Ended

\* A loop of one-page allocations over the pages of a set.
LEMMA PlacementStep ==
  ASSUME FrameInv, NEW sp \in Space, NEW pages \in SUBSET VPage,
         NEW base \in [VPage -> Frame],
         \A v \in VPage : base[v] \in {pTable[sp][v], Unmapped},
         ~Exhausted(pages, pagePtr),
         NEW g \in Placements(pages, pagePtr, pageNVMPtr),
         pTable' = [pTable EXCEPT ![sp] = WithPages(base, g)],
         pagePtr' = VolatilePtr(pages, pagePtr),
         pageNVMPtr' = NvmPtr(pages, pageNVMPtr),
         live' \subseteq Space, UNCHANGED <<ckpt, restored, sim>>
  PROVE  FrameStep
  <1>1. /\ pagePtr' \in Nat /\ pagePtr <= pagePtr' /\ pagePtr' < NvmStart
        /\ pageNVMPtr' \in Nat /\ pageNVMPtr <= pageNVMPtr'
    BY FrameInvFacts, PlacementFresh
  <1>2. /\ DOMAIN g = pages
        /\ \A v \in DOMAIN g :
             g[v] \in Nat /\ Fresh(g[v], pagePtr, pageNVMPtr, pagePtr', pageNVMPtr')
        /\ \A v, w \in DOMAIN g : g[v] = g[w] => v = w
    BY FrameInvFacts, PlacementFresh
  <1>3. /\ WithPages(base, g) \in [VPage -> Frame]
        /\ Inherits(pTable, pTable', pagePtr, pageNVMPtr, pagePtr', pageNVMPtr')
    BY <1>2, FrameInvFacts, GainingPages, ZenonT(60)
  <1>4. pTable' \in Tables
    BY <1>3, FrameInvFacts, ReplacedSpace, ZenonT(60)
  <1>5. QED
    BY <1>1, <1>3, <1>4, FrameInvFacts DEF FrameStep

\* A page table without entries is a base for any space.
LEMMA EmptyTable ==
  /\ NoMappings \in [VPage -> Frame]
  /\ \A v \in VPage : NoMappings[v] = Unmapped
  BY DEF NoMappings, Frame

\* initState, for a configured process and for execve.
LEMMA LoadImageStep ==
  ASSUME FrameInv, NEW sp \in Space, NEW users, LoadImage(sp, users)
  PROVE  FrameStep
  <1>1. CASE End("outOfMemory")
    BY <1>1, EndStep DEF Ended
  <1>2. CASE ~Exhausted(InitPages, pagePtr) /\ ~End("outOfMemory")
    <2>1. PICK g \in Placements(InitPages, pagePtr, pageNVMPtr) :
            pTable' = [pTable EXCEPT ![sp] = WithPages(NoMappings, g)]
      BY <1>2 DEF LoadImage
    <2>2. /\ pagePtr' = VolatilePtr(InitPages, pagePtr)
          /\ pageNVMPtr' = NvmPtr(InitPages, pageNVMPtr)
          /\ live' \subseteq Space /\ UNCHANGED <<ckpt, restored, sim>>
      BY <1>2, FrameInvFacts DEF LoadImage
    <2>3. InitPages \in SUBSET VPage
      BY SpacesAssumption
    <2>4. \A v \in VPage : NoMappings[v] \in {pTable[sp][v], Unmapped}
      BY EmptyTable
    <2>5. QED
      BY <1>2, <2>1, <2>2, <2>3, <2>4, EmptyTable, PlacementStep, ZenonT(60)
  <1>3. QED
    BY <1>1, <1>2 DEF LoadImage

\* fixupFault's allocations.
LEMMA PopulateStep ==
  ASSUME FrameInv, NEW sp \in Space, NEW pages \in SUBSET VPage, NEW m,
         Populate(sp, pages, m)
  PROVE  FrameStep
  <1>1. CASE End("outOfMemory")
    BY <1>1, EndStep DEF Ended
  <1>2. CASE ~Exhausted(pages, pagePtr) /\ ~End("outOfMemory")
    <2>1. PICK g \in Placements(pages, pagePtr, pageNVMPtr) :
            pTable' = [pTable EXCEPT ![sp] = WithPages(pTable[sp], g)]
      BY <1>2 DEF Populate
    <2>2. /\ pagePtr' = VolatilePtr(pages, pagePtr)
          /\ pageNVMPtr' = NvmPtr(pages, pageNVMPtr)
          /\ live' \subseteq Space /\ UNCHANGED <<ckpt, restored, sim>>
      BY <1>2, FrameInvFacts DEF Populate
    <2>3. pTable[sp] \in [VPage -> Frame]
      BY OwnTable
    <2>4. QED
      BY <1>2, <2>1, <2>2, <2>3, PlacementStep, ZenonT(60)
  <1>3. QED
    BY <1>1, <1>2 DEF Populate

\* The frames one allocateMem call of mremap obtains.
LEMMA AllocationFresh ==
  ASSUME FrameInv, NEW v \in VPage, NEW n \in Nat \ {0}, v + n <= VPages,
         InNvm(v) \/ ~OutOfMemory(Allocation(v, n).ptr),
         pagePtr' = IF InNvm(v) THEN pagePtr ELSE Allocation(v, n).ptr,
         pageNVMPtr' = IF InNvm(v) THEN Allocation(v, n).ptr ELSE pageNVMPtr
  PROVE  /\ pagePtr' \in Nat /\ pagePtr <= pagePtr' /\ pagePtr' < NvmStart
         /\ pageNVMPtr' \in Nat /\ pageNVMPtr <= pageNVMPtr'
         /\ Allocation(v, n).frame \in Nat
         /\ \A i \in 0 .. (n - 1) :
              Fresh(Allocation(v, n).frame + i, pagePtr, pageNVMPtr,
                    pagePtr', pageNVMPtr')
  <1>1. CASE InNvm(v)
    <2>1. /\ Allocation(v, n).frame = NvmStart + pageNVMPtr
          /\ Allocation(v, n).ptr = pageNVMPtr + n
      BY <1>1 DEF Allocation, allocNVMPhysPages
    <2>2. QED
      BY <1>1, <2>1, FrameInvFacts, LayoutAssumption DEF Fresh
  <1>2. CASE ~InNvm(v)
    <2>1. /\ Allocation(v, n).frame = pagePtr
          /\ Allocation(v, n).ptr = pagePtr + n /\ pagePtr + n < NvmStart
      BY <1>2, FrameInvFacts, AllocStaysBelow DEF Allocation
    <2>2. QED
      BY <1>2, <2>1, FrameInvFacts, LayoutAssumption DEF Fresh
  <1>3. QED
    BY <1>1, <1>2

\* A growing mremap that moves its region.
LEMMA MoveAndGrowStep ==
  ASSUME FrameInv, NEW sp \in Space, NEW s \in VPage, NEW old \in Nat \ {0},
         NEW new \in Nat \ {0}, old < new, s + old <= VPages, NEW target,
         NEW clobber, MoveAndGrow(sp, s, old, new, target, clobber)
  PROVE  FrameStep
  <1> DEFINE v == target + old
             n == new - old
             a == Allocation(v, n)
             frames == [w \in v .. (v + n - 1) |-> a.frame + (w - v)]
             table == WithPages(pTable[sp], frames)
  <1>1. CASE End("outOfMemory") \/ End("mapPanic") \/ End("assert")
    BY <1>1, EndStep DEF Ended
  <1>2. CASE ~(End("outOfMemory") \/ End("mapPanic") \/ End("assert"))
    <2>1. /\ InRange(target, target + new)
          /\ InNvm(v) \/ ~OutOfMemory(a.ptr)
          /\ pTable' = [pTable EXCEPT ![sp] = MovePages(table, s, s + old, target)]
          /\ pagePtr' = IF InNvm(v) THEN pagePtr ELSE a.ptr
          /\ pageNVMPtr' = IF InNvm(v) THEN a.ptr ELSE pageNVMPtr
          /\ UNCHANGED <<live, ckpt, restored, sim>>
      BY <1>2 DEF MoveAndGrow, WithFrames
    <2>2. /\ v \in VPage /\ n \in Nat \ {0} /\ v + n <= VPages
          /\ target \in Int /\ s \in Int /\ VPages \in Nat
          /\ target + new = v + n
      BY <2>1, SpacesAssumption DEF InRange, VPage
    <2>3. /\ pagePtr' \in Nat /\ pagePtr <= pagePtr' /\ pagePtr' < NvmStart
          /\ pageNVMPtr' \in Nat /\ pageNVMPtr <= pageNVMPtr'
          /\ a.frame \in Nat
          /\ \A i \in 0 .. (n - 1) :
               Fresh(a.frame + i, pagePtr, pageNVMPtr, pagePtr', pageNVMPtr')
      <3> HIDE DEF v, n
      <3>1. QED
        BY <2>1, <2>2, AllocationFresh
    <2>4. /\ DOMAIN frames \subseteq VPage
          /\ \A w \in DOMAIN frames :
               /\ frames[w] \in Nat
               /\ Fresh(frames[w], pagePtr, pageNVMPtr, pagePtr', pageNVMPtr')
          /\ \A w, u \in DOMAIN frames : frames[w] = frames[u] => w = u
      <3> HIDE DEF v, n, a
      <3>1. \A w \in v .. (v + n - 1) : w \in VPage /\ w - v \in 0 .. (n - 1)
        BY <2>2 DEF VPage
      <3>2. QED
        BY <2>2, <2>3, <3>1
    <2>5. \E T1 \in Tables :
            /\ Inherits(pTable, T1, pagePtr, pageNVMPtr, pagePtr', pageNVMPtr')
            /\ pTable' = [T1 EXCEPT ![sp] = MovePages(T1[sp], s, s + old, target)]
      <3> DEFINE T1 == [pTable EXCEPT ![sp] = table]
      <3> HIDE DEF frames
      <3>1. pTable \in Tables /\ pTable[sp] \in [VPage -> Frame]
        BY FrameInvFacts, OwnTable
      <3>2. /\ table \in [VPage -> Frame]
            /\ Inherits(pTable, T1, pagePtr, pageNVMPtr, pagePtr', pageNVMPtr')
        BY <2>4, <3>1, GainingPages
      <3>3. T1 \in Tables
        BY <3>1, <3>2, ReplacedSpace
      <3>4. pTable' = [T1 EXCEPT ![sp] = MovePages(T1[sp], s, s + old, target)]
        BY <2>1, <3>1 DEF Tables
      <3>5. QED
        BY <3>2, <3>3, <3>4
    <2>6. PICK T1 \in Tables :
            /\ Inherits(pTable, T1, pagePtr, pageNVMPtr, pagePtr', pageNVMPtr')
            /\ pTable' = [T1 EXCEPT ![sp] = MovePages(T1[sp], s, s + old, target)]
      BY <2>5
    <2>7. /\ pTable' \in Tables
          /\ Inherits(T1, pTable', pagePtr', pageNVMPtr', pagePtr', pageNVMPtr')
      <3>1. PICK e \in Int : e = s + old
        BY <2>2
      <3>2. s \in Int /\ target \in Int /\ s >= 0 /\ e <= VPages
        BY <2>1, <2>2, <3>1 DEF VPage
      <3>3. /\ MovePages(T1[sp], s, e, target) \in [VPage -> Frame]
            /\ Inherits(T1, [T1 EXCEPT ![sp] = MovePages(T1[sp], s, e, target)],
                        pagePtr', pageNVMPtr', pagePtr', pageNVMPtr')
        BY <3>2, MovingPages
      <3>4. QED
        BY <2>6, <3>1, <3>3, ReplacedSpace
    <2>8. Inherits(pTable, pTable', pagePtr, pageNVMPtr, pagePtr', pageNVMPtr')
      <3>1. /\ pagePtr \in Nat /\ pagePtr' \in Nat /\ pagePtr <= pagePtr'
            /\ pagePtr' <= pagePtr' /\ pagePtr' < NvmStart
            /\ pageNVMPtr \in Nat /\ pageNVMPtr' \in Nat /\ pageNVMPtr <= pageNVMPtr'
            /\ pageNVMPtr' <= pageNVMPtr'
        BY <2>3, FrameInvFacts
      <3>2. pTable \in Tables /\ T1 \in Tables /\ pTable' \in Tables
        BY <2>6, <2>7, FrameInvFacts
      <3>3. /\ Inherits(pTable, T1, pagePtr, pageNVMPtr, pagePtr', pageNVMPtr')
            /\ Inherits(T1, pTable', pagePtr', pageNVMPtr', pagePtr', pageNVMPtr')
        BY <2>6, <2>7
      <3>4. QED
        BY <3>1, <3>2, <3>3, InheritsTransitive, ZenonT(60)
    <2>9. QED
      BY <2>1, <2>3, <2>7, <2>8, FrameInvFacts DEF FrameStep
  <1>3. QED
    BY <1>1, <1>2

\* A shrinking mremap that moves what it keeps and unmaps the rest.
LEMMA MoveAndLoseStep ==
  ASSUME FrameInv, NEW sp \in Space, NEW s \in Int, NEW e \in Int, NEW new \in Int,
         s >= 0, e <= VPages,
         NEW tab \in [VPage -> Frame], NEW m,
         \A v \in VPage : tab[v] \in {MovePages(pTable[sp], s, e, new)[v], Unmapped},
         Update(sp, tab, m)
  PROVE  FrameStep
  <1>1. PICK moved \in [VPage -> Frame] :
          /\ moved = MovePages(pTable[sp], s, e, new)
          /\ Inherits(pTable, [pTable EXCEPT ![sp] = moved],
                      pagePtr, pageNVMPtr, pagePtr, pageNVMPtr)
    BY FrameInvFacts, MovingPages
  <1>2. PICK T1 \in Tables : T1 = [pTable EXCEPT ![sp] = moved]
    BY FrameInvFacts, ReplacedSpace
  <1>3. /\ T1[sp] = moved
        /\ pTable' = [T1 EXCEPT ![sp] = tab]
    BY <1>2, FrameInvFacts DEF Update, Tables
  <1>4. Inherits(T1, pTable', pagePtr, pageNVMPtr, pagePtr, pageNVMPtr)
    <2>1. \A v \in VPage : tab[v] \in {T1[sp][v], Unmapped}
      BY <1>1, <1>3
    <2>2. QED
      BY <2>1, <1>3, LosingPages, ZenonT(60)
  <1>5. pTable' \in Tables
    BY <1>3, ReplacedSpace
  <1>6. /\ pagePtr \in Nat /\ pagePtr <= pagePtr /\ pagePtr < NvmStart
        /\ pageNVMPtr \in Nat /\ pageNVMPtr <= pageNVMPtr /\ pTable \in Tables
    BY FrameInvFacts
  <1>7. Inherits(pTable, pTable', pagePtr, pageNVMPtr, pagePtr, pageNVMPtr)
    BY <1>1, <1>2, <1>4, <1>5, <1>6, InheritsTransitive
  <1>8. QED
    BY <1>5, <1>6, <1>7, FrameInvFacts DEF Update, FrameStep

\* clone without CLONE_VM: initial pages, then the copies of the others.
LEMMA ForkStep ==
  ASSUME FrameInv, NEW sp \in Space, NEW child \in Space, Fork(sp, child)
  PROVE  FrameStep
  <1>1. CASE End("outOfMemory")
    BY <1>1, EndStep DEF Ended
  <1>2. CASE ~End("outOfMemory")
    <2>1. PICK copied \in SUBSET VPage :
            copied = {v \in VPage \ InitPages : pTable[sp][v] # Unmapped}
      OBVIOUS
    <2>2. PICK p, q : p = VolatilePtr(InitPages, pagePtr) /\ q = NvmPtr(InitPages, pageNVMPtr)
      OBVIOUS
    <2>3. /\ ~Exhausted(InitPages, pagePtr) /\ ~Exhausted(copied, p)
          /\ \E g \in Placements(InitPages, pagePtr, pageNVMPtr),
                h \in Placements(copied, p, q) :
               pTable' = [pTable EXCEPT ![child] = WithPages(WithPages(NoMappings, g), h)]
          /\ pagePtr' = VolatilePtr(copied, p) /\ pageNVMPtr' = NvmPtr(copied, q)
          /\ live' = live \cup {child} /\ UNCHANGED <<ckpt, restored, sim>>
      BY <1>2, <2>1, <2>2 DEF Fork
    <2>4. PICK g \in Placements(InitPages, pagePtr, pageNVMPtr),
               h \in Placements(copied, p, q) :
            pTable' = [pTable EXCEPT ![child] = WithPages(WithPages(NoMappings, g), h)]
      BY <2>3, ZenonT(60)
    <2>5. InitPages \in SUBSET VPage
      BY SpacesAssumption
    <2>6. /\ p \in Nat /\ q \in Nat /\ p < NvmStart
          /\ pagePtr <= p /\ pageNVMPtr <= q
          /\ DOMAIN g = InitPages
          /\ \A v \in DOMAIN g : /\ g[v] \in Nat
                                 /\ Fresh(g[v], pagePtr, pageNVMPtr, p, q)
          /\ \A v, w \in DOMAIN g : g[v] = g[w] => v = w
      BY <2>2, <2>3, <2>5, FrameInvFacts, PlacementFresh
    <2>7. /\ pagePtr' \in Nat /\ p <= pagePtr' /\ pagePtr' < NvmStart
          /\ pageNVMPtr' \in Nat /\ q <= pageNVMPtr'
          /\ DOMAIN h = copied
          /\ \A v \in DOMAIN h : /\ h[v] \in Nat
                                 /\ Fresh(h[v], p, q, pagePtr', pageNVMPtr')
          /\ \A v, w \in DOMAIN h : h[v] = h[w] => v = w
      <3>1. p \in Nat /\ q \in Nat /\ p < NvmStart /\ ~Exhausted(copied, p)
        BY <2>3, <2>6
      <3>2. /\ VolatilePtr(copied, p) \in Nat /\ p <= VolatilePtr(copied, p)
            /\ VolatilePtr(copied, p) < NvmStart
            /\ NvmPtr(copied, q) \in Nat /\ q <= NvmPtr(copied, q)
            /\ DOMAIN h = copied
            /\ \A v \in copied :
                 /\ h[v] \in Nat
                 /\ Fresh(h[v], p, q, VolatilePtr(copied, p), NvmPtr(copied, q))
            /\ \A v, w \in copied : h[v] = h[w] => v = w
        BY <3>1, PlacementFresh
      <3>3. QED
        BY <2>3, <3>2
    <2>8. PICK image \in [VPage -> Frame] :
            /\ image = WithPages(NoMappings, g)
            /\ Inherits(pTable, [pTable EXCEPT ![child] = image],
                        pagePtr, pageNVMPtr, p, q)
      <3>1. \A v \in VPage : NoMappings[v] \in {pTable[child][v], Unmapped}
        BY EmptyTable
      <3>2. DOMAIN g \subseteq VPage
        BY <2>5, <2>6
      <3>3. /\ WithPages(NoMappings, g) \in [VPage -> Frame]
            /\ Inherits(pTable, [pTable EXCEPT ![child] = WithPages(NoMappings, g)],
                        pagePtr, pageNVMPtr, p, q)
        BY <2>6, <3>1, <3>2, EmptyTable, FrameInvFacts, GainingPages
      <3>4. QED
        BY <3>3
    <2>9. PICK T1 \in Tables : T1 = [pTable EXCEPT ![child] = image]
      BY FrameInvFacts, ReplacedSpace, ZenonT(60)
    <2>10. T1[child] = image /\ pTable' = [T1 EXCEPT ![child] = WithPages(image, h)]
      BY <2>4, <2>8, <2>9, FrameInvFacts DEF Tables
    <2>11. /\ WithPages(image, h) \in [VPage -> Frame]
           /\ Inherits(T1, pTable', p, q, pagePtr', pageNVMPtr')
      <3>1. \A v \in VPage : image[v] \in {T1[child][v], Unmapped}
        BY <2>10
      <3>2. DOMAIN h \subseteq VPage
        BY <2>7
      <3>3. QED
        BY <2>7, <2>10, <3>1, <3>2, GainingPages, ZenonT(60)
    <2>12. pTable' \in Tables
      BY <2>10, <2>11, ReplacedSpace
    <2>13. pagePtr \in Nat /\ pageNVMPtr \in Nat /\ pTable \in Tables
      BY FrameInvFacts
    <2>14. Inherits(pTable, pTable', pagePtr, pageNVMPtr, pagePtr', pageNVMPtr')
      <3>1. Inherits(pTable, T1, pagePtr, pageNVMPtr, p, q)
        BY <2>8, <2>9
      <3>2. QED
        BY <2>6, <2>7, <2>11, <2>12, <2>13, <3>1, InheritsTransitive
    <2>15. pagePtr <= pagePtr' /\ pageNVMPtr <= pageNVMPtr'
      BY <2>6, <2>7, <2>13
    <2>16. QED
      BY <2>3, <2>7, <2>12, <2>14, <2>15, FrameInvFacts DEF FrameStep
  <1>3. QED
    BY <1>1, <1>2

\* Faults of one space.
LEMMA FaultStep ==
  ASSUME FrameInv, NEW sp \in Space, NEW v \in VPage, Fault(sp, v)
  PROVE  FrameStep
  <1> DEFINE grown == {w \in VPage : v <= w /\ w < mem[sp].stackMin}
  <1>1. CASE \E m : Populate(sp, {v}, m)
    BY <1>1, PopulateStep
  <1>2. CASE \E m : Populate(sp, grown, m)
    BY <1>2, PopulateStep
  <1>3. CASE End("outOfMemory") \/ End("mapPanic") \/ End("segfault")
    BY <1>3, EndStep DEF Ended
  <1>4. QED
    BY <1>1, <1>2, <1>3, ZenonT(60) DEF Fault

\* System calls of one space.
LEMMA CallsStep ==
  ASSUME FrameInv, NEW sp \in Space, Calls(sp)
  PROVE  FrameStep
  <1>0. /\ pTable[sp] \in [VPage -> Frame]
        /\ \A v \in VPage : pTable[sp][v] \in {pTable[sp][v], Unmapped}
    BY OwnTable
  <1>1. ASSUME NEW b \in BrkArgs, Brk(sp, b)
        PROVE  FrameStep
    <2>1. End("vmaPanic") \/ \E m : Update(sp, pTable[sp], m)
      BY <1>1 DEF Brk
    <2>2. QED
      BY <1>0, <2>1, EndStep, UpdateStep DEF Ended
  <1>2. ASSUME NEW s \in Args \cup {0}, NEW n \in Lengths, NEW f \in FilePages \cup {NoFile},
               Mmap(sp, s, n, f)
        PROVE  FrameStep
    <2>1. \/ End("vmaPanic")
          \/ \E m, at, len, file : MapRegion(sp, pTable[sp], m, at, len, file)
      BY <1>2 DEF Mmap
    <2>2. QED
      BY <1>0, <2>1, EndStep, MapRegionStep DEF Ended
  <1>3. ASSUME NEW s \in Args, NEW n \in Lengths, NEW f \in FilePages \cup {NoFile},
               MmapFixed(sp, s, n, f)
        PROVE  FrameStep
    <2>1. PICK tab : tab = WithoutPages(pTable[sp], s, s + n)
      OBVIOUS
    <2>2. /\ tab \in [VPage -> Frame]
          /\ \A v \in VPage : tab[v] \in {pTable[sp][v], Unmapped}
      BY <2>1, OwnTable
    <2>3. \E m, at, len, file : MapRegion(sp, tab, m, at, len, file)
      BY <1>3, <2>1 DEF MmapFixed
    <2>4. QED
      BY <2>2, <2>3, MapRegionStep
  <1>4. ASSUME NEW s \in Args, NEW n \in Lengths, Munmap(sp, s, n)
        PROVE  FrameStep
    <2>1. PICK tab : tab = WithoutPages(pTable[sp], s, s + n)
      OBVIOUS
    <2>2. /\ tab \in [VPage -> Frame]
          /\ \A v \in VPage : tab[v] \in {pTable[sp][v], Unmapped}
      BY <2>1, OwnTable
    <2>3. \E m : Update(sp, tab, m)
      BY <1>4, <2>1 DEF Munmap
    <2>4. QED
      BY <2>2, <2>3, UpdateStep
  <1>5. ASSUME NEW s \in Args, NEW dst \in Args, NEW old \in Lengths, NEW new \in Lengths,
               NEW how \in {"fixed", "maymove"}, MremapGrow(sp, s, old, new, how, dst)
        PROVE  FrameStep
    <2>1. /\ s \in VPage /\ s + old <= VPages /\ old < new
          /\ old \in Nat \ {0} /\ new \in Nat \ {0}
      BY <1>5, SpacesAssumption DEF MremapGrow, InRange
    <2>2. \/ \E m, at, len, file : MapRegion(sp, pTable[sp], m, at, len, file)
          \/ \E target, clobber : MoveAndGrow(sp, s, old, new, target, clobber)
      BY <1>5 DEF MremapGrow
    <2>3. QED
      BY <1>0, <2>1, <2>2, MapRegionStep, MoveAndGrowStep
  <1>6. ASSUME NEW s \in Args, NEW dst \in Args, NEW old \in Lengths, NEW new \in Lengths,
               MremapShrink(sp, s, old, new, dst)
        PROVE  FrameStep
    <2>1. PICK e \in Int : e = s + new
      BY SpacesAssumption
    <2>2. s \in Nat /\ dst \in Nat /\ e <= VPages /\ VPages \in Nat
      BY <1>6, <2>1, SpacesAssumption DEF MremapShrink, InRange, VPage
    <2>3. CASE End("assert")
      BY <2>3, EndStep DEF Ended
    <2>4. CASE ~End("assert") /\ dst = s
      <3>1. \E m : Update(sp, WithoutPages(pTable[sp], s + new, s + old), m)
        BY <1>6, <2>4, SpacesAssumption DEF MremapShrink
      <3>2. QED
        BY <3>1, OwnTable, UpdateStep
    <2>5. CASE ~End("assert") /\ dst # s
      <3>1. PICK moved : moved = MovePages(pTable[sp], s, e, dst)
        OBVIOUS
      <3>2. moved \in [VPage -> Frame]
        <4>1. s \in Int /\ dst \in Int /\ s >= 0 /\ e <= VPages /\ pTable \in Tables
          BY <2>2, FrameInvFacts
        <4>2. QED
          BY <3>1, <4>1, MovingPages, ZenonT(60)
      <3>3. \E m : Update(sp, moved, m) \/ Update(sp, WithoutPages(moved, s + new, s + old), m)
        BY <1>6, <2>1, <2>5, <3>1 DEF MremapShrink
      <3>4. /\ WithoutPages(moved, s + new, s + old) \in [VPage -> Frame]
            /\ \A v \in VPage :
                 WithoutPages(moved, s + new, s + old)[v] \in {moved[v], Unmapped}
        BY <3>2 DEF WithoutPages, Frame
      <3>5. \E m, tab : /\ Update(sp, tab, m) /\ tab \in [VPage -> Frame]
                        /\ \A v \in VPage : tab[v] \in {moved[v], Unmapped}
        BY <3>2, <3>3, <3>4
      <3>6. PICK m, tab :
              /\ Update(sp, tab, m) /\ tab \in [VPage -> Frame]
              /\ \A v \in VPage :
                   tab[v] \in {MovePages(pTable[sp], s, e, dst)[v], Unmapped}
        BY <3>1, <3>5
      <3>7. s \in Int /\ dst \in Int /\ s >= 0 /\ e <= VPages
        BY <2>2
      <3>8. QED
        BY <3>6, <3>7, MoveAndLoseStep
    <2>6. QED
      BY <2>3, <2>4, <2>5
  <1>7. ASSUME NEW child \in Space, Fork(sp, child)
        PROVE  FrameStep
    BY <1>7, ForkStep
  <1>8. ASSUME NEW thread \in BOOLEAN, CloneVM(sp, thread)
        PROVE  FrameStep
    <2>1. PICK pages \in SUBSET VPage : pages = IF thread THEN ImagePages ELSE InitPages
      BY SpacesAssumption, ZenonT(60) DEF InitPages
    <2>2. \/ End("outOfMemory")
          \/ /\ ~Exhausted(pages, pagePtr)
             /\ pagePtr' = VolatilePtr(pages, pagePtr)
             /\ pageNVMPtr' = NvmPtr(pages, pageNVMPtr)
             /\ UNCHANGED <<pTable, live, ckpt, restored, sim>>
      BY <1>8, <2>1 DEF CloneVM
    <2>3. CASE End("outOfMemory")
      BY <2>3, EndStep DEF Ended
    <2>4. CASE ~End("outOfMemory")
      <3>1. /\ pagePtr' \in Nat /\ pagePtr <= pagePtr' /\ pagePtr' < NvmStart
            /\ pageNVMPtr' \in Nat /\ pageNVMPtr <= pageNVMPtr'
        <4>1. /\ pagePtr \in Nat /\ pageNVMPtr \in Nat /\ pagePtr < NvmStart
              /\ ~Exhausted(pages, pagePtr)
          BY <2>2, <2>4, FrameInvFacts
        <4>2. /\ pagePtr' = VolatilePtr(pages, pagePtr)
              /\ pageNVMPtr' = NvmPtr(pages, pageNVMPtr)
          BY <2>2, <2>4
        <4>3. QED
          BY <4>1, <4>2, PlacementFresh, ZenonT(60)
      <3>2. Inherits(pTable, pTable', pagePtr, pageNVMPtr, pagePtr', pageNVMPtr')
        BY <2>2, <2>4 DEF Inherits
      <3>3. QED
        BY <2>2, <2>4, <3>1, <3>2, FrameInvFacts DEF FrameStep
    <2>5. QED
      BY <2>3, <2>4
  <1>9. ASSUME NEW new \in Space, Execve(sp, new)
        PROVE  FrameStep
    BY <1>9, LoadImageStep DEF Execve
  <1>10. QED
    BY <1>1, <1>2, <1>3, <1>4, <1>5, <1>6, <1>7, <1>8, <1>9 DEF Calls

-----------------------------------------------------------------------------
(***************************************************************************)
(* Frames are private.                                                     *)
(***************************************************************************)

\* Every step of Next changes the tables as above, or writes or loads a
\* checkpoint.
LEMMA NextStep ==
  ASSUME FrameInv, Next
  PROVE  FrameStep \/ Checkpoint \/ Restore
  <1>1. ASSUME NEW sp \in Space, InitState(sp)
        PROVE  FrameStep
    BY <1>1, LoadImageStep DEF InitState
  <1>2. QED
    BY <1>1, CallsStep, FaultStep DEF Next

\* The initial state has no frame in use.
LEMMA FrameInvInit == Init => FrameInv
  <1> SUFFICES ASSUME Init PROVE FrameInv
    OBVIOUS
  <1>1. FrameTypeOK /\ pagePtr < NvmStart /\ ckpt.pagePtr < NvmStart
    <2>1. /\ pagePtr = 0 /\ pageNVMPtr = 0 /\ ckpt.pagePtr = 0
          /\ pTable = [sp \in Space |-> NoMappings]
          /\ ckpt.pTable = [sp \in Space |-> NoMappings]
      BY DEF Init
    <2>2. pTable \in [Space -> [VPage -> Frame]] /\ ckpt.pTable \in [Space -> [VPage -> Frame]]
      BY <2>1, EmptyTable
    <2>3. restored \in BOOLEAN /\ live \subseteq Space /\ sim \in Ended \cup {"running"}
      BY ZenonT(60) DEF Init
    <2>4. QED
      BY <2>1, <2>2, <2>3, LayoutAssumption DEF FrameTypeOK
  <1>2. \A x \in Entry : FrameAt(pTable, x) = Unmapped /\ FrameAt(ckpt.pTable, x) = Unmapped
    BY DEF Init, NoMappings, Entry, FrameAt
  <1>3. QED
    BY <1>1, <1>2 DEF FrameInv, HandedOut, Private

\* FrameInv is inductive.
LEMMA FrameInvNext == FrameInv /\ [Next]_vars => FrameInv'
  <1> SUFFICES ASSUME FrameInv, [Next]_vars PROVE FrameInv'
    OBVIOUS
  <1>1. CASE FrameStep
    <2>1. /\ pagePtr \in Nat /\ pageNVMPtr \in Nat /\ restored \in BOOLEAN
          /\ pTable \in Tables /\ HandedOut(pTable, pagePtr, pageNVMPtr, restored)
          /\ Private(pTable, restored)
      BY DEF FrameInv, FrameTypeOK, Tables
    <2>2. /\ HandedOut(pTable', pagePtr', pageNVMPtr', restored)
          /\ Private(pTable', restored)
      BY <1>1, <2>1, InheritsPreserves DEF FrameStep
    <2>3. FrameTypeOK' /\ pagePtr' < NvmStart /\ ckpt'.pagePtr < NvmStart
      BY <1>1 DEF FrameStep, FrameInv, FrameTypeOK, Tables
    <2>4. HandedOut(ckpt'.pTable, ckpt'.pagePtr, 0, TRUE) /\ Private(ckpt'.pTable, TRUE)
      BY <1>1 DEF FrameStep, FrameInv
    <2>5. restored' = restored
      BY <1>1 DEF FrameStep
    <2>6. QED
      BY <2>2, <2>3, <2>4, <2>5 DEF FrameInv, HandedOut, Private, FrameAt
  <1>2. CASE Checkpoint
    <2>1. /\ UNCHANGED <<pagePtr, pageNVMPtr, pTable, mem, live, restored, sim>>
          /\ ckpt'.pagePtr = pagePtr /\ ckpt'.pTable = pTable
      BY <1>2 DEF Checkpoint, Serialized
    <2>2. HandedOut(pTable, pagePtr, 0, TRUE) /\ Private(pTable, TRUE)
      BY DEF FrameInv, HandedOut, Private
    <2>3. QED
      BY <2>1, <2>2 DEF FrameInv, FrameTypeOK, HandedOut, Private, FrameAt
  <1>3. CASE Restore
    <2>1. /\ pagePtr' = ckpt.pagePtr /\ pageNVMPtr' = 0 /\ pTable' = ckpt.pTable
          /\ live' = Root /\ restored' = TRUE /\ sim' = "running" /\ ckpt' = ckpt
      BY <1>3 DEF Restore
    <2>2. FrameTypeOK'
      BY <2>1, SpacesAssumption DEF FrameInv, FrameTypeOK
    <2>3. QED
      BY <2>1, <2>2 DEF FrameInv, HandedOut, Private, FrameAt
  <1>4. CASE UNCHANGED vars
    BY <1>4 DEF vars, FrameInv, FrameTypeOK, HandedOut, Private, FrameAt
  <1>5. QED
    BY <1>1, <1>2, <1>3, <1>4, NextStep

\* The inductive invariant holds in every reachable state.
THEOREM FrameInvariant == Spec => []FrameInv
  BY FrameInvInit, FrameInvNext, PTL DEF Spec

\* The frame part of the type invariant: both pointers are numbers and every
\* page table entry, saved ones included, is a frame number or Unmapped.
THEOREM FrameTypes == Spec => []FrameTypeOK
  <1>1. FrameInv => FrameTypeOK
    BY DEF FrameInv
  <1>2. QED
    BY <1>1, FrameInvariant, PTL

\* No frame ever backs two virtual pages, over any history of faults, system
\* calls, clones, checkpoints and restores, except NVM frames after a restore
\* (allocPhysPages, allocNVMPhysPages, serialize).
THEOREM FramesArePrivate == Spec => []FramesPrivate
  <1>1. FrameInv => FramesPrivate
    BY DEF FrameInv, FramesPrivate
  <1>2. QED
    BY <1>1, FrameInvariant, PTL

-----------------------------------------------------------------------------
(***************************************************************************)
(* The two memories are separate.                                          *)
(***************************************************************************)
Separated(T) ==
    \A x \in Entry : FrameAt(T, x) # Unmapped =>
        (x[2] \in NvmStart .. NvmEnd <=> FrameAt(T, x) >= NvmStart)

SeparationInv == Separated(pTable) /\ Separated(ckpt.pTable)

\* Replacing the table of one space by a separated one.
LEMMA SeparatedSpace ==
  ASSUME NEW T \in Tables, Separated(T), NEW sp \in Space, NEW tab \in [VPage -> Frame],
         \A v \in VPage : tab[v] # Unmapped =>
            (v \in NvmStart .. NvmEnd <=> tab[v] >= NvmStart)
  PROVE  Separated([T EXCEPT ![sp] = tab])
  BY ReplacedSpace, FrameAtType DEF Separated

\* The entries of one space of a separated table.
LEMMA SeparatedOwn ==
  ASSUME NEW T \in Tables, Separated(T), NEW sp \in Space, NEW v \in VPage,
         T[sp][v] # Unmapped
  PROVE  v \in NvmStart .. NvmEnd <=> T[sp][v] >= NvmStart
  <1>1. <<sp, v>> \in Entry /\ FrameAt(T, <<sp, v>>) = T[sp][v]
    BY DEF Entry, FrameAt
  <1>2. QED
    BY <1>1 DEF Separated

\* allocateMem and replicatePage choose the memory by the virtual address.
LEMMA SeparatedGain ==
  ASSUME NEW T \in Tables, Separated(T), NEW sp \in Space,
         NEW base \in [VPage -> Frame],
         \A v \in VPage : base[v] # Unmapped =>
            (v \in NvmStart .. NvmEnd <=> base[v] >= NvmStart),
         NEW pages \in SUBSET VPage, NEW ptr \in Nat, NEW nvmPtr \in Nat,
         ptr < NvmStart, ~Exhausted(pages, ptr),
         NEW g \in Placements(pages, ptr, nvmPtr)
  PROVE  /\ WithPages(base, g) \in [VPage -> Frame]
         /\ \A v \in VPage : WithPages(base, g)[v] # Unmapped =>
              (v \in NvmStart .. NvmEnd <=> WithPages(base, g)[v] >= NvmStart)
         /\ Separated([T EXCEPT ![sp] = WithPages(base, g)])
  <1>1. /\ DOMAIN g = pages
        /\ \A v \in pages : g[v] \in Nat /\ (v \in NvmStart .. NvmEnd <=> g[v] >= NvmStart)
    BY PlacementFresh, ZenonT(60)
  <1>2. /\ WithPages(base, g) \in [VPage -> Frame]
        /\ \A v \in VPage : WithPages(base, g)[v] # Unmapped =>
              (v \in NvmStart .. NvmEnd <=> WithPages(base, g)[v] >= NvmStart)
    BY <1>1 DEF WithPages, Frame
  <1>3. QED
    BY <1>2, SeparatedSpace

\* Steps that leave the tables alone.
LEMMA SeparationKept ==
  ASSUME SeparationInv, UNCHANGED <<pTable, ckpt>>
  PROVE  SeparationInv'
  BY DEF SeparationInv, Separated, FrameAt

\* Steps that replace the table of one space.
LEMMA SeparationReplaced ==
  ASSUME FrameInv, SeparationInv, NEW sp \in Space, NEW tab \in [VPage -> Frame],
         \A v \in VPage : tab[v] # Unmapped =>
            (v \in NvmStart .. NvmEnd <=> tab[v] >= NvmStart),
         pTable' = [pTable EXCEPT ![sp] = tab], ckpt' = ckpt
  PROVE  SeparationInv'
  <1>1. Separated(pTable')
    BY FrameInvFacts, SeparatedSpace DEF SeparationInv
  <1>2. QED
    BY <1>1 DEF SeparationInv, Separated, FrameAt

\* Updates that give no page a new frame.
LEMMA SeparationUpdate ==
  ASSUME FrameInv, SeparationInv, NEW sp \in Space, NEW m, NEW tab \in [VPage -> Frame],
         \A v \in VPage : tab[v] \in {pTable[sp][v], Unmapped},
         Update(sp, tab, m)
  PROVE  SeparationInv'
  <1>1. \A v \in VPage : tab[v] # Unmapped =>
            (v \in NvmStart .. NvmEnd <=> tab[v] >= NvmStart)
    BY FrameInvFacts, SeparatedOwn DEF SeparationInv
  <1>2. pTable' = [pTable EXCEPT ![sp] = tab] /\ ckpt' = ckpt
    BY DEF Update
  <1>3. QED
    BY <1>1, <1>2, SeparationReplaced

\* mapRegion.
LEMMA SeparationMapRegion ==
  ASSUME FrameInv, SeparationInv, NEW sp \in Space, NEW m,
         NEW s, NEW n, NEW file,
         NEW tab \in [VPage -> Frame],
         \A v \in VPage : tab[v] \in {pTable[sp][v], Unmapped},
         MapRegion(sp, tab, m, s, n, file)
  PROVE  SeparationInv'
  <1>1. \/ \E m2 : Update(sp, tab, m2)
        \/ UNCHANGED <<pTable, ckpt>>
    BY DEF MapRegion, End
  <1>2. QED
    BY <1>1, SeparationUpdate, SeparationKept

\* initState.
LEMMA SeparationLoadImage ==
  ASSUME FrameInv, SeparationInv, NEW sp \in Space, NEW users, LoadImage(sp, users)
  PROVE  SeparationInv'
  <1>1. CASE UNCHANGED <<pTable, ckpt>>
    BY <1>1, SeparationKept
  <1>2. CASE ~UNCHANGED <<pTable, ckpt>>
    <2>1. /\ ~Exhausted(InitPages, pagePtr) /\ ckpt' = ckpt
          /\ \E g \in Placements(InitPages, pagePtr, pageNVMPtr) :
               pTable' = [pTable EXCEPT ![sp] = WithPages(NoMappings, g)]
      BY <1>2 DEF LoadImage, End
    <2>2. PICK g \in Placements(InitPages, pagePtr, pageNVMPtr) :
            pTable' = [pTable EXCEPT ![sp] = WithPages(NoMappings, g)]
      BY <2>1
    <2>3. /\ InitPages \in SUBSET VPage /\ pagePtr \in Nat /\ pageNVMPtr \in Nat
          /\ pagePtr < NvmStart /\ pTable \in Tables /\ Separated(pTable)
      BY SpacesAssumption, FrameInvFacts DEF SeparationInv
    <2>4. /\ WithPages(NoMappings, g) \in [VPage -> Frame]
          /\ \A v \in VPage : WithPages(NoMappings, g)[v] # Unmapped =>
               (v \in NvmStart .. NvmEnd <=> WithPages(NoMappings, g)[v] >= NvmStart)
      BY <2>1, <2>3, EmptyTable, SeparatedGain
    <2>5. QED
      BY <2>1, <2>2, <2>4, SeparationReplaced
  <1>3. QED
    BY <1>1, <1>2

\* fixupFault's allocations.
LEMMA SeparationPopulate ==
  ASSUME FrameInv, SeparationInv, NEW sp \in Space, NEW pages \in SUBSET VPage,
         NEW m, Populate(sp, pages, m)
  PROVE  SeparationInv'
  <1>1. CASE UNCHANGED <<pTable, ckpt>>
    BY <1>1, SeparationKept
  <1>2. CASE ~UNCHANGED <<pTable, ckpt>>
    <2>1. /\ ~Exhausted(pages, pagePtr) /\ ckpt' = ckpt
          /\ \E g \in Placements(pages, pagePtr, pageNVMPtr) :
               pTable' = [pTable EXCEPT ![sp] = WithPages(pTable[sp], g)]
      BY <1>2 DEF Populate, End
    <2>2. PICK g \in Placements(pages, pagePtr, pageNVMPtr) :
            pTable' = [pTable EXCEPT ![sp] = WithPages(pTable[sp], g)]
      BY <2>1
    <2>3. /\ pagePtr \in Nat /\ pageNVMPtr \in Nat /\ pagePtr < NvmStart
          /\ pTable \in Tables /\ Separated(pTable) /\ pTable[sp] \in [VPage -> Frame]
      BY FrameInvFacts, OwnTable DEF SeparationInv
    <2>4. \A v \in VPage : pTable[sp][v] # Unmapped =>
            (v \in NvmStart .. NvmEnd <=> pTable[sp][v] >= NvmStart)
      BY <2>3, SeparatedOwn
    <2>5. /\ WithPages(pTable[sp], g) \in [VPage -> Frame]
          /\ \A v \in VPage : WithPages(pTable[sp], g)[v] # Unmapped =>
               (v \in NvmStart .. NvmEnd <=> WithPages(pTable[sp], g)[v] >= NvmStart)
      BY <2>1, <2>3, <2>4, SeparatedGain
    <2>6. QED
      BY <2>1, <2>2, <2>5, SeparationReplaced
  <1>3. QED
    BY <1>1, <1>2

\* clone without CLONE_VM.
LEMMA SeparationFork ==
  ASSUME FrameInv, SeparationInv, NEW sp \in Space, NEW child \in Space, Fork(sp, child)
  PROVE  SeparationInv'
  <1>1. CASE UNCHANGED <<pTable, ckpt>>
    BY <1>1, SeparationKept
  <1>2. CASE ~UNCHANGED <<pTable, ckpt>>
    <2>1. PICK copied \in SUBSET VPage :
            copied = {v \in VPage \ InitPages : pTable[sp][v] # Unmapped}
      BY ZenonT(60)
    <2>2. PICK p, q : p = VolatilePtr(InitPages, pagePtr) /\ q = NvmPtr(InitPages, pageNVMPtr)
      OBVIOUS
    <2>3. /\ ~Exhausted(InitPages, pagePtr) /\ ~Exhausted(copied, p) /\ ckpt' = ckpt
          /\ \E g \in Placements(InitPages, pagePtr, pageNVMPtr),
                h \in Placements(copied, p, q) :
               pTable' = [pTable EXCEPT ![child] = WithPages(WithPages(NoMappings, g), h)]
      BY <1>2, <2>1, <2>2 DEF Fork, End
    <2>4. PICK g \in Placements(InitPages, pagePtr, pageNVMPtr),
               h \in Placements(copied, p, q) :
            pTable' = [pTable EXCEPT ![child] = WithPages(WithPages(NoMappings, g), h)]
      BY <2>3
    <2>5. /\ InitPages \in SUBSET VPage /\ pagePtr \in Nat /\ pageNVMPtr \in Nat
          /\ pagePtr < NvmStart /\ pTable \in Tables /\ Separated(pTable)
      BY SpacesAssumption, FrameInvFacts DEF SeparationInv
    <2>6. p \in Nat /\ q \in Nat /\ p < NvmStart
      BY <2>2, <2>3, <2>5, PlacementFresh
    <2>7. PICK image \in [VPage -> Frame] :
            /\ image = WithPages(NoMappings, g)
            /\ \A v \in VPage : image[v] # Unmapped =>
                 (v \in NvmStart .. NvmEnd <=> image[v] >= NvmStart)
      <3>1. /\ WithPages(NoMappings, g) \in [VPage -> Frame]
            /\ \A v \in VPage : WithPages(NoMappings, g)[v] # Unmapped =>
                 (v \in NvmStart .. NvmEnd <=> WithPages(NoMappings, g)[v] >= NvmStart)
        BY <2>3, <2>5, EmptyTable, SeparatedGain
      <3>2. QED
        BY <3>1
    <2>8. /\ WithPages(image, h) \in [VPage -> Frame]
          /\ \A v \in VPage : WithPages(image, h)[v] # Unmapped =>
               (v \in NvmStart .. NvmEnd <=> WithPages(image, h)[v] >= NvmStart)
      BY <2>3, <2>5, <2>6, <2>7, SeparatedGain
    <2>9. QED
      BY <2>3, <2>4, <2>7, <2>8, SeparationReplaced
  <1>3. QED
    BY <1>1, <1>2

\* System calls other than mremap.
LEMMA SeparationCalls ==
  ASSUME FrameInv, SeparationInv, "mremap" \notin Ops, NEW sp \in Space, Calls(sp)
  PROVE  SeparationInv'
  <1>0. /\ pTable[sp] \in [VPage -> Frame]
        /\ \A v \in VPage : pTable[sp][v] \in {pTable[sp][v], Unmapped}
    BY OwnTable
  <1>1. ASSUME NEW b \in BrkArgs, Brk(sp, b)
        PROVE  SeparationInv'
    <2>1. UNCHANGED <<pTable, ckpt>> \/ \E m : Update(sp, pTable[sp], m)
      BY <1>1 DEF Brk, End
    <2>2. QED
      BY <1>0, <2>1, SeparationKept, SeparationUpdate
  <1>2. ASSUME NEW s \in Args \cup {0}, NEW n \in Lengths, NEW f \in FilePages \cup {NoFile},
               Mmap(sp, s, n, f)
        PROVE  SeparationInv'
    <2>1. \/ UNCHANGED <<pTable, ckpt>>
          \/ \E m, at, len, file : MapRegion(sp, pTable[sp], m, at, len, file)
      BY <1>2 DEF Mmap, End
    <2>2. QED
      BY <1>0, <2>1, SeparationKept, SeparationMapRegion
  <1>3. ASSUME NEW s \in Args, NEW n \in Lengths, NEW f \in FilePages \cup {NoFile},
               MmapFixed(sp, s, n, f)
        PROVE  SeparationInv'
    <2>1. PICK tab : tab = WithoutPages(pTable[sp], s, s + n)
      OBVIOUS
    <2>2. /\ tab \in [VPage -> Frame]
          /\ \A v \in VPage : tab[v] \in {pTable[sp][v], Unmapped}
      BY <2>1, OwnTable
    <2>3. \E m, at, len, file : MapRegion(sp, tab, m, at, len, file)
      BY <1>3, <2>1 DEF MmapFixed
    <2>4. QED
      BY <2>2, <2>3, SeparationMapRegion
  <1>4. ASSUME NEW s \in Args, NEW n \in Lengths, Munmap(sp, s, n)
        PROVE  SeparationInv'
    <2>1. PICK tab : tab = WithoutPages(pTable[sp], s, s + n)
      OBVIOUS
    <2>2. /\ tab \in [VPage -> Frame]
          /\ \A v \in VPage : tab[v] \in {pTable[sp][v], Unmapped}
      BY <2>1, OwnTable
    <2>3. \E m : Update(sp, tab, m)
      BY <1>4, <2>1 DEF Munmap
    <2>4. QED
      BY <2>2, <2>3, SeparationUpdate
  <1>5. \A s, dst \in Args, old, new \in Lengths, how \in {"fixed", "maymove"} :
          /\ ~MremapGrow(sp, s, old, new, how, dst)
          /\ ~MremapShrink(sp, s, old, new, dst)
    <2>1. ~CanCall("mremap", sp)
      BY DEF CanCall
    <2>2. ASSUME NEW s, NEW dst, NEW old, NEW new, NEW how
          PROVE  /\ ~MremapGrow(sp, s, old, new, how, dst)
                 /\ ~MremapShrink(sp, s, old, new, dst)
      BY <2>1, ZenonT(60) DEF MremapGrow, MremapShrink
    <2>3. QED
      BY <2>2
  <1>6. ASSUME NEW thread \in BOOLEAN, CloneVM(sp, thread)
        PROVE  SeparationInv'
    <2>1. UNCHANGED <<pTable, ckpt>>
      BY <1>6 DEF CloneVM, End
    <2>2. QED
      BY <2>1, SeparationKept
  <1>7. ASSUME NEW new \in Space, Execve(sp, new)
        PROVE  SeparationInv'
    BY <1>7, SeparationLoadImage DEF Execve
  <1>8. QED
    BY <1>1, <1>2, <1>3, <1>4, <1>5, <1>6, <1>7, SeparationFork DEF Calls

\* Separation is inductive relative to FrameInv when nobody calls mremap.
LEMMA SeparationNext ==
  ASSUME "mremap" \notin Ops
  PROVE  FrameInv /\ SeparationInv /\ [Next]_vars => SeparationInv'
  <1> SUFFICES ASSUME FrameInv, SeparationInv, [Next]_vars PROVE SeparationInv'
    OBVIOUS
  <1>1. ASSUME NEW sp \in Space, InitState(sp)
        PROVE  SeparationInv'
    BY <1>1, SeparationLoadImage DEF InitState
  <1>2. ASSUME NEW sp \in Space, NEW v \in VPage, Fault(sp, v)
        PROVE  SeparationInv'
    <2>1. \/ UNCHANGED <<pTable, ckpt>>
          \/ \E m : Populate(sp, {v}, m)
          \/ \E m : Populate(sp, {w \in VPage : v <= w /\ w < mem[sp].stackMin}, m)
      BY <1>2, ZenonT(60) DEF Fault, End
    <2>2. QED
      BY <2>1, SeparationKept, SeparationPopulate
  <1>3. CASE Checkpoint
    <2>1. UNCHANGED pTable /\ ckpt'.pTable = pTable
      BY <1>3 DEF Checkpoint, Serialized
    <2>2. QED
      BY <2>1 DEF SeparationInv, Separated, FrameAt
  <1>4. CASE Restore
    BY <1>4 DEF Restore, SeparationInv, Separated, FrameAt
  <1>5. CASE UNCHANGED vars
    BY <1>5, SeparationKept DEF vars
  <1>6. QED
    BY <1>1, <1>2, <1>3, <1>4, <1>5, SeparationCalls DEF Next

\* Without mremap a virtual page has a frame of the NVM if and only if its
\* address lies in the NVM range, in every process, across checkpoints and
\* restores (allocateMem, replicatePage, allocPhysPages).
THEOREM MemoriesAreSeparate == Spec => []SpacesSeparated
  <1>1. CASE "mremap" \notin Ops
    <2>1. Init => SeparationInv
      BY DEF Init, NoMappings, SeparationInv, Separated, Entry, FrameAt
    <2>2. FrameInv /\ SeparationInv /\ [Next]_vars => SeparationInv'
      BY <1>1, SeparationNext
    <2>3. SeparationInv => SpacesSeparated
      BY DEF SeparationInv, Separated, SpacesSeparated
    <2>4. QED
      BY <2>1, <2>2, <2>3, FrameInvariant, PTL DEF Spec
  <1>2. CASE "mremap" \in Ops
    <2>1. SpacesSeparated
      BY <1>2 DEF SpacesSeparated
    <2>2. QED
      BY <2>1, PTL
  <1>3. QED
    BY <1>1, <1>2

-----------------------------------------------------------------------------
(***************************************************************************)
(* Frame allocation implements FreshFrames.                                *)
(***************************************************************************)

\* A workload without checkpoints is never restored.
NeverRestored == ~restored /\ ~ckpt.taken

\* The set of used frames grows by the fresh ones.
LEMMA UsedGrows ==
  ASSUME NEW ptr \in Nat, NEW nvmPtr \in Nat, NEW ptr2 \in Nat, NEW nvmPtr2 \in Nat,
         ptr <= ptr2, ptr2 < NvmStart, nvmPtr <= nvmPtr2
  PROVE  /\ UsedUpTo(ptr, nvmPtr) \subseteq UsedUpTo(ptr2, nvmPtr2)
         /\ \A f \in Nat : Fresh(f, ptr, nvmPtr, ptr2, nvmPtr2) =>
              f \in UsedUpTo(ptr2, nvmPtr2) \ UsedUpTo(ptr, nvmPtr)
  BY LayoutAssumption DEF UsedUpTo, NvmRun, Fresh

\* The initial states map to initial states of FreshFrames.
LEMMA FreshFramesInit == Init => Abstract!Start
  <1> SUFFICES ASSUME Init PROVE Abstract!Start
    OBVIOUS
  <1>1. pagePtr = 0 /\ pageNVMPtr = 0 /\ NvmStart \in Nat
    BY LayoutAssumption DEF Init
  <1>2. UsedFrames = {}
    BY <1>1 DEF UsedFrames, UsedUpTo, NvmRun
  <1>3. QED
    BY <1>2 DEF Init, Abstract!Start, NoMappings

\* NeverRestored is inductive when no checkpoint is written.
LEMMA NeverRestoredNext ==
  ASSUME "checkpoint" \notin Ops
  PROVE  FrameInv /\ NeverRestored /\ [Next]_vars => NeverRestored'
  <1> SUFFICES ASSUME FrameInv, NeverRestored, [Next]_vars PROVE NeverRestored'
    OBVIOUS
  <1>1. ~Checkpoint /\ ~Restore
    BY DEF Checkpoint, Restore, NeverRestored
  <1>2. UNCHANGED <<ckpt, restored>>
    BY <1>1, NextStep DEF FrameStep, vars
  <1>3. QED
    BY <1>2 DEF NeverRestored

\* Every step maps to an Event of FreshFrames or to a stutter.
LEMMA FreshFramesNext ==
  ASSUME "checkpoint" \notin Ops
  PROVE  FrameInv /\ FrameInv' /\ NeverRestored /\ NeverRestored' /\ [Next]_vars
           => [Abstract!Event]_<<UsedFrames, pTable>>
  <1> SUFFICES ASSUME FrameInv, FrameInv', NeverRestored, NeverRestored', [Next]_vars
               PROVE  Abstract!Event \/ UNCHANGED <<UsedFrames, pTable>>
    OBVIOUS
  <1>1. CASE UNCHANGED vars
    BY <1>1 DEF vars, UsedFrames
  <1>2. CASE FrameStep
    <2>1. /\ pagePtr \in Nat /\ pagePtr' \in Nat /\ pagePtr <= pagePtr'
          /\ pagePtr' < NvmStart
          /\ pageNVMPtr \in Nat /\ pageNVMPtr' \in Nat /\ pageNVMPtr <= pageNVMPtr'
          /\ pTable' \in Tables /\ NvmStart \in Nat
      BY <1>2, FrameInvFacts, LayoutAssumption DEF FrameStep
    <2>2. /\ UsedFrames = UsedUpTo(pagePtr, pageNVMPtr)
          /\ UsedFrames' = UsedUpTo(pagePtr', pageNVMPtr')
      BY DEF UsedFrames, UsedUpTo
    <2>3. /\ UsedFrames \subseteq UsedFrames'
          /\ \A f \in Nat : Fresh(f, pagePtr, pageNVMPtr, pagePtr', pageNVMPtr')
                              => f \in UsedFrames' \ UsedFrames
      BY <2>1, <2>2, UsedGrows
    <2>4. Abstract!Held(pTable') \subseteq
            Abstract!Held(pTable) \cup (UsedFrames' \ UsedFrames)
      <3> SUFFICES ASSUME NEW x \in Entry, FrameAt(pTable', x) # Unmapped
                   PROVE  \/ \E y \in Entry : FrameAt(pTable, y) = FrameAt(pTable', x)
                          \/ FrameAt(pTable', x) \in UsedFrames' \ UsedFrames
        BY DEF Abstract!Held, Abstract!Entries, Abstract!At, Entry, FrameAt
      <3>1. FrameAt(pTable', x) \in Nat
        BY <2>1, FrameAtType DEF Frame
      <3>2. QED
        BY <1>2, <2>3, <3>1 DEF FrameStep, Inherits
    <2>5. Abstract!Exclusive(pTable')
      BY DEF FrameInv, NeverRestored, Private, FrameAt, Entry,
             Abstract!Exclusive, Abstract!Entries, Abstract!At
    <2>6. QED
      BY <2>3, <2>4, <2>5 DEF Abstract!Event
  <1>3. QED
    BY <1>1, <1>2, NextStep, ZenonT(60) DEF Checkpoint, Restore, NeverRestored

\* In a workload without checkpoints, frame allocation implements FreshFrames:
\* no event maps a frame that was handed out before, so the pages fixupFault
\* takes to be zero-filled have never been written.
THEOREM FramesAreFresh ==
  ASSUME "checkpoint" \notin Ops
  PROVE  Spec => ImplementsFreshFrames
  <1>1. Init => NeverRestored
    BY DEF Init, NeverRestored
  <1>2. FrameInv /\ NeverRestored /\ [Next]_vars => NeverRestored'
    BY NeverRestoredNext
  <1>3. FrameInv /\ FrameInv' /\ NeverRestored /\ NeverRestored' /\ [Next]_vars
           => [Abstract!Event]_<<UsedFrames, pTable>>
    BY FreshFramesNext
  <1>4. QED
    BY <1>1, <1>2, <1>3, FreshFramesInit, FrameInvariant, PTL
       DEF Spec, ImplementsFreshFrames, Abstract!Behaviour
=============================================================================
