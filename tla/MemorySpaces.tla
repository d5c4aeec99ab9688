--------------------------- MODULE MemorySpaces ---------------------------
(***************************************************************************)
(* System-call emulation memory management of the patched gem5: processes, *)
(* their page tables and memory state, the two physical page allocators,   *)
(* the system calls that change a virtual address space, page faults, and  *)
(* checkpoint and restore.                                                 *)
(*                                                                         *)
(* A space is a Process with its own EmulationPageTable and MemState;      *)
(* threads made with CLONE_VM act on the space of their creator.  A system *)
(* call, a fault or a checkpoint runs to completion inside one event of    *)
(* the simulator, so each is one action.                                   *)
(***************************************************************************)
EXTENDS PhysPages, VmaList

CONSTANTS
    Space,      \* address spaces that can ever exist
    Root,       \* the processes of the configuration script
    VPages,     \* virtual pages are 0 .. VPages - 1
    PageBytes,  \* the break is a byte address
    ImagePages, \* pages the object file writes, .NVM section included
    BrkStart,   \* roundUp(image.maxAddr()), the first heap page
    MmapTop,    \* initial _mmapEnd; the mmap region grows down
    StackBase, MaxStack, StackInit, \* stack top, limit, pages argsInit maps
    VsyscallPage,
    Ops,        \* what the workload does, see below
    Args,       \* pages that system calls name
    Lengths,    \* lengths, in pages, that system calls name
    FilePages,  \* pages a mapped file holds behind the mapped offset
    BrkArgs,    \* break addresses that brk names
    MmapFloor,  \* cap on how far down the mmap region grows
    MaxAreas,   \* cap on the areas a space has when it makes a call
    NvmBound    \* cap on pageNVMPtr, which the code never bounds

VPage == 0 .. VPages - 1
Unmapped == -1

\* The pages initState writes: image, initial stack, vsyscall page.
StackPages == (StackBase - StackInit) .. (StackBase - 1)
InitPages == ImagePages \cup StackPages \cup {VsyscallPage}

ASSUME SpacesAssumption ==
    /\ VPages \in Nat /\ NvmBound \in Nat /\ MaxAreas \in Nat
    /\ MmapFloor \in VPage \ {0} /\ Root \subseteq Space
    /\ InitPages \subseteq VPage
    /\ Args \subseteq Nat /\ Lengths \subseteq Nat \ {0}

\* No memory above the NVM, as on the boards of configs/: two memories of
\* 512MB, and the NVM range ends at 0x50000000.
ASSUME BoardAssumption == TotalPages <= NvmEnd

VARIABLES
    pagePtr, pageNVMPtr, \* System: next free frame of each memory
    pTable,     \* EmulationPageTable of each space
    mem,        \* MemState of each space
    live,       \* spaces whose process has been initialised
    ckpt,       \* the checkpoint on disk
    restored,   \* whether this simulation started from a checkpoint
    sim         \* "running", or how the simulation ended

vars == <<pagePtr, pageNVMPtr, pTable, mem, live, ckpt, restored, sim>>

Ended == {"segfault", "outOfMemory", "vmaPanic", "mapPanic", "filePanic", "assert"}

NoMappings == [v \in VPage |-> Unmapped]

\* The MemState of a process after its constructor and initState.  Its users
\* are the processes that hold it: "configured" for a process of the
\* configuration script, "one" for one that clone or execve made, "shared" once
\* clone has made another with CLONE_VM.
FreshMem(users) ==
    [users |-> users, brk |-> BrkStart * PageBytes, endBrk |-> BrkStart,
     stackMin |-> StackBase - StackInit, mmapEnd |-> MmapTop,
     vmas |-> <<Anonymous(StackBase - StackInit, StackBase),
                Anonymous(VsyscallPage, VsyscallPage + 1)>>]

Init ==
    /\ pagePtr = 0 /\ pageNVMPtr = 0
    /\ pTable = [sp \in Space |-> NoMappings]
    /\ mem = [sp \in Space |-> FreshMem("configured")]
    /\ live = {}
    /\ ckpt = [taken |-> FALSE, pagePtr |-> 0,
               pTable |-> [sp \in Space |-> NoMappings],
               mem |-> [sp \in Space |-> FreshMem("configured")]]
    /\ restored = FALSE
    /\ sim = "running"

\* The configured processes are initialised before the first event runs.
Started == sim = "running" /\ Root \subseteq live

End(how) ==
    /\ sim' = how
    /\ UNCHANGED <<pagePtr, pageNVMPtr, pTable, mem, live, ckpt, restored>>

-----------------------------------------------------------------------------
(***************************************************************************)
(* Allocation of one frame per page (allocateMem and replicatePage called   *)
(* in a loop).  A placement gives each page a frame of the memory its      *)
(* virtual address selects.                                                *)
(***************************************************************************)
VolatileCount(pages) == Cardinality({v \in pages : ~InNvm(v)})
NvmCount(pages) == Cardinality({v \in pages : InNvm(v)})

VolatilePtr(pages, ptr) == VolatileEnd(ptr, VolatileCount(pages))

\* Mutant: allocNVMPhysPages without its `pageNVMPtr += npages'.
NvmPtrStale(pages, ptr) == ptr

NvmPtr(pages, ptr) == ptr + NvmCount(pages)

FrameChoices(pages, ptr, nvmPtr, v) ==
    IF InNvm(v) THEN NvmRun(nvmPtr, NvmCount(pages))
                ELSE VolatileRun(ptr, VolatileCount(pages))

Placements(pages, ptr, nvmPtr) ==
    {g \in [pages -> NvmRun(nvmPtr, NvmCount(pages))
                     \cup VolatileRun(ptr, VolatileCount(pages))] :
        /\ \A v \in pages : g[v] \in FrameChoices(pages, ptr, nvmPtr, v)
        /\ \A v, w \in pages : g[v] = g[w] => v = w}

\* The order in which initState touches its pages: the image from its first page
\* on, the stack in an order that depends on the arguments, the vsyscall page.
LoadedBefore(v, w) ==
    \/ v \in ImagePages /\ (w \in ImagePages => v < w)
    \/ v \in StackPages \ ImagePages /\ w = VsyscallPage /\ w \notin ImagePages

InLoadOrder(g) == \A v, w \in DOMAIN g :
    v # w /\ LoadedBefore(v, w) /\ InNvm(v) = InNvm(w) => g[v] < g[w]

\* The order in which the stack grows.
Descending(g) == \A v, w \in DOMAIN g :
    v < w /\ InNvm(v) = InNvm(w) => g[v] > g[w]

WithPages(table, g) ==
    [v \in VPage |-> IF v \in DOMAIN g THEN g[v] ELSE table[v]]

Exhausted(pages, ptr) ==
    VolatileCount(pages) > 0 /\ OutOfMemory(VolatilePtr(pages, ptr))

NvmBounded(n) == pageNVMPtr + n <= NvmBound

\* Process::initState for a new page table of space sp.
LoadImage(sp, users) ==
    /\ NvmBounded(NvmCount(InitPages))
    /\ \/ Exhausted(InitPages, pagePtr) /\ End("outOfMemory")
       \/ /\ ~Exhausted(InitPages, pagePtr)
          /\ \E g \in Placements(InitPages, pagePtr, pageNVMPtr) :
                InLoadOrder(g) /\ pTable' = [pTable EXCEPT ![sp] = WithPages(NoMappings, g)]
          /\ pagePtr' = VolatilePtr(InitPages, pagePtr)
          /\ pageNVMPtr' = NvmPtr(InitPages, pageNVMPtr)
          /\ mem' = [mem EXCEPT ![sp] = FreshMem(users)]
          /\ live' = live \cup {sp}
          /\ UNCHANGED <<ckpt, restored, sim>>

InitState(sp) == sim = "running" /\ sp \in Root \ live /\ LoadImage(sp, "configured")

-----------------------------------------------------------------------------
(***************************************************************************)
(* MemState: the areas of a space and the faults they allow.               *)
(***************************************************************************)

\* Mutant: only the first page of the range is looked up.
HasVmaAtStart(vmas, s, e) == \E i \in DOMAIN vmas : contains(vmas[i], s)

HasVma(vmas, s, e) == \E i \in DOMAIN vmas : intersects(vmas[i], s, e)
HasPage(table, s, e) == \E v \in VPage : s <= v /\ v < e /\ table[v] # Unmapped

\* MemState::isUnmapped: no if an area intersects the range, a panic if a page
\* is mapped there without an area, yes otherwise.
isUnmapped(vmas, table, s, e) ==
    IF HasVma(vmas, s, e) THEN "no"
    ELSE IF HasPage(table, s, e) THEN "panic" ELSE "yes"

\* Mutant: unmapRegion without its page table pass.
KeepPages(table, s, e) == table

WithoutPages(table, s, e) ==
    [v \in VPage |-> IF s <= v /\ v < e THEN Unmapped ELSE table[v]]

\* allocateMem, one page at a time from the highest, and a new MemState m.
Populate(sp, pages, m) ==
    /\ NvmBounded(NvmCount(pages))
    /\ \/ Exhausted(pages, pagePtr) /\ End("outOfMemory")
       \/ /\ ~Exhausted(pages, pagePtr)
          /\ \E g \in Placements(pages, pagePtr, pageNVMPtr) :
                Descending(g) /\ pTable' = [pTable EXCEPT ![sp] = WithPages(@, g)]
          /\ pagePtr' = VolatilePtr(pages, pagePtr)
          /\ pageNVMPtr' = NvmPtr(pages, pageNVMPtr)
          /\ mem' = [mem EXCEPT ![sp] = m]
          /\ UNCHANGED <<live, ckpt, restored, sim>>

InArea(m, v) == \E i \in DOMAIN m.vmas : contains(m.vmas[i], v)
OnStack(m, v) == m.stackMin <= v /\ v < StackBase
BelowStack(m, v) == StackBase - MaxStack <= v /\ v < m.stackMin

\* MemState::fixupFault after a translation of an unmapped page.
Fault(sp, v) ==
    LET m == mem[sp]
        grown == {w \in VPage : v <= w /\ w < m.stackMin}
    IN  /\ Started /\ sp \in live /\ pTable[sp][v] = Unmapped
        /\ \/ (InArea(m, v) \/ OnStack(m, v)) /\ Populate(sp, {v}, m)
           \/ /\ ~InArea(m, v) /\ BelowStack(m, v)
              /\ ~HasPage(pTable[sp], v, m.stackMin)
              /\ Populate(sp, grown, [m EXCEPT !.stackMin = v])
           \/ /\ ~InArea(m, v) /\ BelowStack(m, v)
              /\ \E w \in grown :
                    /\ pTable[sp][w] # Unmapped
                    /\ ~HasPage(pTable[sp], w + 1, m.stackMin)
                    /\ End(IF Exhausted({u \in grown : u >= w}, pagePtr)
                           THEN "outOfMemory" ELSE "mapPanic")
           \/ ~InArea(m, v) /\ ~OnStack(m, v) /\ ~BelowStack(m, v) /\ End("segfault")

-----------------------------------------------------------------------------
(***************************************************************************)
(* System calls.                                                           *)
(***************************************************************************)
CanCall(op, sp) ==
    Started /\ op \in Ops /\ sp \in live /\ Len(mem[sp].vmas) <= MaxAreas

InRange(s, e) == s \in VPage \ {0} /\ e \in 1 .. VPages

Update(sp, table, m) ==
    /\ pTable' = [pTable EXCEPT ![sp] = table]
    /\ mem' = [mem EXCEPT ![sp] = m]
    /\ UNCHANGED <<pagePtr, pageNVMPtr, live, ckpt, restored, sim>>

\* Mutant: _endBrkPoint is not advanced.
GrowHeapOnly(m, new, aligned) ==
    [m EXCEPT !.brk = new, !.vmas = Append(@, Anonymous(m.endBrk, aligned))]

\* The part of updateBrkRegion that maps the heap up to page aligned.
GrowHeap(m, new, aligned) ==
    [m EXCEPT !.brk = new, !.endBrk = aligned,
              !.vmas = Append(@, Anonymous(m.endBrk, aligned))]

\* brkFunc and updateBrkRegion.
Brk(sp, new) ==
    LET m == mem[sp]
        aligned == (new + PageBytes - 1) \div PageBytes
        room == isUnmapped(m.vmas, pTable[sp], m.endBrk, aligned)
        grow == new > m.brk /\ aligned > m.endBrk
    IN  /\ CanCall("brk", sp) /\ new # 0 /\ new # m.brk
        /\ \/ ~grow /\ Update(sp, pTable[sp], [m EXCEPT !.brk = new])
           \/ grow /\ room = "panic" /\ End("vmaPanic")
           \/ grow /\ room = "yes" /\ Update(sp, pTable[sp], GrowHeap(m, new, aligned))

\* MemState::extendMmap: the highest range below _mmapEnd that no area meets.
ExtendStarts(m, n) ==
    {s \in MmapFloor .. (m.mmapEnd - n) : ~HasVma(m.vmas, s, s + n)}

NoFile == -1    \* an anonymous mapping

Area(s, n, file) ==
    IF file = NoFile THEN Anonymous(s, s + n) ELSE FileBacked(s, s + n, file)

\* mapRegion: its assertion consults isUnmapped once more, and the constructor
\* of the area panics if the file holds nothing behind the offset.
MapRegion(sp, table, m, s, n, file) ==
    LET free == isUnmapped(m.vmas, table, s, s + n)
    IN  \/ /\ free = "yes" /\ file # 0
           /\ Update(sp, table, [m EXCEPT !.vmas = Append(@, Area(s, n, file))])
        \/ free = "yes" /\ file = 0 /\ End("filePanic")
        \/ free = "no" /\ End("assert")
        \/ free = "panic" /\ End("vmaPanic")

\* mmapFunc without MAP_FIXED; hint 0 means no hint.
Mmap(sp, hint, n, file) ==
    LET m == mem[sp]
        wanted == isUnmapped(m.vmas, pTable[sp], hint, hint + n)
        Extended(s) == [m EXCEPT !.mmapEnd = s]
    IN  /\ CanCall("mmap", sp) /\ hint + n <= VPages
        /\ \/ /\ hint # 0 /\ wanted = "yes"
              /\ MapRegion(sp, pTable[sp], m, hint, n, file)
           \/ hint # 0 /\ wanted = "panic" /\ End("vmaPanic")
           \/ /\ hint = 0 \/ wanted = "no"
              /\ \E s \in ExtendStarts(m, n) :
                    /\ \A t \in ExtendStarts(m, n) : t <= s
                    /\ MapRegion(sp, pTable[sp], Extended(s), s, n, file)

\* mmapFunc with MAP_FIXED.
MmapFixed(sp, s, n, file) ==
    LET m == [mem[sp] EXCEPT !.vmas = unmapRegion(@, s, s + n)]
    IN  /\ CanCall("mmap", sp) /\ InRange(s, s + n)
        /\ MapRegion(sp, WithoutPages(pTable[sp], s, s + n), m, s, n, file)

\* munmapFunc.
Munmap(sp, s, n) ==
    /\ CanCall("munmap", sp) /\ InRange(s, s + n)
    /\ Update(sp, WithoutPages(pTable[sp], s, s + n),
              [mem[sp] EXCEPT !.vmas = unmapRegion(@, s, s + n)])

-----------------------------------------------------------------------------
(***************************************************************************)
(* mremapFunc.  The target may hold areas and pages of its own, and may     *)
(* overlap the source.                                                     *)
(***************************************************************************)
Apart(s, e, t, f) == e <= t \/ f <= s

\* The loop of remapRegion visits the pages of [s, e) upwards and moves a mapped
\* one by new - s.  An entry that lands higher up in [s, e) is met and moved
\* again, so it ends on the first page of its progression outside.
Landing(s, e, new, v) ==
    IF new <= s THEN v - (s - new)
    ELSE v + (new - s) * ((e - v + (new - s) - 1) \div (new - s))

\* The pages whose entry ends on page w.
Movers(table, s, e, new, w) ==
    {v \in s .. (e - 1) : table[v] # Unmapped /\ Landing(s, e, new, v) = w}

\* EmulationPageTable::remap for each mapped page of [s, e).
\* (CopyPages is a mutant: the old entry is not erased.)
CopyPages(table, s, e, new) ==
    [w \in VPage |->
        LET from == Movers(table, s, e, new, w)
        IN  IF from # {} THEN table[CHOOSE v \in from : TRUE] ELSE table[w]]

MovePages(table, s, e, new) ==
    [w \in VPage |->
        LET from == Movers(table, s, e, new, w)
        IN  IF from # {} THEN table[CHOOSE v \in from : TRUE]
            ELSE IF s <= w /\ w < e THEN Unmapped ELSE table[w]]

\* The assertion of remap fails: an entry meets a mapped page, one that has not
\* left when its own turn came.
Collide(table, s, e, new) ==
    \E v \in s .. (e - 1), w \in VPage :
        /\ table[v] # Unmapped /\ table[w] # Unmapped
        /\ \/ new <= s /\ w = v - (s - new) /\ ~(s <= w /\ w < v)
           \/ /\ s < new /\ v < w /\ w <= Landing(s, e, new, v)
              /\ (w - v) % (new - s) = 0

\* One allocateMem call for n pages at v: the first address selects the memory.
Allocation(v, n) ==
    IF InNvm(v) THEN allocNVMPhysPages(pageNVMPtr, n)
                ELSE allocPhysPages(pagePtr, n)

WithFrames(table, v, n, frame) ==
    WithPages(table, [w \in v .. (v + n - 1) |-> frame + (w - v)])

\* The part of a growing mremap that moves the region to target.
MoveAndGrow(sp, s, old, new, target, clobber) ==
    LET m == mem[sp]
        v == target + old
        n == new - old
        a == Allocation(v, n)
        table == WithFrames(pTable[sp], v, n, a.frame)
    IN  /\ InRange(target, target + new)
        /\ InNvm(v) => NvmBounded(n)
        /\ \/ ~InNvm(v) /\ OutOfMemory(a.ptr) /\ End("outOfMemory")
           \/ /\ InNvm(v) \/ ~OutOfMemory(a.ptr)
              /\ \/ ~clobber /\ HasPage(pTable[sp], v, v + n) /\ End("mapPanic")
                 \/ /\ clobber \/ ~HasPage(pTable[sp], v, v + n)
                    /\ \/ Collide(table, s, s + old, target) /\ End("assert")
                       \/ /\ ~Collide(table, s, s + old, target)
                          /\ pTable' = [pTable EXCEPT ![sp] =
                                            MovePages(table, s, s + old, target)]
                          /\ mem' = [mem EXCEPT
                                ![sp].vmas = remapRegion(@, s, s + old, target),
                                ![sp].mmapEnd = IF clobber THEN @ ELSE target]
                          /\ pagePtr' = IF InNvm(v) THEN pagePtr ELSE a.ptr
                          /\ pageNVMPtr' = IF InNvm(v) THEN a.ptr ELSE pageNVMPtr
                          /\ UNCHANGED <<live, ckpt, restored, sim>>

\* The in-place branch, taken when the region ends at _mmapEnd.
EndsAtMmapEnd(m, s, old) == s + old = m.mmapEnd

MremapGrow(sp, s, old, new, how, dst) ==
    LET m == mem[sp]
        inPlace == EndsAtMmapEnd(m, s, old) /\ (how = "fixed" => dst = s)
    IN  /\ CanCall("mremap", sp) /\ InRange(s, s + old) /\ old < new
        /\ \/ /\ inPlace /\ m.mmapEnd + (new - old) <= VPages
              /\ MapRegion(sp, pTable[sp], [m EXCEPT !.mmapEnd = @ + (new - old)],
                           m.mmapEnd, new - old, NoFile)
           \/ ~inPlace /\ how = "fixed" /\ MoveAndGrow(sp, s, old, new, dst, TRUE)
           \/ /\ ~inPlace /\ how = "maymove"
              /\ MoveAndGrow(sp, s, old, new, m.mmapEnd - new, FALSE)

\* The shrinking branch; dst = s when MREMAP_FIXED is not given.
MremapShrink(sp, s, old, new, dst) ==
    LET m == mem[sp]
        moves == dst # s
        table == IF moves THEN MovePages(pTable[sp], s, s + new, dst) ELSE pTable[sp]
        vmas == IF moves THEN remapRegion(m.vmas, s, s + new, dst) ELSE m.vmas
    IN  /\ CanCall("mremap", sp) /\ InRange(s, s + old) /\ 0 < new /\ new <= old
        /\ moves \/ new < old
        /\ moves => InRange(dst, dst + new)
        /\ \/ moves /\ Collide(pTable[sp], s, s + new, dst) /\ End("assert")
           \/ /\ ~(moves /\ Collide(pTable[sp], s, s + new, dst))
              /\ IF new = old THEN Update(sp, table, [m EXCEPT !.vmas = vmas])
                 ELSE Update(sp, WithoutPages(table, s + new, s + old),
                        [m EXCEPT !.vmas = unmapRegion(vmas, s + new, s + old)])

-----------------------------------------------------------------------------
(***************************************************************************)
(* cloneFunc and execveFunc.  The new process runs initState on a page     *)
(* table of its own before clone decides what becomes of it.               *)
(***************************************************************************)

\* clone without CLONE_VM: the child keeps the pages its own initState mapped
\* and gets a copy of every other page of its parent.
Fork(sp, child) ==
    LET copied == {v \in VPage \ InitPages : pTable[sp][v] # Unmapped}
        full == \/ Exhausted(InitPages, pagePtr)
                \/ Exhausted(copied, VolatilePtr(InitPages, pagePtr))
        ptr == VolatilePtr(InitPages, pagePtr)
        nvmPtr == NvmPtr(InitPages, pageNVMPtr)
    IN  /\ CanCall("fork", sp) /\ child \in Space \ (Root \cup live)
        /\ NvmBounded(NvmCount(InitPages) + NvmCount(copied))
        /\ \/ full /\ End("outOfMemory")
           \/ /\ ~full
              /\ \E g \in Placements(InitPages, pagePtr, pageNVMPtr),
                    h \in Placements(copied, ptr, nvmPtr) :
                    /\ InLoadOrder(g)
                    /\ pTable' = [pTable EXCEPT ![child] =
                                    WithPages(WithPages(NoMappings, g), h)]
              /\ pagePtr' = VolatilePtr(copied, ptr)
              /\ pageNVMPtr' = NvmPtr(copied, nvmPtr)
              /\ mem' = [mem EXCEPT ![child] = [mem[sp] EXCEPT !.users = "one"]]
              /\ live' = live \cup {child}
              /\ UNCHANGED <<ckpt, restored, sim>>

\* clone with CLONE_VM: the page table initState filled is deleted, its frames
\* stay allocated, and the new process shares the space of its creator.  With
\* CLONE_THREAD initState stops after the image.
CloneVM(sp, thread) ==
    LET pages == IF thread THEN ImagePages ELSE InitPages
    IN  /\ CanCall("thread", sp) /\ NvmBounded(NvmCount(pages))
        /\ \/ Exhausted(pages, pagePtr) /\ End("outOfMemory")
           \/ /\ ~Exhausted(pages, pagePtr)
              /\ pagePtr' = VolatilePtr(pages, pagePtr)
              /\ pageNVMPtr' = NvmPtr(pages, pageNVMPtr)
              /\ mem' = [mem EXCEPT ![sp].users = "shared"]
              /\ UNCHANGED <<pTable, live, ckpt, restored, sim>>

\* execve: a new process with its own page table takes over the thread of the
\* caller, whose process is deleted.  Others that share the old table keep it;
\* they may have exited before, and then the new space takes its place.
Execve(sp, new) ==
    /\ CanCall("exec", sp)
    /\ \/ new = sp
       \/ mem[sp].users = "shared" /\ new \in Space \ (Root \cup live)
    /\ LoadImage(new, "one")

-----------------------------------------------------------------------------
(***************************************************************************)
(* Checkpoints.  Processes made by clone or execve do not exist in a       *)
(* restarted simulation, so a checkpoint is taken while only the           *)
(* configured ones run.                                                    *)
(***************************************************************************)

\* Mutant: pagePtr is not written either, and starts again from 0.
SerializedNoPtr == [taken |-> TRUE, pagePtr |-> 0, pTable |-> pTable, mem |-> mem]

\* System::serialize, Process::serialize.
Serialized == [taken |-> TRUE, pagePtr |-> pagePtr, pTable |-> pTable, mem |-> mem]

Checkpoint ==
    /\ Started /\ "checkpoint" \in Ops
    /\ live = Root /\ \A sp \in Root : mem[sp].users = "configured"
    /\ ckpt' = Serialized
    /\ UNCHANGED <<pagePtr, pageNVMPtr, pTable, mem, live, restored, sim>>

\* MemState::unserialize: _endBrkPoint keeps the constructor's value and the
\* areas come back without their file.
RestoredMem(m) ==
    [m EXCEPT !.endBrk = BrkStart,
              !.vmas = [i \in DOMAIN @ |-> Anonymous(@[i].start, @[i].end)]]

\* A new simulation from the checkpoint: System::unserialize reads pagePtr,
\* pageNVMPtr keeps the value of System's constructor.
Restore ==
    /\ ckpt.taken
    /\ pagePtr' = ckpt.pagePtr /\ pageNVMPtr' = 0
    /\ pTable' = ckpt.pTable
    /\ mem' = [sp \in Space |-> RestoredMem(ckpt.mem[sp])]
    /\ live' = Root /\ restored' = TRUE /\ sim' = "running"
    /\ UNCHANGED ckpt

-----------------------------------------------------------------------------
Calls(sp) ==
    \/ \E b \in BrkArgs : Brk(sp, b)
    \/ \E s \in Args \cup {0}, n \in Lengths, f \in FilePages \cup {NoFile} : Mmap(sp, s, n, f)
    \/ \E s \in Args, n \in Lengths, f \in FilePages \cup {NoFile} :
            MmapFixed(sp, s, n, f)
    \/ \E s \in Args, n \in Lengths : Munmap(sp, s, n)
    \/ \E s, dst \in Args, old, new \in Lengths, how \in {"fixed", "maymove"} :
            MremapGrow(sp, s, old, new, how, dst)
    \/ \E s, dst \in Args, old, new \in Lengths : MremapShrink(sp, s, old, new, dst)
    \/ \E child \in Space : Fork(sp, child)
    \/ \E thread \in BOOLEAN : CloneVM(sp, thread)
    \/ \E new \in Space : Execve(sp, new)

Next ==
    \/ \E sp \in Space : InitState(sp) \/ Calls(sp) \/ \E v \in VPage : Fault(sp, v)
    \/ Checkpoint
    \/ Restore

Spec == Init /\ [][Next]_vars

-----------------------------------------------------------------------------
(***************************************************************************)
(* Properties.                                                             *)
(***************************************************************************)
Frame == Nat \cup {Unmapped}

\* An entry of some page table.
Entry == Space \X VPage
FrameAt(table, x) == table[x[1]][x[2]]

FrameTypeOK ==
    /\ pagePtr \in Nat /\ pageNVMPtr \in Nat
    /\ pTable \in [Space -> [VPage -> Frame]]
    /\ ckpt.pagePtr \in Nat /\ ckpt.pTable \in [Space -> [VPage -> Frame]]
    /\ restored \in BOOLEAN /\ live \subseteq Space
    /\ sim \in Ended \cup {"running"}

AreaTypeOK ==
    \A sp \in Space :
        LET m == mem[sp]
        IN  /\ m.users \in {"configured", "one", "shared"}
            /\ m.brk \in Nat /\ m.endBrk \in VPage
            /\ m.stackMin \in VPage /\ m.mmapEnd \in 1 .. VPages
            /\ \A i \in DOMAIN m.vmas :
                 LET a == m.vmas[i]
                 IN a.start \in VPage /\ a.end \in (a.start + 1) .. VPages

\* Type invariant.  Its second part contains the assertions of
\* VMA::sanityCheck: no area is empty or inverted.
TypeOK == FrameTypeOK /\ AreaTypeOK

\* Entries of a table share no frame, except NVM frames if shares holds.
Private(table, shares) ==
    \A x, y \in Entry :
        /\ FrameAt(table, x) # Unmapped
        /\ FrameAt(table, x) = FrameAt(table, y)
        /\ x # y
        => shares /\ FrameAt(table, x) >= NvmStart

\* The frames of a table were handed out before pagePtr reached ptr and
\* pageNVMPtr reached nvmPtr; any NVM frame is admitted if shares holds.
HandedOut(table, ptr, nvmPtr, shares) ==
    \A x \in Entry : FrameAt(table, x) # Unmapped =>
        \/ FrameAt(table, x) < ptr
        \/ /\ FrameAt(table, x) >= NvmStart
           /\ shares \/ FrameAt(table, x) < NvmStart + nvmPtr

\* No frame backs two virtual pages, in one process or in two, whatever the
\* mix of faults, system calls, clones and restores; the exception is an NVM
\* frame after a restore (allocPhysPages, allocNVMPhysPages, serialize).
FramesPrivate == Private(pTable, restored)

\* What makes FramesPrivate inductive: pagePtr stays below the NVM, every frame
\* in use lies below its allocator's pointer, and a checkpoint is as good as
\* the state it was taken in, the NVM frames excepted (allocPhysPages, serialize).
FrameInv ==
    /\ FrameTypeOK
    /\ pagePtr < NvmStart /\ ckpt.pagePtr < NvmStart
    /\ HandedOut(pTable, pagePtr, pageNVMPtr, restored)
    /\ HandedOut(ckpt.pTable, ckpt.pagePtr, 0, TRUE)
    /\ Private(pTable, restored) /\ Private(ckpt.pTable, TRUE)

\* A virtual page has an NVM frame if and only if its address is in the NVM
\* range: the purpose of the allocateMem and replicatePage patches.  It is
\* claimed for workloads without mremap, which moves pages between the spaces.
SpacesSeparated ==
    "mremap" \notin Ops =>
        \A x \in Entry : FrameAt(pTable, x) # Unmapped =>
            (x[2] \in NvmStart .. NvmEnd <=> FrameAt(pTable, x) >= NvmStart)

\* Areas of one space never overlap, whatever is mapped, unmapped and mapped
\* again around them (mapRegion, unmapRegion, updateBrkRegion).  It is checked
\* for workloads without mremap; remapRegion does not look at its target and
\* breaks it.
AreasDisjoint ==
    \A sp \in Space : \A i, j \in DOMAIN mem[sp].vmas :
        i # j => Apart(mem[sp].vmas[i].start, mem[sp].vmas[i].end,
                       mem[sp].vmas[j].start, mem[sp].vmas[j].end)

\* Every page with a frame was written by initState, lies in an area or on
\* the stack: away from image and stack, isUnmapped can not panic.
PagesHaveArea ==
    \A x \in Entry : FrameAt(pTable, x) # Unmapped =>
        x[2] \in InitPages \/ InArea(mem[x[1]], x[2]) \/ OnStack(mem[x[1]], x[2])

\* The break never lies beyond _endBrkPoint, in spite of byte addresses, refused
\* growth and a heap that shrinks and grows again: updateBrkRegion compares the
\* next break with _endBrkPoint alone to decide whether the heap must be mapped.
BreakWithinHeap ==
    \A sp \in live : mem[sp].brk <= mem[sp].endBrk * PageBytes

-----------------------------------------------------------------------------
(***************************************************************************)
(* Frame allocation implements FreshFrames.                                *)
(***************************************************************************)
UsedUpTo(ptr, nvmPtr) == (0 .. (ptr - 1)) \cup NvmRun(0, nvmPtr)
UsedFrames == UsedUpTo(pagePtr, pageNVMPtr)

Abstract == INSTANCE FreshFrames WITH
    Spaces <- Space, Pages <- VPage, NoFrame <- Unmapped,
    used <- UsedFrames, owner <- pTable

\* Without a restore, no event ever maps a frame that was handed out before
\* and is not mapped now: fixupFault may take new pages to be zero-filled.
ImplementsFreshFrames == Abstract!Behaviour
=============================================================================
