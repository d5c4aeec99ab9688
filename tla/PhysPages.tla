----------------------------- MODULE PhysPages -----------------------------
(***************************************************************************)
(* The physical page allocators of System (sim/system.cc) after the patch  *)
(* that separates the non-volatile memory from the main memory.            *)
(*                                                                         *)
(* Every address the allocators handle is page aligned, so an address is   *)
(* represented by its page number and a physical page is called a frame.   *)
(* NvmStart and NvmEnd are the page numbers of the macros NVM_START_ADDR    *)
(* and NVM_END_ADDR; the code uses the same pair for virtual and physical  *)
(* addresses, and always tests it with <= at both ends.                    *)
(***************************************************************************)
EXTENDS Integers, FiniteSets

CONSTANTS
    NvmStart,   \* page of NVM_START_ADDR
    NvmEnd,     \* page of NVM_END_ADDR
    MemPages,   \* frames backed by a memory of the board (PhysicalMemory)
    M5Pages,    \* frames of the m5ops MMIO range, empty if m5ops_base is 0
    M5Last      \* 0xffffffff >> PageShift

\* PhysicalMemory::totalSize(): the sum of the sizes of the memories.
TotalPages == Cardinality(MemPages)

\* The m5ops range of the x86 build starts at 0xffff0000, far above the size
\* of the boards in configs/, which have two memories of 512MB.
ASSUME LayoutAssumption ==
    /\ NvmStart \in Nat \ {0} /\ NvmEnd \in Nat /\ NvmStart <= NvmEnd
    /\ MemPages \subseteq Nat /\ IsFiniteSet(MemPages)
    /\ M5Last \in Nat /\ M5Pages \subseteq Nat
    /\ \A p \in M5Pages \cup {M5Last} : p > TotalPages

\* Mutant: NVM_END_ADDR tested as the exclusive end of the range.
InNvmExclusive(p) == NvmStart <= p /\ p < NvmEnd

\* The address test that allocateMem, replicatePage and allocPhysPages share.
InNvm(p) == NvmStart <= p /\ p <= NvmEnd

\* The skip loop of allocPhysPages in closed form: its last round starts at
\* the first page at or after next that lies beyond NVM_END_ADDR.
SkipNvm(next) == IF next <= NvmEnd THEN NvmEnd + 1 ELSE next

\* allocPhysPages(npages) from pagePtr = ptr: the frame it returns and the
\* value it leaves in pagePtr.  One page is reserved after a skip, whatever
\* npages is.
allocPhysPages(ptr, npages) ==
    LET next == ptr + npages
        skip == InNvm(next) \/ InNvm(ptr)
        ret  == IF skip THEN SkipNvm(next) ELSE ptr
        last == IF skip THEN ret + 1 ELSE next
    IN  IF last \in M5Pages
        THEN [frame |-> M5Last, ptr |-> M5Last]
        ELSE [frame |-> ret, ptr |-> last]

\* The test before allocPhysPages returns; it ends the simulation.
OutOfMemory(ptr) == ptr > TotalPages

\* allocNVMPhysPages(npages) from pageNVMPtr = ptr.
allocNVMPhysPages(ptr, npages) ==
    [frame |-> NvmStart + ptr, ptr |-> ptr + npages]

-----------------------------------------------------------------------------
(***************************************************************************)
(* Loops that call an allocator once for each page of a set (loading an    *)
(* image, growing the stack, copying an address space) take a run of       *)
(* frames.  The frame just below the NVM is never handed out, because the  *)
(* skip loop also tests the address that follows the request.              *)
(***************************************************************************)

\* pagePtr after k calls of allocPhysPages(1) that do not run out of memory.
VolatileEnd(ptr, k) ==
    IF k = 0 \/ ptr + k < NvmStart \/ ptr > NvmEnd
    THEN ptr + k
    ELSE NvmEnd + 1 + k - (IF ptr < NvmStart THEN NvmStart - 1 - ptr ELSE 0)

\* The frames those calls return.
VolatileRun(ptr, k) ==
    {f \in ptr .. (VolatileEnd(ptr, k) - 1) : f < NvmStart - 1 \/ f > NvmEnd}

\* The frames of k calls of allocNVMPhysPages(1).
NvmRun(ptr, k) == (NvmStart + ptr) .. (NvmStart + ptr + k - 1)
=============================================================================
