--------------------------- MODULE MCMemorySpaces ---------------------------
(***************************************************************************)
(* Small boards and programs for MemorySpaces.  The board has the shape of *)
(* configs/NVM/conf.py: volatile memory from address 0, a hole, the NVM at *)
(* NVM_START_ADDR, and NVM_END_ADDR one past the last NVM page.  The       *)
(* program has the shape link.ld gives it: the .NVM section is its highest *)
(* one, so the heap starts in the NVM range.                               *)
(***************************************************************************)
EXTENDS MemorySpaces

CONSTANTS p1, p2

BoardStart == 7
BoardEnd == 9
BoardMemory == (0 .. 4) \cup (7 .. 8)
M5Range == {40, 41}

Image == {1, 7}

\* A larger volatile memory, with the program moved up accordingly.
WideStart == 10
WideEnd == 12
WideMemory == (0 .. 7) \cup (10 .. 11)
WideImage == {1, 10}

-----------------------------------------------------------------------------
(***************************************************************************)
(* Statements of the documentation and of comments that the code does not  *)
(* keep; each is the single property of a run that TLC refutes.            *)
(***************************************************************************)

\* "Each request with a virtual address in the range of the NVM address space
\* is translated to a physical address of the NVM" (HOWTO-NVM.md, 3.7):
\* allocNVMPhysPages has no limit.
NvmFramesBacked ==
    \A x \in Entry :
        FrameAt(pTable, x) >= NvmStart => FrameAt(pTable, x) \in MemPages

\* "No virtual address outside the NVM address space can be translated to a
\* physical address in the NVM space" (HOWTO-NVM.md, 4.2.2): mremap moves entries.
NoVolatileAddressInNvm ==
    \A x \in Entry : ~InNvm(x[2]) => FrameAt(pTable, x) < NvmStart

\* allocNVMPhysPages hands out unused pages (sim/system.hh), across a restore
\* as well: pageNVMPtr is not part of the checkpoint.
FramesPrivateAfterRestore ==
    \A x, y \in Entry :
        x # y /\ FrameAt(pTable, x) = FrameAt(pTable, y) => FrameAt(pTable, x) = Unmapped

\* "Someone allocated physical memory at VA without creating a VMA!" never
\* happens (isUnmapped): mremap allocates the added pages without an area.
NoVmaPanic == sim # "vmaPanic"
=============================================================================
