----------------------------- MODULE MCAllocLoop -----------------------------
(***************************************************************************)
(* A board with memory on both sides of the NVM, so that requests continue *)
(* behind it.                                                              *)
(***************************************************************************)
EXTENDS AllocLoop

UpperMemory == (0 .. 8) \cup (12 .. 15) \cup (16 .. 27)
M5Range == {27, 28}
=============================================================================
