------------------------------ MODULE AllocLoop ------------------------------
(***************************************************************************)
(* System::allocPhysPages statement by statement: the skip loop the patch  *)
(* added runs round by round, over any sequence of requests that starts    *)
(* with pagePtr = 0.  PhysPages gives the same function in closed form;     *)
(* this module is where the two are compared.                              *)
(***************************************************************************)
EXTENDS PhysPages

CONSTANT MaxRequest     \* the largest npages of a request

VARIABLES
    pc,         \* "idle", "loop", or "fatal" once out of memory
    pagePtr, return_addr, npages,
    entry,      \* pagePtr when the last request arrived
    run         \* the current series of one-page requests

loopVars == <<pc, pagePtr, return_addr, npages, entry, run>>

\* The frames of a series of one-page requests that began at pagePtr = from.
Series(from, frames) == [from |-> from, frames |-> frames]

LoopInit ==
    /\ pc = "idle" /\ pagePtr = 0 /\ return_addr = 0 /\ npages = 0 /\ entry = 0
    /\ run = Series(0, {})

Request(n) ==
    /\ pc = "idle"
    /\ pc' = "loop" /\ npages' = n /\ entry' = pagePtr
    /\ return_addr' = pagePtr /\ pagePtr' = pagePtr + n
    /\ UNCHANGED run

\* Mutant: only the start of the request is tested.
InsideStartOnly == InNvm(return_addr)

\* The condition of the while loop.
Inside == InNvm(pagePtr) \/ InNvm(return_addr)

\* Mutant: the loop moves return_addr and leaves pagePtr alone.
SkipStuck ==
    /\ pc = "loop" /\ Inside
    /\ return_addr' = pagePtr
    /\ UNCHANGED <<pc, pagePtr, npages, entry, run>>

\* One round of the loop: the candidate moves one page up.
SkipRound ==
    /\ pc = "loop" /\ Inside
    /\ return_addr' = pagePtr /\ pagePtr' = pagePtr + 1
    /\ UNCHANGED <<pc, npages, entry, run>>

\* The tests after the loop.
Return ==
    LET m5 == pagePtr \in M5Pages
        ptr == IF m5 THEN M5Last ELSE pagePtr
        ret == IF m5 THEN M5Last ELSE return_addr
    IN  /\ pc = "loop" /\ ~Inside
        /\ pagePtr' = ptr /\ return_addr' = ret
        /\ pc' = IF OutOfMemory(ptr) THEN "fatal" ELSE "idle"
        /\ run' = IF npages = 1 THEN [run EXCEPT !.frames = @ \cup {ret}]
                                ELSE Series(ptr, {})
        /\ UNCHANGED <<npages, entry>>

LoopNext == SkipRound \/ Return \/ \E n \in 1 .. MaxRequest : Request(n)

\* The loop is plain sequential code: it keeps running.
LoopSpec == LoopInit /\ [][LoopNext]_loopVars /\ WF_loopVars(SkipRound \/ Return)

-----------------------------------------------------------------------------
\* Every request returns the frame, and leaves the pagePtr, of the closed form.
LoopMatchesClosedForm ==
    pc # "loop" /\ npages > 0 =>
        [frame |-> return_addr, ptr |-> pagePtr] = allocPhysPages(entry, npages)

\* A series of one-page requests, as the loops over pages of allocateMem and
\* replicatePage make it, takes exactly the run of frames PhysPages computes.
SeriesMatchesRun ==
    LET k == Cardinality(run.frames)
    IN  pc = "idle" => /\ run.frames = VolatileRun(run.from, k)
                       /\ pagePtr = VolatileEnd(run.from, k)

\* A request smaller than the NVM gets no frame of the NVM range, though the
\* loop tests only its first address and the address behind it.
RequestAvoidsNvm ==
    pc = "idle" /\ npages \in 1 .. (NvmEnd - NvmStart + 1) =>
        \A f \in return_addr .. (return_addr + npages - 1) : ~InNvm(f)

\* The skip loop ends: it walks past NVM_END_ADDR.
SkipTerminates == pc = "loop" ~> pc # "loop"
=============================================================================
