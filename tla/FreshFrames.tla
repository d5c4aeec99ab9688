----------------------------- MODULE FreshFrames -----------------------------
(***************************************************************************)
(* What frame allocation promises to the rest of the simulator.  Every     *)
(* page table entry that has a frame has it for itself, and a frame that   *)
(* an entry gets is either taken over from another entry or has never been *)
(* handed out before.  fixupFault depends on it: it does not clear a page, *)
(* since "fresh pages are zero-filled" until "physical pages are recycled" *)
(* (sim/mem_state.cc).                                                     *)
(***************************************************************************)
CONSTANTS Spaces, Pages, NoFrame

VARIABLES
    used,       \* frames handed out so far
    owner       \* the frame of each page in each space

Entries == Spaces \X Pages
At(o, x) == o[x[1]][x[2]]

Held(o) == {At(o, x) : x \in Entries} \ {NoFrame}

Exclusive(o) ==
    \A x \in Entries : At(o, x) # NoFrame =>
        \A y \in Entries : At(o, x) = At(o, y) => x = y

Start == used = {} /\ owner = [sp \in Spaces |-> [v \in Pages |-> NoFrame]]

\* One simulator event: frames are added to used, entries change.
Event ==
    /\ used \subseteq used'
    /\ Held(owner') \subseteq Held(owner) \cup (used' \ used)
    /\ Exclusive(owner')

Behaviour == Start /\ [][Event]_<<used, owner>>
=============================================================================
