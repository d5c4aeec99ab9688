------------------------------ MODULE VmaList ------------------------------
(***************************************************************************)
(* Virtual memory areas (sim/vma.hh, sim/vma.cc) and the list surgery of   *)
(* MemState::unmapRegion and MemState::remapRegion (sim/mem_state.cc).     *)
(*                                                                         *)
(* An area is the half-open page interval [start, end) with its host       *)
(* buffer: the file page the buffer starts at and the number of pages it   *)
(* holds, 0 when there is no buffer (hasHostBuf() is len > 0).  Areas are   *)
(* page aligned (VMA::sanityCheck), so pages are the unit throughout.      *)
(***************************************************************************)
EXTENDS Integers, Sequences

Anonymous(s, e) == [start |-> s, end |-> e, buf |-> 0, len |-> 0]

\* A file-backed area whose file has `pages' pages from the mapped offset on:
\* MappedFileBuffer maps no more than the file holds (and panics if that is
\* nothing, see MapRegion).
FileBacked(s, e, pages) ==
    [start |-> s, end |-> e, buf |-> 0,
     len |-> IF pages < e - s THEN pages ELSE e - s]

contains(vma, p) == vma.start <= p /\ p < vma.end
intersects(vma, s, e) == vma.start < e /\ s < vma.end
isSubset(vma, s, e) == s <= vma.start /\ vma.end <= e
isStrictSuperset(vma, s, e) == vma.start < s /\ e < vma.end

\* Mutant: off by one at the new end.
SliceOnePageShort(vma, at) ==
    [vma EXCEPT !.end = at - 1,
                !.len = IF @ < at - vma.start THEN @ ELSE at - vma.start]

sliceRegionRight(vma, at) ==
    [vma EXCEPT !.end = at,
                !.len = IF @ < at - vma.start THEN @ ELSE at - vma.start]

\* Mutant: the start moves and the host buffer does not.
SliceKeepsBuffer(vma, at) ==
    IF at - vma.start >= vma.len
    THEN Anonymous(at, vma.end)
    ELSE [vma EXCEPT !.start = at]

sliceRegionLeft(vma, at) ==
    LET overlap == at - vma.start
    IN  IF overlap >= vma.len
        THEN Anonymous(at, vma.end)
        ELSE [vma EXCEPT !.start = at, !.buf = @ + overlap, !.len = @ - overlap]

remap(vma, s) == [vma EXCEPT !.start = s, !.end = s + (vma.end - vma.start)]

\* The file page fillMemPages copies into page p of the area, -1 for a page
\* that stays zero-filled.
FilePage(vma, p) ==
    IF p - vma.start < vma.len THEN vma.buf + (p - vma.start) ELSE -1

-----------------------------------------------------------------------------
\* Both loops stop at the first area that strictly contains the range.
BreakAt(list, s, e) ==
    LET supersets == {i \in DOMAIN list : isStrictSuperset(list[i], s, e)}
    IN  IF supersets = {} THEN Len(list) + 1
        ELSE CHOOSE i \in supersets : \A j \in supersets : i <= j

Nonempty(vma) == vma.start < vma.end

Empty == Anonymous(0, 0)

\* What is left of an area on each side of the range, Empty if nothing is.
LeftOf(vma, s)  == IF vma.start < s THEN sliceRegionRight(vma, s) ELSE Empty
RightOf(vma, e) == IF e < vma.end THEN sliceRegionLeft(vma, e) ELSE Empty

\* unmapRegion: erase the areas inside the range, trim those that overlap one
\* end, split one that strictly contains it (its left part goes to the back).
unmapRegion(list, s, e) ==
    LET k == BreakAt(list, s, e)
        After(i) ==
            LET vma == list[i]
            IN  IF i > k \/ ~intersects(vma, s, e) THEN vma
                ELSE IF i = k THEN sliceRegionLeft(vma, e)
                ELSE IF isSubset(vma, s, e) THEN Empty
                ELSE IF vma.start < s THEN LeftOf(vma, s)
                ELSE RightOf(vma, e)
    IN  SelectSeq([i \in DOMAIN list |-> After(i)], Nonempty)
        \o IF k <= Len(list) THEN <<sliceRegionRight(list[k], s)>> ELSE <<>>

\* remapRegion: move the part of each area inside [s, e) so that s lands on
\* new; what sticks out on either side stays, as a new area at the back.
remapRegion(list, s, e, new) ==
    LET k == BreakAt(list, s, e)
        Hit(i) == i <= k /\ intersects(list[i], s, e)
        Inside(vma) ==
            LET cut == IF vma.start < s THEN sliceRegionLeft(vma, s) ELSE vma
            IN  IF e < cut.end THEN sliceRegionRight(cut, e) ELSE cut
        Moved(vma) == remap(Inside(vma), Inside(vma).start - s + new)
        \* The leftovers of area i are pieces 2i-1 and 2i.
        Piece(j) ==
            LET i == (j + 1) \div 2
            IN  IF ~Hit(i) THEN Empty
                ELSE IF j % 2 = 1 THEN LeftOf(list[i], s) ELSE RightOf(list[i], e)
    IN  [i \in DOMAIN list |-> IF Hit(i) THEN Moved(list[i]) ELSE list[i]]
        \o SelectSeq([j \in 1 .. 2 * Len(list) |-> Piece(j)], Nonempty)
=============================================================================
