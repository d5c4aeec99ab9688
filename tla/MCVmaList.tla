------------------------------ MODULE MCVmaList ------------------------------
(***************************************************************************)
(* The list surgery of unmapRegion and remapRegion against the meaning of  *)
(* a list of areas: for each page, whether it is reserved and which page   *)
(* of the mapped file a fault copies into it.  The list is what the code   *)
(* keeps; `view' is what the program asked for.  remapRegion does not look  *)
(* at the areas of its target: once a page has moved onto a page that is    *)
(* reserved, `overlaid' holds and no view describes the list.               *)
(***************************************************************************)
EXTENDS VmaList, FiniteSets

CONSTANTS Top,          \* pages are 0 .. Top - 1
          MaxCalls      \* bound on the length of a history

VARIABLES list, view, calls,
          overlaid      \* whether a move has landed on a reserved page

listVars == <<list, view, calls, overlaid>>

Page == 0 .. Top - 1
None == -2      \* a page no area reserves; -1 is a zero-filled page

\* What a fault on page p would find, from the first area that contains p.
Found(p) ==
    LET hits == {i \in DOMAIN list : contains(list[i], p)}
    IN  IF hits = {} THEN None
        ELSE FilePage(list[CHOOSE i \in hits : \A j \in hits : i <= j], p)

ListInit == list = <<>> /\ view = [p \in Page |-> None] /\ calls = 0 /\ overlaid = FALSE

Call == calls < MaxCalls /\ calls' = calls + 1

\* mapRegion, which asserts isUnmapped, with a file of `pages' pages; 0 stands
\* for an anonymous area.
MapFree(s, e, pages) ==
    /\ Call /\ \A p \in s .. (e - 1) : Found(p) = None
    /\ list' = Append(list, FileBacked(s, e, pages))
    /\ view' = [p \in Page |->
                  IF s <= p /\ p < e THEN IF p - s < pages THEN p - s ELSE -1
                  ELSE view[p]]
    /\ UNCHANGED overlaid

Unmap(s, e) ==
    /\ Call
    /\ list' = unmapRegion(list, s, e)
    /\ view' = [p \in Page |-> IF s <= p /\ p < e THEN None ELSE view[p]]
    /\ UNCHANGED overlaid

\* remapRegion, to any target.  What the program gets at a page of the target
\* is what moves there.
Move(s, e, new) ==
    LET Leaves(p) == s <= p /\ p < e
        Arrives(p) == new <= p /\ p < new + (e - s) /\ view[p - new + s] # None
    IN  /\ Call /\ new + (e - s) <= Top
        /\ list' = remapRegion(list, s, e, new)
        /\ view' = [p \in Page |-> IF Arrives(p) THEN view[p - new + s]
                                  ELSE IF Leaves(p) THEN None ELSE view[p]]
        /\ overlaid' = (overlaid \/ \E p \in Page :
                            Arrives(p) /\ ~Leaves(p) /\ view[p] # None)

Ranges == {r \in Page \X (1 .. Top) : r[1] < r[2]}

ListNext ==
    \/ \E r \in Ranges, pages \in 0 .. 3 : MapFree(r[1], r[2], pages)
    \/ \E r \in Ranges : Unmap(r[1], r[2])
    \/ \E r \in Ranges, new \in Page : Move(r[1], r[2], new)

ListSpec == ListInit /\ [][ListNext]_listVars

-----------------------------------------------------------------------------
\* After any history of map, unmap and remap calls in which no page moved onto
\* a reserved one, the list reserves exactly the pages the calls reserve, and a
\* fault fills each with the page of the file that belongs there (unmapRegion,
\* remapRegion, sliceRegionLeft and sliceRegionRight keep the host buffer in
\* step with the addresses).
ListMeansView == ~overlaid => \A p \in Page : Found(p) = view[p]

\* No call leaves an empty or inverted area, which VMA::sanityCheck asserts;
\* and as long as no page moved onto a reserved one, the pieces the calls leave
\* are disjoint: the address of a fault belongs to one area, so the order of
\* the list does not matter.
PiecesDisjoint ==
    \A i, j \in DOMAIN list :
        /\ list[i].start < list[i].end
        /\ ~overlaid /\ i # j => ~intersects(list[i], list[j].start, list[j].end)
=============================================================================
