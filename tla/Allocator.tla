----------------------------- MODULE Allocator -----------------------------
(***************************************************************************)
(* What malloc and free promise: a region handed out lies in the heap, has *)
(* the words asked for and overlaps no region still in use; a region given *)
(* back is the one that was handed out.                                    *)
(***************************************************************************)
EXTENDS Naturals

CONSTANTS Len,         \* the words of the heap
          WordCounts   \* the sizes, in words, that clients ask for

VARIABLE regions       \* [first, last, asked] of each region in use

Words(r) == r.first .. r.last

Init == regions = {}

Region ==
  [first : 0 .. Len - 1, last : 0 .. Len - 1, asked : WordCounts]

\* The region handed out is looked for among those of the next state, where
\* it has to be: the same action as with \E r \in Region, and quicker to check.
Allocate ==
  \E r \in regions' :
    /\ r \in Region
    /\ r.last >= r.first + r.asked - 1
    /\ \A q \in regions : Words(q) \intersect Words(r) = {}
    /\ regions' = regions \union {r}

Release == \E r \in regions : regions' = regions \ {r}

Next == Allocate \/ Release

Spec == Init /\ [][Next]_regions
=============================================================================
