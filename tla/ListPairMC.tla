----------------------------- MODULE ListPairMC -----------------------------
(***************************************************************************)
(* Instances of ListPair for TLC: a large and a small list, so that Assign *)
(* and Move may find no room, and Copy has nodes to add.                   *)
(***************************************************************************)
EXTENDS ListPair

CONSTANTS Large, Small, LargeCapacity, SmallCapacity

MCCapacity == [l \in {Large, Small} |->
                 IF l = Large THEN LargeCapacity ELSE SmallCapacity]

(* No operation reads Position, call or the element of a free node: states *)
(* that differ in nothing else have the same successors up to these.       *)
Relevant ==
  [l \in Lists |->
     LET L == list[l] IN
     <<L.Free, L.Length, L.First, L.Last, L.Prev, L.Next,
       [n \in Cursors(L) |-> L.Element[n]]>>]
=============================================================================
