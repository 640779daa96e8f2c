------------------------------ MODULE ListPair ------------------------------
(***************************************************************************)
(* A program that uses formal doubly linked lists through the whole of     *)
(* their interface.  Every action is a call whose precondition holds, with *)
(* a cursor that designates an element where the contract asks for one.    *)
(* The body of the package is outside SPARK: its contracts are assumed by  *)
(* the proof of every client and are proved nowhere.                       *)
(***************************************************************************)
EXTENDS FormalLists, FiniteSets

CONSTANTS
  Lists,      \* the lists of the program
  Capacity,   \* Capacity of each of them
  Elements    \* Element_Type, with the "<" of Generic_Sorting

ASSUME ListPairAssumption ==
  /\ Capacity \in [Lists -> Nat \ {0}]
  /\ Elements \subseteq Int /\ Elements # {}

VARIABLES
  list,       \* the representation of each list
  Position,   \* cursor that the last call returned, No_Element if none
  call        \* the last call: its name, its lists and its other arguments

vars == <<list, Position, call>>

Init ==
  /\ \E e \in Elements : list = [l \in Lists |-> Empty_List(Capacity[l], e)]
  /\ Position = No_Element
  /\ call = <<>>

Called(op, t, s, args) ==
  call' = [op |-> op, target |-> t, source |-> s, args |-> args]

(* The call sets l to result and returns no cursor, or an invalid one.     *)
Becomes(l, result) ==
  /\ list' = [list EXCEPT ![l] = result]
  /\ Position' = No_Element

BecomePair(t, s, result) ==
  /\ list' = [list EXCEPT ![t] = result.t, ![s] = result.s]
  /\ Position' = No_Element

Before(l) == Cursors(list[l]) \cup {No_Element}
Room(l)   == list[l].Capacity - list[l].Length

Insert_(l) ==
  \E before \in Before(l), e \in Elements, count \in 0..Room(l) :
     /\ list' = [list EXCEPT ![l] = Insert(@, before, e, count)]
     /\ Position' = Inserted(list[l], before, e, count)
     /\ Called("Insert", l, l, <<before, e, count>>)

Prepend_(l) ==
  \E e \in Elements, count \in 1..Room(l) :
     /\ list' = [list EXCEPT ![l] = Insert(@, @.First, e, count)]
     /\ Position' = Inserted(list[l], list[l].First, e, count)
     /\ Called("Prepend", l, l, <<e, count>>)

Delete_(l) ==
  \E position \in Cursors(list[l]), count \in 0..list[l].Length :
     /\ Becomes(l, Delete(list[l], position, count))
     /\ Called("Delete", l, l, <<position, count>>)

Delete_First_(l) ==
  \E count \in 1..list[l].Length :
     /\ Becomes(l, Delete_First(list[l], count))
     /\ Called("Delete_First", l, l, <<count>>)

Delete_Last_(l) ==
  \E count \in 1..list[l].Length :
     /\ Becomes(l, Delete_Last(list[l], count))
     /\ Called("Delete_Last", l, l, <<count>>)

Clear_(l) ==
  /\ list[l].Length > 0
  /\ Becomes(l, Clear(list[l]))
  /\ Called("Clear", l, l, <<>>)

Replace_Element_(l) ==
  \E position \in Cursors(list[l]), e \in Elements :
     /\ Becomes(l, Replace_Element(list[l], position, e))
     /\ Called("Replace_Element", l, l, <<position, e>>)

Swap_(l) ==
  \E i, j \in Cursors(list[l]) :
     /\ Becomes(l, Swap(list[l], i, j))
     /\ Called("Swap", l, l, <<i, j>>)

SwapLinks_(l) ==
  \E i, j \in Cursors(list[l]) :
     /\ Becomes(l, Swap_Links(list[l], i, j))
     /\ Called("Swap_Links", l, l, <<i, j>>)

SpliceWithin_(l) ==
  \E before \in Before(l), position \in Cursors(list[l]) :
     /\ Becomes(l, SpliceWithin(list[l], before, position))
     /\ Called("SpliceWithin", l, l, <<before, position>>)

Reverse_(l) ==
  /\ list[l].Length > 0
  /\ Becomes(l, Reverse_Elements(list[l]))
  /\ Called("Reverse_Elements", l, l, <<>>)

Sort_(l) ==
  /\ list[l].Length > 1
  /\ Becomes(l, Sort(list[l]))
  /\ Called("Sort", l, l, <<>>)

Assign_(t, s) ==
  /\ list[s].Length <= list[t].Capacity
  /\ Becomes(t, Assign(list[t], list[s]))
  /\ Called("Assign", t, s, <<>>)

Copy_(t, s) ==
  /\ list[t].Capacity >= list[s].Capacity
  /\ Becomes(t, Copy(list[s], list[t].Capacity))
  /\ Called("Copy", t, s, <<>>)

Move_(t, s) ==
  /\ list[s].Length <= list[t].Capacity
  /\ BecomePair(t, s, Move(list[t], list[s]))
  /\ Called("Move", t, s, <<>>)

SpliceOne_(t, s) ==
  /\ Room(t) > 0
  /\ \E before \in Before(t), position \in Cursors(list[s]) :
        LET r == SpliceOne(list[t], before, list[s], position) IN
        /\ list' = [list EXCEPT ![t] = r.t, ![s] = r.s]
        /\ Position' = Inserted(list[t], before, list[s].Element[position], 1)
        /\ Called("SpliceOne", t, s, <<before, position>>)

SpliceAll_(t, s) ==
  /\ list[s].Length <= Room(t)
  /\ \E before \in Before(t) :
        /\ BecomePair(t, s, SpliceAll(list[t], before, list[s]))
        /\ Called("SpliceAll", t, s, <<before>>)

Merge_(t, s) ==
  /\ list[s].Length <= Room(t)
  /\ BecomePair(t, s, Merge(list[t], list[s]))
  /\ Called("Merge", t, s, <<>>)

OneList(l) ==
  \/ Insert_(l) \/ Prepend_(l) \/ Delete_(l) \/ Delete_First_(l)
  \/ Delete_Last_(l) \/ Clear_(l) \/ Replace_Element_(l) \/ Swap_(l)
  \/ SwapLinks_(l) \/ SpliceWithin_(l) \/ Reverse_(l)
  \/ Sort_(l)

TwoLists(t, s) ==
  \/ Assign_(t, s) \/ Copy_(t, s) \/ Move_(t, s) \/ SpliceOne_(t, s)
  \/ SpliceAll_(t, s) \/ Merge_(t, s)

Next ==
  \/ \E l \in Lists : OneList(l)
  \/ \E t, s \in Lists : t # s /\ TwoLists(t, s)

Spec == Init /\ [][Next]_vars

-----------------------------------------------------------------------------
(* Walks over links that may be broken: they end at a number that is not a *)
(* node, and never take more steps than there are nodes.                   *)
NodesFrom(L, start, steps) ==
  LET node[k \in 1..steps] ==
        IF k = 1 THEN start
        ELSE IF node[k - 1] \in Nodes(L) THEN L.Next[node[k - 1]] ELSE 0
  IN  node

Chain(L) == NodesFrom(L, L.First, L.Length)

(* The inactive nodes, in the order in which Allocate will take them.      *)
FreeChain(L) ==
  IF L.Free >= 0 THEN NodesFrom(L, L.Free, L.Capacity - L.Length)
  ELSE [k \in 1..(L.Capacity - L.Length) |-> k - L.Free - 1]

NodesIn(walk) == {walk[k] : k \in DOMAIN walk}

TypeOK ==
  /\ Position \in Nat
  /\ \A l \in Lists :
        LET L == list[l] IN
        /\ L.Capacity = Capacity[l]
        /\ L.Free \in -(L.Capacity + 1)..L.Capacity
        /\ L.Length \in 0..L.Capacity
        /\ L.First \in 0..L.Capacity /\ L.Last \in 0..L.Capacity
        /\ L.Prev \in [1..L.Capacity -> -1..L.Capacity]
        /\ L.Next \in [1..L.Capacity -> 0..L.Capacity]
        /\ L.Element \in [1..L.Capacity -> Elements]

(* The links of an active list: First leads to Last over Length different  *)
(* nodes, and Prev is the way back.                                        *)
WellLinked ==
  \A l \in Lists :
     LET L == list[l]
         n == L.Length
         c == Chain(L) IN
     /\ Cardinality(NodesIn(c)) = n
     /\ NodesIn(c) = Cursors(L)
     /\ IF n = 0 THEN L.First = 0 /\ L.Last = 0
        ELSE c[n] = L.Last /\ L.Next[L.Last] = 0 /\ L.Prev[L.First] = 0
     /\ \A k \in 2..n : L.Prev[c[k]] = c[k - 1]

(* Every node is either active or on the free store, once, and the chain   *)
(* of free nodes ends where it should: no node is leaked by any sequence   *)
(* of calls, or handed out twice.                                          *)
NoNodeLost ==
  \A l \in Lists :
     LET L == list[l]
         f == FreeChain(L) IN
     /\ NodesIn(f) = Nodes(L) \ Cursors(L)
     /\ Cardinality(NodesIn(f)) = L.Capacity - L.Length
     /\ L.Free >= 0 =>
          IF f = <<>> THEN L.Free = 0 ELSE L.Next[f[Len(f)]] = 0

(* What the body checks of a cursor when Container_Checks are enabled.     *)
Vet(L, p) ==
  LET N == L.Next
      P == L.Prev
      ends == {L.First, L.Last} IN
  /\ L.Length # 0 /\ L.First # 0 /\ L.Last # 0
  /\ p \in Nodes(L) /\ P[p] \in 0..L.Capacity /\ N[p] <= L.Capacity
  /\ P[L.First] = 0 /\ N[L.Last] = 0
  /\ P[p] = 0 => p = L.First
  /\ N[p] = 0 => p = L.Last
  /\ (L.Length = 1) = (L.First = L.Last)
  /\ L.Length > 1 =>
       /\ N[L.First] # 0 /\ P[N[L.First]] = L.First
       /\ P[L.Last] # 0 /\ N[P[L.Last]] = L.Last
       /\ (L.Length = 2) = (N[L.First] = L.Last)
       /\ (L.Length = 2) = (P[L.Last] = L.First)
  /\ L.Length > 2 /\ p \notin ends =>
       /\ N[p] # 0 /\ P[N[p]] = p
       /\ P[p] # 0 /\ N[P[p]] = p
       /\ L.Length = 3 => N[L.First] = p /\ P[L.Last] = p

(* The checks of the body never reject a cursor that designates an element *)
(* of the list.                                                            *)
VetAcceptsCursors ==
  \A l \in Lists : \A p \in Cursors(list[l]) : Vet(list[l], p)

-----------------------------------------------------------------------------
(* The contracts: the list from First to Last is the abstract sequence.    *)
Items(L) ==
  LET c == Chain(L) IN
  [k \in DOMAIN c |-> [cursor |-> c[k], element |-> L.Element[c[k]]]]

Contract == INSTANCE AbstractLists WITH items <- [l \in Lists |-> Items(list[l])]

(* Every call does what its contract says, to Model and to Positions.      *)
MeetsContracts == Contract!Spec

Model(L) == LET c == Chain(L) IN [k \in DOMAIN c |-> L.Element[c[k]]]
Sorted(s) == \A i, j \in DOMAIN s : i < j => s[i] <= s[j]
PositionOf(L, p) == LET c == Chain(L) IN CHOOSE k \in DOMAIN c : c[k] = p

(* Postcondition of Merge: two sorted lists give a sorted list.            *)
MergeKeepsOrder ==
  \A t, s \in Lists :
     /\ t # s /\ list[s].Length <= Room(t)
     /\ Sorted(Model(list[t])) /\ Sorted(Model(list[s]))
     => Sorted(Model(Merge(list[t], list[s]).t))

(* Contract case "others" of Splice within a list: the element that was at *)
(* Position is where Before was.                                           *)
SplicePutsBefore ==
  \A l \in Lists : \A before, position \in Cursors(list[l]) :
     before # position =>
       Model(SpliceWithin(list[l], before, position))[PositionOf(list[l], before)]
         = list[l].Element[position]
=============================================================================
