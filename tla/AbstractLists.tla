--------------------------- MODULE AbstractLists ---------------------------
(***************************************************************************)
(* What the contracts of the formal doubly linked lists promise, for a set *)
(* of lists that share nothing.  A list is a sequence of items; an item is *)
(* a cursor with its element, so that the sequence is at once the Model of *)
(* the list (its elements) and its Positions (where each cursor is).  An   *)
(* action relates the lists before and after a call, as a postcondition    *)
(* does with 'Old.                                                         *)
(***************************************************************************)
EXTENDS Integers, Sequences, FiniteSets

CONSTANTS
  Lists,      \* the lists of the program
  Capacity,   \* Capacity of each of them
  Elements    \* Element_Type, which are integers

VARIABLES
  items,      \* the sequence of items of each list
  Position,   \* the cursor that the last call returned, 0 if none
  call        \* the last call: its name, its lists and its other arguments

vars == <<items, Position, call>>

(* Positions maps cursors to different places, and there is room for all.  *)
IsList(s, capacity) ==
  /\ Len(s) <= capacity
  /\ \A i \in DOMAIN s : /\ s[i].cursor \in 1..capacity
                         /\ s[i].element \in Elements
  /\ Cardinality({s[i].cursor : i \in DOMAIN s}) = Len(s)

Model(s) == [i \in DOMAIN s |-> s[i].element]

(* P.Get (Positions (s), c); for No_Element, the place after the last item.*)
Place(s, c) == IF c = 0 THEN Len(s) + 1
               ELSE CHOOSE i \in DOMAIN s : s[i].cursor = c

Slice(r, p, n) == SubSeq(r, p, p + n - 1)

Removed(s, p, n) == SubSeq(s, 1, p - 1) \o SubSeq(s, p + n, Len(s))

(* r is s with n items put in at place p; all others keep their cursors    *)
(* and their order.                                                        *)
Added(s, r, p, n) == Len(r) = Len(s) + n /\ Removed(r, p, n) = s

AtMost(n, bound) == IF n < bound THEN n ELSE bound

Occurrences(s, places, e) == Cardinality({i \in places : s[i].element = e})

(* M_Elements_Included in both directions, and as often: the order of the  *)
(* elements is not specified.                                              *)
SameElements(s, r) ==
  \A e \in Elements : Occurrences(s, DOMAIN s, e) = Occurrences(r, DOMAIN r, e)

Init ==
  /\ items = [l \in Lists |-> <<>>]
  /\ Position = 0
  /\ call = <<>>

-----------------------------------------------------------------------------
(* Calls with one list: s becomes r.                                       *)

(* Equal elements with new cursors, the first of which is returned; with   *)
(* no element at all, the cursor before is.                                *)
Insert(s, r, before, e, n) ==
  LET p == Place(s, before) IN
  /\ Added(s, r, p, n)
  /\ \A i \in p..(p + n - 1) : r[i].element = e
  /\ Position' = IF p \in DOMAIN r THEN r[p].cursor ELSE 0

Prepend(s, r, e, n) ==
  Insert(s, r, IF s = <<>> THEN 0 ELSE s[1].cursor, e, n)

Delete(s, r, position, n) ==
  LET p == Place(s, position) IN r = Removed(s, p, AtMost(n, Len(s) - p + 1))

Delete_First(s, r, n) == r = Removed(s, 1, AtMost(n, Len(s)))

Delete_Last(s, r, n) == r = SubSeq(s, 1, Len(s) - AtMost(n, Len(s)))

(* The cursors keep their places.                                          *)
Replace_Element(s, r, position, e) ==
  r = [s EXCEPT ![Place(s, position)].element = e]

Swap(s, r, i, j) ==
  r = [s EXCEPT ![Place(s, i)].element = s[Place(s, j)].element,
                ![Place(s, j)].element = s[Place(s, i)].element]

(* The cursors go with their elements.                                     *)
Swap_Links(s, r, i, j) ==
  r = [s EXCEPT ![Place(s, i)] = s[Place(s, j)],
                ![Place(s, j)] = s[Place(s, i)]]

SpliceWithin(s, r, before, position) ==
  LET p    == Place(s, position)
      rest == Removed(s, p, 1)
      q    == Place(rest, before) IN
  IF before = position THEN r = s ELSE Added(rest, r, q, 1) /\ r[q] = s[p]

Reverse_Elements(s, r) == r = [i \in DOMAIN s |-> s[Len(s) + 1 - i]]

(* The sort is stable: equal elements keep their order.                    *)
Sort(s, r) ==
  \E f \in [DOMAIN s -> DOMAIN s] :
     /\ r = [i \in DOMAIN s |-> s[f[i]]]
     /\ \A i, j \in DOMAIN s :
           i < j => /\ f[i] # f[j]
                    /\ r[i].element <= r[j].element
                    /\ (r[i].element = r[j].element => f[i] < f[j])

OneList(s, r, op, arg) ==
  \/ op = "Insert" /\ Insert(s, r, arg[1], arg[2], arg[3])
  \/ op = "Prepend" /\ Prepend(s, r, arg[1], arg[2])
  \/ /\ Position' = 0
     /\ \/ op = "Delete" /\ Delete(s, r, arg[1], arg[2])
        \/ op = "Delete_First" /\ Delete_First(s, r, arg[1])
        \/ op = "Delete_Last" /\ Delete_Last(s, r, arg[1])
        \/ op = "Clear" /\ r = <<>>
        \/ op = "Replace_Element" /\ Replace_Element(s, r, arg[1], arg[2])
        \/ op = "Swap" /\ Swap(s, r, arg[1], arg[2])
        \/ op = "Swap_Links" /\ Swap_Links(s, r, arg[1], arg[2])
        \/ op = "SpliceWithin" /\ SpliceWithin(s, r, arg[1], arg[2])
        \/ op = "Reverse_Elements" /\ Reverse_Elements(s, r)
        \/ op = "Sort" /\ Sort(s, r)

-----------------------------------------------------------------------------
(* Calls with a target and a source: t becomes u, and s becomes r.         *)

Assign(t, u, s, r) == Model(u) = Model(s) /\ r = s

(* Copy keeps the cursors of the source; it is assigned to the target.     *)
Copy(t, u, s, r) == u = s /\ r = s

Move(t, u, s, r) == Model(u) = Model(s) /\ r = <<>>

(* Splice of one element: the cursor returned designates it in the target. *)
SpliceOne(t, u, s, r, before, position) ==
  LET p == Place(t, before) IN
  /\ Added(t, u, p, 1)
  /\ r = Removed(s, Place(s, position), 1)
  /\ u[p].element = s[Place(s, position)].element
  /\ Position' = u[p].cursor

SpliceAll(t, u, s, r, before) ==
  LET p == Place(t, before) IN
  /\ Added(t, u, p, Len(s))
  /\ SameElements(Slice(u, p, Len(s)), s)
  /\ r = <<>>

(* Merge, without the clause on sorted lists, which is stated apart: the   *)
(* items of the target stay, in their order, and those at the other places *)
(* have the elements of the source.                                        *)
Merge(t, u, s, r) ==
  /\ \E f \in [DOMAIN t -> DOMAIN u] :
        /\ \A i, j \in DOMAIN t : i < j => f[i] < f[j]
        /\ \A i \in DOMAIN t : u[f[i]] = t[i]
        /\ LET new == DOMAIN u \ {f[i] : i \in DOMAIN t} IN
           \A e \in Elements :
              Occurrences(u, new, e) = Occurrences(s, DOMAIN s, e)
  /\ r = <<>>

TwoLists(t, u, s, r, op, arg) ==
  \/ op = "SpliceOne" /\ SpliceOne(t, u, s, r, arg[1], arg[2])
  \/ /\ Position' = 0
     /\ \/ op = "Assign" /\ Assign(t, u, s, r)
        \/ op = "Copy" /\ Copy(t, u, s, r)
        \/ op = "Move" /\ Move(t, u, s, r)
        \/ op = "SpliceAll" /\ SpliceAll(t, u, s, r, arg[1])
        \/ op = "Merge" /\ Merge(t, u, s, r)

-----------------------------------------------------------------------------
(* A call leaves the lists that it does not name alone.                    *)
Next ==
  LET t == call'.target
      s == call'.source
      before == items
      after  == items' IN
  /\ \A l \in Lists : IsList(after[l], Capacity[l])
  /\ \A l \in Lists \ {t, s} : after[l] = before[l]
  /\ IF t = s THEN OneList(before[t], after[t], call'.op, call'.args)
     ELSE TwoLists(before[t], after[t], before[s], after[s],
                   call'.op, call'.args)

Spec == Init /\ [][Next]_vars
=============================================================================
