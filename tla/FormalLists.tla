---------------------------- MODULE FormalLists ----------------------------
(***************************************************************************)
(* The bounded doubly linked lists of the SPARK library, as operators on   *)
(* their representation.  A list is a record with the components of type   *)
(* List; its array Nodes is split into the functions Prev, Next and        *)
(* Element over 1 .. Capacity.  A cursor is the number of a node, and      *)
(* No_Element is 0.  A node is active when its Prev is not -1.             *)
(*                                                                         *)
(* Free is the head of the chain of inactive nodes when it is not          *)
(* negative; when it is negative, the inactive nodes are the ones from     *)
(* abs Free on, and are not chained.                                       *)
(*                                                                         *)
(* A loop that runs n times is a function over 0..n.                       *)
(***************************************************************************)
EXTENDS Integers, Sequences

No_Element == 0

Nodes(L) == DOMAIN L.Prev

(* anyElement stands for the elements, which are not initialized.          *)
Empty_List(capacity, anyElement) ==
  [Capacity |-> capacity, Free |-> -1, Length |-> 0, First |-> 0, Last |-> 0,
   Prev    |-> [n \in 1..capacity |-> -1],
   Next    |-> [n \in 1..capacity |-> 0],
   Element |-> [n \in 1..capacity |-> anyElement]]

Has_Element(L, position) ==
  position \in Nodes(L) /\ L.Prev[position] # -1

Cursors(L) == {n \in Nodes(L) : Has_Element(L, n)}

(* The node and the list that Allocate returns.                            *)
Allocate(L, e) ==
  LET n == IF L.Free >= 0 THEN L.Free ELSE -L.Free IN
  [node |-> n,
   list |-> [L EXCEPT !.Element[n] = e,
                      !.Free = IF L.Free >= 0 THEN L.Next[n] ELSE L.Free - 1]]

(* Plausible bug: the node after the last free one is not considered.      *)
FreeForgetsSuffix(L, x) ==
  IF L.Free < 0 /\ x + 1 = -L.Free
  THEN [L EXCEPT !.Prev[x] = -1, !.Next[x] = 0, !.Free = @ + 1]
  ELSE [L EXCEPT !.Prev[x] = -1, !.Next[x] = IF L.Free < 0 THEN 0 ELSE L.Free,
                 !.Free = x]

(* Plausible bug: an empty suffix is chained as if it had a node.          *)
FreeChainsNoNode(L, x) ==
  IF L.Free < 0 /\ x + 1 = -L.Free
  THEN [L EXCEPT !.Prev[x] = -1, !.Next[x] = 0, !.Free = @ + 1]
  ELSE [L EXCEPT !.Prev[x] = -1,
                 !.Next = [n \in Nodes(L) |->
                             IF n = x THEN (IF L.Free < 0 THEN -L.Free ELSE L.Free)
                             ELSE IF L.Free < 0 /\ n >= -L.Free
                             THEN (IF n = L.Capacity THEN 0 ELSE n + 1)
                             ELSE L.Next[n]],
                 !.Free = x]

(* Free chains the inactive suffix first when x is not next to it.         *)
Free(L, x) ==
  LET chained == [n \in Nodes(L) |->
                    IF n \in -L.Free..(L.Capacity - 1) THEN n + 1
                    ELSE IF n = L.Capacity /\ n >= -L.Free THEN 0
                    ELSE L.Next[n]]
      suffix  == IF -L.Free > L.Capacity THEN 0 ELSE -L.Free IN
  IF L.Free >= 0
  THEN [L EXCEPT !.Prev[x] = -1, !.Next[x] = L.Free, !.Free = x]
  ELSE IF x + 1 = -L.Free
  THEN [L EXCEPT !.Prev[x] = -1, !.Next[x] = 0, !.Free = @ + 1]
  ELSE [L EXCEPT !.Prev[x] = -1, !.Next = [chained EXCEPT ![x] = suffix],
                 !.Free = x]

(* Plausible bug: an insertion in the middle does not set Prev of before.  *)
LinkOneWay(L, before, n) ==
  IF L.Length = 0
  THEN [L EXCEPT !.First = n, !.Last = n, !.Prev[n] = 0, !.Next[n] = 0]
  ELSE IF before = 0
  THEN [L EXCEPT !.Next = [@ EXCEPT ![L.Last] = n, ![n] = 0],
                 !.Prev[n] = L.Last, !.Last = n]
  ELSE IF before = L.First
  THEN [L EXCEPT !.Prev = [@ EXCEPT ![L.First] = n, ![n] = 0],
                 !.Next[n] = L.First, !.First = n]
  ELSE [L EXCEPT !.Next = [@ EXCEPT ![n] = before, ![L.Prev[before]] = n],
                 !.Prev[n] = L.Prev[before]]

(* The links that make n the predecessor of before, or the last node.      *)
Link(L, before, n) ==
  IF L.Length = 0
  THEN [L EXCEPT !.First = n, !.Last = n, !.Prev[n] = 0, !.Next[n] = 0]
  ELSE IF before = 0
  THEN [L EXCEPT !.Next = [@ EXCEPT ![L.Last] = n, ![n] = 0],
                 !.Prev[n] = L.Last, !.Last = n]
  ELSE IF before = L.First
  THEN [L EXCEPT !.Prev = [@ EXCEPT ![L.First] = n, ![n] = 0],
                 !.Next[n] = L.First, !.First = n]
  ELSE [L EXCEPT !.Next = [@ EXCEPT ![n] = before, ![L.Prev[before]] = n],
                 !.Prev = [@ EXCEPT ![n] = L.Prev[before], ![before] = n]]

(* Plausible bug: the new first node keeps its Prev.                       *)
UnlinkKeepsPrev(L, n) ==
  IF n = L.First THEN [L EXCEPT !.First = L.Next[n]]
  ELSE IF n = L.Last
  THEN [L EXCEPT !.Last = L.Prev[n], !.Next[L.Prev[n]] = 0]
  ELSE [L EXCEPT !.Prev[L.Next[n]] = L.Prev[n], !.Next[L.Prev[n]] = L.Next[n]]

(* The links that take an active node, not the only one, out of the list.  *)
Unlink(L, n) ==
  IF n = L.First
  THEN [L EXCEPT !.First = L.Next[n], !.Prev[L.Next[n]] = 0]
  ELSE IF n = L.Last
  THEN [L EXCEPT !.Last = L.Prev[n], !.Next[L.Prev[n]] = 0]
  ELSE [L EXCEPT !.Prev[L.Next[n]] = L.Prev[n], !.Next[L.Prev[n]] = L.Next[n]]

Insert_Internal(L, before, n) == [Link(L, before, n) EXCEPT !.Length = @ + 1]

-----------------------------------------------------------------------------
(* Insertion and deletion.                                                 *)

InsertOne(L, before, e) ==
  LET a == Allocate(L, e) IN Insert_Internal(a.list, before, a.node)

Insert(L, before, e, count) ==
  LET after[i \in 0..count] ==
        IF i = 0 THEN L ELSE InsertOne(after[i - 1], before, e)
  IN  after[count]

(* Position of Insert: the first node that it allocates.                   *)
Inserted(L, before, e, count) ==
  IF count = 0 THEN before ELSE Allocate(L, e).node

Append_(L, e) == InsertOne(L, No_Element, e)

(* Take a node out of a list that has another one, and free it.            *)
Remove(L, n) == Free([Unlink(L, n) EXCEPT !.Length = @ - 1], n)

Delete_First_Loop(L, count) ==
  LET after[i \in 0..count] ==
        IF i = 0 THEN L ELSE Remove(after[i - 1], after[i - 1].First)
  IN  after[count]

Delete_Last_Loop(L, count) ==
  LET after[i \in 0..count] ==
        IF i = 0 THEN L ELSE Remove(after[i - 1], after[i - 1].Last)
  IN  after[count]

Clear(L) ==
  LET one == Delete_First_Loop(L, L.Length - 1) IN
  IF L.Length = 0 THEN L
  ELSE Free([one EXCEPT !.First = 0, !.Last = 0, !.Length = 0], one.First)

Delete_First(L, count) ==
  IF count >= L.Length THEN Clear(L) ELSE Delete_First_Loop(L, count)

Delete_Last(L, count) ==
  IF count >= L.Length THEN Clear(L) ELSE Delete_Last_Loop(L, count)

(* The loop of Delete goes to the next node, and ends after the last one.  *)
Delete(L, position, count) ==
  LET after[i \in 0..count] ==
        IF i = 0 THEN [list |-> L, at |-> position]
        ELSE LET prior == after[i - 1] IN
             IF prior.at = 0 THEN prior
             ELSE [list |-> Remove(prior.list, prior.at),
                   at   |-> prior.list.Next[prior.at]]
  IN  IF position = L.First THEN Delete_First(L, count) ELSE after[count].list

Replace_Element(L, position, e) == [L EXCEPT !.Element[position] = e]

-----------------------------------------------------------------------------
(* Moving nodes of one list.                                               *)

(* Splice with a position in the same container.                           *)
SpliceWithin(L, before, position) ==
  IF position = before \/ L.Next[position] = before THEN L
  ELSE Link(Unlink(L, position), before, position)

Swap(L, i, j) ==
  [L EXCEPT !.Element[i] = L.Element[j], !.Element[j] = L.Element[i]]

Swap_Links(L, i, j) ==
  IF i = j THEN L
  ELSE IF L.Next[i] = j THEN SpliceWithin(L, i, j)
  ELSE IF L.Next[j] = i THEN SpliceWithin(L, j, i)
  ELSE SpliceWithin(SpliceWithin(L, L.Next[i], j), L.Next[j], i)

(* The local Swap of Reverse_Elements: it exchanges the nodes l and r,     *)
(* l before r, in the links, and leaves First and Last to its caller.      *)
SwapNodes(L, l, r) ==
  LET ln == L.Next[l]
      lp == L.Prev[l]
      rn == L.Next[r]
      rp == L.Prev[r]
      next == [n \in Nodes(L) |->
                 IF n = l THEN rn
                 ELSE IF n = r THEN (IF ln = r THEN l ELSE ln)
                 ELSE IF n = lp THEN r
                 ELSE IF n = rp THEN l ELSE L.Next[n]]
      prev == [n \in Nodes(L) |->
                 IF n = r THEN lp
                 ELSE IF n = l THEN (IF ln = r THEN r ELSE rp)
                 ELSE IF n = rn THEN l
                 ELSE IF n = ln THEN r ELSE L.Prev[n]]
  IN  [L EXCEPT !.Next = next, !.Prev = prev]

(* i goes forward and j backward, and after every exchange they change     *)
(* their roles; the loop ends when they meet, which it tests twice.        *)
Reverse_Elements(L) ==
  LET Meet(M, l, r) ==   \* l has been exchanged with r: r is the left one
        LET r2 == M.Next[r] IN
        IF l = r2 THEN [list |-> M, l |-> l, r |-> r2]
        ELSE [list |-> M, l |-> r2, r |-> M.Prev[l]]
      after[k \in 0..L.Length] ==
        IF k = 0
        THEN [list |-> [L EXCEPT !.First = L.Last, !.Last = L.First],
              l |-> L.First, r |-> L.Last]
        ELSE LET p == after[k - 1] IN
             IF p.l = p.r THEN p
             ELSE Meet(SwapNodes(p.list, p.l, p.r), p.l, p.r)
  IN  IF L.Length <= 1 THEN L ELSE after[L.Length].list

-----------------------------------------------------------------------------
(* Sort, by Doubly_Linked_List_Sort of Stable_Sorting.  A part of the list *)
(* is a descriptor; parts share the links, which the sort changes.         *)

EmptyPart == [First |-> 0, Last |-> 0, Length |-> 0]

Parts(L) == [First : Nodes(L) \cup {0}, Last : Nodes(L) \cup {0},
             Length : 0..L.Capacity]
Links(L) == [Prev : [Nodes(L) -> -1..L.Capacity],
             Next : [Nodes(L) -> 0..L.Capacity]]

(* The links k without the first node of part p, and what is left of p.    *)
Detach_First(k, p) ==
  IF p.Length = 1 THEN [k |-> k, p |-> EmptyPart]
  ELSE LET second == k.Next[p.First] IN
       [k |-> [k EXCEPT !.Prev[second] = 0, !.Next[p.First] = 0],
        p |-> [p EXCEPT !.First = second, !.Length = @ - 1]]

Attach_Last(k, p, n) ==
  IF p.Length = 0
  THEN [k |-> k, p |-> [First |-> n, Last |-> n, Length |-> 1]]
  ELSE [k |-> [k EXCEPT !.Prev[n] = p.Last, !.Next[p.Last] = n],
        p |-> [p EXCEPT !.Last = n, !.Length = @ + 1]]

(* Plausible bug: of two equal elements the one of the second part goes    *)
(* first.                                                                  *)
TakeEqualFromP2(L, p1, p2) ==
  \/ p1.Length = 0
  \/ p2.Length # 0 /\ L.Element[p2.First] <= L.Element[p1.First]

Take_From_P2(L, p1, p2) ==
  \/ p1.Length = 0
  \/ p2.Length # 0 /\ L.Element[p2.First] < L.Element[p1.First]

Merge_Parts(L, k, part1, part2) ==
  LET Take(st, isP2) ==
        LET from == IF isP2 THEN st.p2 ELSE st.p1
            d == Detach_First(st.k, from)
            m == Attach_Last(d.k, st.m, from.First)
        IN  [k |-> m.k, m |-> m.p, p1 |-> IF isP2 THEN st.p1 ELSE d.p,
             p2 |-> IF isP2 THEN d.p ELSE st.p2]
      after[i \in 0..(part1.Length + part2.Length)] ==
        IF i = 0 THEN [k |-> k, m |-> EmptyPart, p1 |-> part1, p2 |-> part2]
        ELSE Take(after[i - 1],
                  Take_From_P2(L, after[i - 1].p1, after[i - 1].p2))
      last == after[part1.Length + part2.Length]
  IN  [k |-> last.k, p |-> last.m]

(* Split_List: the first part ends with the node Bump_Count after its own. *)
Split_List(k, part) ==
  LET bumps == (part.Length - 1) \div 2
      rover[i \in 0..bumps] ==
        IF i = 0 THEN part.First ELSE k.Next[rover[i - 1]]
      last  == rover[bumps]
      first == k.Next[last]
  IN  [k  |-> [k EXCEPT !.Next[last] = 0, !.Prev[first] = 0],
       p1 |-> [part EXCEPT !.Last = last, !.Length = bumps + 1],
       p2 |-> [part EXCEPT !.First = first, !.Length = @ - bumps - 1]]

(* Merge_Sort of the part s.p over the links s.k, which returns the part   *)
(* and the links it leaves; sort stands for the calls on both halves.      *)
Merge_Sort(L, sort) ==
  [s \in [k : Links(L), p : Parts(L)] |->
     IF s.p.Length < 2 THEN s
     ELSE LET split == Split_List(s.k, s.p)
              one == sort[[k |-> split.k, p |-> split.p1]]
              two == sort[[k |-> one.k, p |-> split.p2]]
          IN  Merge_Parts(L, two.k, one.p, two.p)]

(* sorted[n] sorts a part of at most n + 1 nodes: a half is shorter than   *)
(* the whole.                                                              *)
Sort(L) ==
  LET sorted[n \in 0..L.Length] ==
        IF n = 0 THEN [s \in [k : Links(L), p : Parts(L)] |-> s]
        ELSE Merge_Sort(L, sorted[n - 1])
      whole  == [First |-> L.First, Last |-> L.Last, Length |-> L.Length]
      result == sorted[L.Length][[k |-> [Prev |-> L.Prev, Next |-> L.Next],
                                  p |-> whole]]
  IN  IF L.Length <= 1 THEN L
      ELSE [L EXCEPT !.Prev = result.k.Prev, !.Next = result.k.Next,
                     !.First = result.p.First, !.Last = result.p.Last,
                     !.Length = result.p.Length]

-----------------------------------------------------------------------------
(* Two lists: the result is a record of a target t and a source s.         *)

Assign(T, S) ==
  LET after[i \in 0..S.Length] ==
        IF i = 0 THEN [list |-> Clear(T), at |-> S.First]
        ELSE [list |-> Append_(after[i - 1].list, S.Element[after[i - 1].at]),
              at   |-> S.Next[after[i - 1].at]]
  IN  after[S.Length].list

(* Plausible bug: the nodes that only the copy has are not freed.          *)
CopyWithoutExtra(S, capacity) ==
  LET Extended(f, default) ==
        [n \in 1..capacity |-> IF n \in Nodes(S) THEN f[n] ELSE default] IN
  [S EXCEPT !.Capacity = capacity,
            !.Prev     = Extended(S.Prev, -1),
            !.Next     = Extended(S.Next, 0),
            !.Element  = Extended(S.Element, S.Element[1])]

(* A copy with a larger capacity has nodes of its own, and frees them when *)
(* the free nodes of the source are chained.                               *)
Copy(S, capacity) ==
  LET copy == CopyWithoutExtra(S, capacity)
      after[n \in S.Capacity..capacity] ==
        IF n = S.Capacity THEN copy ELSE Free(after[n - 1], n)
  IN  IF copy.Free >= 0 THEN after[capacity] ELSE copy

(* Splice of one node of another list.                                     *)
SpliceOne(T, before, S, position) ==
  [t |-> InsertOne(T, before, S.Element[position]),
   s |-> Delete(S, position, 1)]

(* Splice of a whole list takes the last element of S again and again.     *)
SpliceAll(T, before, S) ==
  LET after[i \in 0..S.Length] ==
        IF i = 0 THEN [t |-> T, s |-> S]
        ELSE LET p == after[i - 1] IN
             [t |-> InsertOne(p.t, before, p.s.Element[p.s.Last]),
              s |-> Delete_Last(p.s, 1)]
  IN  after[S.Length]

(* Move appends the first element, then frees its node.                    *)
Move(T, S) ==
  LET after[i \in 0..S.Length] ==
        IF i = 0 THEN [t |-> Clear(T), s |-> S]
        ELSE LET p == after[i - 1] IN
             [t |-> Append_(p.t, p.s.Element[p.s.First]),
              s |-> Delete_First(p.s, 1)]
  IN  after[S.Length]

(* Merge walks over both lists; li and ri are its cursors.                 *)
Merge(T, S) ==
  LET State(pair, l, r) == [t |-> pair.t, s |-> pair.s, li |-> l, ri |-> r]
      after[i \in 0..(T.Length + S.Length + 1)] ==
        IF i = 0 THEN State([t |-> T, s |-> S], T.First, S.First)
        ELSE LET p == after[i - 1] IN
             IF p.ri = 0 THEN p
             ELSE IF p.li = 0
             THEN State(SpliceAll(p.t, No_Element, p.s), 0, 0)
             ELSE IF p.s.Element[p.ri] < p.t.Element[p.li]
             THEN State(SpliceOne(p.t, p.li, p.s, p.ri), p.li, p.s.Next[p.ri])
             ELSE [p EXCEPT !.li = p.t.Next[@]]
  IN  after[T.Length + S.Length + 1]
=============================================================================
