-------------------------- MODULE FormalLists_proofs --------------------------
(***************************************************************************)
(* The operations of FormalLists, one at a time, for every capacity and    *)
(* every set of elements: each keeps the chain of the active nodes and the *)
(* store of the free nodes.  The proofs follow a node through the links    *)
(* that are written; an operation with a loop is proved by induction on    *)
(* the number of iterations.  The second part says what each operation     *)
(* does to the order of the nodes.                                         *)
(*                                                                         *)
(* The hypotheses of a lemma are predicates without bounded types, and a   *)
(* change of a function is Put: the SMT backend matches both best.         *)
(***************************************************************************)
EXTENDS FormalLists, WellFoundedInduction, TLAPS

-----------------------------------------------------------------------------
(* The representation of a list, and the readers of its components. The    *)
(* readers are operators, so that a proof step can speak of a component    *)
(* without expanding the record.                                           *)

(* The components of the type List.                                        *)
Fields ==
  {"Capacity", "Free", "Length", "First", "Last", "Prev", "Next", "Element"}

(* The readers of the components.                                          *)
Cap(L) == L.Capacity
Fre(L) == L.Free
Lng(L) == L.Length
Fst(L) == L.First
Lst(L) == L.Last
Prv(L) == L.Prev
Nxt(L) == L.Next
Elm(L) == L.Element

(* The indices of the node array of a list of capacity cap.                *)
Node(cap) == 1..cap

(* L is a record that the type List of capacity cap allows: the links are  *)
(* nodes or 0, Prev is -1 on free nodes, and a negative Free says that     *)
(* all nodes from -Free on have never been used.                           *)
IsRep(L, cap, E) ==
  /\ cap \in Nat
  /\ DOMAIN L = Fields
  /\ Cap(L) = cap
  /\ Fre(L) \in -(cap + 1)..cap
  /\ Lng(L) \in 0..cap
  /\ Fst(L) \in Node(cap) \cup {0}
  /\ Lst(L) \in Node(cap) \cup {0}
  /\ Prv(L) \in [Node(cap) -> Node(cap) \cup {0, -1}]
  /\ Nxt(L) \in [Node(cap) -> Node(cap) \cup {0}]
  /\ Elm(L) \in [Node(cap) -> E]

(* The nodes c[1], ..., c[n] are different and doubly linked in that       *)
(* order, with 0 at both ends.                                             *)
Segment(next, prev, c, n) ==
  /\ \A i, j \in 1..n : i # j => c[i] # c[j]
  /\ \A i \in 1..n : next[c[i]] = IF i = n THEN 0 ELSE c[i + 1]
  /\ \A i \in 1..n : prev[c[i]] = IF i = 1 THEN 0 ELSE c[i - 1]

(* The values of c on 1..n.                                                *)
Values(c, n) == {c[i] : i \in 1..n}

(* c with x inserted at position p, and c without its position p.          *)
InsertAt(c, n, p, x) ==
  [k \in 1..(n + 1) |-> IF k < p THEN c[k] ELSE IF k = p THEN x ELSE c[k - 1]]
RemoveAt(c, n, p) == [k \in 1..(n - 1) |-> IF k < p THEN c[k] ELSE c[k + 1]]

-----------------------------------------------------------------------------
(* Doubly linked chains: inserting a node into one and taking one out.     *)

(* What the values of a chain are.                                         *)
LEMMA ValuesMember ==
  ASSUME NEW c, NEW n PROVE
  /\ \A i \in 1..n : c[i] \in Values(c, n)
  /\ \A v \in Values(c, n) : \E i \in 1..n : v = c[i]
BY DEF Values

(* Neither end marker is a node.                                           *)
LEMMA NodeNumbers ==
  ASSUME NEW cap \in Nat
  PROVE  0 \notin Node(cap) /\ -1 \notin Node(cap) /\ Node(cap) \subseteq Nat
BY DEF Node

(* The two link arrays change so that x stands at position p of the chain  *)
(* c.                                                                      *)
InsertStep(N, n, c, x, p, next, prev, next2, prev2) ==
  /\ n \in Nat /\ c \in [1..n -> N] /\ x \in N /\ p \in 1..(n + 1)
  /\ x \notin Values(c, n)
  /\ Segment(next, prev, c, n)
  /\ p = n + 1 => next2[x] = 0
  /\ p # n + 1 => next2[x] = c[p]
  /\ p = 1 => prev2[x] = 0
  /\ p # 1 => prev2[x] = c[p - 1]
  /\ \A i \in 1..n : i # p - 1 => next2[c[i]] = next[c[i]]
  /\ p # 1 => next2[c[p - 1]] = x
  /\ \A i \in 1..n : i # p => prev2[c[i]] = prev[c[i]]
  /\ p # n + 1 => prev2[c[p]] = x

(* Such a change gives the chain with x at position p: the fact behind     *)
(* Insert_Internal.                                                        *)
LEMMA SegInsert ==
  ASSUME NEW N, NEW n, NEW c, NEW x, NEW p, NEW next, NEW prev, NEW next2, NEW prev2,
         InsertStep(N, n, c, x, p, next, prev, next2, prev2)
  PROVE  /\ Segment(next2, prev2, InsertAt(c, n, p, x), n + 1)
         /\ InsertAt(c, n, p, x) \in [1..(n + 1) -> N]
         /\ Values(InsertAt(c, n, p, x), n + 1) = Values(c, n) \cup {x}
<1> DEFINE d == InsertAt(c, n, p, x)
<1> n \in Nat /\ c \in [1..n -> N] /\ x \in N /\ p \in 1..(n + 1)
  BY DEF InsertStep
<1>0. x \notin Values(c, n) /\ Segment(next, prev, c, n)
  BY DEF InsertStep
<1>1. \A k \in 1..(n + 1) :
        /\ k < p => k \in 1..n /\ d[k] = c[k]
        /\ k = p => d[k] = x
        /\ k > p => k - 1 \in 1..n /\ d[k] = c[k - 1]
  BY DEF InsertAt
<1>2. \A k \in 1..n : c[k] # x
  BY <1>0, ValuesMember
<1>3. d \in [1..(n + 1) -> N]
  BY DEF InsertAt
<1> HIDE DEF d
<1>4. Values(d, n + 1) = Values(c, n) \cup {x}
  <2>1. ASSUME NEW k \in 1..n PROVE \E j \in 1..(n + 1) : d[j] = c[k]
    <3>1. CASE k < p
      BY <1>1, <3>1
    <3>2. CASE k >= p
      <4>1. k + 1 \in 1..(n + 1) /\ k + 1 > p /\ (k + 1) - 1 = k
        BY <3>2
      <4>2. d[k + 1] = c[k]
        BY <1>1, <4>1
      <4> QED BY <4>1, <4>2
    <3> QED BY <3>1, <3>2
  <2>2. \A k \in 1..(n + 1) : d[k] = x \/ \E j \in 1..n : d[k] = c[j]
    BY <1>1
  <2>3. d[p] = x
    BY <1>1
  <2> QED
    BY <2>1, <2>2, <2>3 DEF Values
<1>5. \A i, j \in 1..(n + 1) : i # j => d[i] # d[j]
  <2>1. \A i, j \in 1..n : i # j => c[i] # c[j]
    BY <1>0 DEF Segment
  <2> QED
    BY <1>1, <1>2, <2>1
<1>8. ASSUME NEW k \in 1..(n + 1)
      PROVE  next2[d[k]] = IF k = n + 1 THEN 0 ELSE d[k + 1]
  <2>1. CASE k = p
    <3>1. d[k] = x
      BY <1>1, <2>1
    <3>2. k # n + 1 => d[k + 1] = c[p]
      BY <1>1, <2>1
    <3> QED BY <2>1, <3>1, <3>2 DEF InsertStep
  <2>2. CASE k = p - 1
    <3>1. k \in 1..n /\ d[k] = c[p - 1] /\ d[k + 1] = x /\ k # n + 1 /\ p # 1
      BY <1>1, <2>2
    <3>2. next2[c[p - 1]] = x
      BY <3>1 DEF InsertStep
    <3> QED BY <3>1, <3>2
  <2>3. CASE k < p - 1
    <3>1. k \in 1..n /\ d[k] = c[k] /\ d[k + 1] = c[k + 1] /\ k # n + 1 /\ k # p - 1 /\ k # n
      BY <1>1, <2>3
    <3>2. next2[c[k]] = next[c[k]]
      BY <3>1 DEF InsertStep
    <3>3. next[c[k]] = IF k = n THEN 0 ELSE c[k + 1]
      BY <1>0, <3>1 DEF Segment
    <3> QED BY <3>1, <3>2, <3>3
  <2>4. CASE k > p
    <3>1. k - 1 \in 1..n /\ d[k] = c[k - 1] /\ (k # n + 1 => d[k + 1] = c[k]) /\ k - 1 # p - 1
      BY <1>1, <2>4
    <3>2. next2[c[k - 1]] = next[c[k - 1]]
      BY <3>1 DEF InsertStep
    <3>3. next[c[k - 1]] = IF k - 1 = n THEN 0 ELSE c[k]
      BY <1>0, <3>1 DEF Segment
    <3> QED BY <3>1, <3>2, <3>3
  <2> QED
    BY <2>1, <2>2, <2>3, <2>4
<1>9. ASSUME NEW k \in 1..(n + 1)
      PROVE  prev2[d[k]] = IF k = 1 THEN 0 ELSE d[k - 1]
  <2>1. CASE k = p
    <3>1. d[k] = x
      BY <1>1, <2>1
    <3>2. k # 1 => d[k - 1] = c[p - 1]
      BY <1>1, <2>1
    <3> QED BY <2>1, <3>1, <3>2 DEF InsertStep
  <2>2. CASE k = p + 1
    <3>1. p \in 1..n /\ d[k] = c[p] /\ d[k - 1] = x /\ k # 1 /\ p # n + 1
      BY <1>1, <2>2
    <3>2. prev2[c[p]] = x
      BY <3>1 DEF InsertStep
    <3> QED BY <3>1, <3>2
  <2>3. CASE k > p + 1
    <3>1. k - 1 \in 1..n /\ d[k] = c[k - 1] /\ d[k - 1] = c[(k - 1) - 1] /\ k # 1 /\ k - 1 # p
          /\ k - 1 # 1
      BY <1>1, <2>3
    <3>2. prev2[c[k - 1]] = prev[c[k - 1]]
      BY <3>1 DEF InsertStep
    <3>3. prev[c[k - 1]] = IF k - 1 = 1 THEN 0 ELSE c[(k - 1) - 1]
      BY <1>0, <3>1 DEF Segment
    <3> QED BY <3>1, <3>2, <3>3
  <2>4. CASE k < p
    <3>1. k \in 1..n /\ d[k] = c[k] /\ (k # 1 => d[k - 1] = c[k - 1]) /\ k # p
      BY <1>1, <2>4
    <3>2. prev2[c[k]] = prev[c[k]]
      BY <3>1 DEF InsertStep
    <3>3. prev[c[k]] = IF k = 1 THEN 0 ELSE c[k - 1]
      BY <1>0, <3>1 DEF Segment
    <3> QED BY <3>1, <3>2, <3>3
  <2> QED
    BY <2>1, <2>2, <2>3, <2>4
<1> QED
  BY <1>3, <1>4, <1>5, <1>8, <1>9 DEF Segment, d

(* The two link arrays change so that the chain c goes round its position  *)
(* p.                                                                      *)
RemoveStep(N, n, c, p, next, prev, next2, prev2) ==
  /\ n \in Nat /\ c \in [1..n -> N] /\ p \in 1..n
  /\ Segment(next, prev, c, n)
  /\ \A i \in 1..n : i # p /\ i # p - 1 => next2[c[i]] = next[c[i]]
  /\ p # 1 => next2[c[p - 1]] = IF p = n THEN 0 ELSE c[p + 1]
  /\ \A i \in 1..n : i # p /\ i # p + 1 => prev2[c[i]] = prev[c[i]]
  /\ p # n => prev2[c[p + 1]] = IF p = 1 THEN 0 ELSE c[p - 1]

(* Such a change gives the chain without position p: the fact behind the   *)
(* unlinking in Delete and Splice.                                         *)
LEMMA SegRemove ==
  ASSUME NEW N, NEW n, NEW c, NEW p, NEW next, NEW prev, NEW next2, NEW prev2,
         RemoveStep(N, n, c, p, next, prev, next2, prev2)
  PROVE  /\ Segment(next2, prev2, RemoveAt(c, n, p), n - 1)
         /\ RemoveAt(c, n, p) \in [1..(n - 1) -> N]
         /\ Values(RemoveAt(c, n, p), n - 1) = Values(c, n) \ {c[p]}
<1> DEFINE d == RemoveAt(c, n, p)
<1> n \in Nat /\ c \in [1..n -> N] /\ p \in 1..n
  BY DEF RemoveStep
<1>0. Segment(next, prev, c, n)
  BY DEF RemoveStep
<1>1. \A k \in 1..(n - 1) :
        /\ k < p => k \in 1..n /\ d[k] = c[k]
        /\ k >= p => k + 1 \in 1..n /\ d[k] = c[k + 1]
  BY DEF RemoveAt
<1>2. \A i, j \in 1..n : i # j => c[i] # c[j]
  BY <1>0 DEF Segment
<1>3. d \in [1..(n - 1) -> N]
  BY <1>1 DEF RemoveAt
<1> HIDE DEF d
<1>4. Values(d, n - 1) = Values(c, n) \ {c[p]}
  <2>1. ASSUME NEW k \in 1..n, k # p PROVE \E j \in 1..(n - 1) : d[j] = c[k]
    <3>1. CASE k < p
      BY <1>1, <3>1
    <3>2. CASE k > p
      <4>1. k - 1 \in 1..(n - 1) /\ k - 1 >= p
        BY <3>2
      <4>2. d[k - 1] = c[(k - 1) + 1]
        BY <1>1, <4>1
      <4> QED BY <4>1, <4>2
    <3> QED BY <2>1, <3>1, <3>2
  <2>2. \A k \in 1..(n - 1) : \E j \in 1..n : j # p /\ d[k] = c[j]
    BY <1>1
  <2>3. \A v \in Values(d, n - 1) : v \in Values(c, n) /\ v # c[p]
    BY <1>2, <2>2 DEF Values
  <2>4. ASSUME NEW v \in Values(c, n), v # c[p] PROVE v \in Values(d, n - 1)
    <3>1. PICK k \in 1..n : v = c[k]
      BY DEF Values
    <3>2. PICK j \in 1..(n - 1) : d[j] = c[k]
      BY <2>1, <2>4, <3>1
    <3> QED BY <3>1, <3>2 DEF Values
  <2> QED
    BY <2>3, <2>4
<1>5. \A i, j \in 1..(n - 1) : i # j => d[i] # d[j]
  BY <1>1, <1>2
<1>8. ASSUME NEW k \in 1..(n - 1)
      PROVE  next2[d[k]] = IF k = n - 1 THEN 0 ELSE d[k + 1]
  <2>1. CASE k = p - 1
    <3>1. p # 1 /\ d[k] = c[p - 1] /\ (k = n - 1 <=> p = n) /\ (k # n - 1 => d[k + 1] = c[p + 1])
      BY <1>1, <2>1
    <3>2. next2[c[p - 1]] = IF p = n THEN 0 ELSE c[p + 1]
      BY <3>1 DEF RemoveStep
    <3> QED BY <3>1, <3>2
  <2>2. CASE k < p - 1
    <3>1. k \in 1..n /\ d[k] = c[k] /\ k # n - 1 /\ d[k + 1] = c[k + 1] /\ k # p /\ k # p - 1 /\ k # n
      BY <1>1, <2>2
    <3>2. next2[c[k]] = next[c[k]]
      BY <3>1 DEF RemoveStep
    <3>3. next[c[k]] = IF k = n THEN 0 ELSE c[k + 1]
      BY <1>0, <3>1 DEF Segment
    <3> QED BY <3>1, <3>2, <3>3
  <2>3. CASE k >= p
    <3>1. /\ k + 1 \in 1..n /\ d[k] = c[k + 1] /\ (k # n - 1 => d[k + 1] = c[(k + 1) + 1])
          /\ k + 1 # p /\ k + 1 # p - 1
      BY <1>1, <2>3
    <3>2. next2[c[k + 1]] = next[c[k + 1]]
      BY <3>1 DEF RemoveStep
    <3>3. next[c[k + 1]] = IF k + 1 = n THEN 0 ELSE c[(k + 1) + 1]
      BY <1>0, <3>1 DEF Segment
    <3> QED BY <3>1, <3>2, <3>3
  <2> QED
    BY <2>1, <2>2, <2>3
<1>9. ASSUME NEW k \in 1..(n - 1)
      PROVE  prev2[d[k]] = IF k = 1 THEN 0 ELSE d[k - 1]
  <2>1. CASE k = p
    <3>1. p # n /\ d[k] = c[p + 1] /\ (k # 1 => d[k - 1] = c[p - 1])
      BY <1>1, <2>1
    <3>2. prev2[c[p + 1]] = IF p = 1 THEN 0 ELSE c[p - 1]
      BY <3>1 DEF RemoveStep
    <3> QED BY <2>1, <3>1, <3>2
  <2>2. CASE k > p
    <3>1. /\ k + 1 \in 1..n /\ d[k] = c[k + 1] /\ k # 1 /\ d[k - 1] = c[(k + 1) - 1]
          /\ k + 1 # p /\ k + 1 # p + 1 /\ k + 1 # 1
      BY <1>1, <2>2
    <3>2. prev2[c[k + 1]] = prev[c[k + 1]]
      BY <3>1 DEF RemoveStep
    <3>3. prev[c[k + 1]] = IF k + 1 = 1 THEN 0 ELSE c[(k + 1) - 1]
      BY <1>0, <3>1 DEF Segment
    <3> QED BY <3>1, <3>2, <3>3
  <2>3. CASE k < p
    <3>1. k \in 1..n /\ d[k] = c[k] /\ (k # 1 => d[k - 1] = c[k - 1]) /\ k # p /\ k # p + 1
      BY <1>1, <2>3
    <3>2. prev2[c[k]] = prev[c[k]]
      BY <3>1 DEF RemoveStep
    <3>3. prev[c[k]] = IF k = 1 THEN 0 ELSE c[k - 1]
      BY <1>0, <3>1 DEF Segment
    <3> QED BY <3>1, <3>2, <3>3
  <2> QED
    BY <2>1, <2>2, <2>3
<1> QED
  BY <1>3, <1>4, <1>5, <1>8, <1>9 DEF Segment, d

(* h is g with one value, or two values, replaced.                         *)
Put(h, g, a, v) == h = [g EXCEPT ![a] = v]
Put2(h, g, a, v, b, w) == h = [[g EXCEPT ![a] = v] EXCEPT ![b] = w]

-----------------------------------------------------------------------------
(* The shape of a list: a chain of active nodes, a store of free nodes,    *)
(* and nodes out of both that an operation holds in its hand.              *)

(* c is the chain of the n active nodes of L, between First and Last.      *)
Active(L, N, c, n) ==
  /\ n \in Nat
  /\ c \in [1..n -> N]
  /\ Segment(Nxt(L), Prv(L), c, n)
  /\ n = 0 => Fst(L) = 0 /\ Lst(L) = 0
  /\ n # 0 => Fst(L) = c[1] /\ Lst(L) = c[n]

(* The free nodes as Next links them from Free on, when Free is not        *)
(* negative.                                                               *)
Chained(L, f, m) ==
  /\ Fre(L) = IF m = 0 THEN 0 ELSE f[1]
  /\ \A k \in 1..m : Nxt(L)[f[k]] = IF k = m THEN 0 ELSE f[k + 1]

(* The free nodes as the end of the array, when Free is negative.          *)
Suffix(L, cap, f, m) ==
  /\ m = cap + Fre(L) + 1
  /\ \A k \in 1..m : f[k] = k - Fre(L) - 1

(* f is the sequence of the m free nodes, in the order in which Allocate   *)
(* hands them out; free nodes have Prev = -1.                              *)
Store(L, cap, f, m) ==
  /\ m \in Nat
  /\ f \in [1..m -> Node(cap)]
  /\ \A i, j \in 1..m : i # j => f[i] # f[j]
  /\ \A k \in 1..m : Prv(L)[f[k]] = -1
  /\ Fre(L) >= 0 => Chained(L, f, m)
  /\ Fre(L) < 0 => Suffix(L, cap, f, m)

(* L has the active chain c and the free store f, and out holds the nodes  *)
(* in neither: no node is lost, and none is in two places.                 *)
Shape(L, cap, c, n, f, m, out) ==
  /\ Active(L, Node(cap), c, n)
  /\ Store(L, cap, f, m)
  /\ \A y \in Node(cap) : y \in Values(c, n) \/ y \in Values(f, m) \/ y \in out
  /\ out \subseteq Node(cap)
  /\ \A x \in out : x \notin Values(c, n) /\ x \notin Values(f, m)

(* A store without its first node, and with one more at its head.          *)
Rest(f, m) == [k \in 1..(m - 1) |-> f[k + 1]]
Cons(x, f, m) == [k \in 1..(m + 1) |-> IF k = 1 THEN x ELSE f[k - 1]]

(* An active node does not carry the mark of a free one.                   *)
LEMMA ActivePrev ==
  ASSUME NEW L, NEW cap, NEW c, NEW n, Active(L, Node(cap), c, n),
         cap \in Nat, NEW i \in 1..n
  PROVE  c[i] \in Node(cap) /\ Prv(L)[c[i]] # -1
<1>1. c[i] \in Node(cap) /\ Segment(Nxt(L), Prv(L), c, n)
  BY DEF Active
<1>2. i # 1 => i - 1 \in 1..n /\ c[i - 1] \in Node(cap)
  BY DEF Active
<1>3. Prv(L)[c[i]] = IF i = 1 THEN 0 ELSE c[i - 1]
  BY <1>1 DEF Segment
<1> QED
  BY <1>1, <1>2, <1>3, NodeNumbers

(* No node is both active and free.                                        *)
LEMMA ActiveNotFree ==
  ASSUME NEW L, NEW cap, NEW c, NEW n, NEW f, NEW m, Active(L, Node(cap), c, n),
         Store(L, cap, f, m), cap \in Nat, NEW i \in 1..n, NEW k \in 1..m
  PROVE  c[i] # f[k]
<1>1. Prv(L)[f[k]] = -1
  BY DEF Store
<1> QED
  BY <1>1, ActivePrev

(* A step that touches neither Free nor a free node leaves the store       *)
(* alone.                                                                  *)
LEMMA StoreFrame ==
  ASSUME NEW L, NEW M, NEW cap, NEW f, NEW m, Store(L, cap, f, m), Fre(M) = Fre(L),
         \A k \in 1..m : Prv(M)[f[k]] = Prv(L)[f[k]] /\ Nxt(M)[f[k]] = Nxt(L)[f[k]]
  PROVE  Store(M, cap, f, m)
BY DEF Store, Chained, Suffix

-----------------------------------------------------------------------------
(* What Link, Unlink, Allocate and Free do to each component.              *)

(* Link: the four cases of Insert_Internal.                                *)
LEMMA LinkFields ==
  ASSUME NEW L, DOMAIN L = Fields, NEW before, NEW x, NEW M, M = Link(L, before, x)
  PROVE  /\ DOMAIN M = Fields
         /\ Cap(M) = Cap(L) /\ Lng(M) = Lng(L) /\ Fre(M) = Fre(L) /\ Elm(M) = Elm(L)
         /\ Lng(L) = 0 =>
              /\ Fst(M) = x /\ Lst(M) = x
              /\ Put(Prv(M), Prv(L), x, 0) /\ Put(Nxt(M), Nxt(L), x, 0)
         /\ Lng(L) # 0 /\ before = 0 =>
              /\ Fst(M) = Fst(L) /\ Lst(M) = x
              /\ Put(Prv(M), Prv(L), x, Lst(L))
              /\ Put2(Nxt(M), Nxt(L), Lst(L), x, x, 0)
         /\ Lng(L) # 0 /\ before # 0 /\ before = Fst(L) =>
              /\ Fst(M) = x /\ Lst(M) = Lst(L)
              /\ Put2(Prv(M), Prv(L), Fst(L), x, x, 0)
              /\ Put(Nxt(M), Nxt(L), x, Fst(L))
         /\ Lng(L) # 0 /\ before # 0 /\ before # Fst(L) =>
              /\ Fst(M) = Fst(L) /\ Lst(M) = Lst(L)
              /\ Put2(Prv(M), Prv(L), x, Prv(L)[before], before, x)
              /\ Put2(Nxt(M), Nxt(L), x, before, Prv(L)[before], x)
<1>1. CASE L.Length = 0
  <2>1. M = [L EXCEPT !.First = x, !.Last = x, !.Prev[x] = 0, !.Next[x] = 0]
    BY <1>1 DEF Link
  <2> QED BY <1>1, <2>1 DEF Fields, Put, Put2, Cap, Lng, Fre, Elm, Fst, Lst, Prv, Nxt
<1>2. CASE L.Length # 0 /\ before = 0
  <2>1. M = [L EXCEPT !.Next = [@ EXCEPT ![L.Last] = x, ![x] = 0],
                      !.Prev[x] = L.Last, !.Last = x]
    BY <1>2 DEF Link
  <2> QED BY <1>2, <2>1 DEF Fields, Put, Put2, Cap, Lng, Fre, Elm, Fst, Lst, Prv, Nxt
<1>3. CASE L.Length # 0 /\ before # 0 /\ before = L.First
  <2>1. M = [L EXCEPT !.Prev = [@ EXCEPT ![L.First] = x, ![x] = 0],
                      !.Next[x] = L.First, !.First = x]
    BY <1>3 DEF Link
  <2> QED BY <1>3, <2>1 DEF Fields, Put, Put2, Cap, Lng, Fre, Elm, Fst, Lst, Prv, Nxt
<1>4. CASE L.Length # 0 /\ before # 0 /\ before # L.First
  <2>1. M = [L EXCEPT !.Next = [@ EXCEPT ![x] = before, ![L.Prev[before]] = x],
                      !.Prev = [@ EXCEPT ![x] = L.Prev[before], ![before] = x]]
    BY <1>4 DEF Link
  <2> QED BY <1>4, <2>1 DEF Fields, Put, Put2, Cap, Lng, Fre, Elm, Fst, Lst, Prv, Nxt
<1> QED
  BY <1>1, <1>2, <1>3, <1>4

(* Unlink: the node is the first, the last, or between two others.         *)
LEMMA UnlinkFields ==
  ASSUME NEW L, DOMAIN L = Fields, NEW x, NEW M, M = Unlink(L, x)
  PROVE  /\ DOMAIN M = Fields
         /\ Cap(M) = Cap(L) /\ Lng(M) = Lng(L) /\ Fre(M) = Fre(L) /\ Elm(M) = Elm(L)
         /\ x = Fst(L) =>
              /\ Fst(M) = Nxt(L)[x] /\ Lst(M) = Lst(L)
              /\ Put(Prv(M), Prv(L), Nxt(L)[x], 0) /\ Nxt(M) = Nxt(L)
         /\ x # Fst(L) /\ x = Lst(L) =>
              /\ Fst(M) = Fst(L) /\ Lst(M) = Prv(L)[x]
              /\ Prv(M) = Prv(L) /\ Put(Nxt(M), Nxt(L), Prv(L)[x], 0)
         /\ x # Fst(L) /\ x # Lst(L) =>
              /\ Fst(M) = Fst(L) /\ Lst(M) = Lst(L)
              /\ Put(Prv(M), Prv(L), Nxt(L)[x], Prv(L)[x])
              /\ Put(Nxt(M), Nxt(L), Prv(L)[x], Nxt(L)[x])
<1>1. CASE x = L.First
  <2>1. M = [L EXCEPT !.First = L.Next[x], !.Prev[L.Next[x]] = 0]
    BY <1>1 DEF Unlink
  <2> QED BY <1>1, <2>1 DEF Fields, Put, Put2, Cap, Lng, Fre, Elm, Fst, Lst, Prv, Nxt
<1>2. CASE x # L.First /\ x = L.Last
  <2>1. M = [L EXCEPT !.Last = L.Prev[x], !.Next[L.Prev[x]] = 0]
    BY <1>2 DEF Unlink
  <2> QED BY <1>2, <2>1 DEF Fields, Put, Put2, Cap, Lng, Fre, Elm, Fst, Lst, Prv, Nxt
<1>3. CASE x # L.First /\ x # L.Last
  <2>1. M = [L EXCEPT !.Prev[L.Next[x]] = L.Prev[x], !.Next[L.Prev[x]] = L.Next[x]]
    BY <1>3 DEF Unlink
  <2> QED BY <1>3, <2>1 DEF Fields, Put, Put2, Cap, Lng, Fre, Elm, Fst, Lst, Prv, Nxt
<1> QED
  BY <1>1, <1>2, <1>3

(* Allocate: from the linked store, or from the unused end of the array.   *)
LEMMA AllocateFields ==
  ASSUME NEW L, DOMAIN L = Fields, NEW e, NEW a, NEW M,
         a = Allocate(L, e).node, M = Allocate(L, e).list
  PROVE  /\ DOMAIN M = Fields
         /\ Cap(M) = Cap(L) /\ Lng(M) = Lng(L) /\ Prv(M) = Prv(L) /\ Nxt(M) = Nxt(L)
         /\ Fst(M) = Fst(L) /\ Lst(M) = Lst(L)
         /\ Put(Elm(M), Elm(L), a, e)
         /\ a = IF Fre(L) >= 0 THEN Fre(L) ELSE -Fre(L)
         /\ Fre(M) = IF Fre(L) >= 0 THEN Nxt(L)[a] ELSE Fre(L) - 1
<1>1. /\ a = IF L.Free >= 0 THEN L.Free ELSE -L.Free
      /\ M = [L EXCEPT !.Element[a] = e, !.Free = IF L.Free >= 0 THEN L.Next[a] ELSE L.Free - 1]
  BY DEF Allocate
<1>2. DOMAIN M = Fields /\ M.Capacity = L.Capacity /\ M.Length = L.Length /\ M.Prev = L.Prev
      /\ M.Next = L.Next /\ M.First = L.First /\ M.Last = L.Last
  BY <1>1 DEF Fields
<1>3. M.Element = [L.Element EXCEPT ![a] = e]
  BY <1>1 DEF Fields
<1>4. M.Free = IF L.Free >= 0 THEN L.Next[a] ELSE L.Free - 1
  BY <1>1 DEF Fields
<1> QED
  BY <1>1, <1>2, <1>3, <1>4 DEF Put, Cap, Lng, Fre, Elm, Fst, Lst, Prv, Nxt

(* The links after the unused end of the array has been turned into a      *)
(* linked store, as Free does the first time a node is freed out of        *)
(* order.                                                                  *)
Chaining(L) ==
  [n \in DOMAIN Prv(L) |->
     IF n \in -Fre(L)..(Cap(L) - 1) THEN n + 1
     ELSE IF n = Cap(L) /\ n >= -Fre(L) THEN 0
     ELSE Nxt(L)[n]]

(* Free: the store is linked already, x comes just before the unused end   *)
(* of the array, or that end has to be linked first.                       *)
LEMMA FreeFields ==
  ASSUME NEW L, DOMAIN L = Fields, NEW x, NEW M, M = Free(L, x)
  PROVE  /\ DOMAIN M = Fields
         /\ Cap(M) = Cap(L) /\ Lng(M) = Lng(L) /\ Elm(M) = Elm(L)
         /\ Fst(M) = Fst(L) /\ Lst(M) = Lst(L)
         /\ Put(Prv(M), Prv(L), x, -1)
         /\ Fre(L) >= 0 => Fre(M) = x /\ Put(Nxt(M), Nxt(L), x, Fre(L))
         /\ ~(Fre(L) >= 0) /\ x + 1 = -Fre(L) =>
              Fre(M) = Fre(L) + 1 /\ Put(Nxt(M), Nxt(L), x, 0)
         /\ ~(Fre(L) >= 0) /\ x + 1 # -Fre(L) =>
              /\ Fre(M) = x
              /\ Put(Nxt(M), Chaining(L), x, IF -Fre(L) > Cap(L) THEN 0 ELSE -Fre(L))
<1>1. CASE L.Free >= 0
  <2>1. M = [L EXCEPT !.Prev[x] = -1, !.Next[x] = L.Free, !.Free = x]
    BY <1>1 DEF Free
  <2> QED BY <1>1, <2>1 DEF Fields, Put, Put2, Cap, Lng, Fre, Elm, Fst, Lst, Prv, Nxt
<1>2. CASE ~(L.Free >= 0) /\ x + 1 = -L.Free
  <2>1. M = [L EXCEPT !.Prev[x] = -1, !.Next[x] = 0, !.Free = @ + 1]
    BY <1>2 DEF Free
  <2> QED BY <1>2, <2>1 DEF Fields, Put, Put2, Cap, Lng, Fre, Elm, Fst, Lst, Prv, Nxt
<1>3. CASE ~(L.Free >= 0) /\ x + 1 # -L.Free
  <2>1. M = [L EXCEPT !.Prev[x] = -1,
                      !.Next = [Chaining(L) EXCEPT ![x] = IF -L.Free > L.Capacity THEN 0 ELSE -L.Free],
                      !.Free = x]
    BY <1>3 DEF Free, Chaining, Nodes, Fre, Cap, Prv, Nxt
  <2> QED BY <1>3, <2>1 DEF Fields, Put, Put2, Cap, Lng, Fre, Elm, Fst, Lst, Prv, Nxt
<1> QED
  BY <1>1, <1>2, <1>3

-----------------------------------------------------------------------------
(* The four operations on nodes keep the shape.                            *)

(* The insertion point `before` is position p of the chain (0 is the       *)
(* end).                                                                   *)
IsPlace(c, n, before, p) ==
  /\ p \in 1..(n + 1)
  /\ \/ before = 0 /\ p = n + 1
     \/ p \in 1..n /\ before = c[p]

(* What linking x in at position p does to the links and the ends.         *)
LinkStep(L, M, N, c, n, p, x) ==
  /\ Prv(M) \in [N -> N \cup {0, -1}]
  /\ Nxt(M) \in [N -> N \cup {0}]
  /\ InsertStep(N, n, c, x, p, Nxt(L), Prv(L), Nxt(M), Prv(M))
  /\ p = 1 => Fst(M) = x
  /\ p # 1 => Fst(M) = Fst(L)
  /\ p = n + 1 => Lst(M) = x
  /\ p # n + 1 => Lst(M) = Lst(L)
  /\ \A y \in N : y # x /\ y \notin Values(c, n) =>
       Prv(M)[y] = Prv(L)[y] /\ Nxt(M)[y] = Nxt(L)[y]

(* Link does that at every position.                                       *)
LEMMA LinkLinks ==
  ASSUME NEW cap, NEW E, NEW L, IsRep(L, cap, E), NEW n, NEW c,
         Active(L, Node(cap), c, n), Lng(L) = 0 <=> n = 0,
         NEW x, x \in Node(cap), x \notin Values(c, n),
         NEW before, NEW p, IsPlace(c, n, before, p),
         NEW M, M = Link(L, before, x)
  PROVE  LinkStep(L, M, Node(cap), c, n, p, x)
<1> DEFINE N == Node(cap)
<1> cap \in Nat /\ n \in Nat /\ p \in 1..(n + 1) /\ x \in N
  BY DEF IsRep, Active, IsPlace
<1>1. /\ DOMAIN L = Fields
      /\ Prv(L) \in [N -> N \cup {0, -1}] /\ Nxt(L) \in [N -> N \cup {0}]
  BY DEF IsRep
<1>2. c \in [1..n -> N] /\ Segment(Nxt(L), Prv(L), c, n)
  BY DEF Active
<1>3. 0 \notin N
  BY NodeNumbers
<1>4. \A i \in 1..n : c[i] \in N /\ c[i] # x /\ c[i] \in Values(c, n)
  BY <1>2, ValuesMember
<1>5. \A i, j \in 1..n : i # j => c[i] # c[j]
  BY <1>2 DEF Segment
<1> HIDE DEF N
<1>6. CASE n = 0
  <2>1. /\ Fst(M) = x /\ Lst(M) = x
        /\ Put(Prv(M), Prv(L), x, 0) /\ Put(Nxt(M), Nxt(L), x, 0)
    BY <1>1, <1>6, LinkFields
  <2>2. p = 1
    BY <1>6
  <2>3. Prv(M) \in [N -> N \cup {0, -1}] /\ Nxt(M) \in [N -> N \cup {0}]
    BY <1>1, <2>1 DEF Put
  <2>4. Prv(M)[x] = 0 /\ Nxt(M)[x] = 0
    BY <1>1, <2>1 DEF Put
  <2>5. \A y \in N : y # x => Prv(M)[y] = Prv(L)[y] /\ Nxt(M)[y] = Nxt(L)[y]
    BY <1>1, <2>1 DEF Put
  <2>6. InsertStep(N, n, c, x, p, Nxt(L), Prv(L), Nxt(M), Prv(M))
    BY <1>2, <1>6, <2>2, <2>4 DEF InsertStep
  <2> QED
    BY <1>6, <2>1, <2>2, <2>3, <2>5, <2>6 DEF LinkStep, N
<1>7. CASE n # 0 /\ before = 0
  <2>1. p = n + 1 /\ n \in 1..n /\ p - 1 = n /\ p # 1
    BY <1>3, <1>4, <1>7 DEF IsPlace
  <2>2. Lst(L) = c[n] /\ c[n] \in N /\ c[n] # x /\ c[n] \in Values(c, n)
    BY <1>4, <1>7, <2>1 DEF Active
  <2>3. /\ Fst(M) = Fst(L) /\ Lst(M) = x
        /\ Put(Prv(M), Prv(L), x, c[n]) /\ Put2(Nxt(M), Nxt(L), c[n], x, x, 0)
    BY <1>1, <1>7, <2>2, LinkFields
  <2>4. Prv(M) \in [N -> N \cup {0, -1}] /\ Nxt(M) \in [N -> N \cup {0}]
    BY <1>1, <2>2, <2>3 DEF Put, Put2
  <2>5. Prv(M)[x] = c[n] /\ Nxt(M)[x] = 0 /\ Nxt(M)[c[n]] = x
    BY <1>1, <2>2, <2>3 DEF Put, Put2
  <2>6. \A y \in N : y # x => Prv(M)[y] = Prv(L)[y]
    BY <1>1, <2>2, <2>3 DEF Put, Put2
  <2>7. \A y \in N : y # x /\ y # c[n] => Nxt(M)[y] = Nxt(L)[y]
    BY <1>1, <2>2, <2>3 DEF Put, Put2
  <2>8. InsertStep(N, n, c, x, p, Nxt(L), Prv(L), Nxt(M), Prv(M))
    BY <1>2, <1>4, <1>5, <2>1, <2>5, <2>6, <2>7 DEF InsertStep
  <2> QED
    BY <2>1, <2>2, <2>3, <2>4, <2>6, <2>7, <2>8 DEF LinkStep, N
<1>8. CASE n # 0 /\ before # 0 /\ p = 1
  <2>1. 1 \in 1..n /\ before = c[1] /\ p # n + 1 /\ p - 1 \notin 1..n
    BY <1>8 DEF IsPlace
  <2>2. Fst(L) = c[1] /\ c[1] \in N /\ c[1] # x /\ c[1] \in Values(c, n)
    BY <1>4, <1>8, <2>1 DEF Active
  <2>3. /\ Fst(M) = x /\ Lst(M) = Lst(L)
        /\ Put2(Prv(M), Prv(L), c[1], x, x, 0) /\ Put(Nxt(M), Nxt(L), x, c[1])
    BY <1>1, <1>8, <2>1, <2>2, LinkFields
  <2>4. Prv(M) \in [N -> N \cup {0, -1}] /\ Nxt(M) \in [N -> N \cup {0}]
    BY <1>1, <2>2, <2>3 DEF Put, Put2
  <2>5. Prv(M)[x] = 0 /\ Nxt(M)[x] = c[1] /\ Prv(M)[c[1]] = x
    BY <1>1, <2>2, <2>3 DEF Put, Put2
  <2>6. \A y \in N : y # x => Nxt(M)[y] = Nxt(L)[y]
    BY <1>1, <2>2, <2>3 DEF Put, Put2
  <2>7. \A y \in N : y # x /\ y # c[1] => Prv(M)[y] = Prv(L)[y]
    BY <1>1, <2>2, <2>3 DEF Put, Put2
  <2>8. InsertStep(N, n, c, x, p, Nxt(L), Prv(L), Nxt(M), Prv(M))
    BY <1>2, <1>4, <1>5, <1>8, <2>1, <2>5, <2>6, <2>7 DEF InsertStep
  <2> QED
    BY <1>8, <2>1, <2>2, <2>3, <2>4, <2>6, <2>7, <2>8 DEF LinkStep, N
<1>9. CASE n # 0 /\ before # 0 /\ p # 1
  <2>1. p \in 1..n /\ before = c[p] /\ p # n + 1 /\ p - 1 \in 1..n /\ p - 1 # p /\ 1 \in 1..n
    BY <1>9 DEF IsPlace
  <2>2. /\ Fst(L) = c[1] /\ Fst(L) # c[p]
        /\ c[p] \in N /\ c[p] # x /\ c[p] \in Values(c, n)
        /\ c[p - 1] \in N /\ c[p - 1] # x /\ c[p - 1] \in Values(c, n)
    BY <1>4, <1>5, <1>9, <2>1 DEF Active
  <2>2a. Prv(L)[c[p]] = IF p = 1 THEN 0 ELSE c[p - 1]
    BY <1>2, <2>1 DEF Segment
  <2>3. /\ Fst(M) = Fst(L) /\ Lst(M) = Lst(L)
        /\ Put2(Prv(M), Prv(L), x, c[p - 1], c[p], x)
        /\ Put2(Nxt(M), Nxt(L), x, c[p], c[p - 1], x)
    BY <1>1, <1>9, <2>1, <2>2, <2>2a, LinkFields
  <2>4. Prv(M) \in [N -> N \cup {0, -1}] /\ Nxt(M) \in [N -> N \cup {0}]
    BY <1>1, <2>2, <2>3 DEF Put, Put2
  <2>5. Prv(M)[x] = c[p - 1] /\ Nxt(M)[x] = c[p] /\ Prv(M)[c[p]] = x /\ Nxt(M)[c[p - 1]] = x
    BY <1>1, <2>2, <2>3 DEF Put, Put2
  <2>6. \A y \in N : y # x /\ y # c[p - 1] => Nxt(M)[y] = Nxt(L)[y]
    BY <1>1, <2>2, <2>3 DEF Put, Put2
  <2>7. \A y \in N : y # x /\ y # c[p] => Prv(M)[y] = Prv(L)[y]
    BY <1>1, <2>2, <2>3 DEF Put, Put2
  <2>8. InsertStep(N, n, c, x, p, Nxt(L), Prv(L), Nxt(M), Prv(M))
    BY <1>2, <1>4, <1>5, <1>9, <2>1, <2>5, <2>6, <2>7 DEF InsertStep
  <2> QED
    BY <1>9, <2>1, <2>2, <2>3, <2>4, <2>6, <2>7, <2>8 DEF LinkStep, N
<1> QED
  BY <1>6, <1>7, <1>8, <1>9

(* Link moves the one node held out of the shape into the chain.           *)
THEOREM LinkShape ==
  ASSUME NEW cap, NEW E, NEW L, IsRep(L, cap, E), NEW n, NEW m,
         NEW c, NEW f, NEW x, Shape(L, cap, c, n, f, m, {x}), Lng(L) = 0 <=> n = 0,
         NEW before, NEW p, IsPlace(c, n, before, p),
         NEW M, M = Link(L, before, x)
  PROVE  /\ IsRep(M, cap, E)
         /\ Lng(M) = Lng(L) /\ Elm(M) = Elm(L) /\ Fre(M) = Fre(L)
         /\ Shape(M, cap, InsertAt(c, n, p, x), n + 1, f, m, {})
         /\ Values(InsertAt(c, n, p, x), n + 1) = Values(c, n) \cup {x}
<1> DEFINE d == InsertAt(c, n, p, x)
           N == Node(cap)
<1> cap \in Nat /\ n \in Nat /\ m \in Nat /\ p \in 1..(n + 1)
  BY DEF IsRep, Shape, Active, Store, IsPlace
<1>1. /\ x \in N /\ x \notin Values(c, n) /\ x \notin Values(f, m)
      /\ Active(L, N, c, n) /\ Store(L, cap, f, m)
  BY DEF Shape
<1>2. LinkStep(L, M, N, c, n, p, x)
  BY <1>1, LinkLinks
<1>3. /\ DOMAIN M = Fields
      /\ Cap(M) = Cap(L) /\ Lng(M) = Lng(L) /\ Fre(M) = Fre(L) /\ Elm(M) = Elm(L)
  BY LinkFields DEF IsRep
<1>4. IsRep(M, cap, E)
  <2>1. Fst(M) \in N \cup {0} /\ Lst(M) \in N \cup {0}
    BY <1>1, <1>2 DEF IsRep, LinkStep
  <2> QED
    BY <1>2, <1>3, <2>1 DEF IsRep, LinkStep
<1>5. c \in [1..n -> N] /\ Segment(Nxt(L), Prv(L), c, n)
  BY <1>1 DEF Active
<1>6. InsertStep(N, n, c, x, p, Nxt(L), Prv(L), Nxt(M), Prv(M))
  BY <1>2 DEF LinkStep
<1>7. /\ Segment(Nxt(M), Prv(M), d, n + 1) /\ d \in [1..(n + 1) -> N]
      /\ Values(d, n + 1) = Values(c, n) \cup {x}
  BY <1>6, SegInsert
<1>8. Fst(M) = d[1] /\ Lst(M) = d[n + 1]
  <2>1. 1 \in 1..(n + 1) /\ (n + 1) \in 1..(n + 1)
    OBVIOUS
  <2>2. p = 1 => d[1] = x
    BY <2>1 DEF InsertAt
  <2>3. p # 1 => d[1] = c[1] /\ n # 0
    BY <2>1 DEF InsertAt
  <2>4. p = n + 1 => d[n + 1] = x
    BY <2>1 DEF InsertAt
  <2>5. p # n + 1 => d[n + 1] = c[n] /\ n # 0
    BY <2>1 DEF InsertAt
  <2> QED
    BY <1>1, <1>2, <2>2, <2>3, <2>4, <2>5 DEF LinkStep, Active
<1> HIDE DEF d, N
<1>9. Active(M, N, d, n + 1)
  BY <1>7, <1>8 DEF Active
<1>10. \A k \in 1..m : Prv(M)[f[k]] = Prv(L)[f[k]] /\ Nxt(M)[f[k]] = Nxt(L)[f[k]]
  <2> TAKE k \in 1..m
  <2>1. f[k] \in N /\ f[k] # x
    BY <1>1, ValuesMember DEF Store, N
  <2>2. f[k] \notin Values(c, n)
    BY <1>1, ActiveNotFree, ValuesMember DEF N
  <2> QED BY <1>2, <2>1, <2>2 DEF LinkStep
<1>11. Store(M, cap, f, m)
  BY <1>1, <1>3, <1>10, StoreFrame
<1>12. \A y \in N : y \in Values(d, n + 1) \/ y \in Values(f, m)
  BY <1>7 DEF Shape, N
<1> QED
  BY <1>3, <1>4, <1>7, <1>9, <1>11, <1>12 DEF Shape, d, N

(* What taking position p out does to the links and the ends.              *)
UnlinkStep(L, M, N, c, n, p) ==
  /\ Prv(M) \in [N -> N \cup {0, -1}]
  /\ Nxt(M) \in [N -> N \cup {0}]
  /\ RemoveStep(N, n, c, p, Nxt(L), Prv(L), Nxt(M), Prv(M))
  /\ p = 1 => Fst(M) = c[2]
  /\ p # 1 => Fst(M) = c[1]
  /\ p = n => Lst(M) = c[n - 1]
  /\ p # n => Lst(M) = c[n]
  /\ \A y \in N : y \notin Values(c, n) => Prv(M)[y] = Prv(L)[y] /\ Nxt(M)[y] = Nxt(L)[y]

(* Unlink does that, in a list of two nodes or more.                       *)
LEMMA UnlinkLinks ==
  ASSUME NEW cap, NEW E, NEW L, IsRep(L, cap, E), NEW n, NEW c,
         Active(L, Node(cap), c, n), n > 1, NEW p, p \in 1..n,
         NEW M, M = Unlink(L, c[p])
  PROVE  UnlinkStep(L, M, Node(cap), c, n, p)
<1> DEFINE N == Node(cap)
<1> cap \in Nat /\ n \in Nat /\ p \in 1..n
  BY DEF IsRep, Active
<1>1. /\ DOMAIN L = Fields
      /\ Prv(L) \in [N -> N \cup {0, -1}] /\ Nxt(L) \in [N -> N \cup {0}]
  BY DEF IsRep
<1>2. c \in [1..n -> N] /\ Segment(Nxt(L), Prv(L), c, n)
  BY DEF Active
<1>4. \A i \in 1..n : c[i] \in N /\ c[i] \in Values(c, n)
  BY <1>2, ValuesMember
<1>5. \A i, j \in 1..n : i # j => c[i] # c[j]
  BY <1>2 DEF Segment
<1>5a. 1 \in 1..n /\ n \in 1..n /\ n # 0 /\ Fst(L) = c[1] /\ Lst(L) = c[n]
  BY DEF Active
<1>5b. Nxt(L)[c[p]] = IF p = n THEN 0 ELSE c[p + 1]
  BY <1>2 DEF Segment
<1>5c. Prv(L)[c[p]] = IF p = 1 THEN 0 ELSE c[p - 1]
  BY <1>2 DEF Segment
<1> HIDE DEF N
<1>6. CASE p = 1
  <2>1. c[p] = Fst(L) /\ 2 \in 1..n /\ p # n /\ p + 1 = 2 /\ c[2] \in N /\ c[2] \in Values(c, n)
    BY <1>4, <1>5a, <1>6
  <2>2. Nxt(L)[c[p]] = c[2]
    BY <1>5b, <2>1
  <2>3. /\ Fst(M) = c[2] /\ Lst(M) = c[n]
        /\ Put(Prv(M), Prv(L), c[2], 0) /\ Nxt(M) = Nxt(L)
    BY <1>1, <1>5a, <2>1, <2>2, UnlinkFields
  <2>4. Prv(M) \in [N -> N \cup {0, -1}] /\ Nxt(M) \in [N -> N \cup {0}]
    BY <1>1, <2>1, <2>3 DEF Put
  <2>5. Prv(M)[c[2]] = 0 /\ \A y \in N : y # c[2] => Prv(M)[y] = Prv(L)[y]
    BY <1>1, <2>1, <2>3 DEF Put
  <2>6. RemoveStep(N, n, c, p, Nxt(L), Prv(L), Nxt(M), Prv(M))
    BY <1>2, <1>4, <1>5, <1>6, <2>1, <2>3, <2>5 DEF RemoveStep
  <2> QED
    BY <1>6, <2>1, <2>3, <2>4, <2>5, <2>6 DEF UnlinkStep, N
<1>7. CASE p # 1 /\ p = n
  <2>1. /\ c[p] # Fst(L) /\ c[p] = Lst(L) /\ n - 1 \in 1..n /\ p - 1 = n - 1
        /\ c[n - 1] \in N /\ c[n - 1] \in Values(c, n)
    BY <1>4, <1>5, <1>5a, <1>7
  <2>2. Prv(L)[c[p]] = c[n - 1]
    BY <1>5c, <1>7, <2>1
  <2>3. /\ Fst(M) = c[1] /\ Lst(M) = c[n - 1]
        /\ Put(Nxt(M), Nxt(L), c[n - 1], 0) /\ Prv(M) = Prv(L)
    BY <1>1, <1>5a, <2>1, <2>2, UnlinkFields
  <2>4. Prv(M) \in [N -> N \cup {0, -1}] /\ Nxt(M) \in [N -> N \cup {0}]
    BY <1>1, <2>1, <2>3 DEF Put
  <2>5. Nxt(M)[c[n - 1]] = 0 /\ \A y \in N : y # c[n - 1] => Nxt(M)[y] = Nxt(L)[y]
    BY <1>1, <2>1, <2>3 DEF Put
  <2>6. RemoveStep(N, n, c, p, Nxt(L), Prv(L), Nxt(M), Prv(M))
    BY <1>2, <1>4, <1>5, <1>7, <2>1, <2>3, <2>5 DEF RemoveStep
  <2> QED
    BY <1>7, <2>1, <2>3, <2>4, <2>5, <2>6 DEF UnlinkStep, N
<1>8. CASE p # 1 /\ p # n
  <2>1. /\ c[p] # Fst(L) /\ c[p] # Lst(L) /\ p - 1 \in 1..n /\ p + 1 \in 1..n
        /\ c[p - 1] \in N /\ c[p - 1] \in Values(c, n)
        /\ c[p + 1] \in N /\ c[p + 1] \in Values(c, n)
    BY <1>4, <1>5, <1>5a, <1>8
  <2>2. Prv(L)[c[p]] = c[p - 1] /\ Nxt(L)[c[p]] = c[p + 1]
    BY <1>5b, <1>5c, <1>8
  <2>3. /\ Fst(M) = c[1] /\ Lst(M) = c[n]
        /\ Put(Prv(M), Prv(L), c[p + 1], c[p - 1]) /\ Put(Nxt(M), Nxt(L), c[p - 1], c[p + 1])
    BY <1>1, <1>5a, <2>1, <2>2, UnlinkFields
  <2>4. Prv(M) \in [N -> N \cup {0, -1}] /\ Nxt(M) \in [N -> N \cup {0}]
    BY <1>1, <2>1, <2>3 DEF Put
  <2>5. /\ Nxt(M)[c[p - 1]] = c[p + 1] /\ Prv(M)[c[p + 1]] = c[p - 1]
        /\ \A y \in N : y # c[p - 1] => Nxt(M)[y] = Nxt(L)[y]
        /\ \A y \in N : y # c[p + 1] => Prv(M)[y] = Prv(L)[y]
    BY <1>1, <2>1, <2>3 DEF Put
  <2>6. RemoveStep(N, n, c, p, Nxt(L), Prv(L), Nxt(M), Prv(M))
    BY <1>2, <1>4, <1>5, <1>8, <2>1, <2>5 DEF RemoveStep
  <2> QED
    BY <1>8, <2>1, <2>3, <2>4, <2>5, <2>6 DEF UnlinkStep, N
<1> QED
  BY <1>6, <1>7, <1>8

(* M is L after node x, at position p, was taken out.                      *)
Unlinked(L, M, c, n, p, x) ==
  n > 1 /\ p \in 1..n /\ x = c[p] /\ M = Unlink(L, x)

(* Unlink moves the node from the chain into the hand.                     *)
THEOREM UnlinkShape ==
  ASSUME NEW cap, NEW E, NEW L, IsRep(L, cap, E), NEW n, NEW m,
         NEW c, NEW f, Shape(L, cap, c, n, f, m, {}),
         NEW p, NEW x, NEW M, Unlinked(L, M, c, n, p, x), NEW out, out = {x}
  PROVE  /\ IsRep(M, cap, E)
         /\ Lng(M) = Lng(L) /\ Elm(M) = Elm(L) /\ Fre(M) = Fre(L)
         /\ Fst(M) = IF p = 1 THEN c[2] ELSE c[1]
         /\ Shape(M, cap, RemoveAt(c, n, p), n - 1, f, m, out)
         /\ Values(RemoveAt(c, n, p), n - 1) = Values(c, n) \ out
<1> DEFINE d == RemoveAt(c, n, p)
           N == Node(cap)
<1> cap \in Nat /\ n \in Nat /\ m \in Nat /\ p \in 1..n
  BY DEF IsRep, Shape, Active, Store, Unlinked
<1> n > 1 /\ M = Unlink(L, c[p]) /\ out = {c[p]}
  BY DEF Unlinked
<1>1. Active(L, N, c, n) /\ Store(L, cap, f, m)
  BY DEF Shape
<1>2. UnlinkStep(L, M, N, c, n, p)
  BY <1>1, UnlinkLinks
<1>3. /\ DOMAIN M = Fields
      /\ Cap(M) = Cap(L) /\ Lng(M) = Lng(L) /\ Fre(M) = Fre(L) /\ Elm(M) = Elm(L)
  BY UnlinkFields DEF IsRep
<1>4. /\ c \in [1..n -> N] /\ Segment(Nxt(L), Prv(L), c, n)
      /\ c[1] \in N /\ c[2] \in N /\ c[n - 1] \in N /\ c[n] \in N /\ c[p] \in N
  BY <1>1 DEF Active
<1>5. IsRep(M, cap, E)
  <2>1. Fst(M) \in N \cup {0} /\ Lst(M) \in N \cup {0}
    BY <1>2, <1>4 DEF UnlinkStep
  <2> QED
    BY <1>2, <1>3, <2>1 DEF IsRep, UnlinkStep
<1>6. RemoveStep(N, n, c, p, Nxt(L), Prv(L), Nxt(M), Prv(M))
  BY <1>2 DEF UnlinkStep
<1>7. /\ Segment(Nxt(M), Prv(M), d, n - 1) /\ d \in [1..(n - 1) -> N]
      /\ Values(d, n - 1) = Values(c, n) \ {c[p]}
  BY <1>6, SegRemove
<1>8. Fst(M) = d[1] /\ Lst(M) = d[n - 1] /\ n - 1 # 0 /\ n - 1 \in Nat
  <2>1. 1 \in 1..(n - 1) /\ (n - 1) \in 1..(n - 1)
    OBVIOUS
  <2>2. d[1] = IF 1 < p THEN c[1] ELSE c[2]
    BY <2>1 DEF RemoveAt
  <2>3. d[n - 1] = IF n - 1 < p THEN c[n - 1] ELSE c[(n - 1) + 1]
    BY <2>1 DEF RemoveAt
  <2>4. (1 < p <=> p # 1) /\ (n - 1 < p <=> p = n) /\ (n - 1) + 1 = n
    OBVIOUS
  <2> QED
    BY <1>2, <2>2, <2>3, <2>4 DEF UnlinkStep
<1>8a. Fst(M) = IF p = 1 THEN c[2] ELSE c[1]
  BY <1>2 DEF UnlinkStep
<1> HIDE DEF d, N
<1>9. Active(M, N, d, n - 1)
  BY <1>7, <1>8 DEF Active
<1>10. \A k \in 1..m : Prv(M)[f[k]] = Prv(L)[f[k]] /\ Nxt(M)[f[k]] = Nxt(L)[f[k]]
  <2> TAKE k \in 1..m
  <2>1. f[k] \in N
    BY <1>1 DEF Store, N
  <2>2. f[k] \notin Values(c, n)
    BY <1>1, ActiveNotFree, ValuesMember DEF N
  <2> QED BY <1>2, <2>1, <2>2 DEF UnlinkStep
<1>11. Store(M, cap, f, m)
  BY <1>1, <1>3, <1>10, StoreFrame
<1>12. \A y \in N : y \in Values(d, n - 1) \/ y \in Values(f, m) \/ y \in {c[p]}
  BY <1>7 DEF Shape, N
<1>13. c[p] \notin Values(f, m)
  BY <1>1, ActiveNotFree, ValuesMember DEF N
<1> QED
  BY <1>3, <1>4, <1>5, <1>7, <1>8a, <1>9, <1>11, <1>12, <1>13 DEF Shape, d, N

(* The elements of a store without its first.                              *)
LEMMA RestMembers ==
  ASSUME NEW f, NEW m, m \in Nat, m > 0, NEW T, f \in [1..m -> T]
  PROVE  /\ Rest(f, m) \in [1..(m - 1) -> T]
         /\ \A k \in 1..(m - 1) : k + 1 \in 1..m /\ Rest(f, m)[k] = f[k + 1]
         /\ 1 \in 1..m
BY DEF Rest

(* Taking the first node takes exactly that node.                          *)
LEMMA RestValues ==
  ASSUME NEW f, NEW m, m \in Nat, m > 0, NEW T, f \in [1..m -> T],
         \A i, j \in 1..m : i # j => f[i] # f[j]
  PROVE  /\ \A v : v \in Values(f, m) <=> v \in Values(Rest(f, m), m - 1) \/ v = f[1]
         /\ f[1] \notin Values(Rest(f, m), m - 1)
<1>1. /\ \A k \in 1..(m - 1) : k + 1 \in 1..m /\ Rest(f, m)[k] = f[k + 1]
      /\ 1 \in 1..m
  BY RestMembers
<1>2. \A k \in 1..m : k = 1 \/ (k - 1 \in 1..(m - 1) /\ f[k] = Rest(f, m)[k - 1])
  BY <1>1
<1>3. ASSUME NEW v, v \in Values(f, m)
      PROVE  v \in Values(Rest(f, m), m - 1) \/ v = f[1]
  BY <1>2, <1>3 DEF Values
<1>4. ASSUME NEW v, v \in Values(Rest(f, m), m - 1) \/ v = f[1]
      PROVE  v \in Values(f, m)
  BY <1>1, <1>4 DEF Values
<1>5. f[1] \notin Values(Rest(f, m), m - 1)
  BY <1>1 DEF Values
<1> QED
  BY <1>3, <1>4, <1>5

(* Allocate hands out the first node of the store and writes the element   *)
(* into it.                                                                *)
THEOREM AllocateShape ==
  ASSUME NEW cap, NEW E, NEW L, IsRep(L, cap, E), NEW n, NEW m, NEW c, NEW f,
         Shape(L, cap, c, n, f, m, {}), m > 0, NEW e, e \in E,
         NEW a, NEW M, a = Allocate(L, e).node, M = Allocate(L, e).list
  PROVE  /\ a = f[1] /\ a \in Node(cap)
         /\ IsRep(M, cap, E)
         /\ Lng(M) = Lng(L) /\ Fst(M) = Fst(L) /\ Lst(M) = Lst(L)
         /\ Shape(M, cap, c, n, Rest(f, m), m - 1, {a})
<1> DEFINE N == Node(cap)
           g == Rest(f, m)
<1> cap \in Nat /\ n \in Nat /\ m \in Nat
  BY DEF IsRep, Shape, Active, Store
<1>1. Active(L, N, c, n) /\ Store(L, cap, f, m)
  BY DEF Shape
<1>2. /\ f \in [1..m -> N] /\ \A i, j \in 1..m : i # j => f[i] # f[j]
  BY <1>1 DEF Store
<1>3. 1 \in 1..m /\ f[1] \in N
  BY <1>2
<1>4. Fre(L) \in Int /\ Cap(L) = cap /\ DOMAIN L = Fields /\ Elm(L) \in [N -> E]
  BY DEF IsRep
<1>5. /\ DOMAIN M = Fields
      /\ Cap(M) = Cap(L) /\ Lng(M) = Lng(L) /\ Prv(M) = Prv(L) /\ Nxt(M) = Nxt(L)
      /\ Fst(M) = Fst(L) /\ Lst(M) = Lst(L)
      /\ Put(Elm(M), Elm(L), a, e)
      /\ a = IF Fre(L) >= 0 THEN Fre(L) ELSE -Fre(L)
      /\ Fre(M) = IF Fre(L) >= 0 THEN Nxt(L)[a] ELSE Fre(L) - 1
  BY <1>4, AllocateFields
<1>6. /\ Fre(L) >= 0 => Chained(L, f, m)
      /\ Fre(L) < 0 => Suffix(L, cap, f, m)
  BY <1>1 DEF Store
<1>7. a = f[1]
  <2>1. CASE Fre(L) >= 0
    BY <1>5, <1>6, <2>1 DEF Chained
  <2>2. CASE Fre(L) < 0
    <3>1. f[1] = 1 - Fre(L) - 1
      BY <1>3, <1>6, <2>2 DEF Suffix
    <3> QED BY <1>4, <1>5, <2>2, <3>1
  <2> QED BY <1>4, <2>1, <2>2
<1>8. /\ g \in [1..(m - 1) -> N]
      /\ \A k \in 1..(m - 1) : k + 1 \in 1..m /\ g[k] = f[k + 1]
  BY <1>2, RestMembers
<1>9. /\ \A v : v \in Values(f, m) <=> v \in Values(g, m - 1) \/ v = f[1]
      /\ f[1] \notin Values(g, m - 1)
  BY <1>2, RestValues
<1> HIDE DEF g, N
<1>10. /\ \A i, j \in 1..(m - 1) : i # j => g[i] # g[j]
  BY <1>2, <1>8
<1>11. \A k \in 1..(m - 1) : Prv(M)[g[k]] = -1
  BY <1>1, <1>5, <1>8 DEF Store
<1>12. ASSUME Fre(L) >= 0 PROVE Fre(M) \in 0..cap /\ Store(M, cap, g, m - 1)
  <2>1. /\ Nxt(L)[f[1]] = IF 1 = m THEN 0 ELSE f[2]
        /\ \A k \in 1..(m - 1) : Nxt(L)[f[k + 1]] = IF k + 1 = m THEN 0 ELSE f[(k + 1) + 1]
    BY <1>3, <1>6, <1>8, <1>12 DEF Chained
  <2>2. Fre(M) = IF m - 1 = 0 THEN 0 ELSE g[1]
    <3>1. m # 1 => 1 \in 1..(m - 1) /\ g[1] = f[2]
      BY <1>8
    <3>2. m = 1 <=> m - 1 = 0
      OBVIOUS
    <3> QED BY <1>5, <1>7, <1>12, <2>1, <3>1, <3>2
  <2>3. \A k \in 1..(m - 1) : Nxt(M)[g[k]] = IF k = m - 1 THEN 0 ELSE g[k + 1]
    <3> TAKE k \in 1..(m - 1)
    <3>1. k # m - 1 => k + 1 \in 1..(m - 1) /\ g[k + 1] = f[(k + 1) + 1]
      BY <1>8
    <3> QED BY <1>5, <1>8, <2>1, <3>1
  <2>4. Chained(M, g, m - 1)
    BY <2>2, <2>3 DEF Chained
  <2>5. Fre(M) \in N \cup {0}
    <3>1. m - 1 # 0 => 1 \in 1..(m - 1)
      OBVIOUS
    <3> QED BY <1>8, <2>2, <3>1
  <2>6. Fre(M) \in 0..cap
    BY <2>5 DEF N, Node
  <2>7. Store(M, cap, g, m - 1)
    BY <1>8, <1>10, <1>11, <2>4, <2>6 DEF Store, N
  <2> QED
    BY <2>6, <2>7
<1>13. ASSUME Fre(L) < 0 PROVE Fre(M) \in -(cap + 1)..cap /\ Store(M, cap, g, m - 1)
  <2>1. m = cap + Fre(L) + 1 /\ \A k \in 1..m : f[k] = k - Fre(L) - 1
    BY <1>6, <1>13 DEF Suffix
  <2>2. Fre(M) = Fre(L) - 1
    BY <1>4, <1>5, <1>13
  <2>3. \A k \in 1..(m - 1) : g[k] = k - Fre(M) - 1
    BY <1>4, <1>8, <2>1, <2>2
  <2>4. m - 1 = cap + Fre(M) + 1 /\ Fre(M) \in -(cap + 1)..cap /\ Fre(M) < 0
    BY <1>4, <1>13, <2>1, <2>2
  <2>5. Suffix(M, cap, g, m - 1)
    BY <2>3, <2>4 DEF Suffix
  <2>7. Store(M, cap, g, m - 1)
    BY <1>8, <1>10, <1>11, <2>4, <2>5 DEF Store, N
  <2> QED
    BY <2>4, <2>7
<1>14. Fre(M) \in -(cap + 1)..cap /\ Store(M, cap, g, m - 1)
  <2>1. 0..cap \subseteq -(cap + 1)..cap
    OBVIOUS
  <2> QED BY <1>4, <1>12, <1>13, <2>1
<1>15. IsRep(M, cap, E)
  <2>1. Elm(M) \in [N -> E]
    BY <1>3, <1>4, <1>5, <1>7 DEF Put
  <2> QED BY <1>5, <1>14, <2>1 DEF IsRep, N
<1>16. Active(M, N, c, n)
  BY <1>1, <1>5 DEF Active
<1>17. f[1] \notin Values(c, n)
  BY <1>1, <1>3, ActiveNotFree, ValuesMember DEF N
<1>18. \A y \in N : y \in Values(c, n) \/ y \in Values(g, m - 1) \/ y \in {a}
  BY <1>7, <1>9 DEF Shape, N
<1> QED
  BY <1>3, <1>5, <1>7, <1>9, <1>14, <1>15, <1>16, <1>17, <1>18 DEF Shape, g, N

(* f is a sequence of m elements of T (the SMT backend needs m as a        *)
(* parameter).                                                             *)
ListOf(T, f, m) == m \in Nat /\ f \in [1..m -> T]

(* Putting a new node at the head of a store adds exactly that node.       *)
LEMMA ConsValues ==
  ASSUME NEW T, NEW f, NEW m, NEW x, ListOf(T, f, m), m \in Nat, x \in T,
         \A i, j \in 1..m : i # j => f[i] # f[j], x \notin Values(f, m)
  PROVE  /\ \A v : v \in Values(Cons(x, f, m), m + 1) <=> v \in Values(f, m) \/ v = x
         /\ \A i, j \in 1..(m + 1) : i # j => Cons(x, f, m)[i] # Cons(x, f, m)[j]
<1> DEFINE g == Cons(x, f, m)
<1> m \in Nat /\ f \in [1..m -> T]
  BY DEF ListOf
<1>1. /\ g[1] = x
      /\ \A k \in 1..m : k + 1 \in 1..(m + 1) /\ g[k + 1] = f[k]
      /\ \A k \in 1..(m + 1) : k # 1 => k - 1 \in 1..m /\ g[k] = f[k - 1]
  BY DEF Cons
<1> HIDE DEF g
<1>2. \A k \in 1..m : f[k] # x
  BY ValuesMember
<1>3. \A i, j \in 1..(m + 1) : i # j => g[i] # g[j]
  BY <1>1, <1>2
<1>4. ASSUME NEW v, v \in Values(g, m + 1) PROVE v \in Values(f, m) \/ v = x
  BY <1>1, <1>4 DEF Values
<1>5. ASSUME NEW v, v \in Values(f, m) \/ v = x PROVE v \in Values(g, m + 1)
  <2>1. 1 \in 1..(m + 1)
    OBVIOUS
  <2> QED BY <1>1, <1>5, <2>1 DEF Values
<1> QED
  BY <1>3, <1>4, <1>5 DEF g

(* Linking the unused end of the array links the store in its order and    *)
(* touches no active node.                                                 *)
LEMMA ChainingValues ==
  ASSUME NEW cap, NEW E, NEW L, IsRep(L, cap, E), NEW f, NEW m, Store(L, cap, f, m), Fre(L) < 0
  PROVE  /\ Chaining(L) \in [Node(cap) -> Node(cap) \cup {0}]
         /\ \A y \in Node(cap) : y \notin Values(f, m) => Chaining(L)[y] = Nxt(L)[y]
         /\ \A k \in 1..m : Chaining(L)[f[k]] = IF k = m THEN 0 ELSE f[k + 1]
<1> DEFINE h == Chaining(L)
<1>1. /\ cap \in Nat /\ Fre(L) \in -(cap + 1)..cap /\ Cap(L) = cap
      /\ Nxt(L) \in [Node(cap) -> Node(cap) \cup {0}] /\ DOMAIN Prv(L) = Node(cap)
  BY DEF IsRep
<1>2. /\ m \in Nat /\ f \in [1..m -> Node(cap)]
      /\ m = cap + Fre(L) + 1 /\ \A k \in 1..m : f[k] = k - Fre(L) - 1
  BY DEF Store, Suffix
<1> cap \in Nat /\ m \in Nat /\ Fre(L) \in Int
  BY <1>1, <1>2
<1>3. h = [y \in Node(cap) |-> IF y \in -Fre(L)..(cap - 1) THEN y + 1
                               ELSE IF y = cap /\ y >= -Fre(L) THEN 0 ELSE Nxt(L)[y]]
  BY <1>1 DEF Chaining
<1> HIDE DEF h
<1>4. \A y \in Node(cap) : h[y] = IF y \in -Fre(L)..(cap - 1) THEN y + 1
                                  ELSE IF y = cap /\ y >= -Fre(L) THEN 0 ELSE Nxt(L)[y]
  BY <1>3
<1>5. ASSUME NEW y \in Node(cap) PROVE h[y] \in Node(cap) \cup {0}
  <2>1. y \in -Fre(L)..(cap - 1) => y + 1 \in Node(cap)
    BY DEF Node
  <2>2. Nxt(L)[y] \in Node(cap) \cup {0}
    BY <1>1
  <2> QED BY <1>4, <2>1, <2>2
<1>6. ASSUME NEW y \in Node(cap), y \notin Values(f, m) PROVE h[y] = Nxt(L)[y]
  <2>1. y \in Int /\ y <= cap
    BY DEF Node
  <2>2. CASE y >= -Fre(L)
    <3>1. y + Fre(L) + 1 \in 1..m /\ y = (y + Fre(L) + 1) - Fre(L) - 1
      BY <1>2, <2>1, <2>2
    <3>2. y = f[y + Fre(L) + 1]
      BY <1>2, <3>1
    <3> QED BY <1>6, <3>1, <3>2 DEF Values
  <2>3. CASE ~(y >= -Fre(L))
    <3>1. ~(y \in -Fre(L)..(cap - 1))
      BY <2>1, <2>3
    <3> QED BY <1>4, <2>3, <3>1
  <2> QED BY <2>2, <2>3
<1>7. ASSUME NEW k \in 1..m PROVE h[f[k]] = IF k = m THEN 0 ELSE f[k + 1]
  <2>1. f[k] \in Node(cap) /\ f[k] = k - Fre(L) - 1 /\ k - Fre(L) - 1 >= -Fre(L)
    BY <1>2
  <2>2. CASE k = m
    <3>1. f[k] = cap /\ ~(cap \in -Fre(L)..(cap - 1)) /\ cap >= -Fre(L)
      BY <1>2, <2>1, <2>2
    <3>2. h[cap] = 0
      BY <1>4, <2>1, <3>1
    <3> QED BY <2>2, <3>1, <3>2
  <2>3. CASE k # m
    <3>1. k + 1 \in 1..m /\ f[k + 1] = f[k] + 1
      BY <1>2, <2>1, <2>3
    <3>2. f[k] \in -Fre(L)..(cap - 1)
      BY <1>2, <2>1, <2>3
    <3>3. h[f[k]] = f[k] + 1
      BY <1>4, <2>1, <3>2
    <3> QED BY <2>3, <3>1, <3>3
  <2> QED BY <2>2, <2>3
<1>8. h \in [Node(cap) -> Node(cap) \cup {0}]
  BY <1>3, <1>5
<1> QED
  BY <1>6, <1>7, <1>8 DEF h

(* What freeing x does to Free and Next: x is the head of the store.       *)
FreeStep(L, M, cap, f, m, x) ==
  /\ Fre(M) \in -(cap + 1)..cap
  /\ Nxt(M) \in [Node(cap) -> Node(cap) \cup {0}]
  /\ \A y \in Node(cap) : y # x /\ y \notin Values(f, m) => Nxt(M)[y] = Nxt(L)[y]
  /\ Fre(M) >= 0 => Chained(M, Cons(x, f, m), m + 1)
  /\ Fre(M) < 0 => Suffix(M, cap, Cons(x, f, m), m + 1)

(* A linked store with one more node at its head.                          *)
LEMMA ConsChained ==
  ASSUME NEW M, NEW T, NEW f, NEW m, NEW x, ListOf(T, f, m), m \in Nat, x \in T,
         Fre(M) = x, Nxt(M)[x] = IF m = 0 THEN 0 ELSE f[1],
         \A k \in 1..m : Nxt(M)[f[k]] = IF k = m THEN 0 ELSE f[k + 1]
  PROVE  Chained(M, Cons(x, f, m), m + 1)
<1> DEFINE g == Cons(x, f, m)
<1> m \in Nat /\ f \in [1..m -> T]
  BY DEF ListOf
<1>1. /\ g[1] = x
      /\ \A k \in 1..m : k + 1 \in 1..(m + 1) /\ g[k + 1] = f[k]
      /\ \A k \in 1..(m + 1) : k # 1 => k - 1 \in 1..m /\ g[k] = f[k - 1]
  BY DEF Cons
<1> HIDE DEF g
<1>2. ASSUME NEW k \in 1..(m + 1)
      PROVE  Nxt(M)[g[k]] = IF k = m + 1 THEN 0 ELSE g[k + 1]
  <2>1. CASE k = 1
    <3>1. k # m + 1 => 1 \in 1..m /\ g[k + 1] = f[1] /\ m # 0
      BY <1>1, <2>1
    <3> QED BY <1>1, <2>1, <3>1
  <2>2. CASE k # 1
    <3>1. k - 1 \in 1..m /\ g[k] = f[k - 1] /\ (k - 1 = m <=> k = m + 1) /\ (k - 1) + 1 = k
      BY <1>1, <2>2
    <3>2. k # m + 1 => g[k + 1] = f[k]
      BY <1>1, <2>2
    <3>3. Nxt(M)[f[k - 1]] = IF k - 1 = m THEN 0 ELSE f[(k - 1) + 1]
      BY <3>1
    <3> QED BY <3>1, <3>2, <3>3
  <2> QED BY <2>1, <2>2
<1>3. m + 1 # 0
  OBVIOUS
<1> QED
  BY <1>1, <1>2, <1>3 DEF Chained, g

(* Free does that in all three of its cases.                               *)
LEMMA FreeLinks ==
  ASSUME NEW cap, NEW E, NEW L, IsRep(L, cap, E), NEW f, NEW m, Store(L, cap, f, m),
         NEW x, x \in Node(cap), x \notin Values(f, m), NEW M, M = Free(L, x)
  PROVE  FreeStep(L, M, cap, f, m, x)
<1> DEFINE N == Node(cap)
<1>1. /\ cap \in Nat /\ m \in Nat /\ x \in N /\ Fre(L) \in -(cap + 1)..cap /\ Fre(L) \in Int
      /\ x \in 1..cap
  BY DEF IsRep, Store, Node
<1>2. /\ Cap(L) = cap /\ DOMAIN L = Fields /\ Nxt(L) \in [N -> N \cup {0}]
      /\ f \in [1..m -> N] /\ ListOf(N, f, m)
  BY DEF IsRep, Store, ListOf
<1>3. /\ Fre(L) >= 0 => Chained(L, f, m)
      /\ Fre(L) < 0 => Suffix(L, cap, f, m)
  BY DEF Store
<1>4. \A k \in 1..m : f[k] \in N /\ f[k] # x
  BY <1>2 DEF Values
<1>5. /\ Fre(L) >= 0 => Fre(M) = x /\ Put(Nxt(M), Nxt(L), x, Fre(L))
      /\ ~(Fre(L) >= 0) /\ x + 1 = -Fre(L) => Fre(M) = Fre(L) + 1 /\ Put(Nxt(M), Nxt(L), x, 0)
      /\ ~(Fre(L) >= 0) /\ x + 1 # -Fre(L) =>
           /\ Fre(M) = x
           /\ Put(Nxt(M), Chaining(L), x, IF -Fre(L) > Cap(L) THEN 0 ELSE -Fre(L))
  BY <1>2, FreeFields
<1>6. CASE Fre(L) >= 0
  <2>1. /\ Fre(L) = IF m = 0 THEN 0 ELSE f[1]
        /\ \A k \in 1..m : Nxt(L)[f[k]] = IF k = m THEN 0 ELSE f[k + 1]
    BY <1>3, <1>6 DEF Chained
  <2>2. Fre(M) = x /\ Put(Nxt(M), Nxt(L), x, Fre(L))
    BY <1>5, <1>6
  <2>3. Fre(L) \in N \cup {0}
    <3>1. m # 0 => 1 \in 1..m
      BY <1>1
    <3> QED BY <1>2, <2>1, <3>1
  <2> HIDE DEF N
  <2>4. Nxt(M) \in [N -> N \cup {0}]
    BY <1>1, <1>2, <2>2, <2>3 DEF Put
  <2>5. Nxt(M)[x] = Fre(L) /\ \A y \in N : y # x => Nxt(M)[y] = Nxt(L)[y]
    BY <1>1, <1>2, <2>2 DEF Put
  <2>6. \A k \in 1..m : Nxt(M)[f[k]] = IF k = m THEN 0 ELSE f[k + 1]
    BY <1>4, <2>1, <2>5
  <2>7. Chained(M, Cons(x, f, m), m + 1)
    BY <1>1, <1>2, <2>1, <2>2, <2>5, <2>6, ConsChained
  <2>8. Fre(M) \in -(cap + 1)..cap /\ ~(Fre(M) < 0)
    BY <1>1, <2>2
  <2> QED
    BY <2>4, <2>5, <2>7, <2>8 DEF FreeStep, N
<1>7. CASE ~(Fre(L) >= 0) /\ x + 1 = -Fre(L)
  <2>1. m = cap + Fre(L) + 1 /\ \A k \in 1..m : f[k] = k - Fre(L) - 1
    BY <1>1, <1>3, <1>7 DEF Suffix
  <2>2. Fre(M) = Fre(L) + 1 /\ Put(Nxt(M), Nxt(L), x, 0)
    BY <1>5, <1>7
  <2>3. Nxt(M) \in [N -> N \cup {0}] /\ \A y \in N : y # x => Nxt(M)[y] = Nxt(L)[y]
    BY <1>1, <1>2, <2>2 DEF Put
  <2>4. /\ Fre(M) \in -(cap + 1)..cap /\ ~(Fre(M) >= 0) /\ m + 1 = cap + Fre(M) + 1
        /\ x = 1 - Fre(M) - 1
    BY <1>1, <1>7, <2>1, <2>2
  <2>5. \A k \in 1..(m + 1) : Cons(x, f, m)[k] = k - Fre(M) - 1
    <3> TAKE k \in 1..(m + 1)
    <3>1. Cons(x, f, m)[1] = x /\ (k # 1 => k - 1 \in 1..m /\ Cons(x, f, m)[k] = f[k - 1])
      BY <1>1, <1>2 DEF Cons
    <3>2. CASE k = 1
      BY <2>4, <3>1, <3>2
    <3>3. CASE k # 1
      <4>1. f[k - 1] = (k - 1) - Fre(L) - 1
        BY <2>1, <3>1, <3>3
      <4> QED BY <1>1, <2>2, <3>1, <3>3, <4>1
    <3> QED BY <3>2, <3>3
  <2>6. Suffix(M, cap, Cons(x, f, m), m + 1)
    BY <2>4, <2>5 DEF Suffix
  <2> QED
    BY <2>3, <2>4, <2>6 DEF FreeStep
<1>8. CASE ~(Fre(L) >= 0) /\ x + 1 # -Fre(L)
  <2>1. m = cap + Fre(L) + 1 /\ \A k \in 1..m : f[k] = k - Fre(L) - 1
    BY <1>1, <1>3, <1>8 DEF Suffix
  <2>2. Fre(L) < 0
    BY <1>1, <1>8
  <2>3. /\ Chaining(L) \in [N -> N \cup {0}]
        /\ \A y \in N : y \notin Values(f, m) => Chaining(L)[y] = Nxt(L)[y]
        /\ \A k \in 1..m : Chaining(L)[f[k]] = IF k = m THEN 0 ELSE f[k + 1]
    BY <2>2, ChainingValues
  <2>4. (IF -Fre(L) > Cap(L) THEN 0 ELSE -Fre(L)) = (IF m = 0 THEN 0 ELSE f[1])
    <3>1. -Fre(L) > Cap(L) <=> m = 0
      BY <1>1, <1>2, <2>1
    <3>2. m # 0 => f[1] = -Fre(L)
      BY <1>1, <2>1
    <3> QED BY <3>1, <3>2
  <2>5. Fre(M) = x /\ Put(Nxt(M), Chaining(L), x, IF m = 0 THEN 0 ELSE f[1])
    BY <1>5, <1>8, <2>4
  <2>6. (IF m = 0 THEN 0 ELSE f[1]) \in N \cup {0}
    BY <1>1, <1>2
  <2> HIDE DEF N
  <2>7. Nxt(M) \in [N -> N \cup {0}]
    BY <1>1, <2>3, <2>5, <2>6 DEF Put
  <2>8. /\ Nxt(M)[x] = IF m = 0 THEN 0 ELSE f[1]
        /\ \A y \in N : y # x => Nxt(M)[y] = Chaining(L)[y]
    BY <1>1, <2>3, <2>5 DEF Put
  <2>9. \A k \in 1..m : Nxt(M)[f[k]] = IF k = m THEN 0 ELSE f[k + 1]
    BY <1>4, <2>3, <2>8
  <2>10. Chained(M, Cons(x, f, m), m + 1)
    BY <1>1, <1>2, <2>5, <2>8, <2>9, ConsChained
  <2>11. Fre(M) \in -(cap + 1)..cap /\ ~(Fre(M) < 0)
    BY <1>1, <2>5
  <2> QED
    BY <2>3, <2>7, <2>8, <2>10, <2>11 DEF FreeStep, N
<1> QED
  BY <1>6, <1>7, <1>8

(* M is L after x, one of the nodes of out, was freed.                     *)
Freed(L, M, x, out, rest) ==
  x \in out /\ M = Free(L, x) /\ rest = out \ {x}

(* Free moves one of the nodes held out of the shape into the store.       *)
LEMMA FreeOneOf ==
  ASSUME NEW cap, NEW E, NEW L, IsRep(L, cap, E), NEW n, NEW m, NEW c, NEW f, NEW out,
         Shape(L, cap, c, n, f, m, out), NEW x, NEW M, NEW rest, Freed(L, M, x, out, rest)
  PROVE  /\ IsRep(M, cap, E)
         /\ Lng(M) = Lng(L) /\ Fst(M) = Fst(L) /\ Lst(M) = Lst(L) /\ Elm(M) = Elm(L)
         /\ Shape(M, cap, c, n, Cons(x, f, m), m + 1, rest)
<1> DEFINE N == Node(cap)
           g == Cons(x, f, m)
<1> cap \in Nat /\ n \in Nat /\ m \in Nat
  BY DEF IsRep, Shape, Active, Store
<1>0. x \in out /\ M = Free(L, x) /\ rest = out \ {x}
  BY DEF Freed
<1>1. /\ Active(L, N, c, n) /\ Store(L, cap, f, m)
      /\ x \in N /\ x \notin Values(c, n) /\ x \notin Values(f, m)
  BY <1>0 DEF Shape
<1>2. FreeStep(L, M, cap, f, m, x)
  BY <1>0, <1>1, FreeLinks
<1>3. /\ DOMAIN M = Fields
      /\ Cap(M) = Cap(L) /\ Lng(M) = Lng(L) /\ Elm(M) = Elm(L)
      /\ Fst(M) = Fst(L) /\ Lst(M) = Lst(L)
      /\ Put(Prv(M), Prv(L), x, -1)
  BY <1>0, FreeFields DEF IsRep
<1>4. Prv(L) \in [N -> N \cup {0, -1}]
  BY DEF IsRep
<1>5. Prv(M) \in [N -> N \cup {0, -1}]
  BY <1>1, <1>3, <1>4 DEF Put
<1>6. Prv(M)[x] = -1 /\ \A y \in N : y # x => Prv(M)[y] = Prv(L)[y]
  BY <1>1, <1>3, <1>4 DEF Put
<1>7. IsRep(M, cap, E)
  BY <1>2, <1>3, <1>5 DEF IsRep, FreeStep
<1>8. /\ f \in [1..m -> N] /\ ListOf(N, f, m)
      /\ \A i, j \in 1..m : i # j => f[i] # f[j]
  BY <1>1 DEF Store, ListOf
<1>9. /\ g \in [1..(m + 1) -> N] /\ g[1] = x
      /\ \A k \in 1..(m + 1) : k # 1 => k - 1 \in 1..m /\ g[k] = f[k - 1]
  BY <1>1, <1>8 DEF Cons
<1>10. /\ \A v : v \in Values(g, m + 1) <=> v \in Values(f, m) \/ v = x
       /\ \A i, j \in 1..(m + 1) : i # j => g[i] # g[j]
  BY <1>1, <1>8, ConsValues
<1> HIDE DEF g, N
<1>11. \A k \in 1..(m + 1) : Prv(M)[g[k]] = -1
  <2> TAKE k \in 1..(m + 1)
  <2>1. k # 1 => f[k - 1] \in N /\ f[k - 1] # x /\ Prv(L)[f[k - 1]] = -1
    BY <1>1, <1>8, <1>9, ValuesMember DEF Store
  <2> QED BY <1>6, <1>9, <2>1
<1>12. Store(M, cap, g, m + 1)
  <2>1. m + 1 \in Nat
    OBVIOUS
  <2> QED BY <1>2, <1>9, <1>10, <1>11, <2>1 DEF Store, FreeStep, g, N
<1>13. /\ c \in [1..n -> N] /\ Segment(Nxt(L), Prv(L), c, n)
  BY <1>1 DEF Active
<1>14. \A i \in 1..n : c[i] \in N /\ Nxt(M)[c[i]] = Nxt(L)[c[i]] /\ Prv(M)[c[i]] = Prv(L)[c[i]]
  <2> TAKE i \in 1..n
  <2>1. c[i] \in N /\ c[i] # x
    BY <1>1, <1>13, ValuesMember
  <2>2. c[i] \notin Values(f, m)
    BY <1>1, ActiveNotFree, ValuesMember DEF N
  <2> QED BY <1>2, <1>6, <2>1, <2>2 DEF FreeStep, N
<1>15. Segment(Nxt(M), Prv(M), c, n)
  BY <1>13, <1>14 DEF Segment
<1>16. Active(M, N, c, n)
  BY <1>1, <1>3, <1>15 DEF Active
<1>17. \A y \in N : y \in Values(c, n) \/ y \in Values(g, m + 1) \/ y \in rest
  BY <1>0, <1>10 DEF Shape, N
<1>18. rest \subseteq N /\ \A y \in rest : y \notin Values(c, n) /\ y \notin Values(g, m + 1)
  BY <1>0, <1>10 DEF Shape, N
<1> QED
  BY <1>3, <1>7, <1>12, <1>16, <1>17, <1>18 DEF Shape, g, N

(* Free, when only that node is held.                                      *)
THEOREM FreeShape ==
  ASSUME NEW cap, NEW E, NEW L, IsRep(L, cap, E), NEW n, NEW m, NEW c, NEW f, NEW x,
         Shape(L, cap, c, n, f, m, {x}), NEW M, M = Free(L, x)
  PROVE  /\ IsRep(M, cap, E)
         /\ Lng(M) = Lng(L) /\ Fst(M) = Fst(L) /\ Lst(M) = Lst(L) /\ Elm(M) = Elm(L)
         /\ Shape(M, cap, c, n, Cons(x, f, m), m + 1, {})
<1> DEFINE out == {x}
           rest == {}
<1>1. Shape(L, cap, c, n, f, m, out) /\ Freed(L, M, x, out, rest)
  BY DEF Freed
<1> HIDE DEF out, rest
<1>2. /\ IsRep(M, cap, E)
      /\ Lng(M) = Lng(L) /\ Fst(M) = Fst(L) /\ Lst(M) = Lst(L) /\ Elm(M) = Elm(L)
      /\ Shape(M, cap, c, n, Cons(x, f, m), m + 1, rest)
  BY <1>1, FreeOneOf
<1> QED BY <1>2 DEF rest

-----------------------------------------------------------------------------
(* The invariant of a list between two operations, and the operations on   *)
(* one node.                                                               *)

(* L is a list of capacity cap whose elements are in E: its Length active  *)
(* nodes form a doubly linked chain, and all the other nodes are in the    *)
(* free store.                                                             *)
Good(L, cap, E) ==
  /\ IsRep(L, cap, E)
  /\ \E c, f : Shape(L, cap, c, Lng(L), f, cap - Lng(L), {})

(* A cursor is a node that does not carry the mark of a free one.          *)
LEMMA CursorsFields ==
  ASSUME NEW cap, NEW E, NEW L, IsRep(L, cap, E)
  PROVE  \A x : x \in Cursors(L) <=> x \in Node(cap) /\ Prv(L)[x] # -1
<1>1. DOMAIN Prv(L) = Node(cap)
  BY DEF IsRep
<1> QED
  BY <1>1 DEF Cursors, Has_Element, Nodes, Prv

(* The cursors are the nodes of the chain: Has_Element by Prev agrees      *)
(* with being in the list.                                                 *)
LEMMA CursorsShape ==
  ASSUME NEW cap, NEW E, NEW L, IsRep(L, cap, E), NEW n, NEW m, NEW c, NEW f,
         Shape(L, cap, c, n, f, m, {})
  PROVE  \A x : x \in Cursors(L) <=> x \in Values(c, n)
<1> cap \in Nat
  BY DEF IsRep
<1>1. Active(L, Node(cap), c, n) /\ Store(L, cap, f, m)
  BY DEF Shape
<1>2. ASSUME NEW x, x \in Values(c, n) PROVE x \in Cursors(L)
  <2>1. PICK i \in 1..n : x = c[i]
    BY <1>2 DEF Values
  <2>2. c[i] \in Node(cap) /\ Prv(L)[c[i]] # -1
    BY <1>1, ActivePrev
  <2> QED BY <2>1, <2>2, CursorsFields
<1>3. ASSUME NEW x, x \in Cursors(L) PROVE x \in Values(c, n)
  <2>1. x \in Node(cap) /\ Prv(L)[x] # -1
    BY <1>3, CursorsFields
  <2>2. x \notin Values(f, m)
    BY <1>1, <2>1 DEF Values, Store
  <2> QED BY <2>1, <2>2 DEF Shape
<1> QED
  BY <1>2, <1>3

(* Assigning Length changes nothing else.                                  *)
LEMMA WithLength ==
  ASSUME NEW cap, NEW E, NEW L, IsRep(L, cap, E), NEW k, k \in 0..cap,
         NEW M, M = [L EXCEPT !.Length = k]
  PROVE  /\ IsRep(M, cap, E) /\ Lng(M) = k /\ Fst(M) = Fst(L) /\ Lst(M) = Lst(L)
         /\ Prv(M) = Prv(L) /\ Nxt(M) = Nxt(L) /\ Elm(M) = Elm(L) /\ Fre(M) = Fre(L)
<1>1. DOMAIN L = Fields
  BY DEF IsRep
<1>2. /\ DOMAIN M = Fields /\ Cap(M) = Cap(L) /\ Lng(M) = k /\ Fst(M) = Fst(L) /\ Lst(M) = Lst(L)
      /\ Prv(M) = Prv(L) /\ Nxt(M) = Nxt(L) /\ Elm(M) = Elm(L) /\ Fre(M) = Fre(L)
  BY <1>1 DEF Fields, Cap, Fre, Lng, Fst, Lst, Prv, Nxt, Elm
<1> QED
  BY <1>2 DEF IsRep

(* The shape depends on the ends, the links and Free only.                 *)
LEMMA ShapeFrame ==
  ASSUME NEW L, NEW cap, NEW c, NEW n, NEW f, NEW m, NEW out, Shape(L, cap, c, n, f, m, out),
         NEW M, Fst(M) = Fst(L), Lst(M) = Lst(L), Prv(M) = Prv(L), Nxt(M) = Nxt(L), Fre(M) = Fre(L)
  PROVE  Shape(M, cap, c, n, f, m, out)
<1>1. Active(M, Node(cap), c, n)
  BY DEF Shape, Active
<1>2. Store(M, cap, f, m)
  BY StoreFrame DEF Shape
<1> QED
  BY <1>1, <1>2 DEF Shape

(* Every cursor, and 0, is an insertion point.                             *)
LEMMA PlaceExists ==
  ASSUME NEW c, NEW n, n \in Nat, NEW before, before \in Values(c, n) \/ before = 0
  PROVE  \E p : IsPlace(c, n, before, p)
<1>1. CASE before = 0
  <2>1. IsPlace(c, n, before, n + 1)
    BY <1>1 DEF IsPlace
  <2> QED BY <2>1
<1>2. CASE before \in Values(c, n)
  <2>1. PICK p \in 1..n : before = c[p]
    BY <1>2 DEF Values
  <2>2. IsPlace(c, n, before, p)
    BY <2>1 DEF IsPlace
  <2> QED BY <2>2
<1> QED BY <1>1, <1>2

(* The numbers of a good list.                                             *)
LEMMA GoodNumbers ==
  ASSUME NEW L, NEW cap, NEW E, Good(L, cap, E)
  PROVE  /\ IsRep(L, cap, E) /\ cap \in Nat /\ Lng(L) \in Nat /\ Lng(L) <= cap
         /\ cap - Lng(L) \in Nat
BY DEF Good, IsRep

(* One insertion takes one new node into the list (Insert_Internal and     *)
(* its caller).                                                            *)
THEOREM GoodInsertOne ==
  ASSUME NEW L, NEW cap, NEW E, Good(L, cap, E), Lng(L) < cap,
         NEW before, before \in Cursors(L) \/ before = 0, NEW e, e \in E,
         NEW M, M = InsertOne(L, before, e)
  PROVE  /\ Good(M, cap, E)
         /\ Lng(M) = Lng(L) + 1
         /\ Allocate(L, e).node \in Node(cap)
         /\ \A x : x \in Cursors(M) <=> x \in Cursors(L) \/ x = Allocate(L, e).node
<1> DEFINE n == Lng(L)
           m == cap - Lng(L)
           a == Allocate(L, e).node
           A == Allocate(L, e).list
           K == Link(A, before, a)
<1>1. IsRep(L, cap, E) /\ cap \in Nat /\ n \in Nat /\ m \in Nat /\ m > 0
  BY GoodNumbers
<1>2. PICK c, f : Shape(L, cap, c, n, f, m, {})
  BY DEF Good
<1> HIDE DEF n, m, a, A, K
<1>3. /\ a \in Node(cap) /\ IsRep(A, cap, E) /\ Lng(A) = n
      /\ Shape(A, cap, c, n, Rest(f, m), m - 1, {a})
  BY <1>1, <1>2, AllocateShape DEF n, a, A
<1>4. \A x : x \in Cursors(L) <=> x \in Values(c, n)
  BY <1>1, <1>2, CursorsShape
<1>5. PICK p : IsPlace(c, n, before, p)
  BY <1>1, <1>4, PlaceExists
<1> DEFINE d == InsertAt(c, n, p, a)
           g == Rest(f, m)
           r == m - 1
<1> HIDE DEF d, g, r
<1>6. /\ IsRep(K, cap, E) /\ Lng(K) = n
      /\ Shape(K, cap, d, n + 1, g, r, {})
      /\ Values(d, n + 1) = Values(c, n) \cup {a}
  <2>1. Shape(A, cap, c, n, g, r, {a}) /\ (Lng(A) = 0 <=> n = 0) /\ K = Link(A, before, a)
    BY <1>3 DEF g, r, K
  <2>2. /\ IsRep(K, cap, E) /\ Lng(K) = Lng(A)
        /\ Shape(K, cap, InsertAt(c, n, p, a), n + 1, g, r, {})
        /\ Values(InsertAt(c, n, p, a), n + 1) = Values(c, n) \cup {a}
    BY <1>3, <1>5, <2>1, LinkShape
  <2> QED BY <1>3, <2>2 DEF d
<1>7. M = [K EXCEPT !.Length = n + 1]
  <2>1. M = [K EXCEPT !.Length = K.Length + 1]
    BY DEF InsertOne, Insert_Internal, K, A, a
  <2> QED BY <1>6, <2>1 DEF Lng
<1>8. n + 1 \in 0..cap /\ r = cap - (n + 1)
  BY <1>1 DEF n, m, r
<1>9. /\ IsRep(M, cap, E) /\ Lng(M) = n + 1 /\ Fst(M) = Fst(K) /\ Lst(M) = Lst(K)
      /\ Prv(M) = Prv(K) /\ Nxt(M) = Nxt(K) /\ Fre(M) = Fre(K)
  BY <1>6, <1>7, <1>8, WithLength
<1>10. Shape(M, cap, d, n + 1, g, r, {})
  BY <1>6, <1>9, ShapeFrame
<1>11. Good(M, cap, E)
  BY <1>8, <1>9, <1>10 DEF Good
<1>12. \A x : x \in Cursors(M) <=> x \in Values(d, n + 1)
  BY <1>9, <1>10, CursorsShape
<1> QED
  BY <1>3, <1>4, <1>6, <1>9, <1>11, <1>12 DEF n, a

(* Taking one node out of a list of two or more frees exactly that node.   *)
THEOREM GoodRemove ==
  ASSUME NEW L, NEW cap, NEW E, Good(L, cap, E), Lng(L) > 1, NEW x, x \in Cursors(L),
         NEW M, M = Remove(L, x)
  PROVE  /\ Good(M, cap, E)
         /\ Lng(M) = Lng(L) - 1
         /\ Fst(M) = IF x = Fst(L) THEN Nxt(L)[x] ELSE Fst(L)
         /\ Elm(M) = Elm(L)
         /\ \A y : y \in Cursors(M) <=> y \in Cursors(L) /\ y # x
<1> DEFINE n == Lng(L)
           m == cap - Lng(L)
           U == Unlink(L, x)
           K == [U EXCEPT !.Length = n - 1]
<1>1. IsRep(L, cap, E) /\ cap \in Nat /\ n \in Nat /\ m \in Nat /\ n > 1
  BY GoodNumbers
<1>2. PICK c, f : Shape(L, cap, c, n, f, m, {})
  BY DEF Good
<1> HIDE DEF n, m, U
<1>3. \A y : y \in Cursors(L) <=> y \in Values(c, n)
  BY <1>1, <1>2, CursorsShape
<1>4. PICK p : p \in 1..n /\ x = c[p]
  BY <1>3 DEF Values
<1> DEFINE d == RemoveAt(c, n, p)
<1> HIDE DEF d
<1>5. /\ IsRep(U, cap, E) /\ Lng(U) = n /\ Elm(U) = Elm(L)
      /\ Fst(U) = IF p = 1 THEN c[2] ELSE c[1]
      /\ Shape(U, cap, d, n - 1, f, m, {x})
      /\ Values(d, n - 1) = Values(c, n) \ {x}
  <2> DEFINE out == {x}
  <2> HIDE DEF out
  <2>1. Unlinked(L, U, c, n, p, x) /\ out = {x}
    BY <1>1, <1>4 DEF U, Unlinked, out
  <2>2. /\ IsRep(U, cap, E) /\ Lng(U) = Lng(L) /\ Elm(U) = Elm(L)
        /\ Fst(U) = IF p = 1 THEN c[2] ELSE c[1]
        /\ Shape(U, cap, RemoveAt(c, n, p), n - 1, f, m, out)
        /\ Values(RemoveAt(c, n, p), n - 1) = Values(c, n) \ out
    BY <1>1, <1>2, <2>1, UnlinkShape
  <2> QED BY <2>2 DEF d, n, out
<1>6. n - 1 \in 0..cap /\ m + 1 = cap - (n - 1)
  BY <1>1 DEF n, m
<1>7. /\ IsRep(K, cap, E) /\ Lng(K) = n - 1 /\ Fst(K) = Fst(U) /\ Lst(K) = Lst(U)
      /\ Prv(K) = Prv(U) /\ Nxt(K) = Nxt(U) /\ Elm(K) = Elm(U) /\ Fre(K) = Fre(U)
  BY <1>5, <1>6, WithLength
<1> HIDE DEF K
<1>8. Shape(K, cap, d, n - 1, f, m, {x})
  BY <1>5, <1>7, ShapeFrame
<1>9. M = Free(K, x)
  <2>1. M = Free([U EXCEPT !.Length = U.Length - 1], x)
    BY DEF Remove, U
  <2> QED BY <1>5, <2>1 DEF K, Lng
<1>10. /\ IsRep(M, cap, E) /\ Lng(M) = n - 1 /\ Fst(M) = Fst(K) /\ Elm(M) = Elm(K)
       /\ Shape(M, cap, d, n - 1, Cons(x, f, m), m + 1, {})
  BY <1>7, <1>8, <1>9, FreeShape
<1>11. Good(M, cap, E)
  BY <1>6, <1>10 DEF Good
<1>12. \A y : y \in Cursors(M) <=> y \in Values(d, n - 1)
  BY <1>10, CursorsShape
<1>13. Fst(M) = IF x = Fst(L) THEN Nxt(L)[x] ELSE Fst(L)
  <2>1. /\ Fst(L) = c[1] /\ 1 \in 1..n /\ Segment(Nxt(L), Prv(L), c, n)
    BY <1>1, <1>2 DEF Shape, Active
  <2>2. Nxt(L)[c[1]] = IF 1 = n THEN 0 ELSE c[1 + 1]
    BY <2>1 DEF Segment
  <2>3. x = Fst(L) <=> p = 1
    BY <1>4, <2>1 DEF Segment
  <2> QED BY <1>1, <1>4, <1>5, <1>7, <1>10, <2>1, <2>2, <2>3
<1> QED
  BY <1>3, <1>5, <1>7, <1>10, <1>11, <1>12, <1>13 DEF n

(* First and Last are cursors of a list that is not empty, and Next of a   *)
(* cursor is a cursor or 0, never the cursor itself and never the first.   *)
LEMMA GoodEnds ==
  ASSUME NEW L, NEW cap, NEW E, Good(L, cap, E)
  PROVE  /\ Lng(L) = 0 => \A x : x \notin Cursors(L)
         /\ Lng(L) = 0 => Fst(L) = 0 /\ Lst(L) = 0
         /\ Lng(L) # 0 => Fst(L) \in Cursors(L) /\ Lst(L) \in Cursors(L)
         /\ \A x \in Cursors(L) : x # Fst(L) => Lng(L) > 1
         /\ \A x \in Cursors(L) :
              /\ x \in Node(cap) /\ x # 0
              /\ Nxt(L)[x] \in Cursors(L) \/ Nxt(L)[x] = 0
              /\ Nxt(L)[x] # Fst(L)
              /\ Nxt(L)[x] # x
<1> DEFINE n == Lng(L)
           m == cap - Lng(L)
<1>1. IsRep(L, cap, E) /\ cap \in Nat /\ n \in Nat /\ m \in Nat
  BY GoodNumbers
<1>2. PICK c, f : Shape(L, cap, c, n, f, m, {})
  BY DEF Good
<1> HIDE DEF n, m
<1>3. \A x : x \in Cursors(L) <=> x \in Values(c, n)
  BY <1>1, <1>2, CursorsShape
<1>4. /\ Segment(Nxt(L), Prv(L), c, n) /\ c \in [1..n -> Node(cap)]
      /\ n = 0 => Fst(L) = 0 /\ Lst(L) = 0
      /\ n # 0 => Fst(L) = c[1] /\ Lst(L) = c[n]
  BY <1>2 DEF Shape, Active
<1>5. n = 0 => \A x : x \notin Cursors(L)
  BY <1>3 DEF Values
<1>6. n # 0 => Fst(L) \in Cursors(L) /\ Lst(L) \in Cursors(L)
  <2>1. n # 0 => 1 \in 1..n /\ n \in 1..n
    BY <1>1
  <2> QED BY <1>3, <1>4, <2>1 DEF Values
<1>7. ASSUME NEW x \in Cursors(L)
      PROVE  /\ x # Fst(L) => n > 1
             /\ x \in Node(cap) /\ x # 0
             /\ Nxt(L)[x] \in Cursors(L) \/ Nxt(L)[x] = 0
             /\ Nxt(L)[x] # Fst(L)
             /\ Nxt(L)[x] # x
  <2>1. PICK i \in 1..n : x = c[i]
    BY <1>3 DEF Values
  <2>2. x \in Node(cap) /\ x # 0 /\ n # 0 /\ Fst(L) = c[1] /\ 1 \in 1..n /\ c[1] \in Node(cap)
    BY <1>1, <1>4, <2>1, NodeNumbers
  <2>3. x # Fst(L) => n > 1
    BY <1>1, <2>1, <2>2
  <2>4. Nxt(L)[x] = IF i = n THEN 0 ELSE c[i + 1]
    BY <1>4, <2>1 DEF Segment
  <2>5. 0 \notin Node(cap)
    BY <1>1, NodeNumbers
  <2>6. CASE i = n
    BY <2>2, <2>3, <2>4, <2>5, <2>6
  <2>7. CASE i # n
    <3>1. i + 1 \in 1..n /\ i + 1 # i /\ i + 1 # 1
      BY <1>1, <2>7
    <3>2. c[i + 1] # c[i] /\ c[i + 1] # c[1]
      BY <1>4, <2>2, <3>1 DEF Segment
    <3>3. c[i + 1] \in Cursors(L)
      BY <1>3, <3>1 DEF Values
    <3> QED BY <2>1, <2>2, <2>3, <2>4, <2>7, <3>2, <3>3
  <2> QED BY <2>6, <2>7
<1> QED
  BY <1>4, <1>5, <1>6, <1>7 DEF n

(* Splice (Container, Before, Position) moves a node within its list and   *)
(* keeps exactly the same nodes.                                           *)
THEOREM GoodSpliceWithin ==
  ASSUME NEW L, NEW cap, NEW E, Good(L, cap, E),
         NEW before, before \in Cursors(L) \/ before = 0, NEW x, x \in Cursors(L),
         NEW M, M = SpliceWithin(L, before, x)
  PROVE  /\ Good(M, cap, E) /\ Lng(M) = Lng(L)
         /\ \A y : y \in Cursors(M) <=> y \in Cursors(L)
<1>1. CASE x = before \/ L.Next[x] = before
  <2>1. M = L
    BY <1>1 DEF SpliceWithin
  <2> QED BY <2>1
<1>2. CASE ~(x = before \/ L.Next[x] = before)
  <2> DEFINE n == Lng(L)
             m == cap - Lng(L)
             U == Unlink(L, x)
             r == n - 1
             out == {x}
  <2>1. IsRep(L, cap, E) /\ cap \in Nat /\ n \in Nat /\ m \in Nat
    BY GoodNumbers
  <2>2. PICK c, f : Shape(L, cap, c, n, f, m, {})
    BY DEF Good
  <2>3. M = Link(U, before, x)
    BY <1>2 DEF SpliceWithin
  <2> HIDE DEF n, m, U, r, out
  <2>4. \A y : y \in Cursors(L) <=> y \in Values(c, n)
    BY <2>1, <2>2, CursorsShape
  <2>5. PICK p : p \in 1..n /\ x = c[p]
    BY <2>4 DEF Values
  <2>6. n > 1
    <3>1. x # before /\ Nxt(L)[x] # before
      BY <1>2 DEF Nxt
    <3>2. Nxt(L)[c[p]] = IF p = n THEN 0 ELSE c[p + 1]
      BY <2>2, <2>5 DEF Shape, Active, Segment
    <3>3. CASE before = 0
      BY <2>1, <2>5, <3>1, <3>2, <3>3
    <3>4. CASE before \in Cursors(L)
      <4>1. PICK q : q \in 1..n /\ before = c[q]
        BY <2>4, <3>4 DEF Values
      <4> QED BY <2>1, <2>5, <3>1, <4>1
    <3> QED BY <3>3, <3>4
  <2> DEFINE d == RemoveAt(c, n, p)
  <2> HIDE DEF d
  <2>7. Unlinked(L, U, c, n, p, x) /\ out = {x}
    BY <2>5, <2>6 DEF U, Unlinked, out
  <2>8. /\ IsRep(U, cap, E) /\ Lng(U) = n
        /\ Shape(U, cap, d, r, f, m, out)
        /\ Values(d, r) = Values(c, n) \ out
    BY <2>1, <2>2, <2>7, UnlinkShape DEF d, r, n
  <2>9. r \in Nat /\ r # 0 /\ r + 1 = n /\ (Lng(U) = 0 <=> r = 0)
    BY <2>1, <2>6, <2>8 DEF r
  <2>10. PICK q : IsPlace(d, r, before, q)
    <3>1. before \in Values(d, r) \/ before = 0
      BY <1>2, <2>4, <2>8 DEF out
    <3> QED BY <2>9, <3>1, PlaceExists
  <2>11. Shape(U, cap, d, r, f, m, {x})
    BY <2>8 DEF out
  <2> DEFINE h == InsertAt(d, r, q, x)
  <2> HIDE DEF h
  <2>12. /\ IsRep(M, cap, E) /\ Lng(M) = Lng(U)
         /\ Shape(M, cap, h, n, f, m, {})
         /\ Values(h, n) = Values(d, r) \cup {x}
    <3>1. /\ IsRep(M, cap, E) /\ Lng(M) = Lng(U)
          /\ Shape(M, cap, InsertAt(d, r, q, x), r + 1, f, m, {})
          /\ Values(InsertAt(d, r, q, x), r + 1) = Values(d, r) \cup {x}
      BY <2>3, <2>8, <2>9, <2>10, <2>11, LinkShape
    <3> QED BY <2>9, <3>1 DEF h
  <2>13. Good(M, cap, E) /\ Lng(M) = n
    BY <2>8, <2>12 DEF Good, n, m
  <2>14. \A y : y \in Cursors(M) <=> y \in Values(h, n)
    BY <2>12, CursorsShape
  <2>15. x \in Values(c, n)
    BY <2>4
  <2> QED BY <2>4, <2>8, <2>12, <2>13, <2>14, <2>15 DEF out, n
<1> QED BY <1>1, <1>2

(* Swap_Links exchanges two nodes by at most two splices.                  *)
THEOREM GoodSwapLinks ==
  ASSUME NEW L, NEW cap, NEW E, Good(L, cap, E), NEW i, i \in Cursors(L), NEW j, j \in Cursors(L),
         NEW M, M = Swap_Links(L, i, j)
  PROVE  /\ Good(M, cap, E) /\ Lng(M) = Lng(L)
         /\ \A y : y \in Cursors(M) <=> y \in Cursors(L)
<1>1. CASE i = j
  BY <1>1 DEF Swap_Links
<1>2. CASE i # j /\ L.Next[i] = j
  <2>1. M = SpliceWithin(L, i, j)
    BY <1>2 DEF Swap_Links
  <2> QED BY <2>1, GoodSpliceWithin
<1>3. CASE i # j /\ L.Next[i] # j /\ L.Next[j] = i
  <2>1. M = SpliceWithin(L, j, i)
    BY <1>3 DEF Swap_Links
  <2> QED BY <2>1, GoodSpliceWithin
<1>4. CASE i # j /\ L.Next[i] # j /\ L.Next[j] # i
  <2> DEFINE ni == Nxt(L)[i]
             nj == Nxt(L)[j]
             K == SpliceWithin(L, ni, j)
  <2>1. M = SpliceWithin(K, nj, i)
    BY <1>4 DEF Swap_Links, Nxt
  <2>2. /\ ni \in Cursors(L) \/ ni = 0
        /\ nj \in Cursors(L) \/ nj = 0
    BY GoodEnds
  <2> HIDE DEF K, ni, nj
  <2>3. /\ Good(K, cap, E) /\ Lng(K) = Lng(L)
        /\ \A y : y \in Cursors(K) <=> y \in Cursors(L)
    BY <2>2, GoodSpliceWithin DEF K
  <2>4. /\ Good(M, cap, E) /\ Lng(M) = Lng(K)
        /\ \A y : y \in Cursors(M) <=> y \in Cursors(K)
    BY <2>1, <2>2, <2>3, GoodSpliceWithin
  <2> QED BY <2>3, <2>4
<1> QED BY <1>1, <1>2, <1>3, <1>4

(* Writing elements leaves the shape alone.                                *)
LEMMA GoodElements ==
  ASSUME NEW L, NEW cap, NEW E, Good(L, cap, E), NEW M, DOMAIN M = Fields,
         Cap(M) = Cap(L), Lng(M) = Lng(L), Fst(M) = Fst(L), Lst(M) = Lst(L),
         Prv(M) = Prv(L), Nxt(M) = Nxt(L), Fre(M) = Fre(L), Elm(M) \in [Node(cap) -> E]
  PROVE  Good(M, cap, E)
<1>1. IsRep(M, cap, E)
  BY DEF Good, IsRep
<1>2. PICK c, f : Shape(L, cap, c, Lng(L), f, cap - Lng(L), {})
  BY DEF Good
<1>3. Shape(M, cap, c, Lng(L), f, cap - Lng(L), {})
  BY <1>2, ShapeFrame
<1> QED BY <1>1, <1>3 DEF Good

(* Replace_Element writes one element.                                     *)
THEOREM GoodReplaceElement ==
  ASSUME NEW L, NEW cap, NEW E, Good(L, cap, E), NEW x, NEW e, e \in E,
         NEW M, M = Replace_Element(L, x, e)
  PROVE  Good(M, cap, E)
<1>1. DOMAIN L = Fields /\ Elm(L) \in [Node(cap) -> E]
  BY DEF Good, IsRep
<1>2. M = [L EXCEPT !.Element[x] = e]
  BY DEF Replace_Element
<1>3. /\ DOMAIN M = Fields
      /\ Cap(M) = Cap(L) /\ Lng(M) = Lng(L) /\ Fst(M) = Fst(L) /\ Lst(M) = Lst(L)
      /\ Prv(M) = Prv(L) /\ Nxt(M) = Nxt(L) /\ Fre(M) = Fre(L)
      /\ Elm(M) = [Elm(L) EXCEPT ![x] = e]
  BY <1>1, <1>2 DEF Fields, Cap, Fre, Lng, Fst, Lst, Prv, Nxt, Elm
<1>4. Elm(M) \in [Node(cap) -> E]
  BY <1>1, <1>3
<1> QED BY <1>3, <1>4, GoodElements

(* Swap exchanges two elements and moves no node.                          *)
THEOREM GoodSwap ==
  ASSUME NEW L, NEW cap, NEW E, Good(L, cap, E), NEW i, i \in Node(cap), NEW j, j \in Node(cap),
         NEW M, M = Swap(L, i, j)
  PROVE  Good(M, cap, E)
<1>1. DOMAIN L = Fields /\ Elm(L) \in [Node(cap) -> E]
  BY DEF Good, IsRep
<1>2. M = [L EXCEPT !.Element[i] = L.Element[j], !.Element[j] = L.Element[i]]
  BY DEF Swap
<1>3. /\ DOMAIN M = Fields
      /\ Cap(M) = Cap(L) /\ Lng(M) = Lng(L) /\ Fst(M) = Fst(L) /\ Lst(M) = Lst(L)
      /\ Prv(M) = Prv(L) /\ Nxt(M) = Nxt(L) /\ Fre(M) = Fre(L)
      /\ Elm(M) = [[Elm(L) EXCEPT ![i] = Elm(L)[j]] EXCEPT ![j] = Elm(L)[i]]
  BY <1>1, <1>2 DEF Fields, Cap, Fre, Lng, Fst, Lst, Prv, Nxt, Elm
<1>4. Elm(M) \in [Node(cap) -> E]
  BY <1>1, <1>3
<1> QED BY <1>3, <1>4, GoodElements

(* A declared list: all nodes unused, Free = -1.                           *)
THEOREM GoodEmpty ==
  ASSUME NEW cap, cap \in Nat, NEW E, NEW e, e \in E, NEW M, M = Empty_List(cap, e)
  PROVE  Good(M, cap, E) /\ Lng(M) = 0
<1>1. /\ DOMAIN M = Fields /\ Cap(M) = cap /\ Fre(M) = -1 /\ Lng(M) = 0 /\ Fst(M) = 0 /\ Lst(M) = 0
      /\ Prv(M) = [n \in 1..cap |-> -1] /\ Nxt(M) = [n \in 1..cap |-> 0]
      /\ Elm(M) = [n \in 1..cap |-> e]
  BY DEF Empty_List, Fields, Cap, Fre, Lng, Fst, Lst, Prv, Nxt, Elm
<1>2. IsRep(M, cap, E)
  BY <1>1 DEF IsRep, Node
<1> DEFINE c == [k \in 1..0 |-> 0]
           f == [k \in 1..cap |-> k]
<1>3. Active(M, Node(cap), c, 0)
  BY <1>1 DEF Active, Segment
<1>4. Store(M, cap, f, cap)
  BY <1>1 DEF Store, Suffix, Node
<1>5. \A y \in Node(cap) : y \in Values(f, cap)
  BY DEF Values, Node
<1>6. \A y : y \notin Values(c, 0)
  BY DEF Values
<1>7. Shape(M, cap, c, 0, f, cap, {})
  BY <1>3, <1>4, <1>5 DEF Shape
<1>8. Shape(M, cap, c, Lng(M), f, cap - Lng(M), {})
  BY <1>1, <1>7
<1> QED
  BY <1>1, <1>2, <1>8 DEF Good

(* Clear frees the last node after it has reset the ends and Length.       *)
LEMMA GoodClearOne ==
  ASSUME NEW L, NEW cap, NEW E, Good(L, cap, E), Lng(L) = 1,
         NEW M, M = Free([L EXCEPT !.First = 0, !.Last = 0, !.Length = 0], L.First)
  PROVE  Good(M, cap, E) /\ Lng(M) = 0 /\ Elm(M) = Elm(L)
<1> DEFINE K == [L EXCEPT !.First = 0, !.Last = 0, !.Length = 0]
           x == Fst(L)
           m == cap - 1
           c0 == [k \in 1..0 |-> 0]
<1>1. IsRep(L, cap, E) /\ cap \in Nat /\ m \in Nat
  BY GoodNumbers
<1>2. PICK c, f : Shape(L, cap, c, 1, f, m, {})
  BY DEF Good
<1>3. /\ DOMAIN K = Fields /\ Cap(K) = Cap(L) /\ Fre(K) = Fre(L) /\ Lng(K) = 0
      /\ Fst(K) = 0 /\ Lst(K) = 0 /\ Prv(K) = Prv(L) /\ Nxt(K) = Nxt(L) /\ Elm(K) = Elm(L)
  BY <1>1 DEF IsRep, Fields, Cap, Fre, Lng, Fst, Lst, Prv, Nxt, Elm
<1>4. M = Free(K, x)
  BY DEF Fst
<1> HIDE DEF K, m, x
<1>5. IsRep(K, cap, E)
  BY <1>1, <1>3 DEF IsRep
<1>6. x = c[1] /\ 1 \in 1..1 /\ c[1] \in Node(cap)
  BY <1>2 DEF Shape, Active, x
<1>7. Active(K, Node(cap), c0, 0)
  BY <1>3 DEF Active, Segment
<1>8. Store(K, cap, f, m)
  BY <1>2, <1>3, StoreFrame DEF Shape
<1>9. \A y : y \in Values(c, 1) <=> y = x
  BY <1>6 DEF Values
<1>10. \A y : y \notin Values(c0, 0)
  BY DEF Values
<1>11. x \notin Values(f, m)
  <2>1. Active(L, Node(cap), c, 1) /\ Store(L, cap, f, m)
    BY <1>2 DEF Shape
  <2>2. \A k \in 1..m : c[1] # f[k]
    BY <1>1, <1>6, <2>1, ActiveNotFree
  <2> QED BY <1>6, <2>2 DEF Values
<1> DEFINE c1 == c0
           z == 0
<1> HIDE DEF c1, z
<1>12. Shape(K, cap, c1, z, f, m, {x})
  BY <1>2, <1>6, <1>7, <1>8, <1>9, <1>10, <1>11 DEF Shape, c1, z
<1>13. /\ IsRep(M, cap, E) /\ Lng(M) = Lng(K) /\ Elm(M) = Elm(K)
       /\ Shape(M, cap, c1, z, Cons(x, f, m), m + 1, {})
  BY <1>4, <1>5, <1>12, FreeShape
<1>14. m + 1 = cap - Lng(M) /\ z = Lng(M)
  BY <1>1, <1>3, <1>13 DEF m, z
<1> QED
  BY <1>3, <1>13, <1>14 DEF Good

-----------------------------------------------------------------------------
(* Loops. The model writes a loop as the function from the number of       *)
(* iterations to the state. The facts about such a function are proved     *)
(* with induction over a set of naturals (the induction theorems of the    *)
(* library take an operator).                                              *)

(* A set of naturals that is not empty has a least element.                *)
LEMMA Least ==
  ASSUME NEW S, S \subseteq Nat, S # {}
  PROVE  \E n \in S : \A m \in S : n <= m
<1>1. IsWellFoundedOn(OpToRel(<, Nat), Nat)
  BY NatLessThanWellFounded
<1>2. PICK x \in S : \A y \in S : ~(<<y, x>> \in OpToRel(<, Nat))
  BY <1>1, WFMin
<1>3. \A y \in S : ~(y < x)
  BY <1>2 DEF OpToRel
<1> QED BY <1>3

(* Induction over a set.                                                   *)
LEMMA NatInd ==
  ASSUME NEW S, 0 \in S, \A n \in Nat : n \in S => n + 1 \in S
  PROVE  Nat \subseteq S
<1> SUFFICES ASSUME Nat \ S # {} PROVE FALSE
  OBVIOUS
<1>1. PICK n \in Nat \ S : \A m \in Nat \ S : n <= m
  BY Least
<1>2. n # 0 /\ n - 1 \in Nat
  BY <1>1
<1>3. n - 1 \in S
  BY <1>1, <1>2
<1> QED BY <1>1, <1>2, <1>3

(* Reverse_Elements: where the two indices go after an exchange.           *)
Meeting(M, l, r) ==
  IF l = Nxt(M)[r] THEN [list |-> M, l |-> l, r |-> Nxt(M)[r]]
  ELSE [list |-> M, l |-> Nxt(M)[r], r |-> Prv(M)[l]]

(* Sort: one step of the merge of two parts, from the second part or from  *)
(* the first.                                                              *)
Taken(st, isP2) ==
  LET from == IF isP2 THEN st.p2 ELSE st.p1
      d == Detach_First(st.k, from)
      m == Attach_Last(d.k, st.m, from.First)
  IN  [k |-> m.k, m |-> m.p, p1 |-> IF isP2 THEN st.p1 ELSE d.p,
       p2 |-> IF isP2 THEN d.p ELSE st.p2]

(* The bodies of the loops of the model, by name. One operator for all of  *)
(* them lets LoopExists be proved once.                                    *)
Step(loop, A, i, x) ==
  CASE loop = "Insert" -> InsertOne(x, A.before, A.e)
    [] loop = "First" -> Remove(x, x.First)
    [] loop = "Last" -> Remove(x, x.Last)
    [] loop = "Delete" ->
         (IF x.at = 0 THEN x
          ELSE [list |-> Remove(x.list, x.at), at |-> x.list.Next[x.at]])
    [] loop = "Assign" ->
         [list |-> Append_(x.list, A.Element[x.at]), at |-> A.Next[x.at]]
    [] loop = "Copy" -> Free(x, i)
    [] loop = "Splice" ->
         [t |-> InsertOne(x.t, A, x.s.Element[x.s.Last]), s |-> Delete_Last(x.s, 1)]
    [] loop = "Move" ->
         [t |-> Append_(x.t, x.s.Element[x.s.First]), s |-> Delete_First(x.s, 1)]
    [] loop = "Reverse" ->
         (IF x.l = x.r THEN x ELSE Meeting(SwapNodes(x.list, x.l, x.r), x.l, x.r))
    [] loop = "Merge" ->
         (IF x.ri = 0 THEN x
          ELSE IF x.li = 0
          THEN [t |-> SpliceAll(x.t, 0, x.s).t, s |-> SpliceAll(x.t, 0, x.s).s, li |-> 0, ri |-> 0]
          ELSE IF x.s.Element[x.ri] < x.t.Element[x.li]
          THEN [t |-> SpliceOne(x.t, x.li, x.s, x.ri).t, s |-> SpliceOne(x.t, x.li, x.s, x.ri).s,
                li |-> x.li, ri |-> x.s.Next[x.ri]]
          ELSE [x EXCEPT !.li = x.t.Next[x.li]])
    [] loop = "Rover" -> A.Next[x]
    [] loop = "Parts" -> Taken(x, Take_From_P2(A, x.p1, x.p2))
    [] loop = "Sort" -> Merge_Sort(A, x)

(* a gives the states of the loop from iteration lo to hi.                 *)
IsLoop(a, lo, hi, loop, A, x0) ==
  a = [i \in lo..hi |-> IF i = lo THEN x0 ELSE Step(loop, A, i, a[i - 1])]

(* Every loop has such a function.                                         *)
LEMMA LoopExists ==
  ASSUME NEW lo, NEW hi, lo \in Nat, hi \in Nat, lo <= hi, NEW loop, NEW A, NEW x0
  PROVE  \E a : IsLoop(a, lo, hi, loop, A, x0)
<1> DEFINE P == {n \in Nat : \E a : IsLoop(a, lo, lo + n, loop, A, x0)}
<1>1. 0 \in P
  <2> DEFINE a == [i \in lo..(lo + 0) |-> x0]
  <2>1. a = [i \in lo..(lo + 0) |-> IF i = lo THEN x0 ELSE Step(loop, A, i, a[i - 1])]
    OBVIOUS
  <2> HIDE DEF a
  <2>2. IsLoop(a, lo, lo + 0, loop, A, x0)
    BY <2>1 DEF IsLoop
  <2> QED BY <2>2
<1>2. ASSUME NEW n \in Nat, n \in P PROVE n + 1 \in P
  <2>1. PICK a : IsLoop(a, lo, lo + n, loop, A, x0)
    BY <1>2
  <2> DEFINE up == lo + (n + 1)
             b == [i \in lo..up |-> IF i \in lo..(lo + n) THEN a[i] ELSE Step(loop, A, i, a[lo + n])]
  <2>2. b = [i \in lo..up |-> IF i = lo THEN x0 ELSE Step(loop, A, i, b[i - 1])]
    <3>1. ASSUME NEW i \in lo..up
          PROVE  b[i] = IF i = lo THEN x0 ELSE Step(loop, A, i, b[i - 1])
      <4>1. CASE i \in lo..(lo + n)
        <5>1. b[i] = a[i] /\ (i # lo => b[i - 1] = a[i - 1])
          BY <4>1
        <5>2. a[i] = IF i = lo THEN x0 ELSE Step(loop, A, i, a[i - 1])
          BY <2>1, <4>1 DEF IsLoop
        <5> HIDE DEF b
        <5> QED BY <5>1, <5>2
      <4>2. CASE i = up
        <5>1. up - 1 = lo + n /\ up # lo /\ up - 1 \in lo..up /\ up - 1 \in lo..(lo + n)
              /\ up \notin lo..(lo + n)
          OBVIOUS
        <5>2. b[up - 1] = a[lo + n] /\ b[up] = Step(loop, A, up, a[lo + n])
          BY <5>1
        <5> HIDE DEF b, up
        <5> QED BY <4>2, <5>1, <5>2
      <4> QED BY <4>1, <4>2
    <3>2. b = [i \in lo..up |-> b[i]]
      OBVIOUS
    <3> HIDE DEF b
    <3> QED BY <3>1, <3>2
  <2> HIDE DEF b
  <2>3. IsLoop(b, lo, up, loop, A, x0)
    BY <2>2 DEF IsLoop
  <2> QED BY <2>3
<1> HIDE DEF P
<1>3. hi - lo \in P
  BY <1>1, <1>2, NatInd
<1>4. lo + (hi - lo) = hi
  OBVIOUS
<1> QED BY <1>3, <1>4 DEF P

(* What the function gives first and next.                                 *)
LEMMA LoopStates ==
  ASSUME NEW a, NEW lo, NEW hi, NEW loop, NEW A, NEW x0,
         IsLoop(a, lo, hi, loop, A, x0), lo \in Nat, hi \in Nat, lo <= hi
  PROVE  /\ a[lo] = x0
         /\ \A i \in Nat : lo <= i /\ i < hi => a[i + 1] = Step(loop, A, i + 1, a[i])
<1>1. \A i \in lo..hi : a[i] = IF i = lo THEN x0 ELSE Step(loop, A, i, a[i - 1])
  BY DEF IsLoop
<1>2. ASSUME NEW i \in Nat, lo <= i, i < hi PROVE a[i + 1] = Step(loop, A, i + 1, a[i])
  <2>1. i + 1 \in lo..hi /\ i + 1 # lo /\ (i + 1) - 1 = i
    BY <1>2
  <2> QED BY <1>1, <2>1
<1> QED BY <1>1, <1>2

(* The loop of Insert with a Count.                                        *)
LEMMA InsertLoop ==
  ASSUME NEW L, NEW before, NEW e, NEW count, count \in Nat
  PROVE  \E a : /\ a[0] = L /\ Insert(L, before, e, count) = a[count]
                /\ \A i \in Nat : i < count => a[i + 1] = InsertOne(a[i], before, e)
<1> DEFINE A == [before |-> before, e |-> e]
           a == CHOOSE a : a = [i \in 0..count |-> IF i = 0 THEN L ELSE InsertOne(a[i - 1], before, e)]
<1>1. \A i, x : Step("Insert", A, i, x) = InsertOne(x, before, e)
  BY DEF Step
<1>2. Insert(L, before, e, count) = a[count]
  BY DEF Insert
<1>3. \E b : IsLoop(b, 0, count, "Insert", A, L)
  BY LoopExists
<1> HIDE DEF A
<1>4. \E b : b = [i \in 0..count |-> IF i = 0 THEN L ELSE InsertOne(b[i - 1], before, e)]
  BY <1>1, <1>3 DEF IsLoop
<1>5. a = [i \in 0..count |-> IF i = 0 THEN L ELSE InsertOne(a[i - 1], before, e)]
  BY <1>4
<1> HIDE DEF a
<1>6. IsLoop(a, 0, count, "Insert", A, L)
  BY <1>1, <1>5 DEF IsLoop
<1>7. a[0] = L /\ \A i \in Nat : 0 <= i /\ i < count => a[i + 1] = Step("Insert", A, i + 1, a[i])
  BY <1>6, LoopStates
<1> QED BY <1>1, <1>2, <1>7

(* The loop of Delete_First and Clear.                                     *)
LEMMA FirstLoop ==
  ASSUME NEW L, NEW count, count \in Nat
  PROVE  \E a : /\ a[0] = L /\ Delete_First_Loop(L, count) = a[count]
                /\ \A i \in Nat : i < count => a[i + 1] = Remove(a[i], Fst(a[i]))
<1> DEFINE a == CHOOSE a : a = [i \in 0..count |-> IF i = 0 THEN L ELSE Remove(a[i - 1], a[i - 1].First)]
<1>1. \A i, x : Step("First", {}, i, x) = Remove(x, x.First)
  BY DEF Step
<1>2. Delete_First_Loop(L, count) = a[count]
  BY DEF Delete_First_Loop
<1>3. \E b : IsLoop(b, 0, count, "First", {}, L)
  BY LoopExists
<1>4. \E b : b = [i \in 0..count |-> IF i = 0 THEN L ELSE Remove(b[i - 1], b[i - 1].First)]
  BY <1>1, <1>3 DEF IsLoop
<1>5. a = [i \in 0..count |-> IF i = 0 THEN L ELSE Remove(a[i - 1], a[i - 1].First)]
  BY <1>4
<1> HIDE DEF a
<1>6. IsLoop(a, 0, count, "First", {}, L)
  BY <1>1, <1>5 DEF IsLoop
<1>7. a[0] = L /\ \A i \in Nat : 0 <= i /\ i < count => a[i + 1] = Step("First", {}, i + 1, a[i])
  BY <1>6, LoopStates
<1> QED BY <1>1, <1>2, <1>7 DEF Fst

(* The loop of Delete_Last.                                                *)
LEMMA LastLoop ==
  ASSUME NEW L, NEW count, count \in Nat
  PROVE  \E a : /\ a[0] = L /\ Delete_Last_Loop(L, count) = a[count]
                /\ \A i \in Nat : i < count => a[i + 1] = Remove(a[i], Lst(a[i]))
<1> DEFINE a == CHOOSE a : a = [i \in 0..count |-> IF i = 0 THEN L ELSE Remove(a[i - 1], a[i - 1].Last)]
<1>1. \A i, x : Step("Last", {}, i, x) = Remove(x, x.Last)
  BY DEF Step
<1>2. Delete_Last_Loop(L, count) = a[count]
  BY DEF Delete_Last_Loop
<1>3. \E b : IsLoop(b, 0, count, "Last", {}, L)
  BY LoopExists
<1>4. \E b : b = [i \in 0..count |-> IF i = 0 THEN L ELSE Remove(b[i - 1], b[i - 1].Last)]
  BY <1>1, <1>3 DEF IsLoop
<1>5. a = [i \in 0..count |-> IF i = 0 THEN L ELSE Remove(a[i - 1], a[i - 1].Last)]
  BY <1>4
<1> HIDE DEF a
<1>6. IsLoop(a, 0, count, "Last", {}, L)
  BY <1>1, <1>5 DEF IsLoop
<1>7. a[0] = L /\ \A i \in Nat : 0 <= i /\ i < count => a[i + 1] = Step("Last", {}, i + 1, a[i])
  BY <1>6, LoopStates
<1> QED BY <1>1, <1>2, <1>7 DEF Lst

(* Insert: a good list that has room for count nodes is good afterwards    *)
(* and count nodes longer.                                                 *)
THEOREM GoodInsert ==
  ASSUME NEW L, NEW cap, NEW E, Good(L, cap, E), NEW before, before \in Cursors(L) \/ before = 0,
         NEW e, e \in E, NEW count, count \in Nat, Lng(L) + count <= cap,
         NEW M, M = Insert(L, before, e, count)
  PROVE  Good(M, cap, E) /\ Lng(M) = Lng(L) + count
<1>1. PICK a : /\ a[0] = L /\ Insert(L, before, e, count) = a[count]
               /\ \A i \in Nat : i < count => a[i + 1] = InsertOne(a[i], before, e)
  BY InsertLoop
<1>2. cap \in Nat /\ Lng(L) \in Nat
  BY GoodNumbers
<1> DEFINE P == {i \in Nat : i <= count =>
                   /\ Good(a[i], cap, E) /\ Lng(a[i]) = Lng(L) + i
                   /\ before \in Cursors(a[i]) \/ before = 0}
<1>3. 0 \in P
  BY <1>1, <1>2
<1>4. ASSUME NEW i \in Nat, i \in P PROVE i + 1 \in P
  <2>1. SUFFICES ASSUME i + 1 <= count
                 PROVE  /\ Good(a[i + 1], cap, E) /\ Lng(a[i + 1]) = Lng(L) + (i + 1)
                        /\ before \in Cursors(a[i + 1]) \/ before = 0
    OBVIOUS
  <2> DEFINE K == a[i]
             N == a[i + 1]
  <2>2. /\ Good(K, cap, E) /\ Lng(K) = Lng(L) + i /\ Lng(K) < cap
        /\ before \in Cursors(K) \/ before = 0
    BY <1>2, <1>4, <2>1
  <2>3. N = InsertOne(K, before, e)
    BY <1>1, <2>1
  <2> HIDE DEF K, N
  <2>4. /\ Good(N, cap, E) /\ Lng(N) = Lng(K) + 1
        /\ \A x : x \in Cursors(K) => x \in Cursors(N)
    BY <2>2, <2>3, GoodInsertOne
  <2> QED BY <1>2, <2>2, <2>4 DEF N
<1> HIDE DEF P
<1>5. count \in P
  BY <1>3, <1>4, NatInd
<1> QED BY <1>1, <1>5 DEF P

(* The loop of Delete_First frees the nodes from the front and writes no   *)
(* element.                                                                *)
LEMMA GoodFirstLoop ==
  ASSUME NEW L, NEW cap, NEW E, Good(L, cap, E), NEW count, count \in Nat, count < Lng(L),
         NEW M, M = Delete_First_Loop(L, count)
  PROVE  Good(M, cap, E) /\ Lng(M) = Lng(L) - count /\ Elm(M) = Elm(L)
<1>1. PICK a : /\ a[0] = L /\ Delete_First_Loop(L, count) = a[count]
               /\ \A i \in Nat : i < count => a[i + 1] = Remove(a[i], Fst(a[i]))
  BY FirstLoop
<1>2. cap \in Nat /\ Lng(L) \in Nat
  BY GoodNumbers
<1> DEFINE P == {i \in Nat : i <= count =>
                   Good(a[i], cap, E) /\ Lng(a[i]) = Lng(L) - i /\ Elm(a[i]) = Elm(L)}
<1>3. 0 \in P
  BY <1>1, <1>2
<1>4. ASSUME NEW i \in Nat, i \in P PROVE i + 1 \in P
  <2>1. SUFFICES ASSUME i + 1 <= count
                 PROVE  /\ Good(a[i + 1], cap, E) /\ Lng(a[i + 1]) = Lng(L) - (i + 1)
                        /\ Elm(a[i + 1]) = Elm(L)
    OBVIOUS
  <2> DEFINE K == a[i]
             N == a[i + 1]
  <2>2. Good(K, cap, E) /\ Lng(K) = Lng(L) - i /\ Lng(K) > 1 /\ Elm(K) = Elm(L)
    BY <1>2, <1>4, <2>1
  <2>3. N = Remove(K, Fst(K))
    BY <1>1, <2>1
  <2> HIDE DEF K, N
  <2>4. Lng(K) # 0
    BY <1>2, <2>2
  <2>5. Fst(K) \in Cursors(K)
    BY <2>2, <2>4, GoodEnds
  <2>6. Good(N, cap, E) /\ Lng(N) = Lng(K) - 1 /\ Elm(N) = Elm(K)
    BY <2>2, <2>3, <2>5, GoodRemove
  <2> QED BY <1>2, <2>2, <2>6 DEF N
<1> HIDE DEF P
<1>5. count \in P
  BY <1>3, <1>4, NatInd
<1> QED BY <1>1, <1>5 DEF P

(* The loop of Delete_Last frees the nodes from the back.                  *)
LEMMA GoodLastLoop ==
  ASSUME NEW L, NEW cap, NEW E, Good(L, cap, E), NEW count, count \in Nat, count < Lng(L),
         NEW M, M = Delete_Last_Loop(L, count)
  PROVE  Good(M, cap, E) /\ Lng(M) = Lng(L) - count
<1>1. PICK a : /\ a[0] = L /\ Delete_Last_Loop(L, count) = a[count]
               /\ \A i \in Nat : i < count => a[i + 1] = Remove(a[i], Lst(a[i]))
  BY LastLoop
<1>2. cap \in Nat /\ Lng(L) \in Nat
  BY GoodNumbers
<1> DEFINE P == {i \in Nat : i <= count => Good(a[i], cap, E) /\ Lng(a[i]) = Lng(L) - i}
<1>3. 0 \in P
  BY <1>1, <1>2
<1>4. ASSUME NEW i \in Nat, i \in P PROVE i + 1 \in P
  <2>1. SUFFICES ASSUME i + 1 <= count
                 PROVE  Good(a[i + 1], cap, E) /\ Lng(a[i + 1]) = Lng(L) - (i + 1)
    OBVIOUS
  <2> DEFINE K == a[i]
             N == a[i + 1]
  <2>2. Good(K, cap, E) /\ Lng(K) = Lng(L) - i /\ Lng(K) > 1
    BY <1>2, <1>4, <2>1
  <2>3. N = Remove(K, Lst(K))
    BY <1>1, <2>1
  <2> HIDE DEF K, N
  <2>4. Lng(K) # 0
    BY <1>2, <2>2
  <2>5. Lst(K) \in Cursors(K)
    BY <2>2, <2>4, GoodEnds
  <2>6. Good(N, cap, E) /\ Lng(N) = Lng(K) - 1
    BY <2>2, <2>3, <2>5, GoodRemove
  <2> QED BY <1>2, <2>2, <2>6 DEF N
<1> HIDE DEF P
<1>5. count \in P
  BY <1>3, <1>4, NatInd
<1> QED BY <1>1, <1>5 DEF P

(* Clear: every list is good and empty afterwards, all nodes back in the   *)
(* free store.                                                             *)
THEOREM GoodClear ==
  ASSUME NEW L, NEW cap, NEW E, Good(L, cap, E), NEW M, M = Clear(L)
  PROVE  Good(M, cap, E) /\ Lng(M) = 0
<1>1. Lng(L) \in Nat
  BY GoodNumbers
<1>2. CASE Lng(L) = 0
  <2>1. M = L
    BY <1>2 DEF Clear, Lng
  <2> QED BY <1>2, <2>1
<1>3. CASE Lng(L) # 0
  <2> DEFINE r == Lng(L) - 1
             K == Delete_First_Loop(L, r)
  <2>1. M = Free([K EXCEPT !.First = 0, !.Last = 0, !.Length = 0], K.First)
    BY <1>3 DEF Clear, Lng
  <2>2. r \in Nat /\ r < Lng(L) /\ Lng(L) - r = 1
    BY <1>1, <1>3
  <2> HIDE DEF r
  <2>3. Good(K, cap, E) /\ Lng(K) = 1
    BY <2>2, GoodFirstLoop
  <2> HIDE DEF K
  <2> QED BY <2>1, <2>3, GoodClearOne
<1> QED BY <1>2, <1>3

(* Delete_First: the list is good and loses count nodes, or all it has.    *)
THEOREM GoodDeleteFirst ==
  ASSUME NEW L, NEW cap, NEW E, Good(L, cap, E), NEW count, count \in Nat,
         NEW M, M = Delete_First(L, count)
  PROVE  /\ Good(M, cap, E)
         /\ Lng(M) = IF count >= Lng(L) THEN 0 ELSE Lng(L) - count
<1>1. Lng(L) \in Nat
  BY GoodNumbers
<1>2. CASE count >= Lng(L)
  <2>1. M = Clear(L)
    BY <1>2 DEF Delete_First, Lng
  <2> QED BY <1>2, <2>1, GoodClear
<1>3. CASE ~(count >= Lng(L))
  <2>1. M = Delete_First_Loop(L, count)
    BY <1>3 DEF Delete_First, Lng
  <2>2. count < Lng(L)
    BY <1>1, <1>3
  <2>3. Good(M, cap, E) /\ Lng(M) = Lng(L) - count
    BY <2>1, <2>2, GoodFirstLoop
  <2> QED BY <1>3, <2>3
<1> QED BY <1>2, <1>3

(* Delete_Last: the list is good and loses count nodes, or all it has.     *)
THEOREM GoodDeleteLast ==
  ASSUME NEW L, NEW cap, NEW E, Good(L, cap, E), NEW count, count \in Nat,
         NEW M, M = Delete_Last(L, count)
  PROVE  /\ Good(M, cap, E)
         /\ Lng(M) = IF count >= Lng(L) THEN 0 ELSE Lng(L) - count
<1>1. Lng(L) \in Nat
  BY GoodNumbers
<1>2. CASE count >= Lng(L)
  <2>1. M = Clear(L)
    BY <1>2 DEF Delete_Last, Lng
  <2> QED BY <1>2, <2>1, GoodClear
<1>3. CASE ~(count >= Lng(L))
  <2>1. M = Delete_Last_Loop(L, count)
    BY <1>3 DEF Delete_Last, Lng
  <2>2. count < Lng(L)
    BY <1>1, <1>3
  <2>3. Good(M, cap, E) /\ Lng(M) = Lng(L) - count
    BY <2>1, <2>2, GoodLastLoop
  <2> QED BY <1>3, <2>3
<1> QED BY <1>2, <1>3

(* The loop of Delete from a position that is not the first.               *)
LEMMA DeleteLoop ==
  ASSUME NEW L, NEW position, position # Fst(L), NEW count, count \in Nat
  PROVE  \E a : /\ a[0] = [list |-> L, at |-> position] /\ Delete(L, position, count) = a[count].list
                /\ \A i \in Nat : i < count =>
                     a[i + 1] = IF a[i].at = 0 THEN a[i]
                                ELSE [list |-> Remove(a[i].list, a[i].at),
                                      at |-> Nxt(a[i].list)[a[i].at]]
<1> DEFINE X0 == [list |-> L, at |-> position]
           Body(x) == IF x.at = 0 THEN x
                      ELSE [list |-> Remove(x.list, x.at), at |-> x.list.Next[x.at]]
           a == CHOOSE a : a = [i \in 0..count |->
                  IF i = 0 THEN [list |-> L, at |-> position]
                  ELSE LET prior == a[i - 1] IN
                       IF prior.at = 0 THEN prior
                       ELSE [list |-> Remove(prior.list, prior.at), at |-> prior.list.Next[prior.at]]]
<1>1. \A i, x : Step("Delete", 0, i, x) = Body(x)
  BY DEF Step
<1>2. Delete(L, position, count) = a[count].list
  BY DEF Delete, Fst
<1> HIDE DEF Body, X0
<1>3. \E b : IsLoop(b, 0, count, "Delete", 0, X0)
  BY LoopExists
<1>4. \E b : b = [i \in 0..count |-> IF i = 0 THEN X0 ELSE Body(b[i - 1])]
  BY <1>1, <1>3 DEF IsLoop
<1>5. a = [i \in 0..count |-> IF i = 0 THEN X0 ELSE Body(a[i - 1])]
  BY <1>4 DEF X0, Body
<1> HIDE DEF a
<1>6. IsLoop(a, 0, count, "Delete", 0, X0)
  BY <1>1, <1>5 DEF IsLoop
<1>7. a[0] = X0 /\ \A i \in Nat : 0 <= i /\ i < count => a[i + 1] = Step("Delete", 0, i + 1, a[i])
  BY <1>6, LoopStates
<1>8. \A i \in Nat : i < count => a[i + 1] = Body(a[i])
  BY <1>1, <1>7
<1> QED BY <1>2, <1>7, <1>8 DEF X0, Body, Nxt

(* One iteration: the successor, read before the node is freed, is still   *)
(* a cursor and not the first one.                                         *)
LEMMA GoodDeleteStep ==
  ASSUME NEW L, NEW cap, NEW E, Good(L, cap, E), NEW x, x \in Cursors(L), x # Fst(L),
         NEW M, M = Remove(L, x), NEW y, y = Nxt(L)[x]
  PROVE  /\ Good(M, cap, E) /\ Lng(M) = Lng(L) - 1
         /\ y = 0 \/ (y \in Cursors(M) /\ y # Fst(M))
         /\ \A z : z \in Cursors(M) <=> z \in Cursors(L) /\ z # x
<1>1. /\ Lng(L) > 1
      /\ y \in Cursors(L) \/ y = 0
      /\ y # Fst(L) /\ y # x
  BY GoodEnds
<1>2. /\ Good(M, cap, E) /\ Lng(M) = Lng(L) - 1 /\ Fst(M) = Fst(L)
      /\ \A z : z \in Cursors(M) <=> z \in Cursors(L) /\ z # x
  BY <1>1, GoodRemove
<1> QED BY <1>1, <1>2

(* Delete: from any cursor and for any count the list is good afterwards,  *)
(* also when the count reaches past the end.                               *)
THEOREM GoodDelete ==
  ASSUME NEW L, NEW cap, NEW E, Good(L, cap, E), NEW position, position \in Cursors(L),
         NEW count, count \in Nat, NEW M, M = Delete(L, position, count)
  PROVE  Good(M, cap, E)
<1>1. CASE position = Fst(L)
  <2>1. M = Delete_First(L, count)
    BY <1>1 DEF Delete, Fst
  <2> QED BY <2>1, GoodDeleteFirst
<1>2. CASE position # Fst(L)
  <2>1. PICK a : /\ a[0] = [list |-> L, at |-> position]
                 /\ Delete(L, position, count) = a[count].list
                 /\ \A i \in Nat : i < count =>
                      a[i + 1] = IF a[i].at = 0 THEN a[i]
                                 ELSE [list |-> Remove(a[i].list, a[i].at),
                                       at |-> Nxt(a[i].list)[a[i].at]]
    BY <1>2, DeleteLoop
  <2> DEFINE P == {i \in Nat : i <= count =>
                     /\ Good(a[i].list, cap, E)
                     /\ a[i].at = 0 \/ (a[i].at \in Cursors(a[i].list) /\ a[i].at # Fst(a[i].list))}
  <2>2. 0 \in P
    BY <1>2, <2>1
  <2>3. ASSUME NEW i \in Nat, i \in P PROVE i + 1 \in P
    <3>1. SUFFICES ASSUME i + 1 <= count
                   PROVE  /\ Good(a[i + 1].list, cap, E)
                          /\ \/ a[i + 1].at = 0
                             \/ /\ a[i + 1].at \in Cursors(a[i + 1].list)
                                /\ a[i + 1].at # Fst(a[i + 1].list)
      OBVIOUS
    <3> DEFINE K == a[i].list
               x == a[i].at
    <3>2. Good(K, cap, E) /\ (x = 0 \/ (x \in Cursors(K) /\ x # Fst(K)))
      BY <2>3, <3>1
    <3>3. CASE x = 0
      <4>1. a[i + 1] = a[i]
        <5>1. a[i].at = 0 /\ i < count
          BY <3>1, <3>3
        <5> QED BY <2>1, <5>1
      <4> QED BY <3>2, <3>3, <4>1
    <3>4. CASE x # 0
      <4> DEFINE N == Remove(K, x)
                 y == Nxt(K)[x]
      <4>1. a[i + 1] = [list |-> N, at |-> y]
        BY <2>1, <3>1, <3>4
      <4> HIDE DEF K, x, N, y
      <4>2. Good(N, cap, E) /\ (y = 0 \/ (y \in Cursors(N) /\ y # Fst(N)))
        BY <3>2, <3>4, GoodDeleteStep DEF N, y
      <4> QED BY <4>1, <4>2
    <3> QED BY <3>3, <3>4
  <2> HIDE DEF P
  <2>4. count \in P
    BY <2>2, <2>3, NatInd
  <2> QED BY <2>1, <2>4 DEF P
<1> QED BY <1>1, <1>2

(* Deleting one node removes exactly that cursor: the other cursors of     *)
(* the caller stay valid.                                                  *)
LEMMA GoodDeleteOne ==
  ASSUME NEW L, NEW cap, NEW E, Good(L, cap, E), NEW x, x \in Cursors(L),
         NEW M, M = Delete(L, x, 1)
  PROVE  /\ Good(M, cap, E) /\ Lng(M) = Lng(L) - 1
         /\ \A z : z \in Cursors(M) <=> z \in Cursors(L) /\ z # x
<1>0. Lng(L) \in Nat /\ Lng(L) # 0
  BY GoodNumbers, GoodEnds
<1>1. CASE x = Fst(L) /\ Lng(L) = 1
  <2>1. M = Clear(L)
    BY <1>1 DEF Delete, Delete_First, Fst, Lng
  <2>2. Good(M, cap, E) /\ Lng(M) = 0
    BY <2>1, GoodClear
  <2>3. \A z : z \notin Cursors(M)
    BY <2>2, GoodEnds
  <2>4. \A z : z \in Cursors(L) => z = x
    <3>1. SUFFICES ASSUME NEW z, z \in Cursors(L), z # x PROVE FALSE
      OBVIOUS
    <3>2. Lng(L) > 1
      BY <1>1, <3>1, GoodEnds
    <3> QED BY <1>1, <3>2
  <2> QED BY <1>1, <2>2, <2>3, <2>4
<1>2. CASE x = Fst(L) /\ Lng(L) # 1
  <2>1. M = Delete_First_Loop(L, 1)
    BY <1>0, <1>2 DEF Delete, Delete_First, Fst, Lng
  <2>2. PICK a : /\ a[0] = L /\ Delete_First_Loop(L, 1) = a[1]
                 /\ \A i \in Nat : i < 1 => a[i + 1] = Remove(a[i], Fst(a[i]))
    BY FirstLoop
  <2>3. a[0 + 1] = Remove(a[0], Fst(a[0]))
    BY <2>2
  <2>4. M = Remove(L, x) /\ Lng(L) > 1
    BY <1>0, <1>2, <2>1, <2>2, <2>3
  <2> QED BY <2>4, GoodRemove
<1>3. CASE x # Fst(L)
  <2>1. PICK a : /\ a[0] = [list |-> L, at |-> x]
                 /\ Delete(L, x, 1) = a[1].list
                 /\ \A i \in Nat : i < 1 =>
                      a[i + 1] = IF a[i].at = 0 THEN a[i]
                                 ELSE [list |-> Remove(a[i].list, a[i].at),
                                       at |-> Nxt(a[i].list)[a[i].at]]
    BY <1>3, DeleteLoop
  <2>2. x # 0
    BY GoodEnds
  <2>3. a[0 + 1] = [list |-> Remove(L, x), at |-> Nxt(L)[x]]
    BY <2>1, <2>2
  <2>4. M = Remove(L, x)
    BY <2>1, <2>3
  <2> QED BY <1>3, <2>4, GoodDeleteStep
<1> QED BY <1>1, <1>2, <1>3

(* Append inserts before 0.                                                *)
LEMMA GoodAppend ==
  ASSUME NEW L, NEW cap, NEW E, Good(L, cap, E), Lng(L) < cap, NEW e, e \in E,
         NEW M, M = Append_(L, e)
  PROVE  Good(M, cap, E) /\ Lng(M) = Lng(L) + 1
<1>1. M = InsertOne(L, 0, e)
  BY DEF Append_, No_Element
<1> QED BY <1>1, GoodInsertOne

(* The loop of Assign.                                                     *)
LEMMA AssignLoop ==
  ASSUME NEW T, NEW S, Lng(S) \in Nat
  PROVE  \E a : /\ a[0] = [list |-> Clear(T), at |-> Fst(S)] /\ Assign(T, S) = a[Lng(S)].list
                /\ \A i \in Nat : i < Lng(S) =>
                     a[i + 1] = [list |-> Append_(a[i].list, Elm(S)[a[i].at]), at |-> Nxt(S)[a[i].at]]
<1> DEFINE n == Lng(S)
           X0 == [list |-> Clear(T), at |-> Fst(S)]
           Body(x) == [list |-> Append_(x.list, Elm(S)[x.at]), at |-> Nxt(S)[x.at]]
           a == CHOOSE a : a = [i \in 0..S.Length |->
                  IF i = 0 THEN [list |-> Clear(T), at |-> S.First]
                  ELSE [list |-> Append_(a[i - 1].list, S.Element[a[i - 1].at]),
                        at   |-> S.Next[a[i - 1].at]]]
<1>1. \A i, x : Step("Assign", S, i, x) = Body(x)
  BY DEF Step, Elm, Nxt
<1>2. Assign(T, S) = a[n].list
  BY DEF Assign, Lng
<1> n \in Nat
  BY DEF n
<1> HIDE DEF Body, X0, n
<1>3. \E b : IsLoop(b, 0, n, "Assign", S, X0)
  BY LoopExists DEF n
<1>4. \E b : b = [i \in 0..n |-> IF i = 0 THEN X0 ELSE Body(b[i - 1])]
  BY <1>1, <1>3 DEF IsLoop
<1>5. a = [i \in 0..n |-> IF i = 0 THEN X0 ELSE Body(a[i - 1])]
  BY <1>4 DEF X0, Body, n, Lng, Fst, Elm, Nxt
<1> HIDE DEF a
<1>6. IsLoop(a, 0, n, "Assign", S, X0)
  BY <1>1, <1>5 DEF IsLoop
<1>7. a[0] = X0 /\ \A i \in Nat : 0 <= i /\ i < n => a[i + 1] = Step("Assign", S, i + 1, a[i])
  BY <1>6, LoopStates DEF n
<1>8. \A i \in Nat : i < n => a[i + 1] = Body(a[i])
  BY <1>1, <1>7
<1> QED BY <1>2, <1>7, <1>8 DEF X0, Body, n

(* Assign: the target is good and as long as the source, whatever it held  *)
(* before.                                                                 *)
THEOREM GoodAssign ==
  ASSUME NEW T, NEW cap, NEW E, Good(T, cap, E), NEW S, NEW cap2, Good(S, cap2, E), Lng(S) <= cap,
         NEW M, M = Assign(T, S)
  PROVE  Good(M, cap, E) /\ Lng(M) = Lng(S)
<1> DEFINE n == Lng(S)
           m == cap2 - Lng(S)
<1>1. IsRep(S, cap2, E) /\ n \in Nat /\ cap \in Nat /\ cap2 \in Nat
  BY GoodNumbers
<1>2. PICK c, f : Shape(S, cap2, c, n, f, m, {})
  BY DEF Good
<1>3. PICK a : /\ a[0] = [list |-> Clear(T), at |-> Fst(S)] /\ Assign(T, S) = a[n].list
               /\ \A i \in Nat : i < n =>
                    a[i + 1] = [list |-> Append_(a[i].list, Elm(S)[a[i].at]), at |-> Nxt(S)[a[i].at]]
  BY <1>1, AssignLoop
<1> HIDE DEF n, m
<1>4. /\ Segment(Nxt(S), Prv(S), c, n) /\ c \in [1..n -> Node(cap2)]
      /\ n # 0 => Fst(S) = c[1]
      /\ Elm(S) \in [Node(cap2) -> E]
  BY <1>1, <1>2 DEF Shape, Active, IsRep
<1> DEFINE P == {i \in Nat : i <= n =>
                   /\ Good(a[i].list, cap, E) /\ Lng(a[i].list) = i
                   /\ i < n => a[i].at = c[i + 1]}
<1>5. 0 \in P
  <2> DEFINE K == Clear(T)
  <2>1. Good(K, cap, E) /\ Lng(K) = 0
    BY GoodClear
  <2> HIDE DEF K
  <2>2. a[0].list = K /\ a[0].at = Fst(S)
    BY <1>3 DEF K
  <2> QED BY <1>1, <1>4, <2>1, <2>2
<1>6. ASSUME NEW i \in Nat, i \in P PROVE i + 1 \in P
  <2>1. SUFFICES ASSUME i + 1 <= n
                 PROVE  /\ Good(a[i + 1].list, cap, E) /\ Lng(a[i + 1].list) = i + 1
                        /\ i + 1 < n => a[i + 1].at = c[(i + 1) + 1]
    OBVIOUS
  <2> DEFINE K == a[i].list
             x == c[i + 1]
             e == Elm(S)[x]
             N == Append_(K, e)
  <2>2. Good(K, cap, E) /\ Lng(K) = i /\ a[i].at = x
    BY <1>1, <1>6, <2>1
  <2>3. a[i + 1] = [list |-> N, at |-> Nxt(S)[x]]
    BY <1>1, <1>3, <2>1, <2>2
  <2>4. i + 1 \in 1..n /\ x \in Node(cap2) /\ e \in E /\ i < cap
    <3>1. i + 1 \in 1..n
      BY <1>1, <2>1
    <3>2. x \in Node(cap2)
      BY <1>4, <3>1
    <3>3. i < cap
      BY <1>1, <2>1 DEF n
    <3> QED BY <1>4, <3>1, <3>2, <3>3
  <2>5. Nxt(S)[x] = IF i + 1 = n THEN 0 ELSE c[(i + 1) + 1]
    <3>1. \A k \in 1..n : Nxt(S)[c[k]] = IF k = n THEN 0 ELSE c[k + 1]
      BY <1>4 DEF Segment
    <3> QED BY <2>4, <3>1
  <2> HIDE DEF K, x, e, N
  <2>6. Good(N, cap, E) /\ Lng(N) = Lng(K) + 1
    BY <2>2, <2>4, GoodAppend DEF N
  <2> QED BY <2>2, <2>3, <2>5, <2>6
<1> HIDE DEF P
<1>7. n \in P
  BY <1>1, <1>5, <1>6, NatInd
<1> QED BY <1>1, <1>3, <1>7 DEF P, n

(* Splice of one node into another list: one node is allocated in the      *)
(* target and one is freed in the source.                                  *)
THEOREM GoodSpliceOne ==
  ASSUME NEW T, NEW cap, NEW E, Good(T, cap, E), Lng(T) < cap,
         NEW before, before \in Cursors(T) \/ before = 0,
         NEW S, NEW cap2, Good(S, cap2, E), NEW x, x \in Cursors(S),
         NEW R, R = SpliceOne(T, before, S, x)
  PROVE  /\ Good(R.t, cap, E) /\ Lng(R.t) = Lng(T) + 1
         /\ \A y : y \in Cursors(T) => y \in Cursors(R.t)
         /\ Good(R.s, cap2, E) /\ Lng(R.s) = Lng(S) - 1
         /\ \A y : y \in Cursors(R.s) <=> y \in Cursors(S) /\ y # x
         /\ Elm(S)[x] \in E
<1> DEFINE e == Elm(S)[x]
           M == InsertOne(T, before, e)
           N == Delete(S, x, 1)
<1>1. R.t = M /\ R.s = N
  BY DEF SpliceOne, Elm
<1>2. e \in E
  <2>1. x \in Node(cap2)
    BY GoodEnds
  <2> QED BY <2>1 DEF Good, IsRep
<1> HIDE DEF e, M, N
<1>3. Good(M, cap, E) /\ Lng(M) = Lng(T) + 1 /\ \A y : y \in Cursors(T) => y \in Cursors(M)
  BY <1>2, GoodInsertOne DEF M
<1>4. /\ Good(N, cap2, E) /\ Lng(N) = Lng(S) - 1
      /\ \A y : y \in Cursors(N) <=> y \in Cursors(S) /\ y # x
  BY GoodDeleteOne DEF N
<1> QED BY <1>1, <1>2, <1>3, <1>4 DEF e

(* The loop of Splice (Target, Before, Source).                            *)
LEMMA SpliceLoop ==
  ASSUME NEW T, NEW before, NEW S, Lng(S) \in Nat
  PROVE  \E a : /\ a[0] = [t |-> T, s |-> S] /\ SpliceAll(T, before, S) = a[Lng(S)]
                /\ \A i \in Nat : i < Lng(S) =>
                     a[i + 1] = [t |-> InsertOne(a[i].t, before, Elm(a[i].s)[Lst(a[i].s)]),
                                 s |-> Delete_Last(a[i].s, 1)]
<1> DEFINE n == Lng(S)
           X0 == [t |-> T, s |-> S]
           Body(x) == [t |-> InsertOne(x.t, before, Elm(x.s)[Lst(x.s)]), s |-> Delete_Last(x.s, 1)]
           a == CHOOSE a : a = [i \in 0..S.Length |->
                  IF i = 0 THEN [t |-> T, s |-> S]
                  ELSE LET p == a[i - 1] IN
                       [t |-> InsertOne(p.t, before, p.s.Element[p.s.Last]),
                        s |-> Delete_Last(p.s, 1)]]
<1>1. \A i, x : Step("Splice", before, i, x) = Body(x)
  BY DEF Step, Elm, Lst
<1>2. SpliceAll(T, before, S) = a[n]
  BY DEF SpliceAll, Lng
<1> n \in Nat
  BY DEF n
<1> HIDE DEF Body, X0, n
<1>3. \E b : IsLoop(b, 0, n, "Splice", before, X0)
  BY LoopExists DEF n
<1>4. \E b : b = [i \in 0..n |-> IF i = 0 THEN X0 ELSE Body(b[i - 1])]
  BY <1>1, <1>3 DEF IsLoop
<1>5. a = [i \in 0..n |-> IF i = 0 THEN X0 ELSE Body(a[i - 1])]
  BY <1>4 DEF X0, Body, n, Lng, Lst, Elm
<1> HIDE DEF a
<1>6. IsLoop(a, 0, n, "Splice", before, X0)
  BY <1>1, <1>5 DEF IsLoop
<1>7. a[0] = X0 /\ \A i \in Nat : 0 <= i /\ i < n => a[i + 1] = Step("Splice", before, i + 1, a[i])
  BY <1>6, LoopStates DEF n
<1>8. \A i \in Nat : i < n => a[i + 1] = Body(a[i])
  BY <1>1, <1>7
<1> QED BY <1>2, <1>7, <1>8 DEF X0, Body, n

(* Splice (Target, Before, Source): both lists are good, the source is     *)
(* empty and the target has taken all its nodes.                           *)
THEOREM GoodSpliceAll ==
  ASSUME NEW T, NEW cap, NEW E, Good(T, cap, E), NEW before, before \in Cursors(T) \/ before = 0,
         NEW S, NEW cap2, Good(S, cap2, E), Lng(T) + Lng(S) <= cap,
         NEW R, R = SpliceAll(T, before, S)
  PROVE  /\ Good(R.t, cap, E) /\ Lng(R.t) = Lng(T) + Lng(S)
         /\ Good(R.s, cap2, E) /\ Lng(R.s) = 0
<1> DEFINE n == Lng(S)
<1>1. n \in Nat /\ Lng(T) \in Nat /\ cap \in Nat
  BY GoodNumbers
<1>2. PICK a : /\ a[0] = [t |-> T, s |-> S] /\ SpliceAll(T, before, S) = a[n]
               /\ \A i \in Nat : i < n =>
                     a[i + 1] = [t |-> InsertOne(a[i].t, before, Elm(a[i].s)[Lst(a[i].s)]),
                                 s |-> Delete_Last(a[i].s, 1)]
  BY <1>1, SpliceLoop
<1> DEFINE P == {i \in Nat : i <= n =>
                   /\ Good(a[i].t, cap, E) /\ Lng(a[i].t) = Lng(T) + i
                   /\ Good(a[i].s, cap2, E) /\ Lng(a[i].s) = n - i
                   /\ before \in Cursors(a[i].t) \/ before = 0}
<1>3. 0 \in P
  BY <1>1, <1>2
<1> HIDE DEF n
<1>4. ASSUME NEW i \in Nat, i \in P PROVE i + 1 \in P
  <2>1. SUFFICES ASSUME i + 1 <= n
                 PROVE  /\ Good(a[i + 1].t, cap, E) /\ Lng(a[i + 1].t) = Lng(T) + (i + 1)
                        /\ Good(a[i + 1].s, cap2, E) /\ Lng(a[i + 1].s) = n - (i + 1)
                        /\ before \in Cursors(a[i + 1].t) \/ before = 0
    OBVIOUS
  <2> DEFINE K == a[i].t
             J == a[i].s
             e == Elm(J)[Lst(J)]
             M == InsertOne(K, before, e)
             N == Delete_Last(J, 1)
  <2>2. /\ Good(K, cap, E) /\ Lng(K) = Lng(T) + i /\ Lng(K) < cap
        /\ Good(J, cap2, E) /\ Lng(J) = n - i /\ Lng(J) # 0
        /\ before \in Cursors(K) \/ before = 0
    BY <1>1, <1>4, <2>1 DEF n
  <2>3. a[i + 1] = [t |-> M, s |-> N]
    <3>1. i < n
      BY <1>1, <2>1
    <3> HIDE DEF P
    <3> QED BY <1>2, <3>1
  <2> HIDE DEF K, J
  <2>4. e \in E
    <3>1. Lst(J) \in Node(cap2)
      BY <2>2, GoodEnds
    <3> QED BY <2>2, <3>1 DEF Good, IsRep
  <2> HIDE DEF e, M, N
  <2>5. Good(M, cap, E) /\ Lng(M) = Lng(K) + 1 /\ \A x : x \in Cursors(K) => x \in Cursors(M)
    BY <2>2, <2>4, GoodInsertOne DEF M
  <2>6. Good(N, cap2, E) /\ Lng(N) = IF 1 >= Lng(J) THEN 0 ELSE Lng(J) - 1
    BY <2>2, GoodDeleteLast DEF N
  <2>7. Lng(N) = Lng(J) - 1
    BY <1>1, <2>1, <2>2, <2>6
  <2>8. a[i + 1].t = M /\ a[i + 1].s = N
    BY <2>3
  <2> QED BY <1>1, <2>2, <2>5, <2>6, <2>7, <2>8
<1> HIDE DEF P
<1>5. n \in P
  BY <1>1, <1>3, <1>4, NatInd
<1> QED BY <1>1, <1>2, <1>5 DEF P, n

(* The loop of Move.                                                       *)
LEMMA MoveLoop ==
  ASSUME NEW T, NEW S, Lng(S) \in Nat
  PROVE  \E a : /\ a[0] = [t |-> Clear(T), s |-> S] /\ Move(T, S) = a[Lng(S)]
                /\ \A i \in Nat : i < Lng(S) =>
                     a[i + 1] = [t |-> Append_(a[i].t, Elm(a[i].s)[Fst(a[i].s)]),
                                 s |-> Delete_First(a[i].s, 1)]
<1> DEFINE n == Lng(S)
           X0 == [t |-> Clear(T), s |-> S]
           Body(x) == [t |-> Append_(x.t, Elm(x.s)[Fst(x.s)]), s |-> Delete_First(x.s, 1)]
           a == CHOOSE a : a = [i \in 0..S.Length |->
                  IF i = 0 THEN [t |-> Clear(T), s |-> S]
                  ELSE LET p == a[i - 1] IN
                       [t |-> Append_(p.t, p.s.Element[p.s.First]),
                        s |-> Delete_First(p.s, 1)]]
<1>1. \A i, x : Step("Move", 0, i, x) = Body(x)
  BY DEF Step, Elm, Fst
<1>2. Move(T, S) = a[n]
  BY DEF Move, Lng
<1> n \in Nat
  BY DEF n
<1> HIDE DEF Body, X0, n
<1>3. \E b : IsLoop(b, 0, n, "Move", 0, X0)
  BY LoopExists DEF n
<1>4. \E b : b = [i \in 0..n |-> IF i = 0 THEN X0 ELSE Body(b[i - 1])]
  BY <1>1, <1>3 DEF IsLoop
<1>5. a = [i \in 0..n |-> IF i = 0 THEN X0 ELSE Body(a[i - 1])]
  BY <1>4 DEF X0, Body, n, Lng, Fst, Elm
<1> HIDE DEF a
<1>6. IsLoop(a, 0, n, "Move", 0, X0)
  BY <1>1, <1>5 DEF IsLoop
<1>7. a[0] = X0 /\ \A i \in Nat : 0 <= i /\ i < n => a[i + 1] = Step("Move", 0, i + 1, a[i])
  BY <1>6, LoopStates DEF n
<1>8. \A i \in Nat : i < n => a[i + 1] = Body(a[i])
  BY <1>1, <1>7
<1> QED BY <1>2, <1>7, <1>8 DEF X0, Body, n

(* Move: the source is good and empty, the target good and as long as the  *)
(* source was.                                                             *)
THEOREM GoodMove ==
  ASSUME NEW T, NEW cap, NEW E, Good(T, cap, E), NEW S, NEW cap2, Good(S, cap2, E), Lng(S) <= cap,
         NEW R, R = Move(T, S)
  PROVE  Good(R.t, cap, E) /\ Good(R.s, cap2, E)
<1> DEFINE n == Lng(S)
<1>1. n \in Nat /\ cap \in Nat
  BY GoodNumbers
<1>2. PICK a : /\ a[0] = [t |-> Clear(T), s |-> S] /\ Move(T, S) = a[n]
               /\ \A i \in Nat : i < n =>
                     a[i + 1] = [t |-> Append_(a[i].t, Elm(a[i].s)[Fst(a[i].s)]),
                                 s |-> Delete_First(a[i].s, 1)]
  BY <1>1, MoveLoop
<1> DEFINE P == {i \in Nat : i <= n =>
                   /\ Good(a[i].t, cap, E) /\ Lng(a[i].t) = i
                   /\ Good(a[i].s, cap2, E) /\ Lng(a[i].s) = n - i}
<1>3. 0 \in P
  <2> DEFINE K == Clear(T)
  <2>1. Good(K, cap, E) /\ Lng(K) = 0
    BY GoodClear
  <2> HIDE DEF K
  <2>2. a[0].t = K /\ a[0].s = S
    BY <1>2 DEF K
  <2> QED BY <1>1, <2>1, <2>2
<1> HIDE DEF n
<1>4. ASSUME NEW i \in Nat, i \in P PROVE i + 1 \in P
  <2>1. SUFFICES ASSUME i + 1 <= n
                 PROVE  /\ Good(a[i + 1].t, cap, E) /\ Lng(a[i + 1].t) = i + 1
                        /\ Good(a[i + 1].s, cap2, E) /\ Lng(a[i + 1].s) = n - (i + 1)
    OBVIOUS
  <2> DEFINE K == a[i].t
             J == a[i].s
             e == Elm(J)[Fst(J)]
             M == Append_(K, e)
             N == Delete_First(J, 1)
  <2>2. /\ Good(K, cap, E) /\ Lng(K) = i /\ Lng(K) < cap
        /\ Good(J, cap2, E) /\ Lng(J) = n - i /\ Lng(J) # 0
    BY <1>1, <1>4, <2>1 DEF n
  <2>3. a[i + 1] = [t |-> M, s |-> N]
    <3>1. i < n
      BY <1>1, <2>1
    <3> HIDE DEF P
    <3> QED BY <1>2, <3>1
  <2> HIDE DEF K, J
  <2>4. e \in E
    <3>1. Fst(J) \in Node(cap2)
      BY <2>2, GoodEnds
    <3> QED BY <2>2, <3>1 DEF Good, IsRep
  <2> HIDE DEF e, M, N
  <2>5. Good(M, cap, E) /\ Lng(M) = Lng(K) + 1
    BY <2>2, <2>4, GoodAppend DEF M
  <2>6. Good(N, cap2, E) /\ Lng(N) = IF 1 >= Lng(J) THEN 0 ELSE Lng(J) - 1
    BY <2>2, GoodDeleteFirst DEF N
  <2>7. Lng(N) = Lng(J) - 1
    BY <1>1, <2>1, <2>2, <2>6
  <2>8. a[i + 1].t = M /\ a[i + 1].s = N
    BY <2>3
  <2> QED BY <1>1, <2>2, <2>5, <2>6, <2>7, <2>8
<1> HIDE DEF P
<1>5. n \in P
  BY <1>1, <1>3, <1>4, NatInd
<1> QED BY <1>1, <1>2, <1>5 DEF P

(* The state of Merge before its loop.                                     *)
MergeStart(p, T, S) ==
  /\ DOMAIN p = {"t", "s", "li", "ri"}
  /\ p.t = T /\ p.s = S /\ p.li = Fst(T) /\ p.ri = Fst(S)

(* The loop of Merge.                                                      *)
LEMMA MergeLoop ==
  ASSUME NEW T, NEW S, Lng(T) \in Nat, Lng(S) \in Nat
  PROVE  \E a : /\ MergeStart(a[0], T, S)
                /\ Merge(T, S) = a[Lng(T) + Lng(S) + 1]
                /\ \A i \in Nat : i < Lng(T) + Lng(S) + 1 =>
                     a[i + 1] = Step("Merge", 0, i + 1, a[i])
<1> DEFINE n == Lng(T) + Lng(S) + 1
           State(pair, l, r) == [t |-> pair.t, s |-> pair.s, li |-> l, ri |-> r]
           X0 == State([t |-> T, s |-> S], T.First, S.First)
           Body(p) == IF p.ri = 0 THEN p
                      ELSE IF p.li = 0
                      THEN State(SpliceAll(p.t, No_Element, p.s), 0, 0)
                      ELSE IF p.s.Element[p.ri] < p.t.Element[p.li]
                      THEN State(SpliceOne(p.t, p.li, p.s, p.ri), p.li, p.s.Next[p.ri])
                      ELSE [p EXCEPT !.li = p.t.Next[@]]
           a == CHOOSE a : a = [i \in 0..(T.Length + S.Length + 1) |->
                  IF i = 0 THEN State([t |-> T, s |-> S], T.First, S.First)
                  ELSE LET p == a[i - 1] IN
                       IF p.ri = 0 THEN p
                       ELSE IF p.li = 0
                       THEN State(SpliceAll(p.t, No_Element, p.s), 0, 0)
                       ELSE IF p.s.Element[p.ri] < p.t.Element[p.li]
                       THEN State(SpliceOne(p.t, p.li, p.s, p.ri), p.li, p.s.Next[p.ri])
                       ELSE [p EXCEPT !.li = p.t.Next[@]]]
<1>1. \A i, x : Step("Merge", 0, i, x) = Body(x)
  BY DEF Step, No_Element
<1>2. Merge(T, S) = a[n]
  BY DEF Merge, Lng
<1> n \in Nat
  OBVIOUS
<1>3. MergeStart(X0, T, S)
  BY DEF Fst, MergeStart
<1> HIDE DEF Body, X0, n
<1>4. \E b : IsLoop(b, 0, n, "Merge", 0, X0)
  BY LoopExists
<1>5. \E b : b = [i \in 0..n |-> IF i = 0 THEN X0 ELSE Body(b[i - 1])]
  BY <1>1, <1>4 DEF IsLoop
<1>6. a = [i \in 0..n |-> IF i = 0 THEN X0 ELSE Body(a[i - 1])]
  BY <1>5 DEF X0, Body, n, Lng
<1> HIDE DEF a
<1>7. IsLoop(a, 0, n, "Merge", 0, X0)
  BY <1>1, <1>6 DEF IsLoop
<1>8. a[0] = X0 /\ \A i \in Nat : 0 <= i /\ i < n => a[i + 1] = Step("Merge", 0, i + 1, a[i])
  BY <1>7, LoopStates
<1> QED BY <1>2, <1>3, <1>8 DEF n

(* What the loop of Merge keeps: both indices are cursors of their lists,  *)
(* or 0, and the target has room for the source.                           *)
MergeState(p, cap, cap2, E) ==
  /\ DOMAIN p = {"t", "s", "li", "ri"}
  /\ Good(p.t, cap, E) /\ Good(p.s, cap2, E) /\ Lng(p.t) + Lng(p.s) <= cap
  /\ p.li \in Cursors(p.t) \/ p.li = 0
  /\ p.ri \in Cursors(p.s) \/ p.ri = 0

(* One iteration keeps it, also when it splices the node of the source.    *)
LEMMA MergeStep ==
  ASSUME NEW p, NEW cap, NEW cap2, NEW E, MergeState(p, cap, cap2, E),
         NEW i, NEW q, q = Step("Merge", 0, i, p)
  PROVE  MergeState(q, cap, cap2, E)
<1> DEFINE T == p.t
           S == p.s
           l == p.li
           r == p.ri
<1>1. /\ Good(T, cap, E) /\ Good(S, cap2, E) /\ Lng(T) + Lng(S) <= cap
      /\ l \in Cursors(T) \/ l = 0
      /\ r \in Cursors(S) \/ r = 0
  BY DEF MergeState
<1>2. Lng(T) \in Nat /\ Lng(S) \in Nat /\ cap \in Nat
  BY <1>1, GoodNumbers
<1>3. /\ l \in Cursors(T) => (Nxt(T)[l] \in Cursors(T) \/ Nxt(T)[l] = 0)
      /\ r \in Cursors(S) => (Nxt(S)[r] \in Cursors(S) \/ Nxt(S)[r] = 0)
      /\ r \in Cursors(S) => Nxt(S)[r] # r /\ Lng(S) # 0
  BY <1>1, GoodEnds
<1>4. CASE r = 0
  <2>1. q = p
    BY <1>4 DEF Step
  <2> QED BY <2>1
<1>5. CASE r # 0 /\ l = 0
  <2> DEFINE R == SpliceAll(T, 0, S)
  <2>1. q = [t |-> R.t, s |-> R.s, li |-> 0, ri |-> 0]
    BY <1>5 DEF Step
  <2> HIDE DEF R, T, S
  <2>2. /\ Good(R.t, cap, E) /\ Lng(R.t) = Lng(T) + Lng(S)
        /\ Good(R.s, cap2, E) /\ Lng(R.s) = 0
    BY <1>1, GoodSpliceAll DEF R
  <2>3. q.t = R.t /\ q.s = R.s /\ q.li = 0 /\ q.ri = 0 /\ DOMAIN q = {"t", "s", "li", "ri"}
    BY <2>1
  <2> QED BY <1>1, <1>2, <2>2, <2>3 DEF MergeState
<1>6. CASE r # 0 /\ l # 0 /\ S.Element[r] < T.Element[l]
  <2> DEFINE R == SpliceOne(T, l, S, r)
  <2>1. q = [t |-> R.t, s |-> R.s, li |-> l, ri |-> Nxt(S)[r]]
    BY <1>6 DEF Step, Nxt
  <2> HIDE DEF R, T, S, l, r
  <2>2. Lng(T) < cap /\ r \in Cursors(S) /\ l \in Cursors(T)
    BY <1>1, <1>2, <1>3, <1>6
  <2>3. /\ Good(R.t, cap, E) /\ Lng(R.t) = Lng(T) + 1
        /\ \A y : y \in Cursors(T) => y \in Cursors(R.t)
        /\ Good(R.s, cap2, E) /\ Lng(R.s) = Lng(S) - 1
        /\ \A y : y \in Cursors(R.s) <=> y \in Cursors(S) /\ y # r
    BY <1>1, <2>2, GoodSpliceOne DEF R
  <2>4. /\ q.t = R.t /\ q.s = R.s /\ q.li = l /\ q.ri = Nxt(S)[r]
        /\ DOMAIN q = {"t", "s", "li", "ri"}
    BY <2>1
  <2>5. Nxt(S)[r] \in Cursors(R.s) \/ Nxt(S)[r] = 0
    BY <1>3, <2>2, <2>3
  <2> QED BY <1>1, <1>2, <2>2, <2>3, <2>4, <2>5 DEF MergeState
<1>7. CASE r # 0 /\ l # 0 /\ ~(S.Element[r] < T.Element[l])
  <2>1. q = [p EXCEPT !.li = Nxt(T)[l]]
    BY <1>7 DEF Step, Nxt
  <2>2. /\ q.t = T /\ q.s = S /\ q.li = Nxt(T)[l] /\ q.ri = r
        /\ DOMAIN q = {"t", "s", "li", "ri"}
    BY <2>1 DEF MergeState
  <2> QED BY <1>1, <1>3, <1>7, <2>2 DEF MergeState
<1> QED BY <1>4, <1>5, <1>6, <1>7

(* Merge: both lists are good afterwards, the source is empty and no node  *)
(* is lost on either side.                                                 *)
THEOREM GoodMerge ==
  ASSUME NEW T, NEW cap, NEW E, Good(T, cap, E), NEW S, NEW cap2, Good(S, cap2, E),
         Lng(T) + Lng(S) <= cap, NEW R, R = Merge(T, S)
  PROVE  Good(R.t, cap, E) /\ Good(R.s, cap2, E)
<1> DEFINE n == Lng(T) + Lng(S) + 1
<1>1. Lng(T) \in Nat /\ Lng(S) \in Nat /\ n \in Nat
  BY GoodNumbers
<1>2. PICK a : /\ MergeStart(a[0], T, S)
               /\ Merge(T, S) = a[n]
               /\ \A i \in Nat : i < n => a[i + 1] = Step("Merge", 0, i + 1, a[i])
  BY <1>1, MergeLoop
<1> HIDE DEF n
<1> DEFINE P == {i \in Nat : i <= n => MergeState(a[i], cap, cap2, E)}
<1>3. 0 \in P
  <2>1. /\ Fst(T) \in Cursors(T) \/ Fst(T) = 0
        /\ Fst(S) \in Cursors(S) \/ Fst(S) = 0
    BY GoodEnds
  <2> QED BY <1>2, <2>1 DEF MergeState, MergeStart
<1>4. ASSUME NEW i \in Nat, i \in P PROVE i + 1 \in P
  <2>1. SUFFICES ASSUME i + 1 <= n PROVE MergeState(a[i + 1], cap, cap2, E)
    OBVIOUS
  <2>2. MergeState(a[i], cap, cap2, E) /\ a[i + 1] = Step("Merge", 0, i + 1, a[i])
    BY <1>1, <1>2, <1>4, <2>1
  <2> QED BY <2>2, MergeStep
<1> HIDE DEF P
<1>5. n \in P
  BY <1>1, <1>3, <1>4, NatInd
<1> QED BY <1>1, <1>2, <1>5 DEF P, MergeState

(* The loop of Copy that frees the nodes above the capacity of the         *)
(* source.                                                                 *)
LEMMA CopyLoop ==
  ASSUME NEW S, NEW cap, Cap(S) \in Nat, cap \in Nat, Cap(S) <= cap
  PROVE  \E a : /\ a[Cap(S)] = CopyWithoutExtra(S, cap)
                /\ \A i \in Nat : Cap(S) <= i /\ i < cap => a[i + 1] = Free(a[i], i + 1)
                /\ Copy(S, cap) = IF Fre(CopyWithoutExtra(S, cap)) >= 0 THEN a[cap]
                                  ELSE CopyWithoutExtra(S, cap)
<1> DEFINE lo == Cap(S)
           X0 == CopyWithoutExtra(S, cap)
           a == CHOOSE a : a = [n \in S.Capacity..cap |->
                  IF n = S.Capacity THEN CopyWithoutExtra(S, cap) ELSE Free(a[n - 1], n)]
<1>1. \A i, x : Step("Copy", 0, i, x) = Free(x, i)
  BY DEF Step
<1>2. Copy(S, cap) = IF X0.Free >= 0 THEN a[cap] ELSE X0
  BY DEF Copy
<1> HIDE DEF X0, lo
<1> lo \in Nat /\ lo <= cap
  BY DEF lo
<1>3. \E b : IsLoop(b, lo, cap, "Copy", 0, X0)
  BY LoopExists
<1>4. \E b : b = [n \in lo..cap |-> IF n = lo THEN X0 ELSE Free(b[n - 1], n)]
  BY <1>1, <1>3 DEF IsLoop
<1>5. a = [n \in lo..cap |-> IF n = lo THEN X0 ELSE Free(a[n - 1], n)]
  BY <1>4 DEF lo, X0, Cap
<1> HIDE DEF a
<1>6. IsLoop(a, lo, cap, "Copy", 0, X0)
  BY <1>1, <1>5 DEF IsLoop
<1>7. a[lo] = X0 /\ \A i \in Nat : lo <= i /\ i < cap => a[i + 1] = Step("Copy", 0, i + 1, a[i])
  BY <1>6, LoopStates
<1> QED BY <1>1, <1>2, <1>7 DEF lo, X0, Fre

(* The nodes above i.                                                      *)
Above(i, cap) == {k \in Node(cap) : k > i}

(* K is the copy of S before the extra nodes are freed.                    *)
CopyOf(K, S, cap2, cap) ==
  /\ DOMAIN K = Fields /\ Cap(K) = cap /\ Fre(K) = Fre(S) /\ Lng(K) = Lng(S)
  /\ Fst(K) = Fst(S) /\ Lst(K) = Lst(S)
  /\ Prv(K) = [n \in 1..cap |-> IF n \in Node(cap2) THEN Prv(S)[n] ELSE -1]
  /\ Nxt(K) = [n \in 1..cap |-> IF n \in Node(cap2) THEN Nxt(S)[n] ELSE 0]
  /\ Elm(K) = [n \in 1..cap |-> IF n \in Node(cap2) THEN Elm(S)[n] ELSE Elm(S)[1]]

(* What CopyWithoutExtra builds.                                           *)
LEMMA CopyFields ==
  ASSUME NEW S, NEW cap2, NEW E, IsRep(S, cap2, E), NEW cap, NEW K, K = CopyWithoutExtra(S, cap)
  PROVE  CopyOf(K, S, cap2, cap)
<1>1. DOMAIN S = Fields /\ DOMAIN S.Prev = Node(cap2)
  BY DEF IsRep, Prv
<1>2. K = [S EXCEPT !.Capacity = cap,
                    !.Prev    = [n \in 1..cap |-> IF n \in Node(cap2) THEN S.Prev[n] ELSE -1],
                    !.Next    = [n \in 1..cap |-> IF n \in Node(cap2) THEN S.Next[n] ELSE 0],
                    !.Element = [n \in 1..cap |-> IF n \in Node(cap2) THEN S.Element[n] ELSE S.Element[1]]]
  BY <1>1 DEF CopyWithoutExtra, Nodes
<1> QED BY <1>1, <1>2 DEF CopyOf, Fields, Cap, Fre, Lng, Fst, Lst, Prv, Nxt, Elm

(* Before the loop the extra nodes are in the hand when Free is not        *)
(* negative, and in the unused end of the array when it is negative: the   *)
(* guard of the loop is right.                                             *)
LEMMA CopyExtra ==
  ASSUME NEW S, NEW cap2, NEW E, IsRep(S, cap2, E), NEW c, NEW n, NEW f, NEW m,
         Shape(S, cap2, c, n, f, m, {}), n + m = cap2,
         NEW cap, cap \in Nat, 0 < cap2, cap2 <= cap, NEW K, K = CopyWithoutExtra(S, cap)
  PROVE  /\ IsRep(K, cap, E) /\ Lng(K) = Lng(S) /\ Elm(K) \in [Node(cap) -> E]
         /\ Fre(K) >= 0 => Shape(K, cap, c, n, f, m, Above(cap2, cap))
         /\ Fre(K) < 0 => \E g : Shape(K, cap, c, n, g, cap - n, {})
<1> cap2 \in Nat /\ n \in Nat /\ m \in Nat
  BY DEF IsRep, Shape, Active, Store
<1>0. CopyOf(K, S, cap2, cap)
  BY CopyFields
<1>1. /\ DOMAIN K = Fields /\ Cap(K) = cap /\ Fre(K) = Fre(S) /\ Lng(K) = Lng(S)
      /\ Fst(K) = Fst(S) /\ Lst(K) = Lst(S)
      /\ Prv(K) = [y \in 1..cap |-> IF y \in Node(cap2) THEN Prv(S)[y] ELSE -1]
      /\ Nxt(K) = [y \in 1..cap |-> IF y \in Node(cap2) THEN Nxt(S)[y] ELSE 0]
      /\ Elm(K) = [y \in 1..cap |-> IF y \in Node(cap2) THEN Elm(S)[y] ELSE Elm(S)[1]]
  BY <1>0 DEF CopyOf
<1>2. Node(cap2) \subseteq Node(cap) /\ Node(cap) = 1..cap /\ 1 \in Node(cap2)
  BY DEF Node
<1>3. /\ Prv(S) \in [Node(cap2) -> Node(cap2) \cup {0, -1}]
      /\ Nxt(S) \in [Node(cap2) -> Node(cap2) \cup {0}]
      /\ Elm(S) \in [Node(cap2) -> E]
      /\ Fre(S) \in -(cap2 + 1)..cap2 /\ Lng(S) \in 0..cap2
      /\ Fst(S) \in Node(cap2) \cup {0} /\ Lst(S) \in Node(cap2) \cup {0}
  BY DEF IsRep
<1>4. IsRep(K, cap, E)
  <2>1. Prv(K) \in [Node(cap) -> Node(cap) \cup {0, -1}]
    BY <1>1, <1>2, <1>3
  <2>2. Nxt(K) \in [Node(cap) -> Node(cap) \cup {0}]
    BY <1>1, <1>2, <1>3
  <2>3. Elm(K) \in [Node(cap) -> E]
    BY <1>1, <1>2, <1>3
  <2>4. Fre(K) \in -(cap + 1)..cap /\ Lng(K) \in 0..cap
    BY <1>1, <1>3
  <2>5. Fst(K) \in Node(cap) \cup {0} /\ Lst(K) \in Node(cap) \cup {0}
    BY <1>1, <1>2, <1>3
  <2> QED BY <1>1, <2>1, <2>2, <2>3, <2>4, <2>5 DEF IsRep
<1>5. \A y \in Node(cap2) : Prv(K)[y] = Prv(S)[y] /\ Nxt(K)[y] = Nxt(S)[y]
  BY <1>1, <1>2
<1>6. \A y \in Node(cap) : y \notin Node(cap2) => Prv(K)[y] = -1
  BY <1>1, <1>2
<1>7. Active(S, Node(cap2), c, n) /\ Store(S, cap2, f, m)
  BY DEF Shape
<1>8. Active(K, Node(cap), c, n)
  <2>1. c \in [1..n -> Node(cap2)] /\ Segment(Nxt(S), Prv(S), c, n)
    BY <1>7 DEF Active
  <2>2. \A i \in 1..n : c[i] \in Node(cap2)
    BY <2>1
  <2>3. Segment(Nxt(K), Prv(K), c, n)
    BY <1>5, <2>1, <2>2 DEF Segment
  <2>4. c \in [1..n -> Node(cap)]
    BY <1>2, <2>1
  <2> QED BY <1>1, <1>7, <2>3, <2>4 DEF Active
<1>9. \A y : y \in Values(c, n) \/ y \in Values(f, m) => y \in Node(cap2)
  BY <1>7 DEF Values, Active, Store
<1>10. \A y \in Above(cap2, cap) : y \in Node(cap) /\ y \notin Node(cap2)
  BY DEF Above, Node
<1>11. \A y \in Node(cap) : y \in Node(cap2) \/ y \in Above(cap2, cap)
  BY DEF Above, Node
<1>15. Fre(K) \in Int
  BY <1>1, <1>3
<1>12. ASSUME Fre(K) >= 0 PROVE Shape(K, cap, c, n, f, m, Above(cap2, cap))
  <2>1. f \in [1..m -> Node(cap2)]
    BY <1>7 DEF Store
  <2>2. \A k \in 1..m : f[k] \in Node(cap2) /\ f[k] \in Node(cap)
    BY <1>2, <2>1
  <2>3. Chained(K, f, m)
    BY <1>1, <1>5, <1>7, <1>12, <2>2 DEF Store, Chained
  <2>4. \A k \in 1..m : Prv(K)[f[k]] = -1
    BY <1>5, <1>7, <2>2 DEF Store
  <2>5. f \in [1..m -> Node(cap)]
    BY <1>2, <2>1
  <2>6. Store(K, cap, f, m)
    <3>1. ~(Fre(K) < 0)
      BY <1>12, <1>15
    <3> QED BY <1>7, <2>3, <2>4, <2>5, <3>1 DEF Store
  <2>7. \A y \in Node(cap) : y \in Values(c, n) \/ y \in Values(f, m) \/ y \in Above(cap2, cap)
    BY <1>11 DEF Shape
  <2>8. /\ Above(cap2, cap) \subseteq Node(cap)
        /\ \A x \in Above(cap2, cap) : x \notin Values(c, n) /\ x \notin Values(f, m)
    BY <1>9, <1>10
  <2> QED BY <1>8, <2>6, <2>7, <2>8 DEF Shape
<1>13. ASSUME Fre(K) < 0 PROVE \E g : Shape(K, cap, c, n, g, cap - n, {})
  <2> DEFINE z == -Fre(K) - 1
             r == cap - n
             g == [k \in 1..r |-> k + z]
  <2>1. /\ m = cap2 + Fre(K) + 1 /\ \A k \in 1..m : f[k] = k - Fre(K) - 1
    BY <1>1, <1>7, <1>13 DEF Store, Suffix
  <2>2. z \in Nat /\ r \in Nat /\ r = cap - z /\ z <= cap2 /\ m = cap2 - z /\ Fre(K) \in Int
    BY <1>13, <1>15, <2>1
  <2>3. \A k \in 1..r : k + z \in Node(cap) /\ g[k] = k + z
    BY <2>2 DEF Node
  <2> HIDE DEF r
  <2>4. g \in [1..r -> Node(cap)]
    BY <2>3
  <2>5. \A k \in 1..r : g[k] = k - Fre(K) - 1
    BY <2>2, <2>3
  <2> HIDE DEF g
  <2>6. \A i, j \in 1..r : i # j => g[i] # g[j]
    BY <2>2, <2>3
  <2>7. ASSUME NEW k \in 1..r PROVE Prv(K)[g[k]] = -1
    <3>1. CASE k <= m
      <4>1. k \in 1..m /\ f[k] = g[k] /\ f[k] \in Node(cap2) /\ Prv(S)[f[k]] = -1
        BY <1>7, <2>1, <2>5, <3>1 DEF Store
      <4> QED BY <1>5, <4>1
    <3>2. CASE k > m
      <4>1. g[k] \in Node(cap) /\ g[k] \notin Node(cap2)
        BY <2>2, <2>3, <3>2 DEF Node
      <4> QED BY <1>6, <4>1
    <3> QED BY <3>1, <3>2
  <2>8. Suffix(K, cap, g, r)
    <3>1. r = cap + Fre(K) + 1
      BY <2>2
    <3> QED BY <2>5, <3>1 DEF Suffix
  <2>9. Store(K, cap, g, r)
    <3>1. ~(Fre(K) >= 0)
      BY <1>13, <1>15
    <3> QED BY <2>2, <2>4, <2>6, <2>7, <2>8, <3>1 DEF Store
  <2>10. ASSUME NEW y \in Node(cap) PROVE y \in Values(c, n) \/ y \in Values(g, r)
    <3>1. CASE y \in Node(cap2) /\ y \notin Values(c, n)
      <4>1. y \in Values(f, m)
        BY <3>1 DEF Shape
      <4>2. PICK k \in 1..m : y = f[k]
        BY <4>1 DEF Values
      <4>3. k \in 1..r /\ g[k] = f[k]
        BY <2>1, <2>2, <2>5, <4>2
      <4> QED BY <4>2, <4>3 DEF Values
    <3>2. CASE y \notin Node(cap2)
      <4> DEFINE k == y - z
      <4>1. k \in 1..r /\ k + z = y
        BY <2>2, <3>2 DEF Node
      <4> HIDE DEF k
      <4>2. g[k] = y
        BY <2>3, <4>1
      <4> QED BY <4>1, <4>2 DEF Values
    <3> QED BY <3>1, <3>2
  <2>11. Shape(K, cap, c, n, g, r, {})
    BY <1>8, <2>9, <2>10 DEF Shape
  <2> QED BY <2>11 DEF r
<1>14. Elm(K) \in [Node(cap) -> E]
  BY <1>4 DEF IsRep
<1> QED BY <1>1, <1>4, <1>12, <1>13, <1>14

(* Copy: the copy is good and as long as the source, for every larger      *)
(* capacity and whether or not the unused end of the source's array was    *)
(* linked.                                                                 *)
THEOREM GoodCopy ==
  ASSUME NEW S, NEW cap2, NEW E, Good(S, cap2, E), NEW cap, cap \in Nat, 0 < cap2, cap2 <= cap,
         NEW M, M = Copy(S, cap)
  PROVE  Good(M, cap, E) /\ Lng(M) = Lng(S)
<1> DEFINE n == Lng(S)
           m == cap2 - Lng(S)
           K == CopyWithoutExtra(S, cap)
<1>1. IsRep(S, cap2, E) /\ cap2 \in Nat /\ n \in Nat /\ m \in Nat /\ n + m = cap2 /\ Cap(S) = cap2
  BY GoodNumbers DEF IsRep
<1>2. PICK c, f : Shape(S, cap2, c, n, f, m, {})
  BY DEF Good
<1>3. PICK a : /\ a[cap2] = K
               /\ \A i \in Nat : cap2 <= i /\ i < cap => a[i + 1] = Free(a[i], i + 1)
               /\ Copy(S, cap) = IF Fre(K) >= 0 THEN a[cap] ELSE K
  BY <1>1, CopyLoop
<1> HIDE DEF n, m, K
<1>4. /\ IsRep(K, cap, E) /\ Lng(K) = n
      /\ Fre(K) >= 0 => Shape(K, cap, c, n, f, m, Above(cap2, cap))
      /\ Fre(K) < 0 => \E g : Shape(K, cap, c, n, g, cap - n, {})
  BY <1>1, <1>2, CopyExtra DEF K, n
<1>5. CASE Fre(K) < 0
  <2>1. Fre(K) \in Int
    BY <1>4 DEF IsRep
  <2>2. M = K
    BY <1>3, <1>5, <2>1
  <2> QED BY <1>4, <1>5, <2>2 DEF Good, n
<1>6. CASE Fre(K) >= 0
  <2> DEFINE P == {i \in Nat : cap2 + i <= cap =>
                     /\ IsRep(a[cap2 + i], cap, E) /\ Lng(a[cap2 + i]) = n
                     /\ \E g : Shape(a[cap2 + i], cap, c, n, g, m + i, Above(cap2 + i, cap))}
  <2>1. 0 \in P
    BY <1>1, <1>3, <1>4, <1>6
  <2>2. ASSUME NEW i \in Nat, i \in P PROVE i + 1 \in P
    <3> DEFINE x == cap2 + i + 1
               r == m + i
               A == a[cap2 + i]
               B == a[x]
               out == Above(cap2 + i, cap)
               rest == Above(x, cap)
    <3>1. SUFFICES ASSUME cap2 + (i + 1) <= cap
                   PROVE  /\ IsRep(a[cap2 + (i + 1)], cap, E) /\ Lng(a[cap2 + (i + 1)]) = n
                          /\ \E g : Shape(a[cap2 + (i + 1)], cap, c, n, g, m + (i + 1),
                                          Above(cap2 + (i + 1), cap))
      OBVIOUS
    <3>2. cap2 + (i + 1) = x /\ m + (i + 1) = r + 1
      BY <1>1
    <3>3. IsRep(A, cap, E) /\ Lng(A) = n /\ \E g : Shape(A, cap, c, n, g, r, out)
      BY <1>1, <2>2, <3>1
    <3>4. B = Free(A, x)
      <4>1. cap2 + i \in Nat /\ cap2 <= cap2 + i /\ cap2 + i < cap /\ (cap2 + i) + 1 = x
        BY <1>1, <3>1
      <4> QED BY <1>3, <4>1
    <3>5. x \in out /\ rest = out \ {x}
      BY <1>1, <3>1 DEF Above, Node
    <3> HIDE DEF x, r, A, B, out, rest
    <3>6. Freed(A, B, x, out, rest)
      BY <3>4, <3>5 DEF Freed
    <3>7. PICK g : Shape(A, cap, c, n, g, r, out)
      BY <3>3
    <3>8. IsRep(B, cap, E) /\ Lng(B) = Lng(A) /\ Shape(B, cap, c, n, Cons(x, g, r), r + 1, rest)
      BY <3>3, <3>6, <3>7, FreeOneOf
    <3>9. a[cap2 + (i + 1)] = B /\ Above(cap2 + (i + 1), cap) = rest
      BY <3>2 DEF B, rest
    <3> QED BY <3>2, <3>3, <3>8, <3>9
  <2> HIDE DEF P
  <2>3. cap - cap2 \in P
    BY <1>1, <2>1, <2>2, NatInd
  <2>4. cap2 + (cap - cap2) = cap /\ m + (cap - cap2) = cap - n
    BY <1>1
  <2>5. M = a[cap]
    BY <1>3, <1>6
  <2>6. /\ IsRep(M, cap, E) /\ Lng(M) = n
        /\ \E g : Shape(M, cap, c, n, g, cap - n, Above(cap, cap))
    BY <1>1, <2>3, <2>4, <2>5 DEF P
  <2>7. Above(cap, cap) = {}
    BY DEF Above, Node
  <2> QED BY <2>6, <2>7 DEF Good, n
<1>7. Fre(K) \in Int
  BY <1>4 DEF IsRep
<1> QED BY <1>5, <1>6, <1>7

-----------------------------------------------------------------------------
(* Reverse_Elements.                                                       *)

(* The chain d with positions p and q exchanged.                           *)
SwapAt(d, n, p, q) ==
  [i \in 1..n |-> IF i = p THEN d[q] ELSE IF i = q THEN d[p] ELSE d[i]]

(* The two link arrays change so that positions p and q change places.     *)
SwapStep(N, n, d, p, q, next, prev, next2, prev2) ==
  /\ n \in Nat /\ d \in [1..n -> N] /\ p \in 1..n /\ q \in 1..n /\ p < q
  /\ Segment(next, prev, d, n)
  /\ next2[d[p]] = IF q = n THEN 0 ELSE d[q + 1]
  /\ next2[d[q]] = IF q = p + 1 THEN d[p] ELSE d[p + 1]
  /\ p # 1 => next2[d[p - 1]] = d[q]
  /\ q # p + 1 => next2[d[q - 1]] = d[p]
  /\ \A i \in 1..n : i # p /\ i # q /\ i # p - 1 /\ i # q - 1 => next2[d[i]] = next[d[i]]
  /\ prev2[d[q]] = IF p = 1 THEN 0 ELSE d[p - 1]
  /\ prev2[d[p]] = IF q = p + 1 THEN d[q] ELSE d[q - 1]
  /\ q # n => prev2[d[q + 1]] = d[p]
  /\ q # p + 1 => prev2[d[p + 1]] = d[q]
  /\ \A i \in 1..n : i # p /\ i # q /\ i # p + 1 /\ i # q + 1 => prev2[d[i]] = prev[d[i]]

(* Such a change gives the exchanged chain, next to each other or not.     *)
LEMMA SegSwap ==
  ASSUME NEW N, NEW n, NEW d, NEW p, NEW q, NEW next, NEW prev, NEW next2, NEW prev2,
         SwapStep(N, n, d, p, q, next, prev, next2, prev2)
  PROVE  /\ Segment(next2, prev2, SwapAt(d, n, p, q), n)
         /\ SwapAt(d, n, p, q) \in [1..n -> N]
         /\ Values(SwapAt(d, n, p, q), n) = Values(d, n)
<1> DEFINE e == SwapAt(d, n, p, q)
<1> n \in Nat /\ d \in [1..n -> N] /\ p \in 1..n /\ q \in 1..n /\ p < q
  BY DEF SwapStep
<1>0. Segment(next, prev, d, n)
  BY DEF SwapStep
<1>1. /\ e[p] = d[q] /\ e[q] = d[p]
      /\ \A i \in 1..n : i # p /\ i # q => e[i] = d[i]
  BY DEF SwapAt
<1>2. e \in [1..n -> N]
  BY DEF SwapAt
<1> HIDE DEF e
<1>3. Values(e, n) = Values(d, n)
  <2>1. \A i \in 1..n : \E j \in 1..n : e[i] = d[j]
    BY <1>1
  <2>2. \A i \in 1..n : \E j \in 1..n : d[i] = e[j]
    BY <1>1
  <2>3. ASSUME NEW v \in Values(e, n) PROVE v \in Values(d, n)
    <3>1. PICK i \in 1..n : v = e[i]
      BY ValuesMember
    <3>2. PICK j \in 1..n : e[i] = d[j]
      BY <2>1
    <3> QED BY <3>1, <3>2, ValuesMember
  <2>4. ASSUME NEW v \in Values(d, n) PROVE v \in Values(e, n)
    <3>1. PICK i \in 1..n : v = d[i]
      BY ValuesMember
    <3>2. PICK j \in 1..n : d[i] = e[j]
      BY <2>2
    <3> QED BY <3>1, <3>2, ValuesMember
  <2> QED BY <2>3, <2>4
<1>4. ASSUME NEW i \in 1..n, NEW j \in 1..n, i # j PROVE e[i] # e[j]
  <2>1. \A x, y \in 1..n : x # y => d[x] # d[y]
    BY <1>0 DEF Segment
  <2>2. CASE i = p
    BY <1>1, <1>4, <2>1, <2>2
  <2>3. CASE i = q
    BY <1>1, <1>4, <2>1, <2>3
  <2>4. CASE i # p /\ i # q
    BY <1>1, <1>4, <2>1, <2>4
  <2> QED BY <2>2, <2>3, <2>4
<1>5. ASSUME NEW i \in 1..n PROVE next2[e[i]] = IF i = n THEN 0 ELSE e[i + 1]
  <2>1. CASE i = p
    <3>1. next2[d[q]] = (IF q = p + 1 THEN d[p] ELSE d[p + 1]) /\ p # n /\ p + 1 \in 1..n
      BY DEF SwapStep
    <3>2. q # p + 1 => e[p + 1] = d[p + 1]
      BY <1>1, <3>1
    <3> QED BY <1>1, <2>1, <3>1, <3>2
  <2>2. CASE i = q
    <3>1. next2[d[p]] = IF q = n THEN 0 ELSE d[q + 1]
      BY DEF SwapStep
    <3>2. q # n => e[q + 1] = d[q + 1]
      BY <1>1
    <3> QED BY <1>1, <2>2, <3>1, <3>2
  <2>3. CASE i = p - 1
    <3>1. p # 1 /\ i # n /\ e[i] = d[p - 1] /\ i + 1 = p
      BY <1>1, <2>3
    <3>2. next2[d[p - 1]] = d[q]
      BY <3>1 DEF SwapStep
    <3> QED BY <1>1, <3>1, <3>2
  <2>4. CASE i = q - 1 /\ i # p
    <3>1. q # p + 1 /\ i # n /\ e[i] = d[q - 1] /\ i + 1 = q
      BY <1>1, <2>4
    <3>2. next2[d[q - 1]] = d[p]
      BY <3>1 DEF SwapStep
    <3> QED BY <1>1, <3>1, <3>2
  <2>5. CASE i # p /\ i # q /\ i # p - 1 /\ i # q - 1
    <3>1. e[i] = d[i] /\ (i # n => e[i + 1] = d[i + 1])
      BY <1>1, <2>5
    <3>2. next2[d[i]] = next[d[i]]
      BY <2>5 DEF SwapStep
    <3>3. next[d[i]] = IF i = n THEN 0 ELSE d[i + 1]
      BY <1>0 DEF Segment
    <3> QED BY <3>1, <3>2, <3>3
  <2> QED BY <2>1, <2>2, <2>3, <2>4, <2>5
<1>6. ASSUME NEW i \in 1..n PROVE prev2[e[i]] = IF i = 1 THEN 0 ELSE e[i - 1]
  <2>1. CASE i = p
    <3>1. prev2[d[q]] = IF p = 1 THEN 0 ELSE d[p - 1]
      BY DEF SwapStep
    <3>2. p # 1 => e[p - 1] = d[p - 1]
      BY <1>1
    <3> QED BY <1>1, <2>1, <3>1, <3>2
  <2>2. CASE i = q
    <3>1. prev2[d[p]] = (IF q = p + 1 THEN d[q] ELSE d[q - 1]) /\ q # 1 /\ q - 1 \in 1..n
      BY DEF SwapStep
    <3>2. q # p + 1 => e[q - 1] = d[q - 1]
      BY <1>1, <3>1
    <3>3. q = p + 1 => q - 1 = p
      OBVIOUS
    <3> QED BY <1>1, <2>2, <3>1, <3>2, <3>3
  <2>3. CASE i = q + 1
    <3>1. q # n /\ i # 1 /\ e[i] = d[q + 1] /\ i - 1 = q
      BY <1>1, <2>3
    <3>2. prev2[d[q + 1]] = d[p]
      BY <3>1 DEF SwapStep
    <3> QED BY <1>1, <3>1, <3>2
  <2>4. CASE i = p + 1 /\ i # q
    <3>1. q # p + 1 /\ i # 1 /\ e[i] = d[p + 1] /\ i - 1 = p
      BY <1>1, <2>4
    <3>2. prev2[d[p + 1]] = d[q]
      BY <3>1 DEF SwapStep
    <3> QED BY <1>1, <3>1, <3>2
  <2>5. CASE i # p /\ i # q /\ i # p + 1 /\ i # q + 1
    <3>1. e[i] = d[i] /\ (i # 1 => e[i - 1] = d[i - 1])
      BY <1>1, <2>5
    <3>2. prev2[d[i]] = prev[d[i]]
      BY <2>5 DEF SwapStep
    <3>3. prev[d[i]] = IF i = 1 THEN 0 ELSE d[i - 1]
      BY <1>0 DEF Segment
    <3> QED BY <3>1, <3>2, <3>3
  <2> QED BY <2>1, <2>2, <2>3, <2>4, <2>5
<1> QED BY <1>2, <1>3, <1>4, <1>5, <1>6 DEF Segment, e

(* What SwapNodes does to each component.                                  *)
Swapped(L, M, l, r) ==
  /\ DOMAIN M = Fields
  /\ Cap(M) = Cap(L) /\ Lng(M) = Lng(L) /\ Fre(M) = Fre(L) /\ Elm(M) = Elm(L)
  /\ Fst(M) = Fst(L) /\ Lst(M) = Lst(L)
  /\ Nxt(M) = [y \in DOMAIN Prv(L) |->
                 IF y = l THEN Nxt(L)[r]
                 ELSE IF y = r THEN (IF Nxt(L)[l] = r THEN l ELSE Nxt(L)[l])
                 ELSE IF y = Prv(L)[l] THEN r
                 ELSE IF y = Prv(L)[r] THEN l ELSE Nxt(L)[y]]
  /\ Prv(M) = [y \in DOMAIN Prv(L) |->
                 IF y = r THEN Prv(L)[l]
                 ELSE IF y = l THEN (IF Nxt(L)[l] = r THEN r ELSE Prv(L)[r])
                 ELSE IF y = Nxt(L)[r] THEN l
                 ELSE IF y = Nxt(L)[l] THEN r ELSE Prv(L)[y]]

(* SwapNodes does that.                                                    *)
LEMMA SwapFields ==
  ASSUME NEW L, DOMAIN L = Fields, NEW l, NEW r, NEW M, M = SwapNodes(L, l, r)
  PROVE  Swapped(L, M, l, r)
<1> DEFINE next == [n \in Nodes(L) |->
                      IF n = l THEN L.Next[r]
                      ELSE IF n = r THEN (IF L.Next[l] = r THEN l ELSE L.Next[l])
                      ELSE IF n = L.Prev[l] THEN r
                      ELSE IF n = L.Prev[r] THEN l ELSE L.Next[n]]
           prev == [n \in Nodes(L) |->
                      IF n = r THEN L.Prev[l]
                      ELSE IF n = l THEN (IF L.Next[l] = r THEN r ELSE L.Prev[r])
                      ELSE IF n = L.Next[r] THEN l
                      ELSE IF n = L.Next[l] THEN r ELSE L.Prev[n]]
<1>1. M = [L EXCEPT !.Next = next, !.Prev = prev]
  BY DEF SwapNodes
<1>2. /\ Nxt(M) = next /\ Prv(M) = prev /\ DOMAIN M = Fields
      /\ Cap(M) = Cap(L) /\ Lng(M) = Lng(L) /\ Fre(M) = Fre(L) /\ Elm(M) = Elm(L)
      /\ Fst(M) = Fst(L) /\ Lst(M) = Lst(L)
  <2> HIDE DEF next, prev
  <2> QED BY <1>1 DEF Fields, Cap, Fre, Lng, Fst, Lst, Prv, Nxt, Elm
<1> QED BY <1>2 DEF Swapped, Nodes, Prv, Nxt

(* d is a chain of n nodes by its links, whatever the ends are.            *)
Linked(L, cap, d, n) ==
  /\ n \in Nat
  /\ d \in [1..n -> Node(cap)]
  /\ Segment(Nxt(L), Prv(L), d, n)

(* M is L after the nodes at positions p and q were exchanged.             *)
Exchange(L, M, d, n, p, q) ==
  /\ p \in 1..n /\ q \in 1..n /\ p < q
  /\ M = SwapNodes(L, d[p], d[q])

(* SwapNodes exchanges two positions of a chain and touches no other       *)
(* node.                                                                   *)
LEMMA SwapLinks ==
  ASSUME NEW cap, NEW E, NEW L, IsRep(L, cap, E), NEW d, NEW n, Linked(L, cap, d, n),
         NEW p, NEW q, NEW M, Exchange(L, M, d, n, p, q)
  PROVE  /\ Swapped(L, M, d[p], d[q])
         /\ Prv(M) \in [Node(cap) -> Node(cap) \cup {0, -1}]
         /\ Nxt(M) \in [Node(cap) -> Node(cap) \cup {0}]
         /\ SwapStep(Node(cap), n, d, p, q, Nxt(L), Prv(L), Nxt(M), Prv(M))
         /\ \A y \in Node(cap) : y \notin Values(d, n) =>
              Nxt(M)[y] = Nxt(L)[y] /\ Prv(M)[y] = Prv(L)[y]
<1> DEFINE N == Node(cap)
           l == d[p]
           r == d[q]
<1> cap \in Nat /\ n \in Nat /\ p \in 1..n /\ q \in 1..n /\ p < q
  BY DEF IsRep, Linked, Exchange
<1>1. /\ d \in [1..n -> N] /\ Segment(Nxt(L), Prv(L), d, n) /\ M = SwapNodes(L, l, r)
  BY DEF Linked, Exchange
<1>2. /\ Prv(L) \in [N -> N \cup {0, -1}] /\ Nxt(L) \in [N -> N \cup {0}] /\ DOMAIN L = Fields
  BY DEF IsRep
<1>3. Swapped(L, M, l, r)
  BY <1>1, <1>2, SwapFields
<1>4. 0 \notin N /\ \A i \in 1..n : d[i] \in N /\ d[i] # 0
  BY <1>1, NodeNumbers
<1>5. \A i, j \in 1..n : i # j => d[i] # d[j]
  BY <1>1 DEF Segment
<1>6. /\ Nxt(L)[l] = d[p + 1] /\ p + 1 \in 1..n
      /\ Nxt(L)[r] = IF q = n THEN 0 ELSE d[q + 1]
      /\ Prv(L)[l] = IF p = 1 THEN 0 ELSE d[p - 1]
      /\ Prv(L)[r] = d[q - 1] /\ q - 1 \in 1..n
  <2>1. /\ Nxt(L)[d[p]] = IF p = n THEN 0 ELSE d[p + 1]
        /\ Nxt(L)[d[q]] = IF q = n THEN 0 ELSE d[q + 1]
        /\ Prv(L)[d[p]] = IF p = 1 THEN 0 ELSE d[p - 1]
        /\ Prv(L)[d[q]] = IF q = 1 THEN 0 ELSE d[q - 1]
    BY <1>1 DEF Segment
  <2> QED BY <2>1
<1> DEFINE ln == Nxt(L)[l]
           rn == Nxt(L)[r]
           lp == Prv(L)[l]
           rp == Prv(L)[r]
<1> HIDE DEF N
<1>7. \A y \in N :
        Nxt(M)[y] = IF y = l THEN rn
                    ELSE IF y = r THEN (IF ln = r THEN l ELSE ln)
                    ELSE IF y = lp THEN r
                    ELSE IF y = rp THEN l ELSE Nxt(L)[y]
  BY <1>2, <1>3 DEF Swapped
<1>8. \A y \in N :
        Prv(M)[y] = IF y = r THEN lp
                    ELSE IF y = l THEN (IF ln = r THEN r ELSE rp)
                    ELSE IF y = rn THEN l
                    ELSE IF y = ln THEN r ELSE Prv(L)[y]
  BY <1>2, <1>3 DEF Swapped
<1>9. l \in N /\ r \in N
  BY <1>4
<1>10. ln = r <=> q = p + 1
  BY <1>5, <1>6
<1>11. ln \in N \cup {0} /\ rn \in N \cup {0} /\ lp \in N \cup {0} /\ rp \in N \cup {0}
  BY <1>4, <1>6
<1>12. Nxt(M) \in [N -> N \cup {0}]
  <2>1. Nxt(M) = [y \in N |-> Nxt(M)[y]]
    BY <1>2, <1>3 DEF Swapped
  <2> HIDE DEF l, r, ln, rn, lp, rp
  <2>2. \A y \in N : Nxt(M)[y] \in N \cup {0}
    BY <1>2, <1>7, <1>9, <1>11
  <2> QED BY <2>1, <2>2
<1>13. Prv(M) \in [N -> N \cup {0, -1}]
  <2>1. Prv(M) = [y \in N |-> Prv(M)[y]]
    BY <1>2, <1>3 DEF Swapped
  <2> HIDE DEF l, r, ln, rn, lp, rp
  <2>2. \A y \in N : Prv(M)[y] \in N \cup {0, -1}
    BY <1>2, <1>8, <1>9, <1>11
  <2> QED BY <2>1, <2>2
<1>14. \A y \in N : y \notin Values(d, n) => Nxt(M)[y] = Nxt(L)[y] /\ Prv(M)[y] = Prv(L)[y]
  <2> SUFFICES ASSUME NEW y \in N, y \notin Values(d, n)
               PROVE  Nxt(M)[y] = Nxt(L)[y] /\ Prv(M)[y] = Prv(L)[y]
    OBVIOUS
  <2>1. \A i \in 1..n : y # d[i]
    BY ValuesMember
  <2>2. y # l /\ y # r /\ y # ln /\ y # rn /\ y # lp /\ y # rp
    BY <1>4, <1>6, <2>1
  <2> HIDE DEF l, r, ln, rn, lp, rp
  <2> QED BY <1>7, <1>8, <2>2
<1>15. /\ Nxt(M)[l] = rn
       /\ Nxt(M)[r] = IF q = p + 1 THEN l ELSE ln
       /\ Prv(M)[r] = lp
       /\ Prv(M)[l] = IF q = p + 1 THEN r ELSE rp
  <2>1. l # r
    BY <1>5
  <2> HIDE DEF l, r, ln, rn, lp, rp
  <2> QED BY <1>7, <1>8, <1>9, <1>10, <2>1
<1>16. ASSUME NEW i \in 1..n, i # p, i # q
       PROVE  /\ i = p - 1 => Nxt(M)[d[i]] = r
              /\ i = q - 1 => Nxt(M)[d[i]] = l
              /\ i # p - 1 /\ i # q - 1 => Nxt(M)[d[i]] = Nxt(L)[d[i]]
              /\ i = q + 1 => Prv(M)[d[i]] = l
              /\ i = p + 1 => Prv(M)[d[i]] = r
              /\ i # q + 1 /\ i # p + 1 => Prv(M)[d[i]] = Prv(L)[d[i]]
  <2> DEFINE y == d[i]
  <2>1. y \in N /\ y # l /\ y # r /\ y # 0
    BY <1>4, <1>5, <1>16
  <2>2. y = lp <=> i = p - 1
    BY <1>4, <1>5, <1>6
  <2>3. y = rp <=> i = q - 1
    BY <1>5, <1>6
  <2>4. y = rn <=> i = q + 1
    BY <1>4, <1>5, <1>6
  <2>5. y = ln <=> i = p + 1
    BY <1>5, <1>6
  <2> HIDE DEF y, l, r, ln, rn, lp, rp
  <2>6. /\ Nxt(M)[y] = IF y = lp THEN r ELSE IF y = rp THEN l ELSE Nxt(L)[y]
        /\ Prv(M)[y] = IF y = rn THEN l ELSE IF y = ln THEN r ELSE Prv(L)[y]
    BY <1>7, <1>8, <2>1
  <2> QED BY <2>2, <2>3, <2>4, <2>5, <2>6 DEF y
<1>17. /\ p # 1 => Nxt(M)[d[p - 1]] = r
       /\ q # p + 1 => Nxt(M)[d[q - 1]] = l
       /\ q # n => Prv(M)[d[q + 1]] = l
       /\ q # p + 1 => Prv(M)[d[p + 1]] = r
  <2> HIDE DEF l, r
  <2>1. p # 1 => p - 1 \in 1..n /\ p - 1 # p /\ p - 1 # q
    OBVIOUS
  <2>2. q # p + 1 => q - 1 \in 1..n /\ q - 1 # p /\ q - 1 # q /\ p + 1 \in 1..n /\ p + 1 # p /\ p + 1 # q
    OBVIOUS
  <2>3. q # n => q + 1 \in 1..n /\ q + 1 # p /\ q + 1 # q
    OBVIOUS
  <2> QED BY <1>16, <2>1, <2>2, <2>3
<1>18. /\ \A i \in 1..n : i # p /\ i # q /\ i # p - 1 /\ i # q - 1 => Nxt(M)[d[i]] = Nxt(L)[d[i]]
       /\ \A i \in 1..n : i # p /\ i # q /\ i # p + 1 /\ i # q + 1 => Prv(M)[d[i]] = Prv(L)[d[i]]
  BY <1>16
<1>19. SwapStep(N, n, d, p, q, Nxt(L), Prv(L), Nxt(M), Prv(M))
  BY <1>1, <1>6, <1>15, <1>17, <1>18 DEF SwapStep
<1> QED BY <1>3, <1>12, <1>13, <1>14, <1>19 DEF N

(* The list with its ends exchanged, as before the loop.                   *)
Turned(L) == [L EXCEPT !.First = L.Last, !.Last = L.First]

(* The loop of Reverse_Elements.                                           *)
LEMMA ReverseLoop ==
  ASSUME NEW L, Lng(L) \in Nat, Lng(L) > 1
  PROVE  \E a : /\ a[0] = [list |-> Turned(L), l |-> Fst(L), r |-> Lst(L)]
                /\ Reverse_Elements(L) = a[Lng(L)].list
                /\ \A i \in Nat : i < Lng(L) => a[i + 1] = Step("Reverse", 0, i + 1, a[i])
<1> DEFINE n == Lng(L)
           Meet(M, l, r) ==
             LET r2 == M.Next[r] IN
             IF l = r2 THEN [list |-> M, l |-> l, r |-> r2]
             ELSE [list |-> M, l |-> r2, r |-> M.Prev[l]]
           X0 == [list |-> [L EXCEPT !.First = L.Last, !.Last = L.First],
                  l |-> L.First, r |-> L.Last]
           Body(p) == IF p.l = p.r THEN p
                      ELSE Meet(SwapNodes(p.list, p.l, p.r), p.l, p.r)
           a == CHOOSE a : a = [k \in 0..L.Length |->
                  IF k = 0
                  THEN [list |-> [L EXCEPT !.First = L.Last, !.Last = L.First],
                        l |-> L.First, r |-> L.Last]
                  ELSE LET p == a[k - 1] IN
                       IF p.l = p.r THEN p
                       ELSE Meet(SwapNodes(p.list, p.l, p.r), p.l, p.r)]
<1>1. \A i, x : Step("Reverse", 0, i, x) = Body(x)
  BY DEF Step, Meeting, Nxt, Prv
<1>2. Reverse_Elements(L) = a[n].list
  <2>1. ~(L.Length <= 1)
    BY DEF Lng
  <2> QED BY <2>1, Zenon DEF Reverse_Elements, Lng
<1> n \in Nat
  OBVIOUS
<1> HIDE DEF Body, X0, n, Meet
<1>3. \E b : IsLoop(b, 0, n, "Reverse", 0, X0)
  BY LoopExists
<1>4. \E b : b = [i \in 0..n |-> IF i = 0 THEN X0 ELSE Body(b[i - 1])]
  BY <1>1, <1>3 DEF IsLoop
<1>5. a = [i \in 0..n |-> IF i = 0 THEN X0 ELSE Body(a[i - 1])]
  BY <1>4 DEF X0, Body, n, Lng
<1> HIDE DEF a
<1>6. IsLoop(a, 0, n, "Reverse", 0, X0)
  BY <1>1, <1>5 DEF IsLoop
<1>7. a[0] = X0 /\ \A i \in Nat : 0 <= i /\ i < n => a[i + 1] = Step("Reverse", 0, i + 1, a[i])
  BY <1>6, LoopStates
<1> QED BY <1>2, <1>7 DEF X0, n, Fst, Lst, Turned

(* Where the loop stands after k exchanges: the k nodes at either end      *)
(* have changed places, or all of them when the indices have met.          *)
Turning(p, c, n, d, k) ==
  \A x \in 1..n : d[x] = IF p.l # p.r /\ k < x /\ x <= n - k THEN c[x] ELSE c[n + 1 - x]

(* The chain read backward.                                                *)
Reversal(c, n) == [x \in 1..n |-> c[n + 1 - x]]

(* One exchange more; when the indices meet, at most the node in the       *)
(* middle is left, which is its own counterpart.                           *)
LEMMA TurningStep ==
  ASSUME NEW p, NEW q, NEW c, NEW n, NEW d, NEW k, Turning(p, c, n, d, k),
         n \in Nat, k \in Nat, p.l # p.r, k + 1 < n - k,
         q.l # q.r \/ ~((k + 1) + 1 < n - (k + 1)),
         NEW e, e = SwapAt(d, n, k + 1, n - k)
  PROVE  Turning(q, c, n, e, k + 1)
<1> DEFINE u == k + 1
           v == n - k
<1>1. u \in 1..n /\ v \in 1..n /\ u < v /\ v = n + 1 - u /\ u = n + 1 - v
  OBVIOUS
<1>2. d[u] = c[u] /\ d[v] = c[v]
  BY <1>1 DEF Turning
<1>3. e[u] = c[v] /\ e[v] = c[u]
  BY <1>1, <1>2 DEF SwapAt
<1>4. \A x \in 1..n : x # u /\ x # v =>
        e[x] = IF k < x /\ x <= n - k THEN c[x] ELSE c[n + 1 - x]
  BY DEF SwapAt, Turning
<1>5. ASSUME NEW x \in 1..n
      PROVE  e[x] = IF k + 1 < x /\ x <= n - (k + 1) THEN c[x] ELSE c[n + 1 - x]
  <2>1. CASE x = u
    BY <1>1, <1>3, <2>1
  <2>2. CASE x = v
    BY <1>1, <1>3, <2>2
  <2>3. CASE x # u /\ x # v
    BY <1>4, <2>3
  <2> QED BY <2>1, <2>2, <2>3
<1>6. CASE q.l # q.r
  BY <1>5, <1>6 DEF Turning
<1>7. CASE ~((k + 1) + 1 < n - (k + 1))
  <2>1. ASSUME NEW x \in 1..n PROVE e[x] = c[n + 1 - x]
    <3>1. CASE k + 1 < x /\ x <= n - (k + 1)
      <4>1. x = n + 1 - x
        BY <1>7, <3>1
      <4> QED BY <1>5, <4>1
    <3> QED BY <1>5, <3>1
  <2>2. CASE q.l # q.r
    BY <1>5, <2>2 DEF Turning
  <2>3. CASE q.l = q.r
    BY <2>1, <2>3 DEF Turning
  <2> QED BY <2>2, <2>3
<1> QED BY <1>6, <1>7

(* What the loop keeps: the chain d with the nodes of c, the store         *)
(* untouched, and the two indices at places k + 1 and n - k.               *)
Reversing(p, cap, E, c, n, f, m, g, d, k) ==
  /\ IsRep(p.list, cap, E) /\ Lng(p.list) = n /\ Elm(p.list) = g
  /\ Linked(p.list, cap, d, n)
  /\ Store(p.list, cap, f, m)
  /\ Values(d, n) = Values(c, n)
  /\ Turning(p, c, n, d, k)
  /\ k = 0 => Fst(p.list) = d[n] /\ Lst(p.list) = d[1] /\ p.l # p.r
  /\ k # 0 => Fst(p.list) = d[1] /\ Lst(p.list) = d[n]
  /\ p.l = p.r \/ (p.l = d[k + 1] /\ p.r = d[n - k] /\ k + 1 < n - k)

(* One iteration keeps it: the ends, which were exchanged before the       *)
(* loop, agree with the chain from the first exchange on.                  *)
LEMMA ReverseStep ==
  ASSUME NEW p, NEW cap, NEW E, NEW c, NEW n, NEW f, NEW m, NEW g, NEW d, NEW k,
         Reversing(p, cap, E, c, n, f, m, g, d, k), k \in Nat,
         NEW i, NEW q, q = Step("Reverse", 0, i, p)
  PROVE  \E e : Reversing(q, cap, E, c, n, f, m, g, e, k + 1)
<1> DEFINE L == p.list
           l == p.l
           r == p.r
           u == k + 1
           v == n - k
<1>1. /\ IsRep(L, cap, E) /\ Lng(L) = n /\ Elm(L) = g
      /\ Turning(p, c, n, d, k)
      /\ Linked(L, cap, d, n)
      /\ Store(L, cap, f, m)
      /\ Values(d, n) = Values(c, n)
      /\ k = 0 => Fst(L) = d[n] /\ Lst(L) = d[1] /\ l # r
      /\ k # 0 => Fst(L) = d[1] /\ Lst(L) = d[n]
      /\ l = r \/ (l = d[u] /\ r = d[v] /\ u < v)
  BY DEF Reversing
<1> cap \in Nat /\ n \in Nat /\ m \in Nat
  BY <1>1 DEF IsRep, Linked, Store
<1>2. CASE l = r
  <2>1. q = p
    BY <1>2 DEF Step
  <2>2. k # 0 /\ k + 1 # 0
    BY <1>1, <1>2
  <2>4. Turning(q, c, n, d, k + 1)
    BY <1>1, <1>2, <2>1 DEF Turning
  <2>3. Reversing(q, cap, E, c, n, f, m, g, d, k + 1)
    BY <1>1, <1>2, <2>1, <2>2, <2>4 DEF Reversing
  <2> QED BY <2>3
<1>3. CASE l # r
  <2> DEFINE M == SwapNodes(L, l, r)
             e == SwapAt(d, n, u, v)
  <2>1. q = Meeting(M, l, r)
    BY <1>3 DEF Step
  <2>2. u \in 1..n /\ v \in 1..n /\ u < v /\ l = d[u] /\ r = d[v]
    BY <1>1, <1>3
  <2>3. Exchange(L, M, d, n, u, v)
    BY <2>2 DEF Exchange
  <2> HIDE DEF M, e, L, u, v
  <2>4. /\ Swapped(L, M, d[u], d[v])
        /\ Prv(M) \in [Node(cap) -> Node(cap) \cup {0, -1}]
        /\ Nxt(M) \in [Node(cap) -> Node(cap) \cup {0}]
        /\ SwapStep(Node(cap), n, d, u, v, Nxt(L), Prv(L), Nxt(M), Prv(M))
        /\ \A y \in Node(cap) : y \notin Values(d, n) =>
             Nxt(M)[y] = Nxt(L)[y] /\ Prv(M)[y] = Prv(L)[y]
    BY <1>1, <2>3, SwapLinks
  <2>5. /\ Segment(Nxt(M), Prv(M), e, n) /\ e \in [1..n -> Node(cap)]
        /\ Values(e, n) = Values(d, n)
    BY <2>4, SegSwap DEF e
  <2>6. /\ DOMAIN M = Fields
        /\ Cap(M) = Cap(L) /\ Lng(M) = Lng(L) /\ Fre(M) = Fre(L) /\ Elm(M) = Elm(L)
        /\ Fst(M) = Fst(L) /\ Lst(M) = Lst(L)
    BY <2>4 DEF Swapped
  <2>7. IsRep(M, cap, E)
    BY <1>1, <2>4, <2>6 DEF IsRep
  <2>8. Linked(M, cap, e, n)
    BY <2>5 DEF Linked
  <2>9. Store(M, cap, f, m)
    <3>1. \A x \in 1..n : \A y \in 1..m : d[x] # f[y]
      <4>1. ASSUME NEW x \in 1..n, NEW y \in 1..m PROVE d[x] # f[y]
        <5>1. /\ Segment(Nxt(L), Prv(L), d, n) /\ d \in [1..n -> Node(cap)]
          BY <1>1 DEF Linked
        <5>2. Prv(L)[d[x]] = IF x = 1 THEN 0 ELSE d[x - 1]
          BY <5>1 DEF Segment
        <5>3. x # 1 => d[x - 1] \in Node(cap)
          BY <5>1
        <5>4. Prv(L)[f[y]] = -1
          BY <1>1 DEF Store
        <5> QED BY <5>2, <5>3, <5>4, NodeNumbers
      <4> QED BY <4>1
    <3>2. \A y \in 1..m : f[y] \in Node(cap) /\ f[y] \notin Values(d, n)
      BY <1>1, <3>1 DEF Store, Values
    <3>3. \A y \in 1..m : Prv(M)[f[y]] = Prv(L)[f[y]] /\ Nxt(M)[f[y]] = Nxt(L)[f[y]]
      BY <2>4, <3>2
    <3> QED BY <1>1, <2>6, <3>3, StoreFrame
  <2>10. /\ e[u] = r /\ e[v] = l
         /\ \A x \in 1..n : x # u /\ x # v => e[x] = d[x]
    BY <2>2 DEF e, SwapAt
  <2>11. Fst(M) = e[1] /\ Lst(M) = e[n]
    <3>1. 1 \in 1..n /\ n \in 1..n
      BY <2>2
    <3>2. CASE k = 0
      <4>1. u = 1 /\ v = n
        BY <3>2 DEF u, v
      <4>2. Fst(L) = d[n] /\ Lst(L) = d[1]
        BY <1>1, <3>2
      <4> QED BY <2>2, <2>6, <2>10, <4>1, <4>2
    <3>3. CASE k # 0
      <4>1. 1 # u /\ 1 # v /\ n # u /\ n # v
        BY <2>2, <3>3 DEF u, v
      <4>2. Fst(L) = d[1] /\ Lst(L) = d[n]
        BY <1>1, <3>3
      <4> QED BY <2>6, <2>10, <3>1, <4>1, <4>2
    <3> QED BY <3>2, <3>3
  <2>12. /\ Nxt(M)[r] = e[u + 1] /\ Prv(M)[l] = e[v - 1]
         /\ u + 1 \in 1..n /\ v - 1 \in 1..n
    <3>1. Nxt(M)[e[u]] = (IF u = n THEN 0 ELSE e[u + 1]) /\ Prv(M)[e[v]] = IF v = 1 THEN 0 ELSE e[v - 1]
      BY <2>2, <2>5 DEF Segment
    <3>2. u # n /\ v # 1 /\ u + 1 \in 1..n /\ v - 1 \in 1..n
      BY <2>2
    <3> QED BY <2>10, <3>1, <3>2
  <2>13. \A x, y \in 1..n : x # y => e[x] # e[y]
    BY <2>5 DEF Segment
  <2>14. /\ q.list = M
         /\ q.l = q.r \/ (q.l = e[(k + 1) + 1] /\ q.r = e[n - (k + 1)] /\ (k + 1) + 1 < n - (k + 1))
    <3>1. CASE l = Nxt(M)[r]
      BY <2>1, <3>1 DEF Meeting
    <3>2. CASE l # Nxt(M)[r]
      <4>1. q.list = M /\ q.l = e[u + 1] /\ q.r = e[v - 1]
        BY <2>1, <2>12, <3>2 DEF Meeting
      <4>2. u + 1 # v
        BY <2>10, <2>12, <3>2
      <4>3. u + 1 = v - 1 \/ u + 1 < v - 1
        BY <2>2, <4>2
      <4>4. u + 1 = (k + 1) + 1 /\ v - 1 = n - (k + 1)
        BY DEF u, v
      <4> QED BY <4>1, <4>3, <4>4
    <3> QED BY <3>1, <3>2
  <2>15. k + 1 # 0
    OBVIOUS
  <2>17. Turning(q, c, n, e, k + 1)
    <3>1. q.l # q.r \/ ~((k + 1) + 1 < n - (k + 1))
      <4>1. CASE l = Nxt(M)[r]
        <5>1. ~(u + 1 < v)
          <6>1. l = e[u + 1] /\ l = e[v]
            BY <2>10, <2>12, <4>1
          <6>2. u + 1 = v
            BY <2>2, <2>12, <2>13, <6>1
          <6> QED BY <2>2, <6>2
        <5> QED BY <5>1 DEF u, v
      <4>2. CASE l # Nxt(M)[r]
        <5>1. q.l = e[u + 1] /\ q.r = e[v - 1]
          BY <2>1, <2>12, <4>2 DEF Meeting
        <5>2. q.l # q.r \/ u + 1 = v - 1
          BY <2>12, <2>13, <5>1
        <5>3. u + 1 = (k + 1) + 1 /\ v - 1 = n - (k + 1)
          BY DEF u, v
        <5> QED BY <2>2, <5>2, <5>3
      <4> QED BY <4>1, <4>2
    <3>2. k + 1 < n - k /\ e = SwapAt(d, n, k + 1, n - k)
      BY <2>2 DEF u, v, e
    <3> QED BY <1>1, <1>3, <3>1, <3>2, TurningStep
  <2>16. Reversing(q, cap, E, c, n, f, m, g, e, k + 1)
    BY <1>1, <2>5, <2>6, <2>7, <2>8, <2>9, <2>11, <2>14, <2>15, <2>17 DEF Reversing
  <2> QED BY <2>16
<1> QED BY <1>2, <1>3

(* Two sequences with the same elements are equal.                         *)
LEMMA SameSequence ==
  ASSUME NEW S, NEW a, NEW b, NEW n, ListOf(S, a, n), ListOf(S, b, n),
         \A x \in 1..n : a[x] = b[x]
  PROVE  a = b
<1> DEFINE D == 1..n
<1>1. a \in [D -> S] /\ b \in [D -> S] /\ \A x \in D : a[x] = b[x]
  BY DEF ListOf
<1> HIDE DEF D
<1>2. a = [x \in D |-> a[x]] /\ b = [x \in D |-> b[x]]
  BY <1>1
<1>3. [x \in D |-> a[x]] = [x \in D |-> b[x]]
  BY <1>1
<1> QED BY <1>2, <1>3

(* Reverse_Elements: the chain of the result is the chain of the list      *)
(* read backward, for odd and even lengths, and elements and free store    *)
(* are untouched.                                                          *)
THEOREM ReverseShape ==
  ASSUME NEW L, NEW cap, NEW E, IsRep(L, cap, E), NEW c, NEW n, NEW f, NEW m,
         Shape(L, cap, c, n, f, m, {}), n = Lng(L), NEW M, M = Reverse_Elements(L)
  PROVE  /\ IsRep(M, cap, E) /\ Lng(M) = n /\ Elm(M) = Elm(L)
         /\ Shape(M, cap, Reversal(c, n), n, f, m, {})
         /\ Values(Reversal(c, n), n) = Values(c, n)
<1> DEFINE K == Turned(L)
           g == Elm(L)
           b == Reversal(c, n)
<1>1. cap \in Nat /\ n \in Nat /\ m \in Nat
  BY DEF IsRep, Shape, Active, Store
<1>2. Active(L, Node(cap), c, n) /\ c \in [1..n -> Node(cap)] /\ Store(L, cap, f, m)
  BY DEF Shape, Active
<1>3. b \in [1..n -> Node(cap)] /\ \A x \in 1..n : b[x] = c[n + 1 - x]
  <2>1. \A x \in 1..n : c[n + 1 - x] \in Node(cap)
    BY <1>1, <1>2
  <2> QED BY <2>1 DEF Reversal
<1> HIDE DEF b
<1>4. CASE n <= 1
  <2>1. M = L
    BY <1>4 DEF Reverse_Elements, Lng
  <2>2. \A x \in 1..n : n + 1 - x = x
    BY <1>1, <1>4
  <2>3. b = c
    <3>1. \A x \in 1..n : b[x] = c[x]
      BY <1>3, <2>2
    <3>2. ListOf(Node(cap), b, n) /\ ListOf(Node(cap), c, n)
      BY <1>1, <1>2, <1>3 DEF ListOf
    <3> QED BY <3>1, <3>2, SameSequence
  <2> QED BY <2>1, <2>3 DEF b
<1>5. CASE ~(n <= 1)
  <2>0. n > 1
    BY <1>1, <1>5
  <2>1. PICK a : /\ a[0] = [list |-> K, l |-> Fst(L), r |-> Lst(L)]
                 /\ Reverse_Elements(L) = a[n].list
                 /\ \A i \in Nat : i < n => a[i + 1] = Step("Reverse", 0, i + 1, a[i])
    BY <1>1, <2>0, ReverseLoop
  <2>2. /\ DOMAIN K = Fields /\ Cap(K) = Cap(L) /\ Lng(K) = Lng(L) /\ Fre(K) = Fre(L)
        /\ Elm(K) = Elm(L) /\ Prv(K) = Prv(L) /\ Nxt(K) = Nxt(L)
        /\ Fst(K) = Lst(L) /\ Lst(K) = Fst(L)
    BY DEF Turned, IsRep, Fields, Cap, Fre, Lng, Fst, Lst, Prv, Nxt, Elm
  <2> HIDE DEF K, g
  <2>3. IsRep(K, cap, E) /\ Lng(K) = n /\ Elm(K) = g
    BY <2>2 DEF IsRep, g
  <2>4. Segment(Nxt(L), Prv(L), c, n) /\ Fst(L) = c[1] /\ Lst(L) = c[n]
    BY <1>2, <2>0 DEF Active
  <2>5. Linked(K, cap, c, n)
    BY <1>1, <1>2, <2>2, <2>4 DEF Linked
  <2>6. Store(K, cap, f, m)
    BY <1>2, <2>2, StoreFrame
  <2>7. c[1] # c[n]
    BY <1>1, <2>0, <2>4 DEF Segment
  <2> DEFINE P == {i \in Nat : i <= n => \E d : Reversing(a[i], cap, E, c, n, f, m, g, d, i)}
  <2>8. 0 \in P
    <3> DEFINE x == a[0]
    <3>1. x.list = K /\ x.l = c[1] /\ x.r = c[n]
      BY <2>1, <2>4
    <3> HIDE DEF x
    <3>2. 0 + 1 = 1 /\ n - 0 = n /\ 0 + 1 < n - 0
      BY <1>1, <2>0
    <3>3. Turning(x, c, n, c, 0)
      BY <1>1, <2>7, <3>1 DEF Turning
    <3>4. Reversing(x, cap, E, c, n, f, m, g, c, 0)
      BY <2>2, <2>3, <2>4, <2>5, <2>6, <2>7, <3>1, <3>2, <3>3 DEF Reversing
    <3> QED BY <3>4 DEF x
  <2>9. ASSUME NEW i \in Nat, i \in P PROVE i + 1 \in P
    <3>1. SUFFICES ASSUME i + 1 <= n
                   PROVE  \E d : Reversing(a[i + 1], cap, E, c, n, f, m, g, d, i + 1)
      OBVIOUS
    <3>2. PICK d : Reversing(a[i], cap, E, c, n, f, m, g, d, i)
      BY <1>1, <2>9, <3>1
    <3>3. a[i + 1] = Step("Reverse", 0, i + 1, a[i])
      BY <1>1, <2>1, <3>1
    <3> HIDE DEF P
    <3> QED BY <3>2, <3>3, ReverseStep
  <2> HIDE DEF P
  <2>10. n \in P
    BY <1>1, <2>8, <2>9, NatInd
  <2>11. PICK d : Reversing(a[n], cap, E, c, n, f, m, g, d, n)
    BY <1>1, <2>10 DEF P
  <2>12. M = a[n].list
    BY <2>1
  <2>13. /\ IsRep(M, cap, E) /\ Lng(M) = n /\ Linked(M, cap, d, n) /\ Store(M, cap, f, m)
         /\ Values(d, n) = Values(c, n) /\ Fst(M) = d[1] /\ Lst(M) = d[n] /\ Elm(M) = g
         /\ Turning(a[n], c, n, d, n)
    BY <1>1, <2>0, <2>11, <2>12 DEF Reversing
  <2>14. d = b
    <3>1. \A x \in 1..n : d[x] = c[n + 1 - x]
      BY <1>1, <2>13 DEF Turning
    <3>2. d \in [1..n -> Node(cap)]
      BY <2>13 DEF Linked
    <3>3. \A x \in 1..n : d[x] = b[x]
      BY <1>3, <3>1
    <3>4. ListOf(Node(cap), b, n) /\ ListOf(Node(cap), d, n)
      BY <1>1, <1>3, <3>2 DEF ListOf
    <3> QED BY <3>3, <3>4, SameSequence
  <2>15. Active(M, Node(cap), d, n)
    BY <2>0, <2>13 DEF Active, Linked
  <2>16. Shape(M, cap, d, n, f, m, {})
    BY <2>13, <2>15 DEF Shape
  <2> QED BY <2>13, <2>14, <2>16 DEF b, g
<1> QED BY <1>4, <1>5

(* Reverse_Elements keeps a good list good, with the same cursors and      *)
(* elements.                                                               *)
THEOREM GoodReverse ==
  ASSUME NEW L, NEW cap, NEW E, Good(L, cap, E), NEW M, M = Reverse_Elements(L)
  PROVE  /\ Good(M, cap, E) /\ Lng(M) = Lng(L) /\ Elm(M) = Elm(L)
         /\ \A y : y \in Cursors(M) <=> y \in Cursors(L)
<1>1. IsRep(L, cap, E)
  BY GoodNumbers
<1>2. PICK c, f : Shape(L, cap, c, Lng(L), f, cap - Lng(L), {})
  BY DEF Good
<1>3. /\ IsRep(M, cap, E) /\ Lng(M) = Lng(L) /\ Elm(M) = Elm(L)
      /\ Shape(M, cap, Reversal(c, Lng(L)), Lng(L), f, cap - Lng(L), {})
      /\ Values(Reversal(c, Lng(L)), Lng(L)) = Values(c, Lng(L))
  BY <1>1, <1>2, ReverseShape
<1>4. /\ \A y : y \in Cursors(L) <=> y \in Values(c, Lng(L))
      /\ \A y : y \in Cursors(M) <=> y \in Values(c, Lng(L))
  BY <1>1, <1>2, <1>3, CursorsShape
<1>5. Good(M, cap, E)
  BY <1>3 DEF Good
<1> QED BY <1>3, <1>4, <1>5

-----------------------------------------------------------------------------
(* Sort: the two link arrays alone, and the parts of the list that it      *)
(* splits and merges.                                                      *)

(* k is a pair of link arrays.                                             *)
IsLinks(k, cap) ==
  /\ k = [Prev |-> Prv(k), Next |-> Nxt(k)]
  /\ Prv(k) \in [Node(cap) -> Node(cap) \cup {0, -1}]
  /\ Nxt(k) \in [Node(cap) -> Node(cap) \cup {0}]

(* What a link may hold in a part.                                         *)
Place(cap) == Node(cap) \cup {0}

(* k2 is k with Prev of a and Next of b written.                           *)
Relink(k, k2, a, u, b, v) == k2 = [k EXCEPT !.Prev[a] = u, !.Next[b] = v]

(* A function with one value replaced.                                     *)
LEMMA PutFunction ==
  ASSUME NEW N, NEW S, NEW h, NEW g, NEW a, NEW v, Put(h, g, a, v),
         g \in [N -> S], a \in N, v \in S
  PROVE  h \in [N -> S] /\ h[a] = v /\ \A y \in N : y # a => h[y] = g[y]
BY DEF Put

(* What Relink changes, and what it does not.                              *)
LEMMA LinksUpdate ==
  ASSUME NEW k, NEW cap, IsLinks(k, cap), cap \in Nat, NEW a, NEW b, NEW u, NEW v,
         a \in Node(cap), b \in Node(cap), u \in Place(cap), v \in Place(cap),
         NEW k2, Relink(k, k2, a, u, b, v)
  PROVE  /\ IsLinks(k2, cap) /\ Prv(k2)[a] = u /\ Nxt(k2)[b] = v
         /\ \A y \in Node(cap) : y # a => Prv(k2)[y] = Prv(k)[y]
         /\ \A y \in Node(cap) : y # b => Nxt(k2)[y] = Nxt(k)[y]
<1>1. k = [Prev |-> Prv(k), Next |-> Nxt(k)]
  BY DEF IsLinks
<1>2. /\ k2 = [Prev |-> Prv(k2), Next |-> Nxt(k2)]
      /\ Prv(k2) = [Prv(k) EXCEPT ![a] = u] /\ Nxt(k2) = [Nxt(k) EXCEPT ![b] = v]
  BY <1>1 DEF Prv, Nxt, Relink
<1>3. u \in Node(cap) \cup {0, -1} /\ v \in Node(cap) \cup {0}
  BY DEF Place
<1>4. Prv(k) \in [Node(cap) -> Node(cap) \cup {0, -1}] /\ Nxt(k) \in [Node(cap) -> Node(cap) \cup {0}]
  BY DEF IsLinks
<1>5. Put(Prv(k2), Prv(k), a, u) /\ Put(Nxt(k2), Nxt(k), b, v)
  BY <1>2 DEF Put
<1>6. /\ Prv(k2) \in [Node(cap) -> Node(cap) \cup {0, -1}] /\ Prv(k2)[a] = u
      /\ \A y \in Node(cap) : y # a => Prv(k2)[y] = Prv(k)[y]
  <2> DEFINE S == Node(cap) \cup {0, -1}
  <2>1. u \in S /\ Prv(k) \in [Node(cap) -> S]
    BY <1>3, <1>4
  <2> HIDE DEF S
  <2>2. /\ Prv(k2) \in [Node(cap) -> S] /\ Prv(k2)[a] = u
        /\ \A y \in Node(cap) : y # a => Prv(k2)[y] = Prv(k)[y]
    BY <1>5, <2>1, PutFunction
  <2> QED BY <2>2 DEF S
<1>7. /\ Nxt(k2) \in [Node(cap) -> Node(cap) \cup {0}] /\ Nxt(k2)[b] = v
      /\ \A y \in Node(cap) : y # b => Nxt(k2)[y] = Nxt(k)[y]
  <2> DEFINE S == Node(cap) \cup {0}
  <2>1. v \in S /\ Nxt(k) \in [Node(cap) -> S]
    BY <1>3, <1>4
  <2> HIDE DEF S
  <2>2. /\ Nxt(k2) \in [Node(cap) -> S] /\ Nxt(k2)[b] = v
        /\ \A y \in Node(cap) : y # b => Nxt(k2)[y] = Nxt(k)[y]
    BY <1>5, <2>1, PutFunction
  <2> QED BY <2>2 DEF S
<1> QED BY <1>2, <1>6, <1>7 DEF IsLinks

(* The part p is the chain c of n nodes.                                   *)
Run(k, p, cap, c, n) ==
  /\ n \in Nat /\ n <= cap
  /\ p = [First |-> Fst(p), Last |-> Lst(p), Length |-> n]
  /\ c \in [1..n -> Node(cap)]
  /\ Segment(Nxt(k), Prv(k), c, n)
  /\ n = 0 => Fst(p) = 0 /\ Lst(p) = 0
  /\ n # 0 => Fst(p) = c[1] /\ Lst(p) = c[n]

(* The links of y are the same in both.                                    *)
SameAt(k, k2, y) == Nxt(k2)[y] = Nxt(k)[y] /\ Prv(k2)[y] = Prv(k)[y]

(* A change elsewhere leaves a part alone.                                 *)
LEMMA RunFrame ==
  ASSUME NEW k, NEW k2, NEW p, NEW cap, NEW c, NEW n, Run(k, p, cap, c, n),
         \A y \in Node(cap) : y \in Values(c, n) => SameAt(k, k2, y)
  PROVE  Run(k2, p, cap, c, n)
<1> n \in Nat
  BY DEF Run
<1>1. \A i \in 1..n : SameAt(k, k2, c[i])
  BY ValuesMember DEF Run
<1>2. Segment(Nxt(k), Prv(k), c, n)
  BY DEF Run
<1>3. Segment(Nxt(k2), Prv(k2), c, n)
  BY <1>1, <1>2 DEF Segment, SameAt
<1> QED BY <1>3 DEF Run

(* The ends of a part.                                                     *)
LEMMA RunFirst ==
  ASSUME NEW k, NEW p, NEW cap, NEW c, NEW n, Run(k, p, cap, c, n), n # 0
  PROVE  /\ Fst(p) = c[1] /\ c[1] \in Node(cap) /\ c[1] \in Values(c, n)
         /\ Lst(p) = c[n] /\ c[n] \in Node(cap) /\ c[n] \in Values(c, n)
         /\ Prv(k)[c[1]] = 0 /\ Nxt(k)[c[n]] = 0
         /\ n # 1 => /\ Nxt(k)[c[1]] = c[2] /\ c[2] \in Node(cap)
                     /\ c[2] \in Values(c, n) /\ c[2] # c[1]
<1> n \in Nat /\ 1 \in 1..n /\ n \in 1..n /\ (n # 1 => 2 \in 1..n)
  BY DEF Run
<1>1. Fst(p) = c[1] /\ Lst(p) = c[n] /\ c \in [1..n -> Node(cap)]
  BY DEF Run
<1>2. Prv(k)[c[1]] = (IF 1 = 1 THEN 0 ELSE c[0]) /\ Nxt(k)[c[n]] = (IF n = n THEN 0 ELSE c[n + 1])
      /\ Nxt(k)[c[1]] = (IF 1 = n THEN 0 ELSE c[1 + 1]) /\ \A i, j \in 1..n : i # j => c[i] # c[j]
  BY DEF Run, Segment
<1> QED BY <1>1, <1>2, ValuesMember

(* Detach_First takes the first node out of a part and clears its links.   *)
LEMMA DetachLinks ==
  ASSUME NEW k, NEW p, NEW cap, NEW c, NEW n, Run(k, p, cap, c, n), IsLinks(k, cap),
         cap \in Nat, n # 0, NEW d, d = Detach_First(k, p)
  PROVE  /\ Run(d.k, d.p, cap, RemoveAt(c, n, 1), n - 1) /\ IsLinks(d.k, cap)
         /\ Values(RemoveAt(c, n, 1), n - 1) = Values(c, n) \ {c[1]}
         /\ Nxt(d.k)[c[1]] = 0 /\ Prv(d.k)[c[1]] = 0
         /\ \A y \in Node(cap) : y \notin Values(c, n) => SameAt(k, d.k, y)
<1> DEFINE k2 == d.k
           x == c[1]
           N == Node(cap)
           r == RemoveAt(c, n, 1)
           m == n - 1
<1> n \in Nat /\ n <= cap /\ 1 \in 1..n /\ m \in Nat /\ m <= cap
  BY DEF Run
<1>1. /\ Fst(p) = x /\ x \in N /\ x \in Values(c, n)
      /\ Lst(p) = c[n] /\ Prv(k)[x] = 0 /\ Nxt(k)[c[n]] = 0
      /\ n # 1 => Nxt(k)[x] = c[2] /\ c[2] \in N /\ c[2] \in Values(c, n) /\ c[2] # x
  BY RunFirst
<1>2. /\ c \in [1..n -> N] /\ Segment(Nxt(k), Prv(k), c, n)
      /\ p = [First |-> Fst(p), Last |-> Lst(p), Length |-> n]
  BY DEF Run
<1>3. Nxt(k) \in [N -> N \cup {0}] /\ Prv(k) \in [N -> N \cup {0, -1}]
  BY DEF IsLinks, Nxt, Prv
<1>4. CASE n = 1
  <2>1. d.k = k /\ d.p = EmptyPart
    BY <1>2, <1>4 DEF Detach_First
  <2>2. Nxt(k)[x] = 0
    BY <1>1, <1>4
  <2>3. r \in [1..m -> N] /\ Values(r, m) = Values(c, n) \ {x}
    BY <1>2, <1>4 DEF RemoveAt, Values
  <2>4. Run(d.k, d.p, cap, r, m)
    BY <1>4, <2>1, <2>3 DEF Run, Segment, EmptyPart, Fst, Lst
  <2> QED BY <1>1, <2>1, <2>2, <2>3, <2>4 DEF SameAt
<1>5. CASE n # 1
  <2> DEFINE s == c[2]
  <2>1. /\ d.k = [k EXCEPT !.Prev[s] = 0, !.Next[x] = 0]
        /\ d.p = [p EXCEPT !.First = s, !.Length = n - 1]
    <3>1. p.Length = n /\ p.First = x
      BY <1>1, <1>2 DEF Fst
    <3>2. k.Next[x] = s
      BY <1>1, <1>5 DEF Nxt
    <3> HIDE DEF x, s
    <3> QED BY <1>5, <3>1, <3>2 DEF Detach_First
  <2>2. s \in N /\ s # x /\ s \in Values(c, n) /\ 2 \in 1..n
    BY <1>1, <1>5
  <2>3. x \in N /\ s \in N
    BY <1>1, <2>2
  <2> HIDE DEF s, x, k2
  <2>4. /\ IsLinks(k2, cap)
        /\ \A y \in N : y # x => Nxt(k2)[y] = Nxt(k)[y]
        /\ \A y \in N : y # s => Prv(k2)[y] = Prv(k)[y]
        /\ Nxt(k2)[x] = 0 /\ Prv(k2)[s] = 0
    <3> DEFINE nil == 0
    <3>1. Relink(k, k2, s, nil, x, nil) /\ nil \in Place(cap)
      BY <2>1 DEF Relink, k2, Place
    <3> HIDE DEF nil, m, r
    <3>2. /\ IsLinks(k2, cap)
          /\ \A y \in N : y # x => Nxt(k2)[y] = Nxt(k)[y]
          /\ \A y \in N : y # s => Prv(k2)[y] = Prv(k)[y]
          /\ Nxt(k2)[x] = nil /\ Prv(k2)[s] = nil
      BY <2>3, <3>1, LinksUpdate
    <3> QED BY <3>2 DEF nil
  <2>5. \A i, j \in 1..n : i # j => c[i] # c[j]
    BY <1>2 DEF Segment
  <2> HIDE DEF N
  <2>6. RemoveStep(N, n, c, 1, Nxt(k), Prv(k), Nxt(k2), Prv(k2))
    <3>1. \A i \in 1..n : i # 1 => Nxt(k2)[c[i]] = Nxt(k)[c[i]]
      BY <1>2, <2>4, <2>5 DEF x
    <3>2. \A i \in 1..n : i # 2 => Prv(k2)[c[i]] = Prv(k)[c[i]]
      BY <1>2, <2>2, <2>4, <2>5 DEF s
    <3> QED BY <1>2, <2>4, <3>1, <3>2 DEF RemoveStep, s
  <2>7. Segment(Nxt(k2), Prv(k2), r, m) /\ r \in [1..m -> N] /\ Values(r, m) = Values(c, n) \ {c[1]}
    BY <2>6, SegRemove
  <2>8. r[1] = c[2] /\ r[m] = c[n] /\ m # 0
    BY <1>5 DEF RemoveAt
  <2>9. d.p = [First |-> Fst(d.p), Last |-> Lst(d.p), Length |-> m] /\ Fst(d.p) = s /\ Lst(d.p) = Lst(p)
    BY <1>2, <2>1 DEF Fst, Lst
  <2> HIDE DEF r, m
  <2>10. Run(k2, d.p, cap, r, m)
    BY <1>1, <2>7, <2>8, <2>9 DEF Run, s, N
  <2>11. \A y \in N : y \notin Values(c, n) => SameAt(k, k2, y)
    BY <1>1, <2>2, <2>4 DEF SameAt
  <2>12. Prv(k2)[x] = 0
    BY <1>1, <2>2, <2>4
  <2> QED BY <2>4, <2>7, <2>10, <2>11, <2>12 DEF r, m, k2, N, x
<1> QED BY <1>4, <1>5

(* Attach_Last puts a node with clear links at the end of a part.          *)
LEMMA AttachLinks ==
  ASSUME NEW k, NEW p, NEW cap, NEW c, NEW n, Run(k, p, cap, c, n), IsLinks(k, cap),
         cap \in Nat, n + 1 <= cap, NEW x, x \in Node(cap), x \notin Values(c, n),
         Nxt(k)[x] = 0, Prv(k)[x] = 0, NEW d, d = Attach_Last(k, p, x)
  PROVE  /\ Run(d.k, d.p, cap, InsertAt(c, n, n + 1, x), n + 1) /\ IsLinks(d.k, cap)
         /\ Values(InsertAt(c, n, n + 1, x), n + 1) = Values(c, n) \cup {x}
         /\ \A y \in Node(cap) : y \notin Values(c, n) /\ y # x => SameAt(k, d.k, y)
<1> DEFINE k2 == d.k
           N == Node(cap)
           r == InsertAt(c, n, n + 1, x)
           m == n + 1
<1> n \in Nat /\ m \in Nat /\ m <= cap /\ m \in 1..m
  BY DEF Run
<1>1. /\ c \in [1..n -> N] /\ Segment(Nxt(k), Prv(k), c, n)
      /\ p = [First |-> Fst(p), Last |-> Lst(p), Length |-> n]
  BY DEF Run
<1>2. Nxt(k) \in [N -> N \cup {0}] /\ Prv(k) \in [N -> N \cup {0, -1}]
  BY DEF IsLinks, Nxt, Prv
<1>3. r[m] = x /\ (n # 0 => r[1] = c[1]) /\ (n = 0 => r[1] = x)
  BY DEF InsertAt
<1>4. /\ InsertStep(N, n, c, x, m, Nxt(k), Prv(k), Nxt(k2), Prv(k2))
      /\ Fst(d.p) = r[1] /\ Lst(d.p) = r[m]
      /\ d.p = [First |-> Fst(d.p), Last |-> Lst(d.p), Length |-> m]
      /\ IsLinks(k2, cap)
      /\ \A y \in N : y \notin Values(c, n) /\ y # x => SameAt(k, k2, y)
  <2>1. CASE n = 0
    <3>1. d.k = k /\ d.p = [First |-> x, Last |-> x, Length |-> 1]
      BY <1>1, <2>1 DEF Attach_Last
    <3> HIDE DEF r
    <3>2. /\ Fst(d.p) = r[1] /\ Lst(d.p) = r[m]
          /\ d.p = [First |-> Fst(d.p), Last |-> Lst(d.p), Length |-> m]
      BY <1>3, <2>1, <3>1 DEF Fst, Lst
    <3>3. InsertStep(N, n, c, x, m, Nxt(k), Prv(k), Nxt(k2), Prv(k2))
      BY <1>1, <2>1, <3>1 DEF InsertStep
    <3> QED BY <3>1, <3>2, <3>3 DEF SameAt
  <2>2. CASE n # 0
    <3> DEFINE z == c[n]
    <3>1. Lst(p) = z /\ z \in N /\ z \in Values(c, n) /\ Fst(p) = c[1]
      BY <2>2, RunFirst
    <3>2. /\ d.k = [k EXCEPT !.Prev[x] = z, !.Next[z] = x]
          /\ d.p = [p EXCEPT !.Last = x, !.Length = n + 1]
      <4>1. p.Length = n /\ p.Last = z
        BY <1>1, <3>1 DEF Lst
      <4> HIDE DEF z
      <4> QED BY <2>2, <4>1 DEF Attach_Last
    <3>3. x # z
      BY <3>1
    <3> HIDE DEF z, r
    <3> HIDE DEF k2
    <3>5. Relink(k, k2, x, z, z, x)
      BY <3>2 DEF Relink, k2
    <3>6. /\ IsLinks(k2, cap)
          /\ \A y \in N : y # z => Nxt(k2)[y] = Nxt(k)[y]
          /\ \A y \in N : y # x => Prv(k2)[y] = Prv(k)[y]
          /\ Nxt(k2)[z] = x /\ Prv(k2)[x] = z
      <4>1. z \in Node(cap) /\ z \in Place(cap) /\ x \in Place(cap)
        BY <3>1 DEF Place
      <4> HIDE DEF m
      <4>2. /\ IsLinks(k2, cap) /\ Prv(k2)[x] = z /\ Nxt(k2)[z] = x
            /\ \A y \in Node(cap) : y # x => Prv(k2)[y] = Prv(k)[y]
            /\ \A y \in Node(cap) : y # z => Nxt(k2)[y] = Nxt(k)[y]
        BY <3>5, <4>1, LinksUpdate
      <4> QED BY <4>2
    <3> HIDE DEF N
    <3>7. /\ Fst(d.p) = r[1] /\ Lst(d.p) = r[m]
          /\ d.p = [First |-> Fst(d.p), Last |-> Lst(d.p), Length |-> m]
      BY <1>1, <1>3, <2>2, <3>1, <3>2 DEF Fst, Lst
    <3>8. \A i \in 1..n : c[i] \in N /\ c[i] # x /\ (i # n => c[i] # z)
      BY <1>1, ValuesMember DEF Segment, z
    <3>9. InsertStep(N, n, c, x, m, Nxt(k), Prv(k), Nxt(k2), Prv(k2))
      <4>1. \A i \in 1..n : i # n => Nxt(k2)[c[i]] = Nxt(k)[c[i]]
        BY <3>6, <3>8
      <4>2. \A i \in 1..n : Prv(k2)[c[i]] = Prv(k)[c[i]]
        BY <3>6, <3>8
      <4>3. Nxt(k2)[x] = 0
        BY <3>3, <3>6 DEF N
      <4>4. m - 1 = n /\ m # 1
        BY <2>2
      <4>5. x \in N
        BY DEF N
      <4> HIDE DEF m
      <4> QED BY <1>1, <3>6, <4>1, <4>2, <4>3, <4>4, <4>5 DEF InsertStep, z, m
    <3>10. \A y \in N : y \notin Values(c, n) /\ y # x => SameAt(k, k2, y)
      BY <3>1, <3>6 DEF SameAt
    <3> QED BY <3>6, <3>7, <3>9, <3>10
  <2> QED BY <2>1, <2>2
<1> HIDE DEF r, m, k2, N
<1>5. Segment(Nxt(k2), Prv(k2), r, m) /\ r \in [1..m -> N] /\ Values(r, m) = Values(c, n) \cup {x}
  <2>1. m = n + 1 /\ r = InsertAt(c, n, m, x)
    BY DEF m, r
  <2> HIDE DEF r
  <2> QED BY <1>4, <2>1, SegInsert
<1>6. Run(k2, d.p, cap, r, m)
  BY <1>4, <1>5 DEF Run, N, m
<1> QED BY <1>4, <1>5, <1>6 DEF r, m, k2, N

(* Two parts without a common node.                                        *)
Apart(c, n, d, m) == \A x : ~(x \in Values(c, n) /\ x \in Values(d, m))

(* Three parts, two by two apart.                                          *)
Three(k, m, p, o, cap, cm, i, c, n, co, no) ==
  /\ IsLinks(k, cap)
  /\ Run(k, m, cap, cm, i) /\ Run(k, p, cap, c, n) /\ Run(k, o, cap, co, no)
  /\ Apart(cm, i, c, n) /\ Apart(cm, i, co, no) /\ Apart(c, n, co, no)

(* Moving the first node of one part to the end of another keeps three     *)
(* parts.                                                                  *)
LEMMA TakeLinks ==
  ASSUME NEW k, NEW m, NEW p, NEW o, NEW cap, NEW cm, NEW i, NEW c, NEW n, NEW co, NEW no,
         Three(k, m, p, o, cap, cm, i, c, n, co, no), cap \in Nat, n # 0, i + 1 <= cap,
         NEW d, d = Detach_First(k, p), NEW a, a = Attach_Last(d.k, m, Fst(p)),
         NEW c2, c2 = RemoveAt(c, n, 1), NEW cm2, cm2 = InsertAt(cm, i, i + 1, c[1])
  PROVE  /\ Three(a.k, a.p, d.p, o, cap, cm2, i + 1, c2, n - 1, co, no)
         /\ Values(cm2, i + 1) = Values(cm, i) \cup {c[1]}
         /\ Values(c2, n - 1) = Values(c, n) \ {c[1]}
         /\ c[1] \in Values(c, n)
         /\ \A y \in Node(cap) : y \notin Values(cm, i) /\ y \notin Values(c, n) => SameAt(k, a.k, y)
<1> DEFINE x == c[1]
<1>1. /\ IsLinks(k, cap)
      /\ Run(k, m, cap, cm, i) /\ Run(k, p, cap, c, n) /\ Run(k, o, cap, co, no)
      /\ Apart(cm, i, c, n) /\ Apart(cm, i, co, no) /\ Apart(c, n, co, no)
  BY DEF Three
<1>2. Fst(p) = x /\ x \in Node(cap) /\ x \in Values(c, n)
  BY <1>1, RunFirst
<1>3. /\ Run(d.k, d.p, cap, c2, n - 1) /\ IsLinks(d.k, cap)
      /\ Values(c2, n - 1) = Values(c, n) \ {x}
      /\ Nxt(d.k)[x] = 0 /\ Prv(d.k)[x] = 0
      /\ \A y \in Node(cap) : y \notin Values(c, n) => SameAt(k, d.k, y)
  BY <1>1, DetachLinks
<1> HIDE DEF x
<1>4. Run(d.k, m, cap, cm, i) /\ Run(d.k, o, cap, co, no)
  <2>1. /\ \A y \in Node(cap) : y \in Values(cm, i) => SameAt(k, d.k, y)
        /\ \A y \in Node(cap) : y \in Values(co, no) => SameAt(k, d.k, y)
    BY <1>1, <1>3 DEF Apart
  <2>2. Run(d.k, m, cap, cm, i)
    BY <1>1, <2>1, RunFrame
  <2>3. Run(d.k, o, cap, co, no)
    BY <1>1, <2>1, RunFrame
  <2> QED BY <2>2, <2>3
<1>5. x \notin Values(cm, i)
  BY <1>1, <1>2 DEF Apart
<1>6. /\ Run(a.k, a.p, cap, cm2, i + 1) /\ IsLinks(a.k, cap)
      /\ Values(cm2, i + 1) = Values(cm, i) \cup {x}
      /\ \A y \in Node(cap) : y \notin Values(cm, i) /\ y # x => SameAt(d.k, a.k, y)
  <2>1. a = Attach_Last(d.k, m, x) /\ cm2 = InsertAt(cm, i, i + 1, x)
    BY <1>2 DEF x
  <2> QED BY <1>2, <1>3, <1>4, <1>5, <2>1, AttachLinks
<1>7. Apart(cm2, i + 1, c2, n - 1) /\ Apart(cm2, i + 1, co, no) /\ Apart(c2, n - 1, co, no)
  BY <1>1, <1>2, <1>3, <1>6 DEF Apart
<1>8. Run(a.k, d.p, cap, c2, n - 1)
  <2>1. \A y \in Node(cap) : y \in Values(c2, n - 1) => SameAt(d.k, a.k, y)
    BY <1>1, <1>3, <1>6 DEF Apart
  <2> HIDE DEF IsLinks
  <2> QED BY <1>3, <2>1, RunFrame
<1>9. Run(a.k, o, cap, co, no)
  <2>1. \A y \in Node(cap) : y \in Values(co, no) => SameAt(d.k, a.k, y)
    BY <1>1, <1>2, <1>6 DEF Apart
  <2> QED BY <1>4, <2>1, RunFrame
<1>10. \A y \in Node(cap) : y \notin Values(cm, i) /\ y \notin Values(c, n) => SameAt(k, a.k, y)
  BY <1>2, <1>3, <1>6 DEF SameAt
<1>11. Three(a.k, a.p, d.p, o, cap, cm2, i + 1, c2, n - 1, co, no)
  BY <1>6, <1>7, <1>8, <1>9 DEF Three
<1> QED BY <1>2, <1>3, <1>6, <1>10, <1>11 DEF x

(* Elements are integers, and g numbers the nodes.                         *)
Keyed(el, g, cap) == \A x \in Node(cap) : el[x] \in Int /\ g[x] \in Int

(* The order of a stable sort: by element, then by number.                 *)
Precedes(el, g, x, y) == el[x] < el[y] \/ (el[x] = el[y] /\ g[x] < g[y])

(* The chain c is in that order; its numbers ascend.                       *)
Ascends(el, g, c, n) == \A i, j \in 1..n : i < j => Precedes(el, g, c[i], c[j])
Numbered(g, c, n)    == \A i, j \in 1..n : i < j => g[c[i]] < g[c[j]]

(* All nodes of c are before all of d in that order; have lower numbers.   *)
Below(el, g, c, n, d, m) ==
  \A x, y : x \in Values(c, n) /\ y \in Values(d, m) => Precedes(el, g, x, y)
Earlier(g, c, n, d, m) ==
  \A x, y : x \in Values(c, n) /\ y \in Values(d, m) => g[x] < g[y]

(* That order is transitive.                                               *)
LEMMA PrecedesTransitive ==
  ASSUME NEW el, NEW g, NEW cap, Keyed(el, g, cap),
         NEW x, x \in Node(cap), NEW y, y \in Node(cap), NEW z, z \in Node(cap),
         Precedes(el, g, x, y), Precedes(el, g, y, z)
  PROVE  Precedes(el, g, x, z)
<1>1. /\ el[x] \in Int /\ el[y] \in Int /\ el[z] \in Int
      /\ g[x] \in Int /\ g[y] \in Int /\ g[z] \in Int
  BY DEF Keyed
<1> QED BY <1>1 DEF Precedes

(* The first of c, which no node of o precedes, goes to the end of a chain *)
(* that is below both.                                                     *)
LEMMA TakeOrder ==
  ASSUME NEW el, NEW g, NEW cap, Keyed(el, g, cap),
         NEW cm, NEW i, i \in Nat, NEW c, NEW n, n \in Nat, n # 0, c \in [1..n -> Node(cap)],
         NEW o, NEW no, no \in Nat, o \in [1..no -> Node(cap)],
         Ascends(el, g, cm, i), Ascends(el, g, c, n), Ascends(el, g, o, no),
         Below(el, g, cm, i, c, n), Below(el, g, cm, i, o, no),
         no # 0 => Precedes(el, g, c[1], o[1]),
         NEW c2, c2 = RemoveAt(c, n, 1), NEW cm2, cm2 = InsertAt(cm, i, i + 1, c[1]),
         Values(cm2, i + 1) = Values(cm, i) \cup {c[1]}, Values(c2, n - 1) = Values(c, n) \ {c[1]}
  PROVE  /\ Ascends(el, g, cm2, i + 1) /\ Ascends(el, g, c2, n - 1)
         /\ Below(el, g, cm2, i + 1, c2, n - 1) /\ Below(el, g, cm2, i + 1, o, no)
<1> DEFINE x == c[1]
           m == n - 1
           k == i + 1
<1>1. 1 \in 1..n /\ m \in Nat /\ k \in Nat /\ \A j \in 1..n : j # 1 => 1 < j
  OBVIOUS
<1>2. x \in Values(c, n) /\ x \in Node(cap)
  BY <1>1, ValuesMember
<1>3. ASSUME NEW y, y \in Values(c, n), y # x PROVE Precedes(el, g, x, y)
  <2>1. PICK j \in 1..n : y = c[j]
    BY <1>3, ValuesMember
  <2>2. 1 < j
    BY <1>1, <1>3, <2>1
  <2> QED BY <1>1, <2>1, <2>2 DEF Ascends
<1>4. ASSUME NEW y, y \in Values(o, no) PROVE Precedes(el, g, x, y)
  <2>1. PICK j \in 1..no : y = o[j]
    BY <1>4, ValuesMember
  <2>2. 1 \in 1..no /\ no # 0 /\ (j # 1 => 1 < j)
    OBVIOUS
  <2>3. Precedes(el, g, x, o[1]) /\ o[1] \in Node(cap) /\ y \in Node(cap)
    BY <2>1, <2>2
  <2>4. CASE j = 1
    BY <2>1, <2>3, <2>4
  <2>5. CASE j # 1
    <3>1. Precedes(el, g, o[1], y)
      BY <2>1, <2>2, <2>5 DEF Ascends
    <3> HIDE DEF x
    <3> QED BY <1>2, <2>3, <3>1, PrecedesTransitive
  <2> QED BY <2>4, <2>5
<1>5. \A j \in 1..m : c2[j] = c[j + 1] /\ j + 1 \in 1..n
  BY DEF RemoveAt
<1>6. (\A j \in 1..i : cm2[j] = cm[j]) /\ cm2[k] = x /\ k \in 1..k
  BY DEF InsertAt
<1> HIDE DEF x
<1>7. Ascends(el, g, c2, m)
  <2> SUFFICES ASSUME NEW a \in 1..m, NEW b \in 1..m, a < b PROVE Precedes(el, g, c2[a], c2[b])
    BY DEF Ascends
  <2>1. a + 1 < b + 1
    BY <1>1
  <2> HIDE DEF m
  <2> QED BY <1>5, <2>1 DEF Ascends
<1>8. Ascends(el, g, cm2, k)
  <2> SUFFICES ASSUME NEW a \in 1..k, NEW b \in 1..k, a < b PROVE Precedes(el, g, cm2[a], cm2[b])
    BY DEF Ascends
  <2>1. a \in 1..i /\ (b \in 1..i \/ b = k)
    OBVIOUS
  <2> HIDE DEF k
  <2>2. CASE b \in 1..i
    BY <1>6, <2>1, <2>2 DEF Ascends
  <2>3. CASE b = k
    <3>1. cm[a] \in Values(cm, i)
      BY <2>1, ValuesMember
    <3>2. Precedes(el, g, cm[a], x)
      BY <1>2, <3>1 DEF Below
    <3> QED BY <1>6, <2>1, <2>3, <3>2
  <2> QED BY <2>1, <2>2, <2>3
<1>9. Below(el, g, cm2, k, c2, m)
  BY <1>3 DEF Below, x
<1>10. Below(el, g, cm2, k, o, no)
  BY <1>4 DEF Below, x
<1> QED BY <1>7, <1>8, <1>9, <1>10

(* The order that the merge keeps: what it has taken is below the rest,    *)
(* and the numbers of the first part are lower than those of the second.   *)
MergeOrder(el, g, cm, i, c1, n1, c2, n2) ==
  /\ Ascends(el, g, cm, i) /\ Ascends(el, g, c1, n1) /\ Ascends(el, g, c2, n2)
  /\ Below(el, g, cm, i, c1, n1) /\ Below(el, g, cm, i, c2, n2)
  /\ Earlier(g, c1, n1, c2, n2)

(* What the merge keeps: the nodes of the three parts together are those   *)
(* of A, and no other node is touched.                                     *)
Merging(st, k, cap, A, t, cm, i, c1, n1, c2, n2) ==
  /\ Three(st.k, st.m, st.p1, st.p2, cap, cm, i, c1, n1, c2, n2)
  /\ i + n1 + n2 = t
  /\ \A y : y \in A <=> y \in Values(cm, i) \/ y \in Values(c1, n1) \/ y \in Values(c2, n2)
  /\ \A y \in Node(cap) : y \notin A => SameAt(k, st.k, y)

(* Apart is symmetric.                                                     *)
LEMMA ApartSwap ==
  ASSUME NEW c, NEW n, NEW d, NEW m, Apart(c, n, d, m)
  PROVE  Apart(d, m, c, n)
BY DEF Apart

(* One iteration of the merge keeps it, whichever part the node comes      *)
(* from; it keeps the order, as it takes from the second part only what is *)
(* smaller.                                                                *)
LEMMA MergingStep ==
  ASSUME NEW st, NEW k, NEW cap, NEW A, NEW t, NEW cm, NEW i, NEW c1, NEW n1, NEW c2, NEW n2,
         Merging(st, k, cap, A, t, cm, i, c1, n1, c2, n2), cap \in Nat, t \in Nat, i < t, t <= cap,
         NEW L, NEW j, NEW q, q = Step("Parts", L, j, st), NEW g
  PROVE  \E em, e1, m1, e2, m2 :
           /\ Merging(q, k, cap, A, t, em, i + 1, e1, m1, e2, m2)
           /\ Keyed(Elm(L), g, cap) /\ MergeOrder(Elm(L), g, cm, i, c1, n1, c2, n2) =>
                MergeOrder(Elm(L), g, em, i + 1, e1, m1, e2, m2)
<1>1. /\ Three(st.k, st.m, st.p1, st.p2, cap, cm, i, c1, n1, c2, n2)
      /\ i + n1 + n2 = t
      /\ \A y : y \in A <=> y \in Values(cm, i) \/ y \in Values(c1, n1) \/ y \in Values(c2, n2)
      /\ \A y \in Node(cap) : y \notin A => SameAt(k, st.k, y)
  BY DEF Merging
<1>2. /\ IsLinks(st.k, cap)
      /\ Run(st.k, st.m, cap, cm, i) /\ Run(st.k, st.p1, cap, c1, n1) /\ Run(st.k, st.p2, cap, c2, n2)
      /\ Apart(cm, i, c1, n1) /\ Apart(cm, i, c2, n2) /\ Apart(c1, n1, c2, n2)
  BY <1>1 DEF Three
<1> i \in Nat /\ n1 \in Nat /\ n2 \in Nat /\ i + 1 <= cap
  BY <1>2 DEF Run
<1>3. st.p1.Length = n1 /\ st.p2.Length = n2
  BY <1>2 DEF Run
<1> DEFINE b == Take_From_P2(L, st.p1, st.p2)
<1>4. q = Taken(st, b)
  BY DEF Step
<1>5. (b => n2 # 0) /\ (~b => n1 # 0)
  BY <1>1, <1>3 DEF Take_From_P2
<1> DEFINE el == Elm(L)
           keyed == Keyed(el, g, cap) /\ MergeOrder(el, g, cm, i, c1, n1, c2, n2)
<1>50. c1 \in [1..n1 -> Node(cap)] /\ c2 \in [1..n2 -> Node(cap)]
  BY <1>2 DEF Run
<1>51. /\ b /\ n1 # 0 => el[c2[1]] < el[c1[1]]
       /\ ~b /\ n2 # 0 => ~(el[c2[1]] < el[c1[1]])
  <2>1. (n1 # 0 => st.p1.First = c1[1]) /\ (n2 # 0 => st.p2.First = c2[1])
    BY <1>2 DEF Run, Fst
  <2> QED BY <1>3, <1>5, <2>1 DEF Take_From_P2, Elm
<1>52. ASSUME keyed
       PROVE  /\ b /\ n1 # 0 => Precedes(el, g, c2[1], c1[1])
              /\ ~b /\ n2 # 0 => Precedes(el, g, c1[1], c2[1])
  <2>1. b /\ n1 # 0 => Precedes(el, g, c2[1], c1[1])
    BY <1>51 DEF Precedes
  <2>2. ASSUME ~b, n2 # 0 PROVE Precedes(el, g, c1[1], c2[1])
    <3>1. 1 \in 1..n1 /\ 1 \in 1..n2
      BY <1>5, <2>2
    <3>2. c1[1] \in Values(c1, n1) /\ c2[1] \in Values(c2, n2) /\ c1[1] \in Node(cap) /\ c2[1] \in Node(cap)
      BY <1>50, <3>1, ValuesMember
    <3>3. g[c1[1]] < g[c2[1]]
      BY <1>52, <3>2 DEF MergeOrder, Earlier
    <3>4. el[c1[1]] \in Int /\ el[c2[1]] \in Int
      BY <1>52, <3>2 DEF Keyed
    <3>5. ~(el[c2[1]] < el[c1[1]])
      BY <1>51, <2>2
    <3> HIDE DEF el
    <3> QED BY <3>3, <3>4, <3>5 DEF Precedes
  <2> QED BY <2>1, <2>2
<1>53. keyed => /\ Keyed(el, g, cap)
                /\ Ascends(el, g, cm, i) /\ Ascends(el, g, c1, n1) /\ Ascends(el, g, c2, n2)
                /\ Below(el, g, cm, i, c1, n1) /\ Below(el, g, cm, i, c2, n2)
                /\ Earlier(g, c1, n1, c2, n2)
  BY DEF MergeOrder
<1> HIDE DEF b, el
<1>6. CASE b
  <2> DEFINE d == Detach_First(st.k, st.p2)
             a == Attach_Last(d.k, st.m, Fst(st.p2))
             e == RemoveAt(c2, n2, 1)
             em == InsertAt(cm, i, i + 1, c2[1])
  <2>1. q.k = a.k /\ q.m = a.p /\ q.p1 = st.p1 /\ q.p2 = d.p
    BY <1>4, <1>6 DEF Taken, Fst
  <2>2. Three(st.k, st.m, st.p2, st.p1, cap, cm, i, c2, n2, c1, n1)
    BY <1>2, ApartSwap DEF Three
  <2> HIDE DEF d, a, e, em
  <2>3. /\ Three(a.k, a.p, d.p, st.p1, cap, em, i + 1, e, n2 - 1, c1, n1)
        /\ Values(em, i + 1) = Values(cm, i) \cup {c2[1]}
        /\ Values(e, n2 - 1) = Values(c2, n2) \ {c2[1]}
        /\ c2[1] \in Values(c2, n2)
        /\ \A y \in Node(cap) : y \notin Values(cm, i) /\ y \notin Values(c2, n2) => SameAt(st.k, a.k, y)
    BY <1>5, <1>6, <2>2, TakeLinks DEF d, a, e, em
  <2>4. Three(q.k, q.m, q.p1, q.p2, cap, em, i + 1, c1, n1, e, n2 - 1)
    BY <2>1, <2>3, ApartSwap DEF Three
  <2>5. \A y : y \in A <=> y \in Values(em, i + 1) \/ y \in Values(c1, n1) \/ y \in Values(e, n2 - 1)
    BY <1>1, <2>3
  <2>6. \A y \in Node(cap) : y \notin A => SameAt(k, q.k, y)
    BY <1>1, <2>1, <2>3 DEF SameAt
  <2>7. (i + 1) + n1 + (n2 - 1) = t
    BY <1>1
  <2> HIDE DEF Three
  <2>8. Merging(q, k, cap, A, t, em, i + 1, c1, n1, e, n2 - 1)
    BY <2>4, <2>5, <2>6, <2>7 DEF Merging
  <2>9. ASSUME keyed PROVE MergeOrder(el, g, em, i + 1, c1, n1, e, n2 - 1)
    <3> HIDE DEF keyed
    <3>1. /\ Ascends(el, g, em, i + 1) /\ Ascends(el, g, e, n2 - 1)
          /\ Below(el, g, em, i + 1, e, n2 - 1) /\ Below(el, g, em, i + 1, c1, n1)
      BY <1>5, <1>6, <1>50, <1>52, <1>53, <2>3, <2>9, TakeOrder DEF e, em
    <3>2. Earlier(g, c1, n1, e, n2 - 1)
      BY <1>53, <2>3, <2>9 DEF Earlier
    <3> QED BY <1>53, <2>9, <3>1, <3>2 DEF MergeOrder
  <2> QED BY <2>8, <2>9 DEF el
<1>7. CASE ~b
  <2> DEFINE d == Detach_First(st.k, st.p1)
             a == Attach_Last(d.k, st.m, Fst(st.p1))
             e == RemoveAt(c1, n1, 1)
             em == InsertAt(cm, i, i + 1, c1[1])
  <2>1. q.k = a.k /\ q.m = a.p /\ q.p1 = d.p /\ q.p2 = st.p2
    BY <1>4, <1>7 DEF Taken, Fst
  <2> HIDE DEF d, a, e, em
  <2>3. /\ Three(a.k, a.p, d.p, st.p2, cap, em, i + 1, e, n1 - 1, c2, n2)
        /\ Values(em, i + 1) = Values(cm, i) \cup {c1[1]}
        /\ Values(e, n1 - 1) = Values(c1, n1) \ {c1[1]}
        /\ c1[1] \in Values(c1, n1)
        /\ \A y \in Node(cap) : y \notin Values(cm, i) /\ y \notin Values(c1, n1) => SameAt(st.k, a.k, y)
    BY <1>1, <1>5, <1>7, TakeLinks DEF d, a, e, em
  <2>4. Three(q.k, q.m, q.p1, q.p2, cap, em, i + 1, e, n1 - 1, c2, n2)
    BY <2>1, <2>3 DEF Three
  <2>5. \A y : y \in A <=> y \in Values(em, i + 1) \/ y \in Values(e, n1 - 1) \/ y \in Values(c2, n2)
    BY <1>1, <2>3
  <2>6. \A y \in Node(cap) : y \notin A => SameAt(k, q.k, y)
    BY <1>1, <2>1, <2>3 DEF SameAt
  <2>7. (i + 1) + (n1 - 1) + n2 = t
    BY <1>1
  <2>8. Merging(q, k, cap, A, t, em, i + 1, e, n1 - 1, c2, n2)
    BY <2>4, <2>5, <2>6, <2>7 DEF Merging
  <2>9. ASSUME keyed PROVE MergeOrder(el, g, em, i + 1, e, n1 - 1, c2, n2)
    <3> HIDE DEF keyed
    <3>1. /\ Ascends(el, g, em, i + 1) /\ Ascends(el, g, e, n1 - 1)
          /\ Below(el, g, em, i + 1, e, n1 - 1) /\ Below(el, g, em, i + 1, c2, n2)
      BY <1>5, <1>7, <1>50, <1>52, <1>53, <2>3, <2>9, TakeOrder DEF e, em
    <3>2. Earlier(g, e, n1 - 1, c2, n2)
      BY <1>53, <2>3, <2>9 DEF Earlier
    <3> QED BY <1>53, <2>9, <3>1, <3>2 DEF MergeOrder
  <2> QED BY <2>8, <2>9 DEF el
<1> QED BY <1>6, <1>7

(* The state before the merge.                                             *)
Ready(x, k, p1, p2) == x.k = k /\ x.m = EmptyPart /\ x.p1 = p1 /\ x.p2 = p2

(* The result of the merge.                                                *)
MergedTo(q, x) == q = [k |-> x.k, p |-> x.m]

(* The states of the loop of Merge_Parts.                                  *)
PartsStates(a, L, k, p1, p2, t) ==
  /\ Ready(a[0], k, p1, p2)
  /\ MergedTo(Merge_Parts(L, k, p1, p2), a[t])
  /\ \A i \in Nat : i < t => a[i + 1] = Step("Parts", L, i + 1, a[i])

(* That loop has such states.                                              *)
LEMMA PartsLoop ==
  ASSUME NEW L, NEW k, NEW p1, NEW p2, NEW t, t \in Nat, t = p1.Length + p2.Length
  PROVE  \E a : PartsStates(a, L, k, p1, p2, t)
<1> DEFINE X0 == [k |-> k, m |-> EmptyPart, p1 |-> p1, p2 |-> p2]
           a == CHOOSE a : a = [i \in 0..(p1.Length + p2.Length) |->
                  IF i = 0 THEN [k |-> k, m |-> EmptyPart, p1 |-> p1, p2 |-> p2]
                  ELSE LET from == IF Take_From_P2(L, a[i - 1].p1, a[i - 1].p2)
                                   THEN a[i - 1].p2 ELSE a[i - 1].p1
                           d == Detach_First(a[i - 1].k, from)
                           m == Attach_Last(d.k, a[i - 1].m, from.First)
                       IN  [k |-> m.k, m |-> m.p,
                            p1 |-> IF Take_From_P2(L, a[i - 1].p1, a[i - 1].p2)
                                   THEN a[i - 1].p1 ELSE d.p,
                            p2 |-> IF Take_From_P2(L, a[i - 1].p1, a[i - 1].p2)
                                   THEN d.p ELSE a[i - 1].p2]]
           Body(x) == Taken(x, Take_From_P2(L, x.p1, x.p2))
<1>1. \A i, x : Step("Parts", L, i, x) = Body(x)
  BY DEF Step
<1>2. MergedTo(Merge_Parts(L, k, p1, p2), a[t])
  BY DEF Merge_Parts, MergedTo
<1>3. Ready(X0, k, p1, p2)
  BY DEF Ready
<1> HIDE DEF Body, X0
<1>4. \E b : IsLoop(b, 0, t, "Parts", L, X0)
  BY LoopExists
<1>5. \E b : b = [i \in 0..t |-> IF i = 0 THEN X0 ELSE Body(b[i - 1])]
  BY <1>1, <1>4 DEF IsLoop
<1>6. a = [i \in 0..t |-> IF i = 0 THEN X0 ELSE Body(a[i - 1])]
  BY <1>5 DEF X0, Body, Taken
<1> HIDE DEF a
<1>7. IsLoop(a, 0, t, "Parts", L, X0)
  BY <1>1, <1>6 DEF IsLoop
<1>8. a[0] = X0 /\ \A i \in Nat : 0 <= i /\ i < t => a[i + 1] = Step("Parts", L, i + 1, a[i])
  BY <1>7, LoopStates
<1>9. PartsStates(a, L, k, p1, p2, t)
  BY <1>2, <1>3, <1>8 DEF PartsStates
<1> QED BY <1>9

(* Two parts in order, the first with the lower numbers, give c in order.  *)
InOrder(L, g, cap, c1, n1, c2, n2, c) ==
  /\ Keyed(Elm(L), g, cap) /\ Ascends(Elm(L), g, c1, n1) /\ Ascends(Elm(L), g, c2, n2)
  /\ Earlier(g, c1, n1, c2, n2)
  => Ascends(Elm(L), g, c, n1 + n2)

(* q is one part with exactly the nodes of two parts of k.                 *)
Joined(L, g, k, cap, c1, n1, c2, n2, q, c) ==
  /\ q = [k |-> q.k, p |-> q.p]
  /\ InOrder(L, g, cap, c1, n1, c2, n2, c)
  /\ IsLinks(q.k, cap) /\ Run(q.k, q.p, cap, c, n1 + n2)
  /\ \A y : y \in Values(c, n1 + n2) <=> y \in Values(c1, n1) \/ y \in Values(c2, n2)
  /\ \A y \in Node(cap) : y \notin Values(c1, n1) /\ y \notin Values(c2, n2) => SameAt(k, q.k, y)

(* Merge_Parts turns two parts into one with exactly their nodes, which is *)
(* in order when they are.                                                 *)
THEOREM MergeLinks ==
  ASSUME NEW k, NEW cap, IsLinks(k, cap), cap \in Nat, NEW p1, NEW p2, NEW c1, NEW n1, NEW c2, NEW n2,
         Run(k, p1, cap, c1, n1), Run(k, p2, cap, c2, n2), Apart(c1, n1, c2, n2), n1 + n2 <= cap,
         NEW L, NEW q, q = Merge_Parts(L, k, p1, p2), NEW g
  PROVE  \E c : Joined(L, g, k, cap, c1, n1, c2, n2, q, c)
<1> DEFINE t == n1 + n2
           A == Values(c1, n1) \cup Values(c2, n2)
           none == [x \in 1..0 |-> 0]
<1> n1 \in Nat /\ n2 \in Nat /\ t \in Nat
  BY DEF Run
<1>1. t = p1.Length + p2.Length
  BY DEF Run
<1> HIDE DEF t
<1>2. PICK a : /\ Ready(a[0], k, p1, p2)
               /\ MergedTo(Merge_Parts(L, k, p1, p2), a[t])
               /\ \A i \in Nat : i < t => a[i + 1] = Step("Parts", L, i + 1, a[i])
  <2>1. PICK a : PartsStates(a, L, k, p1, p2, t)
    BY <1>1, PartsLoop
  <2> QED BY <2>1 DEF PartsStates
<1>3. Run(k, EmptyPart, cap, none, 0) /\ \A y : y \notin Values(none, 0)
  BY DEF Run, EmptyPart, Fst, Lst, Segment, Values
<1> HIDE DEF A, none
<1> DEFINE el == Elm(L)
           ordered == /\ Keyed(el, g, cap) /\ Ascends(el, g, c1, n1) /\ Ascends(el, g, c2, n2)
                      /\ Earlier(g, c1, n1, c2, n2)
<1>30. ordered => Keyed(el, g, cap) /\ MergeOrder(el, g, none, 0, c1, n1, c2, n2)
  BY <1>3 DEF MergeOrder, Below, Ascends
<1> HIDE DEF ordered
<1> DEFINE P == {i \in Nat : i <= t => \E cm, e1, m1, e2, m2 :
                               /\ Merging(a[i], k, cap, A, t, cm, i, e1, m1, e2, m2)
                               /\ ordered => MergeOrder(el, g, cm, i, e1, m1, e2, m2)}
<1>4. 0 \in P
  <2>1. Apart(none, 0, c1, n1) /\ Apart(none, 0, c2, n2)
    BY <1>3 DEF Apart
  <2> DEFINE x == a[0]
  <2>2. x.k = k /\ x.m = EmptyPart /\ x.p1 = p1 /\ x.p2 = p2
    BY <1>2 DEF Ready
  <2> HIDE DEF x
  <2>3. Three(x.k, x.m, x.p1, x.p2, cap, none, 0, c1, n1, c2, n2)
    BY <1>3, <2>1, <2>2 DEF Three
  <2>4. 0 + n1 + n2 = t
    BY DEF t
  <2>5. \A y : y \in A <=> y \in Values(none, 0) \/ y \in Values(c1, n1) \/ y \in Values(c2, n2)
    BY <1>3 DEF A
  <2>6. Merging(x, k, cap, A, t, none, 0, c1, n1, c2, n2)
    BY <2>2, <2>3, <2>4, <2>5 DEF Merging, SameAt
  <2> QED BY <1>30, <2>6 DEF x
<1>5. ASSUME NEW i \in Nat, i \in P PROVE i + 1 \in P
  <2> SUFFICES ASSUME i + 1 <= t
               PROVE  \E cm, e1, m1, e2, m2 :
                         /\ Merging(a[i + 1], k, cap, A, t, cm, i + 1, e1, m1, e2, m2)
                         /\ ordered => MergeOrder(el, g, cm, i + 1, e1, m1, e2, m2)
    OBVIOUS
  <2>1. i < t /\ t <= cap
    BY DEF t
  <2>2. PICK cm, e1, m1, e2, m2 :
           /\ Merging(a[i], k, cap, A, t, cm, i, e1, m1, e2, m2)
           /\ ordered => MergeOrder(el, g, cm, i, e1, m1, e2, m2)
    BY <1>5, <2>1
  <2>3. a[i + 1] = Step("Parts", L, i + 1, a[i])
    BY <1>2, <2>1
  <2> HIDE DEF P
  <2>4. PICK dm, d1, l1, d2, l2 :
           /\ Merging(a[i + 1], k, cap, A, t, dm, i + 1, d1, l1, d2, l2)
           /\ Keyed(Elm(L), g, cap) /\ MergeOrder(Elm(L), g, cm, i, e1, m1, e2, m2) =>
                MergeOrder(Elm(L), g, dm, i + 1, d1, l1, d2, l2)
    BY <2>1, <2>2, <2>3, MergingStep
  <2>5. ordered => MergeOrder(el, g, dm, i + 1, d1, l1, d2, l2)
    BY <1>30, <2>2, <2>4
  <2> QED BY <2>4, <2>5
<1> HIDE DEF P
<1>6. t \in P
  BY <1>4, <1>5, NatInd
<1>7. PICK cm, e1, m1, e2, m2 :
         /\ Merging(a[t], k, cap, A, t, cm, t, e1, m1, e2, m2)
         /\ ordered => MergeOrder(el, g, cm, t, e1, m1, e2, m2)
  BY <1>6 DEF P
<1>8. q = [k |-> q.k, p |-> q.p] /\ q.k = a[t].k /\ q.p = a[t].m
  BY <1>2 DEF MergedTo
<1> DEFINE z == a[t]
<1> HIDE DEF z
<1>9. /\ Three(z.k, z.m, z.p1, z.p2, cap, cm, t, e1, m1, e2, m2)
      /\ t + m1 + m2 = t
      /\ \A y : y \in A <=> y \in Values(cm, t) \/ y \in Values(e1, m1) \/ y \in Values(e2, m2)
      /\ \A y \in Node(cap) : y \notin A => SameAt(k, z.k, y)
  BY <1>7 DEF Merging, z
<1>10. IsLinks(z.k, cap) /\ Run(z.k, z.m, cap, cm, t) /\ m1 \in Nat /\ m2 \in Nat
  BY <1>9 DEF Three, Run
<1>11. m1 = 0 /\ m2 = 0
  BY <1>9, <1>10
<1>12. \A y : y \in Values(cm, t) <=> y \in A
  BY <1>9, <1>11 DEF Values
<1>13. q.k = z.k /\ q.p = z.m
  BY <1>8 DEF z
<1>14. /\ IsLinks(q.k, cap) /\ Run(q.k, q.p, cap, cm, t)
       /\ \A y : y \in Values(cm, t) <=> y \in Values(c1, n1) \/ y \in Values(c2, n2)
       /\ \A y \in Node(cap) : y \notin Values(c1, n1) /\ y \notin Values(c2, n2) => SameAt(k, q.k, y)
  BY <1>9, <1>10, <1>12, <1>13 DEF A
<1>15. InOrder(L, g, cap, c1, n1, c2, n2, cm)
  BY <1>7 DEF InOrder, MergeOrder, ordered, t
<1>16. Joined(L, g, k, cap, c1, n1, c2, n2, q, cm)
  BY <1>8, <1>14, <1>15 DEF Joined, t
<1> QED BY <1>16

(* What Split_List does with the last node of the front and the first of   *)
(* the back.                                                               *)
SplitAt(s, k, p, h, last, first) ==
  s = [k  |-> [k EXCEPT !.Next[last] = 0, !.Prev[first] = 0],
       p1 |-> [p EXCEPT !.Last = last, !.Length = h + 1],
       p2 |-> [p EXCEPT !.First = first, !.Length = @ - h - 1]]

(* How often the rover moves.                                              *)
Bumps(p, h) == h = (p.Length - 1) \div 2

(* The loop of the rover in Split_List.                                    *)
LEMMA RoverLoop ==
  ASSUME NEW k, NEW p, NEW h, h \in Nat, Bumps(p, h)
  PROVE  \E a : /\ a[0] = Fst(p) /\ SplitAt(Split_List(k, p), k, p, h, a[h], Nxt(k)[a[h]])
                /\ \A i \in Nat : i < h => a[i + 1] = Nxt(k)[a[i]]
<1> DEFINE X0 == p.First
           Body(x) == k.Next[x]
           a == CHOOSE a : a = [i \in 0..((p.Length - 1) \div 2) |->
                  IF i = 0 THEN p.First ELSE k.Next[a[i - 1]]]
<1>1. \A i, x : Step("Rover", k, i, x) = Body(x)
  BY DEF Step
<1>2. SplitAt(Split_List(k, p), k, p, h, a[h], Nxt(k)[a[h]])
  BY DEF Split_List, SplitAt, Bumps, Nxt
<1> HIDE DEF Body, X0
<1>3. \E b : IsLoop(b, 0, h, "Rover", k, X0)
  BY LoopExists
<1>4. \E b : b = [i \in 0..h |-> IF i = 0 THEN X0 ELSE Body(b[i - 1])]
  BY <1>1, <1>3 DEF IsLoop
<1>5. a = [i \in 0..h |-> IF i = 0 THEN X0 ELSE Body(a[i - 1])]
  BY <1>4 DEF X0, Body, Bumps
<1> HIDE DEF a
<1>6. IsLoop(a, 0, h, "Rover", k, X0)
  BY <1>1, <1>5 DEF IsLoop
<1>7. a[0] = X0 /\ \A i \in Nat : 0 <= i /\ i < h => a[i + 1] = Step("Rover", k, i + 1, a[i])
  BY <1>6, LoopStates
<1>8. \A i \in Nat : i < h => a[i + 1] = Nxt(k)[a[i]]
  BY <1>1, <1>7 DEF Body, Nxt
<1> QED BY <1>2, <1>7, <1>8 DEF X0, Fst

(* The first h nodes of a chain, and the others.                           *)
Front(c, h) == [i \in 1..h |-> c[i]]
Back(c, h, n) == [i \in 1..(n - h) |-> c[h + i]]

(* The links between positions h and h + 1 are cut.                        *)
HalveStep(N, n, c, h, next, prev, next2, prev2) ==
  /\ n \in Nat /\ c \in [1..n -> N] /\ h \in 1..n /\ h # n
  /\ Segment(next, prev, c, n)
  /\ \A i \in 1..n : i # h => next2[c[i]] = next[c[i]]
  /\ next2[c[h]] = 0
  /\ \A i \in 1..n : i # h + 1 => prev2[c[i]] = prev[c[i]]
  /\ prev2[c[h + 1]] = 0

(* Cutting there gives two chains with the nodes of one.                   *)
LEMMA SegHalve ==
  ASSUME NEW N, NEW n, NEW c, NEW h, NEW next, NEW prev, NEW next2, NEW prev2,
         HalveStep(N, n, c, h, next, prev, next2, prev2)
  PROVE  /\ Segment(next2, prev2, Front(c, h), h) /\ Front(c, h) \in [1..h -> N]
         /\ Segment(next2, prev2, Back(c, h, n), n - h) /\ Back(c, h, n) \in [1..(n - h) -> N]
         /\ Apart(Front(c, h), h, Back(c, h, n), n - h)
         /\ \A y : y \in Values(c, n) <=> y \in Values(Front(c, h), h) \/ y \in Values(Back(c, h, n), n - h)
<1> DEFINE d == Front(c, h)
           e == Back(c, h, n)
           m == n - h
<1> n \in Nat /\ c \in [1..n -> N] /\ h \in 1..n /\ h # n /\ m \in Nat /\ m # 0
  BY DEF HalveStep
<1>1. \A i, j \in 1..n : i # j => c[i] # c[j]
  BY DEF HalveStep, Segment
<1>2. \A i \in 1..h : i \in 1..n /\ d[i] = c[i]
  BY DEF Front
<1>3. \A i \in 1..m : h + i \in 1..n /\ e[i] = c[h + i]
  BY DEF Back
<1>4. d \in [1..h -> N] /\ e \in [1..m -> N]
  BY DEF Front, Back
<1> HIDE DEF d, e
<1>5. \A i \in 1..n : i \in 1..h \/ (i - h \in 1..m /\ h + (i - h) = i)
  OBVIOUS
<1>6. \A i \in 1..n : (i \in 1..h /\ d[i] = c[i]) \/ (i - h \in 1..m /\ e[i - h] = c[i])
  BY <1>2, <1>3, <1>5
<1>7. \A y : y \in Values(c, n) <=> y \in Values(d, h) \/ y \in Values(e, m)
  <2>1. ASSUME NEW y, y \in Values(c, n) PROVE y \in Values(d, h) \/ y \in Values(e, m)
    <3>1. PICK i \in 1..n : y = c[i]
      BY <2>1, ValuesMember
    <3>2. CASE i \in 1..h /\ d[i] = c[i]
      BY <3>1, <3>2, ValuesMember
    <3>3. CASE i - h \in 1..m /\ e[i - h] = c[i]
      BY <3>1, <3>3, ValuesMember
    <3> QED BY <1>6, <3>2, <3>3
  <2>2. ASSUME NEW y, y \in Values(d, h) PROVE y \in Values(c, n)
    <3>1. PICK i \in 1..h : y = d[i]
      BY <2>2, ValuesMember
    <3> QED BY <1>2, <3>1, ValuesMember
  <2>3. ASSUME NEW y, y \in Values(e, m) PROVE y \in Values(c, n)
    <3>1. PICK i \in 1..m : y = e[i]
      BY <2>3, ValuesMember
    <3> QED BY <1>3, <3>1, ValuesMember
  <2> QED BY <2>1, <2>2, <2>3
<1>8. Apart(d, h, e, m)
  <2>1. ASSUME NEW x, x \in Values(d, h), x \in Values(e, m) PROVE FALSE
    <3>1. PICK i \in 1..h : x = d[i]
      BY <2>1, ValuesMember
    <3>2. PICK j \in 1..m : x = e[j]
      BY <2>1, ValuesMember
    <3>3. i # h + j /\ i \in 1..n /\ h + j \in 1..n
      OBVIOUS
    <3>4. x = c[i] /\ x = c[h + j]
      BY <1>2, <1>3, <3>1, <3>2
    <3> DEFINE jj == h + j
    <3> HIDE DEF jj
    <3>5. i # jj /\ i \in 1..n /\ jj \in 1..n /\ x = c[i] /\ x = c[jj]
      BY <3>3, <3>4 DEF jj
    <3> QED BY <1>1, <3>5
  <2> QED BY <2>1 DEF Apart
<1>9. /\ \A i \in 1..n : next2[c[i]] = IF i = n \/ i = h THEN 0 ELSE c[i + 1]
      /\ \A i \in 1..n : prev2[c[i]] = IF i = 1 \/ i = h + 1 THEN 0 ELSE c[i - 1]
  BY DEF HalveStep, Segment
<1>10. Segment(next2, prev2, d, h)
  <2>1. ASSUME NEW i \in 1..h, NEW j \in 1..h, i # j PROVE d[i] # d[j]
    BY <1>1, <1>2, <2>1
  <2>2. ASSUME NEW i \in 1..h PROVE next2[d[i]] = IF i = h THEN 0 ELSE d[i + 1]
    <3>1. i \in 1..n /\ d[i] = c[i] /\ (i # h => i # n /\ d[i + 1] = c[i + 1])
      BY <1>2
    <3> QED BY <1>9, <3>1
  <2>3. ASSUME NEW i \in 1..h PROVE prev2[d[i]] = IF i = 1 THEN 0 ELSE d[i - 1]
    <3>1. i \in 1..n /\ d[i] = c[i] /\ i # h + 1 /\ (i # 1 => d[i - 1] = c[i - 1])
      BY <1>2
    <3> QED BY <1>9, <3>1
  <2> QED BY <2>1, <2>2, <2>3 DEF Segment
<1>11. Segment(next2, prev2, e, m)
  <2>1. ASSUME NEW i \in 1..m, NEW j \in 1..m, i # j PROVE e[i] # e[j]
    <3>1. h + i # h + j
      BY <2>1
    <3> QED BY <1>1, <1>3, <3>1
  <2>2. ASSUME NEW i \in 1..m PROVE next2[e[i]] = IF i = m THEN 0 ELSE e[i + 1]
    <3>1. /\ h + i \in 1..n /\ e[i] = c[h + i] /\ h + i # h /\ (i = m <=> h + i = n)
          /\ i # m => i + 1 \in 1..m /\ h + (i + 1) = (h + i) + 1
      BY <1>3
    <3>2. i # m => e[i + 1] = c[(h + i) + 1]
      BY <1>3, <3>1
    <3> HIDE DEF m
    <3> QED BY <1>9, <3>1, <3>2
  <2>3. ASSUME NEW i \in 1..m PROVE prev2[e[i]] = IF i = 1 THEN 0 ELSE e[i - 1]
    <3>1. /\ h + i \in 1..n /\ e[i] = c[h + i] /\ h + i # 1 /\ (i = 1 <=> h + i = h + 1)
          /\ i # 1 => i - 1 \in 1..m /\ h + (i - 1) = (h + i) - 1
      BY <1>3
    <3>2. i # 1 => e[i - 1] = c[(h + i) - 1]
      BY <1>3, <3>1
    <3> HIDE DEF m
    <3> QED BY <1>9, <3>1, <3>2
  <2> QED BY <2>1, <2>2, <2>3 DEF Segment
<1> QED BY <1>4, <1>7, <1>8, <1>10, <1>11 DEF d, e

(* The length of the front.                                                *)
Half(n) == (n - 1) \div 2 + 1

(* Both halves of a part of two nodes or more are shorter than it, and     *)
(* neither is empty: the recursion of Merge_Sort ends.                     *)
LEMMA HalfBounds ==
  ASSUME NEW n, n \in Nat, n > 1
  PROVE  Half(n) \in 1..n /\ Half(n) # n /\ Half(n) - 1 \in Nat
         /\ Half(n) - 1 = (n - 1) \div 2 /\ n - Half(n) \in 1..n /\ n - Half(n) # n
BY DEF Half

(* The first and the last nodes of a part as two parts, and no other node  *)
(* touched.                                                                *)
Halves(s, k, cap, c, n, d, h, e, m) ==
  /\ d = Front(c, h) /\ e = Back(c, h, n)
  /\ h \in 1..n /\ h # n /\ m \in 1..n /\ m # n /\ h + m = n
  /\ IsLinks(s.k, cap)
  /\ Run(s.k, s.p1, cap, d, h) /\ Run(s.k, s.p2, cap, e, m)
  /\ Apart(d, h, e, m)
  /\ \A y : y \in Values(c, n) <=> y \in Values(d, h) \/ y \in Values(e, m)
  /\ \A y \in Node(cap) : y \notin Values(c, n) => SameAt(k, s.k, y)

(* Split_List splits so.                                                   *)
THEOREM SplitLinks ==
  ASSUME NEW k, NEW p, NEW cap, NEW c, NEW n, Run(k, p, cap, c, n), IsLinks(k, cap),
         cap \in Nat, n > 1, NEW s, s = Split_List(k, p)
  PROVE  \E d, h, e, m : Halves(s, k, cap, c, n, d, h, e, m)
<1> DEFINE h == Half(n)
           b == h - 1
           m == n - h
           k2 == s.k
           N == Node(cap)
<1> n \in Nat /\ n <= cap
  BY DEF Run
<1> h \in 1..n /\ h # n /\ b \in Nat /\ m \in 1..n /\ m # n
  BY HalfBounds
<1>0. p.Length = n
  BY DEF Run
<1>1. Bumps(p, b)
  BY <1>0, HalfBounds DEF Bumps
<1> HIDE DEF h
<1>2. PICK a : /\ a[0] = Fst(p) /\ SplitAt(Split_List(k, p), k, p, b, a[b], Nxt(k)[a[b]])
               /\ \A i \in Nat : i < b => a[i + 1] = Nxt(k)[a[i]]
  BY <1>1, RoverLoop
<1>3. /\ c \in [1..n -> N] /\ Segment(Nxt(k), Prv(k), c, n)
      /\ p = [First |-> Fst(p), Last |-> Lst(p), Length |-> n]
      /\ Fst(p) = c[1] /\ Lst(p) = c[n]
  BY DEF Run
<1>4. a[b] = c[h]
  <2> DEFINE P == {i \in Nat : i <= b => a[i] = c[i + 1]}
  <2>1. 0 \in P
    BY <1>2, <1>3
  <2>2. ASSUME NEW i \in Nat, i \in P PROVE i + 1 \in P
    <3> SUFFICES ASSUME i + 1 <= b PROVE a[i + 1] = c[(i + 1) + 1]
      OBVIOUS
    <3>1. i < b /\ i + 1 \in 1..n /\ i + 1 # n
      OBVIOUS
    <3>2. a[i] = c[i + 1]
      BY <2>2, <3>1
    <3>3. Nxt(k)[c[i + 1]] = c[(i + 1) + 1]
      BY <1>3, <3>1 DEF Segment
    <3> QED BY <1>2, <3>1, <3>2, <3>3
  <2> HIDE DEF P
  <2>3. b \in P
    BY <2>1, <2>2, NatInd
  <2> QED BY <2>3 DEF P
<1> DEFINE x == c[h]
           z == c[h + 1]
           nil == 0
<1>5. x \in N /\ z \in N /\ Nxt(k)[x] = z /\ h + 1 \in 1..n
  BY <1>3 DEF Segment
<1>6. /\ s.k = [k EXCEPT !.Next[x] = 0, !.Prev[z] = 0]
      /\ s.p1 = [p EXCEPT !.Last = x, !.Length = h]
      /\ s.p2 = [p EXCEPT !.First = z, !.Length = m]
  <2>1. SplitAt(s, k, p, b, x, z)
    BY <1>2, <1>4, <1>5
  <2>2. b + 1 = h /\ n - b - 1 = m
    OBVIOUS
  <2> HIDE DEF x, z, b, m
  <2>3. /\ s.k = [k EXCEPT !.Next[x] = 0, !.Prev[z] = 0]
        /\ s.p1 = [p EXCEPT !.Last = x, !.Length = b + 1]
        /\ s.p2 = [p EXCEPT !.First = z, !.Length = p.Length - b - 1]
    BY <2>1 DEF SplitAt
  <2> QED BY <1>0, <2>2, <2>3
<1>7. Relink(k, k2, z, nil, x, nil) /\ nil \in Place(cap)
  <2>1. k = [Prev |-> k.Prev, Next |-> k.Next]
    BY DEF IsLinks, Nxt, Prv
  <2> HIDE DEF x, z
  <2> QED BY <1>6, <2>1 DEF Relink, Place
<1> HIDE DEF x, z, nil, m, b, k2
<1>8. /\ IsLinks(k2, cap) /\ Prv(k2)[z] = nil /\ Nxt(k2)[x] = nil
      /\ \A y \in N : y # z => Prv(k2)[y] = Prv(k)[y]
      /\ \A y \in N : y # x => Nxt(k2)[y] = Nxt(k)[y]
  BY <1>5, <1>7, LinksUpdate
<1>9. HalveStep(N, n, c, h, Nxt(k), Prv(k), Nxt(k2), Prv(k2))
  <2>1. \A i, j \in 1..n : i # j => c[i] # c[j]
    BY <1>3 DEF Segment
  <2>2. \A i \in 1..n : i # h => Nxt(k2)[c[i]] = Nxt(k)[c[i]]
    BY <1>3, <1>8, <2>1 DEF x
  <2>3. \A i \in 1..n : i # h + 1 => Prv(k2)[c[i]] = Prv(k)[c[i]]
    BY <1>3, <1>5, <1>8, <2>1 DEF z
  <2> QED BY <1>3, <1>8, <2>2, <2>3 DEF HalveStep, x, z, nil
<1> DEFINE d == Front(c, h)
           e == Back(c, h, n)
<1>10. /\ Segment(Nxt(k2), Prv(k2), d, h) /\ d \in [1..h -> N]
       /\ Segment(Nxt(k2), Prv(k2), e, m) /\ e \in [1..m -> N]
       /\ Apart(d, h, e, m)
       /\ \A y : y \in Values(c, n) <=> y \in Values(d, h) \/ y \in Values(e, m)
  BY <1>9, SegHalve DEF m
<1>11. d[1] = c[1] /\ d[h] = x /\ e[1] = z /\ e[m] = c[n]
  BY DEF Front, Back, x, z, m
<1> HIDE DEF d, e
<1>12. /\ Fst(s.p1) = d[1] /\ Lst(s.p1) = d[h] /\ Fst(s.p2) = e[1] /\ Lst(s.p2) = e[m]
       /\ s.p1 = [First |-> Fst(s.p1), Last |-> Lst(s.p1), Length |-> h]
       /\ s.p2 = [First |-> Fst(s.p2), Last |-> Lst(s.p2), Length |-> m]
  BY <1>3, <1>6, <1>11 DEF Fst, Lst
<1>13. Run(k2, s.p1, cap, d, h)
  BY <1>10, <1>12 DEF Run
<1>14. Run(k2, s.p2, cap, e, m)
  BY <1>10, <1>12 DEF Run
<1>15. \A y \in N : y \notin Values(c, n) => SameAt(k, k2, y)
  <2>1. x \in Values(c, n) /\ z \in Values(c, n)
    BY <1>5, ValuesMember DEF x, z
  <2> QED BY <1>8, <2>1 DEF SameAt
<1>16. h + m = n
  BY DEF m
<1>17. d = Front(c, h) /\ e = Back(c, h, n)
  BY DEF d, e
<1>18. Halves(s, k, cap, c, n, d, h, e, m)
  BY <1>8, <1>10, <1>13, <1>14, <1>15, <1>16, <1>17 DEF Halves, k2
<1> QED BY <1>18

(* The halves of a chain with ascending numbers.                           *)
LEMMA HalvesNumbered ==
  ASSUME NEW g, NEW c, NEW n, n \in Nat, NEW h, h \in 1..n, NEW d, d = Front(c, h),
         NEW m, m = n - h, NEW e, e = Back(c, h, n), Numbered(g, c, n)
  PROVE  Numbered(g, d, h) /\ Numbered(g, e, m) /\ Earlier(g, d, h, e, m)
<1>1. \A i \in 1..h : i \in 1..n /\ d[i] = c[i]
  BY DEF Front
<1>2. \A i \in 1..m : h + i \in 1..n /\ e[i] = c[h + i]
  BY DEF Back
<1>3. \A i, j \in 1..m : i < j => h + i < h + j
  OBVIOUS
<1>4. \A i \in 1..h : \A j \in 1..m : i < h + j
  OBVIOUS
<1>5. Numbered(g, d, h)
  BY <1>1 DEF Numbered
<1>6. Numbered(g, e, m)
  BY <1>2, <1>3 DEF Numbered
<1>7. Earlier(g, d, h, e, m)
  <2> SUFFICES ASSUME NEW x, x \in Values(d, h), NEW y, y \in Values(e, m) PROVE g[x] < g[y]
    BY DEF Earlier
  <2>1. PICK i \in 1..h : x = d[i]
    BY ValuesMember
  <2>2. PICK j \in 1..m : y = e[j]
    BY ValuesMember
  <2> QED BY <1>1, <1>2, <1>4, <2>1, <2>2 DEF Numbered
<1> QED BY <1>5, <1>6, <1>7

(* The argument of the sort function.                                      *)
Part(k, p) == [k |-> k, p |-> p]

(* Every part of links over the nodes of L is in its domain.               *)
LEMMA SortDomain ==
  ASSUME NEW L, NEW cap, NEW E, IsRep(L, cap, E), NEW k, IsLinks(k, cap),
         NEW p, NEW c, NEW n, Run(k, p, cap, c, n)
  PROVE  Part(k, p) \in [k : Links(L), p : Parts(L)] /\ Part(k, p).k = k /\ Part(k, p).p = p
<1> DEFINE N == Node(cap)
<1> cap \in Nat /\ n \in Nat /\ n <= cap
  BY DEF IsRep, Run
<1>1. Nodes(L) = N /\ L.Capacity = cap
  BY DEF IsRep, Nodes, Prv, Cap
<1>2. N \cup {0} = 0..cap /\ N \cup {0, -1} = -1..cap
  BY DEF Node
<1>3. k = [Prev |-> Prv(k), Next |-> Nxt(k)] /\ Prv(k) \in [N -> -1..cap] /\ Nxt(k) \in [N -> 0..cap]
  BY <1>2 DEF IsLinks
<1> HIDE DEF N
<1>4. k \in Links(L)
  BY <1>1, <1>3 DEF Links
<1>5. /\ p = [First |-> Fst(p), Last |-> Lst(p), Length |-> n]
      /\ n = 0 => Fst(p) = 0 /\ Lst(p) = 0
  BY DEF Run
<1>6. n # 0 => Fst(p) \in N /\ Lst(p) \in N
  BY RunFirst DEF N
<1>7. Fst(p) \in N \cup {0} /\ Lst(p) \in N \cup {0} /\ n \in 0..cap
  BY <1>5, <1>6
<1>8. p \in Parts(L)
  BY <1>1, <1>5, <1>7 DEF Parts
<1> QED BY <1>4, <1>8 DEF Part

(* The result is a part with the same nodes, and no other node is          *)
(* touched.                                                                *)
Rearranged(s, k, cap, c, n, d) ==
  /\ IsLinks(s.k, cap) /\ Run(s.k, s.p, cap, d, n)
  /\ \A y : y \in Values(d, n) <=> y \in Values(c, n)
  /\ \A y \in Node(cap) : y \notin Values(c, n) => SameAt(k, s.k, y)

(* The result is in order when the numbers ascend in the part.             *)
Ordering(L, g, cap, c, n, d) ==
  Keyed(Elm(L), g, cap) /\ Numbered(g, c, n) => Ascends(Elm(L), g, d, n)

(* `sort` rearranges all parts of at most m + 1 nodes, and puts them in    *)
(* order.                                                                  *)
Sorts(sort, L, g, cap, m) ==
  \A k, p, c, n :
    IsLinks(k, cap) /\ Run(k, p, cap, c, n) /\ n # 0 /\ n <= m + 1 =>
      \E d : Rearranged(sort[Part(k, p)], k, cap, c, n, d) /\ Ordering(L, g, cap, c, n, d)

(* A part of one node is in order.                                         *)
LEMMA OneOrdered ==
  ASSUME NEW L, NEW g, NEW cap, NEW c, NEW n, n \in Nat, n < 2
  PROVE  Ordering(L, g, cap, c, n, c)
<1>1. \A i, j \in 1..n : ~(i < j)
  OBVIOUS
<1> QED BY <1>1 DEF Ordering, Ascends

(* If the recursive calls rearrange parts of m + 1 nodes, Merge_Sort       *)
(* rearranges parts of m + 2.                                              *)
LEMMA SortStep ==
  ASSUME NEW L, NEW cap, NEW E, IsRep(L, cap, E), NEW g, NEW sort, NEW m, m \in Nat,
         Sorts(sort, L, g, cap, m), NEW f, f = Merge_Sort(L, sort)
  PROVE  Sorts(f, L, g, cap, m + 1)
<1> SUFFICES ASSUME NEW k, NEW p, NEW c, NEW n, IsLinks(k, cap), Run(k, p, cap, c, n),
                    n # 0, n <= (m + 1) + 1
             PROVE  \E d : Rearranged(f[Part(k, p)], k, cap, c, n, d) /\ Ordering(L, g, cap, c, n, d)
  BY DEF Sorts
<1> cap \in Nat /\ n \in Nat /\ n <= cap
  BY DEF IsRep, Run
<1> DEFINE s == Part(k, p)
<1>1. s \in [k : Links(L), p : Parts(L)] /\ s.k = k /\ s.p = p
  BY SortDomain
<1>2. p.Length = n
  BY DEF Run
<1> HIDE DEF s
<1>3. CASE n < 2
  <2>1. f[s] = s
    BY <1>1, <1>2, <1>3 DEF Merge_Sort
  <2>2. Rearranged(s, k, cap, c, n, c)
    BY <1>1 DEF Rearranged, SameAt
  <2>3. Ordering(L, g, cap, c, n, c)
    BY <1>3, OneOrdered
  <2> QED BY <2>1, <2>2, <2>3 DEF s
<1>4. CASE ~(n < 2)
  <2> DEFINE split == Split_List(k, p)
             one == sort[Part(split.k, split.p1)]
             two == sort[Part(one.k, split.p2)]
  <2>1. f[s] = Merge_Parts(L, two.k, one.p, two.p)
    BY <1>1, <1>2, <1>4 DEF Merge_Sort, Part
  <2>2. n > 1
    BY <1>4
  <2> HIDE DEF split
  <2>3. PICK c1, n1, c2, n2 : Halves(split, k, cap, c, n, c1, n1, c2, n2)
    BY <2>2, SplitLinks DEF split
  <2>4. /\ n1 \in 1..n /\ n1 # n /\ n2 \in 1..n /\ n2 # n /\ n1 + n2 = n
        /\ IsLinks(split.k, cap)
        /\ Run(split.k, split.p1, cap, c1, n1) /\ Run(split.k, split.p2, cap, c2, n2)
        /\ Apart(c1, n1, c2, n2)
        /\ \A y : y \in Values(c, n) <=> y \in Values(c1, n1) \/ y \in Values(c2, n2)
        /\ \A y \in Node(cap) : y \notin Values(c, n) => SameAt(k, split.k, y)
    BY <2>3 DEF Halves
  <2>5. n1 # 0 /\ n1 <= m + 1 /\ n2 # 0 /\ n2 <= m + 1 /\ n1 + n2 <= cap
    BY <2>4
  <2> HIDE DEF one, two
  <2>6. PICK d1 : Rearranged(one, split.k, cap, c1, n1, d1) /\ Ordering(L, g, cap, c1, n1, d1)
    BY <2>4, <2>5 DEF Sorts, one
  <2>7. /\ IsLinks(one.k, cap) /\ Run(one.k, one.p, cap, d1, n1)
        /\ \A y : y \in Values(d1, n1) <=> y \in Values(c1, n1)
        /\ \A y \in Node(cap) : y \notin Values(c1, n1) => SameAt(split.k, one.k, y)
    BY <2>6 DEF Rearranged
  <2>8. Run(one.k, split.p2, cap, c2, n2)
    <3>1. \A y \in Node(cap) : y \in Values(c2, n2) => SameAt(split.k, one.k, y)
      BY <2>4, <2>7 DEF Apart
    <3> QED BY <2>4, <3>1, RunFrame
  <2>9. PICK d2 : Rearranged(two, one.k, cap, c2, n2, d2) /\ Ordering(L, g, cap, c2, n2, d2)
    BY <2>5, <2>7, <2>8 DEF Sorts, two
  <2>10. /\ IsLinks(two.k, cap) /\ Run(two.k, two.p, cap, d2, n2)
         /\ \A y : y \in Values(d2, n2) <=> y \in Values(c2, n2)
         /\ \A y \in Node(cap) : y \notin Values(c2, n2) => SameAt(one.k, two.k, y)
    BY <2>9 DEF Rearranged
  <2>11. Run(two.k, one.p, cap, d1, n1)
    <3>1. \A y \in Node(cap) : y \in Values(d1, n1) => SameAt(one.k, two.k, y)
      BY <2>4, <2>7, <2>10 DEF Apart
    <3> QED BY <2>7, <3>1, RunFrame
  <2>12. Apart(d1, n1, d2, n2)
    BY <2>4, <2>7, <2>10 DEF Apart
  <2> DEFINE q == f[s]
  <2> HIDE DEF q
  <2>13. q = Merge_Parts(L, two.k, one.p, two.p)
    BY <2>1 DEF q
  <2>14. PICK d : /\ q = [k |-> q.k, p |-> q.p]
                  /\ InOrder(L, g, cap, d1, n1, d2, n2, d)
                  /\ IsLinks(q.k, cap) /\ Run(q.k, q.p, cap, d, n1 + n2)
                  /\ \A y : y \in Values(d, n1 + n2) <=> y \in Values(d1, n1) \/ y \in Values(d2, n2)
                  /\ \A y \in Node(cap) : y \notin Values(d1, n1) /\ y \notin Values(d2, n2) =>
                       SameAt(two.k, q.k, y)
    <3>1. /\ IsLinks(two.k, cap) /\ cap \in Nat /\ n1 + n2 <= cap
          /\ Run(two.k, two.p, cap, d2, n2)
      BY <2>5, <2>10
    <3>2. PICK d : Joined(L, g, two.k, cap, d1, n1, d2, n2, q, d)
      BY <2>11, <2>12, <2>13, <3>1, MergeLinks
    <3> QED BY <3>2 DEF Joined
  <2>15. IsLinks(q.k, cap) /\ Run(q.k, q.p, cap, d, n)
    BY <2>4, <2>14
  <2>16. \A y : y \in Values(d, n) <=> y \in Values(c, n)
    BY <2>4, <2>7, <2>10, <2>14
  <2>17. \A y \in Node(cap) : y \notin Values(c, n) => SameAt(k, q.k, y)
    BY <2>4, <2>7, <2>10, <2>14 DEF SameAt
  <2>18. Rearranged(q, k, cap, c, n, d)
    BY <2>15, <2>16, <2>17 DEF Rearranged
  <2>19. ASSUME Keyed(Elm(L), g, cap), Numbered(g, c, n) PROVE Ascends(Elm(L), g, d, n)
    <3>1. n2 = n - n1 /\ c1 = Front(c, n1) /\ c2 = Back(c, n1, n)
      BY <2>3, <2>4 DEF Halves
    <3>2. Numbered(g, c1, n1) /\ Numbered(g, c2, n2) /\ Earlier(g, c1, n1, c2, n2)
      BY <2>4, <2>19, <3>1, HalvesNumbered
    <3>3. Ascends(Elm(L), g, d1, n1) /\ Ascends(Elm(L), g, d2, n2)
      BY <2>6, <2>9, <2>19, <3>2 DEF Ordering
    <3>4. Earlier(g, d1, n1, d2, n2)
      BY <2>7, <2>10, <3>2 DEF Earlier
    <3> QED BY <2>4, <2>14, <2>19, <3>3, <3>4 DEF InOrder
  <2>20. Ordering(L, g, cap, c, n, d)
    BY <2>19 DEF Ordering
  <2> QED BY <2>18, <2>20 DEF q, s
<1> QED BY <1>3, <1>4

(* M is L with the result of the sort written back.                        *)
SortedTo(M, L, r) ==
  M = [L EXCEPT !.Prev = r.k.Prev, !.Next = r.k.Next,
                !.First = r.p.First, !.Last = r.p.Last, !.Length = r.p.Length]
(* The whole list as a part.                                               *)
Whole(L) == Part([Prev |-> Prv(L), Next |-> Nxt(L)],
                 [First |-> Fst(L), Last |-> Lst(L), Length |-> Lng(L)])
(* The sort function of depth 0.                                           *)
Identity(L, f) == f = [s \in [k : Links(L), p : Parts(L)] |-> s]

(* The sort functions by depth.                                            *)
LEMMA SortLoop ==
  ASSUME NEW L, Lng(L) \in Nat, ~(Lng(L) <= 1)
  PROVE  \E a : /\ Identity(L, a[0]) /\ SortedTo(Sort(L), L, a[Lng(L)][Whole(L)])
                /\ \A i \in Nat : i < Lng(L) => a[i + 1] = Step("Sort", L, i + 1, a[i])
<1> DEFINE n == Lng(L)
           X0 == [s \in [k : Links(L), p : Parts(L)] |-> s]
           Body(x) == Merge_Sort(L, x)
           a == CHOOSE a : a = [i \in 0..L.Length |->
                  IF i = 0 THEN [s \in [k : Links(L), p : Parts(L)] |-> s]
                  ELSE Merge_Sort(L, a[i - 1])]
<1>1. \A i, x : Step("Sort", L, i, x) = Body(x)
  BY DEF Step
<1>2. SortedTo(Sort(L), L, a[n][Whole(L)])
  BY Zenon DEF Sort, SortedTo, Whole, Part, Prv, Nxt, Fst, Lst, Lng
<1> n \in Nat
  OBVIOUS
<1> HIDE DEF Body, X0, n
<1>3. \E b : IsLoop(b, 0, n, "Sort", L, X0)
  BY LoopExists
<1>4. \E b : b = [i \in 0..n |-> IF i = 0 THEN X0 ELSE Body(b[i - 1])]
  BY <1>1, <1>3 DEF IsLoop
<1>5. a = [i \in 0..n |-> IF i = 0 THEN X0 ELSE Body(a[i - 1])]
  BY <1>4 DEF X0, Body, n, Lng
<1> HIDE DEF a
<1>6. IsLoop(a, 0, n, "Sort", L, X0)
  BY <1>1, <1>5 DEF IsLoop
<1>7. a[0] = X0 /\ \A i \in Nat : 0 <= i /\ i < n => a[i + 1] = Step("Sort", L, i + 1, a[i])
  BY <1>6, LoopStates
<1>8. Identity(L, a[0])
  BY <1>7 DEF X0, Identity
<1> QED BY <1>2, <1>7, <1>8 DEF n

(* Sort, with more than one node: the chain d of the result holds the      *)
(* nodes of the chain c of the list, and is in order.                      *)
Resorted(L, cap, E, g, c, n, f, m, M, d) ==
  /\ IsRep(M, cap, E) /\ Lng(M) = n /\ Elm(M) = Elm(L)
  /\ Shape(M, cap, d, n, f, m, {})
  /\ \A y : y \in Values(d, n) <=> y \in Values(c, n)
  /\ Ordering(L, g, cap, c, n, d)

(* What Sort does to the chain c of a list of two nodes or more.           *)
LEMMA SortMany ==
  ASSUME NEW L, NEW cap, NEW E, Good(L, cap, E), NEW g, NEW c, NEW f,
         Shape(L, cap, c, Lng(L), f, cap - Lng(L), {}), ~(Lng(L) <= 1),
         NEW M, M = Sort(L)
  PROVE  \E d : Resorted(L, cap, E, g, c, Lng(L), f, cap - Lng(L), M, d)
<1> DEFINE n == Lng(L)
           m == cap - Lng(L)
<1>a. IsRep(L, cap, E) /\ cap \in Nat /\ n \in Nat /\ m \in Nat
  BY GoodNumbers
<1>b. Shape(L, cap, c, n, f, m, {})
  OBVIOUS
<1>d. ~(n <= 1)
  OBVIOUS
<1>1. PICK a : /\ Identity(L, a[0]) /\ SortedTo(Sort(L), L, a[n][Whole(L)])
               /\ \A i \in Nat : i < n => a[i + 1] = Step("Sort", L, i + 1, a[i])
  BY <1>a, <1>d, SortLoop
<1> DEFINE P == {i \in Nat : i <= n => Sorts(a[i], L, g, cap, i)}
<1>2. 0 \in P
  <2> DEFINE z == a[0]
  <2>1. Identity(L, z)
    BY <1>1
  <2> HIDE DEF z
  <2>2. ASSUME NEW k, NEW p, NEW d, NEW i,
               IsLinks(k, cap), Run(k, p, cap, d, i), i <= 0 + 1
        PROVE  Rearranged(z[Part(k, p)], k, cap, d, i, d) /\ Ordering(L, g, cap, d, i, d)
    <3>1. Part(k, p) \in [k : Links(L), p : Parts(L)] /\ Part(k, p).k = k /\ Part(k, p).p = p
      BY <1>a, <2>2, SortDomain
    <3>2. z[Part(k, p)] = Part(k, p)
      BY <2>1, <3>1 DEF Identity
    <3>3. Rearranged(z[Part(k, p)], k, cap, d, i, d)
      BY <2>2, <3>1, <3>2 DEF Rearranged, SameAt
    <3>4. i \in Nat /\ i < 2
      BY <2>2 DEF Run
    <3>5. Ordering(L, g, cap, d, i, d)
      BY <3>4, OneOrdered
    <3> QED BY <3>3, <3>5
  <2>3. Sorts(z, L, g, cap, 0)
    BY <2>2 DEF Sorts
  <2> QED BY <2>3 DEF z
<1>3. ASSUME NEW i \in Nat, i \in P PROVE i + 1 \in P
  <2> SUFFICES ASSUME i + 1 <= n PROVE Sorts(a[i + 1], L, g, cap, i + 1)
    OBVIOUS
  <2>1. i < n /\ Sorts(a[i], L, g, cap, i)
    BY <1>a, <1>3
  <2>2. a[i + 1] = Merge_Sort(L, a[i])
    BY <1>1, <2>1 DEF Step
  <2> HIDE DEF P
  <2> QED BY <1>a, <2>1, <2>2, SortStep
<1> HIDE DEF P
<1>4. n \in P
  BY <1>a, <1>2, <1>3, NatInd
<1>5. Sorts(a[n], L, g, cap, n)
  BY <1>a, <1>4 DEF P
<1> DEFINE k == [Prev |-> Prv(L), Next |-> Nxt(L)]
           p == [First |-> Fst(L), Last |-> Lst(L), Length |-> n]
           r == a[n][Whole(L)]
<1>6. Whole(L) = Part(k, p) /\ Prv(k) = Prv(L) /\ Nxt(k) = Nxt(L)
      /\ Fst(p) = Fst(L) /\ Lst(p) = Lst(L) /\ p = [First |-> Fst(p), Last |-> Lst(p), Length |-> n]
      /\ k = [Prev |-> Prv(k), Next |-> Nxt(k)]
  BY DEF Whole, Prv, Nxt, Fst, Lst
<1> HIDE DEF k, p, r
<1>7. n <= cap /\ n # 0 /\ n <= n + 1
  BY <1>a, <1>d
<1>8. /\ Segment(Nxt(L), Prv(L), c, n) /\ c \in [1..n -> Node(cap)]
      /\ Fst(L) = c[1] /\ Lst(L) = c[n] /\ Store(L, cap, f, m)
      /\ \A y \in Node(cap) : y \in Values(c, n) \/ y \in Values(f, m)
  BY <1>b, <1>7 DEF Shape, Active
<1>9. IsLinks(k, cap)
  BY <1>a, <1>6 DEF IsLinks, IsRep
<1> HIDE DEF n, m
<1>10. Run(k, p, cap, c, n)
  BY <1>a, <1>6, <1>7, <1>8 DEF Run
<1>11. PICK d : Rearranged(r, k, cap, c, n, d) /\ Ordering(L, g, cap, c, n, d)
  BY <1>5, <1>6, <1>7, <1>9, <1>10 DEF Sorts, r
<1>12. /\ IsLinks(r.k, cap) /\ Run(r.k, r.p, cap, d, n)
       /\ \A y : y \in Values(d, n) <=> y \in Values(c, n)
       /\ \A y \in Node(cap) : y \notin Values(c, n) => SameAt(k, r.k, y)
  BY <1>11 DEF Rearranged
<1>13. SortedTo(M, L, r)
  BY <1>1 DEF r
<1>14. DOMAIN L = Fields /\ r.p.Length = n
  BY <1>a, <1>12 DEF IsRep, Run
<1>15. /\ DOMAIN M = Fields /\ Cap(M) = Cap(L) /\ Fre(M) = Fre(L) /\ Elm(M) = Elm(L)
       /\ Prv(M) = Prv(r.k) /\ Nxt(M) = Nxt(r.k)
       /\ Fst(M) = Fst(r.p) /\ Lst(M) = Lst(r.p) /\ Lng(M) = n
  BY <1>13, <1>14 DEF SortedTo, Fields, Cap, Fre, Lng, Fst, Lst, Prv, Nxt, Elm
<1>16. /\ d \in [1..n -> Node(cap)] /\ Segment(Nxt(r.k), Prv(r.k), d, n)
       /\ Fst(r.p) = d[1] /\ Lst(r.p) = d[n] /\ d[1] \in Node(cap) /\ d[n] \in Node(cap)
  <2>1. d[1] \in Node(cap) /\ d[n] \in Node(cap)
    BY <1>7, <1>12, RunFirst
  <2> QED BY <1>7, <1>12, <2>1 DEF Run
<1>17. IsRep(M, cap, E)
  <2>1. Prv(M) \in [Node(cap) -> Node(cap) \cup {0, -1}] /\ Nxt(M) \in [Node(cap) -> Node(cap) \cup {0}]
    BY <1>12, <1>15 DEF IsLinks
  <2>2. /\ Cap(L) = cap /\ Fre(L) \in -(cap + 1)..cap /\ Lng(L) \in 0..cap
        /\ Elm(L) \in [Node(cap) -> E]
    BY <1>a DEF IsRep
  <2>3. Lng(M) = Lng(L)
    BY <1>15 DEF n
  <2> QED BY <1>a, <1>15, <1>16, <2>1, <2>2, <2>3 DEF IsRep
<1>18. Active(M, Node(cap), d, n)
  BY <1>a, <1>7, <1>15, <1>16 DEF Active
<1>19. Store(M, cap, f, m)
  <2>1. ASSUME NEW y \in 1..m PROVE f[y] \in Node(cap) /\ f[y] \notin Values(c, n)
    <3>1. Active(L, Node(cap), c, n)
      BY <1>b DEF Shape
    <3>2. \A i \in 1..n : c[i] # f[y]
      BY <1>a, <1>8, <3>1, ActiveNotFree
    <3>3. f[y] \in Node(cap)
      BY <1>8 DEF Store
    <3> QED BY <3>2, <3>3, ValuesMember
  <2>2. \A y \in 1..m : Prv(M)[f[y]] = Prv(L)[f[y]] /\ Nxt(M)[f[y]] = Nxt(L)[f[y]]
    BY <1>6, <1>12, <1>15, <2>1 DEF SameAt
  <2> QED BY <1>8, <1>15, <2>2, StoreFrame
<1>20. \A y \in Node(cap) : y \in Values(d, n) \/ y \in Values(f, m)
  BY <1>8, <1>12
<1>21. Shape(M, cap, d, n, f, m, {})
  BY <1>18, <1>19, <1>20 DEF Shape
<1>22. Resorted(L, cap, E, g, c, n, f, m, M, d)
  BY <1>11, <1>12, <1>15, <1>17, <1>21 DEF Resorted
<1> QED BY <1>22 DEF n, m

(* The same with any number of nodes.                                      *)
LEMMA SortShape ==
  ASSUME NEW L, NEW cap, NEW E, Good(L, cap, E), NEW g, NEW c, NEW f,
         Shape(L, cap, c, Lng(L), f, cap - Lng(L), {}), NEW M, M = Sort(L)
  PROVE  \E d : Resorted(L, cap, E, g, c, Lng(L), f, cap - Lng(L), M, d)
<1>1. IsRep(L, cap, E) /\ Lng(L) \in Nat
  BY GoodNumbers
<1>2. CASE Lng(L) <= 1
  <2>1. M = L
    BY <1>2 DEF Sort, Lng
  <2>2. Lng(L) < 2
    BY <1>1, <1>2
  <2>3. Ordering(L, g, cap, c, Lng(L), c)
    BY <1>1, <2>2, OneOrdered
  <2>4. Resorted(L, cap, E, g, c, Lng(L), f, cap - Lng(L), M, c)
    BY <1>1, <2>1, <2>3 DEF Resorted
  <2> QED BY <2>4
<1>3. CASE ~(Lng(L) <= 1)
  BY <1>3, SortMany
<1> QED BY <1>2, <1>3

(* Sort: a good list is good afterwards, with the same nodes and the same  *)
(* elements in them: the sort neither loses nor duplicates a node.         *)
THEOREM GoodSort ==
  ASSUME NEW L, NEW cap, NEW E, Good(L, cap, E), NEW M, M = Sort(L)
  PROVE  /\ Good(M, cap, E) /\ Lng(M) = Lng(L) /\ Elm(M) = Elm(L)
         /\ \A y : y \in Cursors(M) <=> y \in Cursors(L)
<1> DEFINE n == Lng(L)
           m == cap - Lng(L)
<1>1. IsRep(L, cap, E) /\ cap \in Nat /\ n \in Nat /\ m \in Nat
  BY GoodNumbers
<1>2. PICK c, f : Shape(L, cap, c, n, f, m, {})
  BY DEF Good
<1>3. PICK d : Resorted(L, cap, E, L, c, n, f, m, M, d)
  BY <1>2, SortShape
<1>4. /\ IsRep(M, cap, E) /\ Lng(M) = n /\ Elm(M) = Elm(L)
      /\ Shape(M, cap, d, n, f, m, {})
      /\ \A y : y \in Values(d, n) <=> y \in Values(c, n)
  BY <1>3 DEF Resorted
<1>5. Good(M, cap, E)
  BY <1>4 DEF Good
<1>6. /\ \A y : y \in Cursors(L) <=> y \in Values(c, n)
      /\ \A y : y \in Cursors(M) <=> y \in Values(d, n)
  BY <1>1, <1>2, <1>4, CursorsShape
<1> QED BY <1>4, <1>5, <1>6

-----------------------------------------------------------------------------
(* The order of the nodes, operation by operation.                         *)

(* c is the sequence of the n active nodes of the list L, from First to    *)
(* Last.                                                                   *)
Order(L, cap, E, c, n) ==
  /\ IsRep(L, cap, E)
  /\ Lng(L) = n
  /\ \E f : Shape(L, cap, c, n, f, cap - n, {})

(* A list is good when it has an order.                                    *)
LEMMA OrderGood ==
  ASSUME NEW L, NEW cap, NEW E
  PROVE  /\ \A c, n : Order(L, cap, E, c, n) => Good(L, cap, E)
         /\ Good(L, cap, E) => \E c : Order(L, cap, E, c, Lng(L))
BY DEF Order, Good

(* What the order says of the components.                                  *)
LEMMA OrderFacts ==
  ASSUME NEW L, NEW cap, NEW E, NEW c, NEW n, Order(L, cap, E, c, n)
  PROVE  /\ cap \in Nat /\ n \in Nat /\ n <= cap /\ cap - n \in Nat /\ Lng(L) = n
         /\ c \in [1..n -> Node(cap)]
         /\ \A i, j \in 1..n : i # j => c[i] # c[j]
         /\ \A i \in 1..n : c[i] \in Node(cap) /\ c[i] # 0
         /\ \A i \in 1..n : Nxt(L)[c[i]] = IF i = n THEN 0 ELSE c[i + 1]
         /\ n = 0 => Fst(L) = 0 /\ Lst(L) = 0
         /\ n # 0 => Fst(L) = c[1] /\ Lst(L) = c[n]
         /\ \A x : x \in Cursors(L) <=> x \in Values(c, n)
         /\ Elm(L) \in [Node(cap) -> E]
         /\ \A i \in 1..n : Elm(L)[c[i]] \in E
<1>1. IsRep(L, cap, E) /\ Lng(L) = n
  BY DEF Order
<1>2. cap \in Nat /\ n \in Nat /\ n <= cap /\ cap - n \in Nat /\ Elm(L) \in [Node(cap) -> E]
  BY <1>1 DEF IsRep
<1>3. PICK f : Shape(L, cap, c, n, f, cap - n, {})
  BY DEF Order
<1> DEFINE m == cap - n
<1> HIDE DEF m
<1>4. Shape(L, cap, c, n, f, m, {})
  BY <1>3 DEF m
<1>5. \A x : x \in Cursors(L) <=> x \in Values(c, n)
  BY <1>1, <1>4, CursorsShape
<1>6. Active(L, Node(cap), c, n)
  BY <1>4 DEF Shape
<1>7. c \in [1..n -> Node(cap)] /\ Segment(Nxt(L), Prv(L), c, n)
      /\ (n = 0 => Fst(L) = 0 /\ Lst(L) = 0)
      /\ (n # 0 => Fst(L) = c[1] /\ Lst(L) = c[n])
  BY <1>6 DEF Active
<1>8. \A i \in 1..n : c[i] \in Node(cap) /\ c[i] # 0
  BY <1>2, <1>7, NodeNumbers
<1>9. /\ \A i, j \in 1..n : i # j => c[i] # c[j]
      /\ \A i \in 1..n : Nxt(L)[c[i]] = IF i = n THEN 0 ELSE c[i + 1]
  BY <1>7 DEF Segment
<1> QED BY <1>1, <1>2, <1>5, <1>7, <1>8, <1>9

(* One insertion puts the allocated node at the place of before.           *)
THEOREM OrderInsertOne ==
  ASSUME NEW L, NEW cap, NEW E, NEW c, NEW n, Order(L, cap, E, c, n), n < cap,
         NEW before, NEW p, IsPlace(c, n, before, p), NEW e, e \in E,
         NEW M, M = InsertOne(L, before, e), NEW a, a = Allocate(L, e).node
  PROVE  /\ Order(M, cap, E, InsertAt(c, n, p, a), n + 1)
         /\ a \in Node(cap) /\ a \notin Values(c, n)
         /\ Put(Elm(M), Elm(L), a, e)
<1> DEFINE m == cap - n
           A == Allocate(L, e).list
           K == Link(A, before, a)
           d == InsertAt(c, n, p, a)
<1>1. IsRep(L, cap, E) /\ Lng(L) = n /\ cap \in Nat /\ n \in Nat /\ m \in Nat /\ m > 0
  <2>1. cap \in Nat /\ n \in Nat /\ cap - n \in Nat
    BY OrderFacts
  <2> QED BY <2>1 DEF Order
<1>2. PICK f : Shape(L, cap, c, n, f, m, {})
  BY DEF Order
<1> DEFINE g == Rest(f, m)
           r == m - 1
<1> HIDE DEF m, A, K, d, g, r
<1>3. /\ a \in Node(cap) /\ IsRep(A, cap, E) /\ Lng(A) = n
      /\ Shape(A, cap, c, n, Rest(f, m), m - 1, {a})
  BY <1>1, <1>2, AllocateShape DEF A
<1>4. Put(Elm(A), Elm(L), a, e)
  <2>1. DOMAIN L = Fields
    BY <1>1 DEF IsRep
  <2> QED BY <2>1, AllocateFields DEF A
<1>5. a \notin Values(c, n)
  BY <1>3 DEF Shape
<1>6. /\ IsRep(K, cap, E) /\ Lng(K) = n /\ Elm(K) = Elm(A)
      /\ Shape(K, cap, d, n + 1, g, r, {})
  <2>1. Shape(A, cap, c, n, g, r, {a}) /\ (Lng(A) = 0 <=> n = 0) /\ K = Link(A, before, a)
    BY <1>3 DEF g, r, K
  <2>2. /\ IsRep(K, cap, E) /\ Lng(K) = Lng(A) /\ Elm(K) = Elm(A)
        /\ Shape(K, cap, InsertAt(c, n, p, a), n + 1, g, r, {})
    BY <1>3, <2>1, LinkShape
  <2> QED BY <1>3, <2>2 DEF d
<1>7. M = [K EXCEPT !.Length = n + 1]
  <2>1. M = [K EXCEPT !.Length = K.Length + 1]
    BY DEF InsertOne, Insert_Internal, K, A
  <2> QED BY <1>6, <2>1 DEF Lng
<1>8. n + 1 \in 0..cap /\ r = cap - (n + 1)
  BY <1>1 DEF m, r
<1>9. /\ IsRep(M, cap, E) /\ Lng(M) = n + 1 /\ Fst(M) = Fst(K) /\ Lst(M) = Lst(K)
      /\ Prv(M) = Prv(K) /\ Nxt(M) = Nxt(K) /\ Fre(M) = Fre(K) /\ Elm(M) = Elm(K)
  BY <1>6, <1>7, <1>8, WithLength
<1>10. Shape(M, cap, d, n + 1, g, r, {})
  BY <1>6, <1>9, ShapeFrame
<1>11. Order(M, cap, E, d, n + 1)
  BY <1>8, <1>9, <1>10 DEF Order
<1> QED
  BY <1>3, <1>4, <1>5, <1>6, <1>9, <1>11 DEF d

(* Taking one node out of a list of two or more leaves the others in their *)
(* order.                                                                  *)
THEOREM OrderRemove ==
  ASSUME NEW L, NEW cap, NEW E, NEW c, NEW n, Order(L, cap, E, c, n), n > 1,
         NEW p, p \in 1..n, NEW M, M = Remove(L, c[p])
  PROVE  Order(M, cap, E, RemoveAt(c, n, p), n - 1) /\ Elm(M) = Elm(L)
<1> DEFINE m == cap - n
           x == c[p]
           U == Unlink(L, x)
           K == [U EXCEPT !.Length = n - 1]
           d == RemoveAt(c, n, p)
           out == {x}
<1>1. IsRep(L, cap, E) /\ Lng(L) = n /\ cap \in Nat /\ n \in Nat /\ m \in Nat
  <2>1. cap \in Nat /\ n \in Nat /\ cap - n \in Nat
    BY OrderFacts
  <2> QED BY <2>1 DEF Order
<1>2. PICK f : Shape(L, cap, c, n, f, m, {})
  BY DEF Order
<1>3. M = Free([U EXCEPT !.Length = U.Length - 1], x)
  BY DEF Remove
<1>4. Unlinked(L, U, c, n, p, x) /\ out = {x}
  BY DEF Unlinked
<1> HIDE DEF m, U, d, out, x
<1>5. /\ IsRep(U, cap, E) /\ Lng(U) = n /\ Elm(U) = Elm(L)
      /\ Shape(U, cap, d, n - 1, f, m, out)
  BY <1>1, <1>2, <1>4, UnlinkShape DEF d
<1>6. n - 1 \in 0..cap /\ m + 1 = cap - (n - 1)
  BY <1>1 DEF m
<1>7. /\ IsRep(K, cap, E) /\ Lng(K) = n - 1 /\ Fst(K) = Fst(U) /\ Lst(K) = Lst(U)
      /\ Prv(K) = Prv(U) /\ Nxt(K) = Nxt(U) /\ Elm(K) = Elm(U) /\ Fre(K) = Fre(U)
  BY <1>5, <1>6, WithLength
<1>8. M = Free(K, x)
  BY <1>3, <1>5 DEF Lng
<1> HIDE DEF K
<1>9. Shape(K, cap, d, n - 1, f, m, {x})
  BY <1>4, <1>5, <1>7, ShapeFrame
<1>10. /\ IsRep(M, cap, E) /\ Lng(M) = n - 1 /\ Elm(M) = Elm(K)
       /\ Shape(M, cap, d, n - 1, Cons(x, f, m), m + 1, {})
  BY <1>7, <1>8, <1>9, FreeShape
<1>11. Order(M, cap, E, d, n - 1)
  BY <1>6, <1>10 DEF Order
<1> QED BY <1>5, <1>7, <1>10, <1>11 DEF d

(* c without the k places from p on.                                       *)
Cut(c, n, p, k) == [i \in 1..(n - k) |-> IF i < p THEN c[i] ELSE c[i + k]]

(* Cutting nothing, one place more, and one place less at the end.         *)
LEMMA CutNone ==
  ASSUME NEW T, NEW c, NEW n, ListOf(T, c, n), NEW p
  PROVE  Cut(c, n, p, 0) = c
<1> n \in Nat /\ c \in [1..n -> T]
  BY DEF ListOf
<1>1. \A i \in 1..n : (IF i < p THEN c[i] ELSE c[i + 0]) = c[i]
  OBVIOUS
<1>2. c = [i \in 1..n |-> c[i]]
  OBVIOUS
<1>3. n - 0 = n
  OBVIOUS
<1> QED BY <1>1, <1>2, <1>3 DEF Cut

(* k entries at p are cut out; the next one is at p again.                 *)
LEMMA CutMore ==
  ASSUME NEW c, NEW n, NEW p, NEW k, n \in Nat, p \in Nat, k \in Nat, p <= n - k
  PROVE  RemoveAt(Cut(c, n, p, k), n - k, p) = Cut(c, n, p, k + 1)
<1> DEFINE d == Cut(c, n, p, k)
<1>1. \A i \in 1..(n - k) : d[i] = IF i < p THEN c[i] ELSE c[i + k]
  BY DEF Cut
<1> HIDE DEF d
<1>2. ASSUME NEW i \in 1..((n - k) - 1)
      PROVE  (IF i < p THEN d[i] ELSE d[i + 1]) = IF i < p THEN c[i] ELSE c[i + (k + 1)]
  <2>1. i \in 1..(n - k) /\ i + 1 \in 1..(n - k) /\ (i + 1) + k = i + (k + 1)
    OBVIOUS
  <2> QED BY <1>1, <2>1
<1>3. (n - k) - 1 = n - (k + 1)
  OBVIOUS
<1> QED BY <1>2, <1>3 DEF RemoveAt, Cut, d

(* The same at the end: the last of what is left is cut out.               *)
LEMMA CutEnd ==
  ASSUME NEW c, NEW n, NEW k, n \in Nat, k \in Nat, k < n
  PROVE  RemoveAt(Cut(c, n, n - k + 1, k), n - k, n - k) = Cut(c, n, n - (k + 1) + 1, k + 1)
<1> DEFINE p == n - k
           d == Cut(c, n, n - k + 1, k)
<1>1. \A i \in 1..p : d[i] = c[i]
  BY DEF Cut
<1> HIDE DEF d
<1>2. ASSUME NEW i \in 1..(p - 1)
      PROVE  (IF i < p THEN d[i] ELSE d[i + 1]) = IF i < p THEN c[i] ELSE c[i + (k + 1)]
  BY <1>1
<1>3. p - 1 = n - (k + 1) /\ n - (k + 1) + 1 = p
  OBVIOUS
<1> QED BY <1>2, <1>3 DEF RemoveAt, Cut, d

(* M is L without the k nodes from place p on.                             *)
Shrunk(L, M, cap, E, c, n, p, k) ==
  Order(M, cap, E, Cut(c, n, p, k), n - k) /\ Elm(M) = Elm(L)

(* Nothing has been taken out yet.                                         *)
LEMMA ShrunkStart ==
  ASSUME NEW L, NEW cap, NEW E, NEW c, NEW n, Order(L, cap, E, c, n), NEW p
  PROVE  Shrunk(L, L, cap, E, c, n, p, 0)
<1>1. n \in Nat /\ ListOf(Node(cap), c, n) /\ n - 0 = n
  BY OrderFacts DEF ListOf
<1>2. Cut(c, n, p, 0) = c
  BY <1>1, CutNone
<1> QED BY <1>1, <1>2 DEF Shrunk

(* One node more is taken out at place p.                                  *)
LEMMA ShrunkStep ==
  ASSUME NEW L, NEW cap, NEW E, NEW c, NEW n, NEW p, NEW k, NEW M,
         Shrunk(L, M, cap, E, c, n, p, k), n \in Nat, k \in Nat, p \in 1..(n - k), n - k > 1,
         NEW x, x = c[p + k], NEW K, K = Remove(M, x)
  PROVE  Shrunk(L, K, cap, E, c, n, p, k + 1)
<1> DEFINE d == Cut(c, n, p, k)
           r == n - k
<1>1. d[p] = c[p + k] /\ RemoveAt(d, r, p) = Cut(c, n, p, k + 1) /\ r - 1 = n - (k + 1)
  <2>1. d[p] = c[p + k] /\ r - 1 = n - (k + 1)
    BY DEF Cut
  <2>2. RemoveAt(Cut(c, n, p, k), n - k, p) = Cut(c, n, p, k + 1)
    <3>1. p \in Nat /\ p <= n - k
      OBVIOUS
    <3> QED BY <3>1, CutMore
  <2> QED BY <2>1, <2>2
<1>2. Order(M, cap, E, d, r) /\ Elm(M) = Elm(L)
  BY DEF Shrunk
<1> HIDE DEF d, r
<1>3. p \in 1..r /\ r > 1
  BY DEF r
<1>4. Order(K, cap, E, RemoveAt(d, r, p), r - 1) /\ Elm(K) = Elm(M)
  BY <1>1, <1>2, <1>3, OrderRemove
<1> QED BY <1>1, <1>2, <1>4 DEF Shrunk

(* The loop of Delete_First.                                               *)
LEMMA OrderFirstLoop ==
  ASSUME NEW L, NEW cap, NEW E, NEW c, NEW n, Order(L, cap, E, c, n),
         NEW count, count \in Nat, count < n, NEW M, M = Delete_First_Loop(L, count)
  PROVE  Shrunk(L, M, cap, E, c, n, 1, count)
<1>1. PICK a : /\ a[0] = L /\ Delete_First_Loop(L, count) = a[count]
               /\ \A i \in Nat : i < count => a[i + 1] = Remove(a[i], Fst(a[i]))
  BY FirstLoop
<1>2. n \in Nat
  BY OrderFacts
<1> DEFINE P == {i \in Nat : i <= count => Shrunk(L, a[i], cap, E, c, n, 1, i)}
<1>3. 0 \in P
  BY <1>1, ShrunkStart
<1>4. ASSUME NEW i \in Nat, i \in P PROVE i + 1 \in P
  <2>1. SUFFICES ASSUME i + 1 <= count PROVE Shrunk(L, a[i + 1], cap, E, c, n, 1, i + 1)
    OBVIOUS
  <2> DEFINE K == a[i]
             N == a[i + 1]
             r == n - i
             d == Cut(c, n, 1, i)
  <2>2. Shrunk(L, K, cap, E, c, n, 1, i) /\ r > 1 /\ 1 \in 1..r /\ r # 0
    BY <1>2, <1>4, <2>1
  <2>3. N = Remove(K, Fst(K))
    BY <1>1, <2>1
  <2>4. d[1] = c[1 + i]
    BY <2>2 DEF Cut
  <2> HIDE DEF K, N, d
  <2>5. Order(K, cap, E, d, r)
    BY <2>2 DEF Shrunk, d
  <2> HIDE DEF r
  <2>6. Fst(K) = d[1]
    BY <2>2, <2>5, OrderFacts
  <2>7. Fst(K) = c[1 + i] /\ n - i > 1 /\ 1 \in 1..(n - i)
    BY <2>2, <2>4, <2>6 DEF r
  <2>8. Shrunk(L, N, cap, E, c, n, 1, i + 1)
    BY <1>2, <2>2, <2>3, <2>7, ShrunkStep
  <2> QED BY <2>8 DEF N
<1> HIDE DEF P
<1>5. count \in P
  BY <1>3, <1>4, NatInd
<1> QED BY <1>1, <1>5 DEF P

(* The loop of Delete_Last.                                                *)
LEMMA OrderLastLoop ==
  ASSUME NEW L, NEW cap, NEW E, NEW c, NEW n, Order(L, cap, E, c, n),
         NEW count, count \in Nat, count < n, NEW M, M = Delete_Last_Loop(L, count)
  PROVE  Shrunk(L, M, cap, E, c, n, n - count + 1, count)
<1>1. PICK a : /\ a[0] = L /\ Delete_Last_Loop(L, count) = a[count]
               /\ \A i \in Nat : i < count => a[i + 1] = Remove(a[i], Lst(a[i]))
  BY LastLoop
<1>2. n \in Nat
  BY OrderFacts
<1> DEFINE P == {i \in Nat : i <= count => Shrunk(L, a[i], cap, E, c, n, n - i + 1, i)}
<1>3. 0 \in P
  BY <1>1, ShrunkStart
<1>4. ASSUME NEW i \in Nat, i \in P PROVE i + 1 \in P
  <2>1. SUFFICES ASSUME i + 1 <= count
                 PROVE  Shrunk(L, a[i + 1], cap, E, c, n, n - (i + 1) + 1, i + 1)
    OBVIOUS
  <2> DEFINE K == a[i]
             N == a[i + 1]
             r == n - i
             d == Cut(c, n, n - i + 1, i)
  <2>2. Shrunk(L, K, cap, E, c, n, n - i + 1, i) /\ r > 1 /\ r \in 1..r /\ r # 0 /\ i < n
    BY <1>2, <1>4, <2>1
  <2>3. N = Remove(K, Lst(K))
    BY <1>1, <2>1
  <2> HIDE DEF K, N
  <2>4. Order(K, cap, E, d, r) /\ Elm(K) = Elm(L)
    BY <2>2 DEF Shrunk
  <2>5. RemoveAt(d, r, r) = Cut(c, n, n - (i + 1) + 1, i + 1) /\ r - 1 = n - (i + 1)
    <3>1. RemoveAt(Cut(c, n, n - i + 1, i), n - i, n - i) = Cut(c, n, n - (i + 1) + 1, i + 1)
      BY <1>2, <2>2, CutEnd
    <3>2. r - 1 = n - (i + 1)
      BY <1>2
    <3> QED BY <3>1, <3>2
  <2> HIDE DEF r, d
  <2>6. Lst(K) = d[r]
    BY <2>2, <2>4, OrderFacts
  <2>7. Order(N, cap, E, RemoveAt(d, r, r), r - 1) /\ Elm(N) = Elm(K)
    BY <2>2, <2>3, <2>4, <2>6, OrderRemove
  <2>8. Shrunk(L, N, cap, E, c, n, n - (i + 1) + 1, i + 1)
    BY <2>4, <2>5, <2>7 DEF Shrunk
  <2> QED BY <2>8 DEF N
<1> HIDE DEF P
<1>5. count \in P
  BY <1>3, <1>4, NatInd
<1> QED BY <1>1, <1>5 DEF P

(* Clear leaves no node, and writes no element.                            *)
LEMMA OrderClear ==
  ASSUME NEW L, NEW cap, NEW E, NEW c, NEW n, Order(L, cap, E, c, n), NEW M, M = Clear(L),
         NEW p
  PROVE  Shrunk(L, M, cap, E, c, n, p, n)
<1>1. n \in Nat /\ Lng(L) = n /\ Good(L, cap, E)
  BY OrderFacts, OrderGood
<1>2. Good(M, cap, E) /\ Lng(M) = 0
  BY <1>1, GoodClear
<1>3. Elm(M) = Elm(L)
  <2>1. CASE n = 0
    BY <1>1, <2>1 DEF Clear, Lng
  <2>2. CASE n # 0
    <3> DEFINE r == n - 1
               K == Delete_First_Loop(L, r)
    <3>1. M = Free([K EXCEPT !.First = 0, !.Last = 0, !.Length = 0], K.First)
      BY <1>1, <2>2 DEF Clear, Lng
    <3>2. r \in Nat /\ r < Lng(L) /\ Lng(L) - r = 1
      BY <1>1, <2>2
    <3> HIDE DEF r
    <3>3. Good(K, cap, E) /\ Lng(K) = 1 /\ Elm(K) = Elm(L)
      BY <1>1, <3>2, GoodFirstLoop
    <3> HIDE DEF K
    <3> QED BY <3>1, <3>3, GoodClearOne
  <2> QED BY <2>1, <2>2
<1>4. PICK d : Order(M, cap, E, d, 0)
  BY <1>2, OrderGood
<1>5. d \in [1..0 -> Node(cap)]
  BY <1>4, OrderFacts
<1>6. n - n = 0 /\ \A i \in 1..0 : FALSE
  BY <1>1
<1>7. d = Cut(c, n, p, n)
  <2> DEFINE b == Cut(c, n, p, n)
  <2>1. ListOf(Node(cap), d, 0) /\ ListOf(Node(cap), b, 0) /\ \A x \in 1..0 : d[x] = b[x]
    BY <1>5, <1>6 DEF Cut, ListOf
  <2> HIDE DEF b
  <2>2. d = b
    BY <2>1, SameSequence
  <2> QED BY <2>2 DEF b
<1> QED BY <1>3, <1>4, <1>6, <1>7 DEF Shrunk

(* The smaller of a count and what there is.                               *)
Atmost(count, n) == IF count < n THEN count ELSE n

(* Delete_First takes out the first count nodes, or all.                   *)
THEOREM OrderDeleteFirst ==
  ASSUME NEW L, NEW cap, NEW E, NEW c, NEW n, Order(L, cap, E, c, n),
         NEW count, count \in Nat, NEW M, M = Delete_First(L, count)
  PROVE  Shrunk(L, M, cap, E, c, n, 1, Atmost(count, n))
<1>1. n \in Nat /\ Lng(L) = n
  BY OrderFacts
<1>2. CASE count >= n
  <2>1. M = Clear(L) /\ Atmost(count, n) = n
    BY <1>1, <1>2 DEF Delete_First, Lng, Atmost
  <2> QED BY <2>1, OrderClear
<1>3. CASE ~(count >= n)
  <2>1. M = Delete_First_Loop(L, count) /\ Atmost(count, n) = count /\ count < n
    BY <1>1, <1>3 DEF Delete_First, Lng, Atmost
  <2> QED BY <2>1, OrderFirstLoop
<1> QED BY <1>2, <1>3

(* Delete_Last takes out the last count nodes, or all.                     *)
THEOREM OrderDeleteLast ==
  ASSUME NEW L, NEW cap, NEW E, NEW c, NEW n, Order(L, cap, E, c, n),
         NEW count, count \in Nat, NEW M, M = Delete_Last(L, count)
  PROVE  Shrunk(L, M, cap, E, c, n, n - Atmost(count, n) + 1, Atmost(count, n))
<1>1. n \in Nat /\ Lng(L) = n
  BY OrderFacts
<1>2. CASE count >= n
  <2>1. M = Clear(L) /\ Atmost(count, n) = n
    BY <1>1, <1>2 DEF Delete_Last, Lng, Atmost
  <2> QED BY <2>1, OrderClear
<1>3. CASE ~(count >= n)
  <2>1. M = Delete_Last_Loop(L, count) /\ Atmost(count, n) = count /\ count < n
    BY <1>1, <1>3 DEF Delete_Last, Lng, Atmost
  <2> QED BY <2>1, OrderLastLoop
<1> QED BY <1>2, <1>3

(* Delete takes out count nodes from the place of position on, or all      *)
(* there are; its loop finds the next node in the list it has shortened.   *)
THEOREM OrderDelete ==
  ASSUME NEW L, NEW cap, NEW E, NEW c, NEW n, Order(L, cap, E, c, n),
         NEW p, p \in 1..n, NEW count, count \in Nat, NEW M, M = Delete(L, c[p], count)
  PROVE  Shrunk(L, M, cap, E, c, n, p, Atmost(count, n - p + 1))
<1> DEFINE left == n - p + 1
<1>1. /\ n \in Nat /\ Lng(L) = n /\ n # 0 /\ Fst(L) = c[1] /\ 1 \in 1..n
      /\ \A i, j \in 1..n : i # j => c[i] # c[j]
      /\ \A i \in 1..n : c[i] # 0
      /\ \A i \in 1..n : Nxt(L)[c[i]] = IF i = n THEN 0 ELSE c[i + 1]
  BY OrderFacts
<1>2. CASE p = 1
  <2>1. M = Delete_First(L, count) /\ n - p + 1 = n
    BY <1>1, <1>2 DEF Delete, Fst
  <2> QED BY <1>2, <2>1, OrderDeleteFirst
<1>3. CASE p # 1
  <2>1. c[p] # Fst(L)
    BY <1>1, <1>3
  <2>2. PICK a : /\ a[0] = [list |-> L, at |-> c[p]]
                 /\ Delete(L, c[p], count) = a[count].list
                 /\ \A i \in Nat : i < count =>
                      a[i + 1] = IF a[i].at = 0 THEN a[i]
                                 ELSE [list |-> Remove(a[i].list, a[i].at),
                                       at |-> Nxt(a[i].list)[a[i].at]]
    BY <2>1, DeleteLoop
  <2> DEFINE P == {i \in Nat : i <= count =>
                     /\ Shrunk(L, a[i].list, cap, E, c, n, p, Atmost(i, left))
                     /\ a[i].at = IF i < left THEN c[p + i] ELSE 0}
  <2>3. 0 \in P
    <3>1. a[0].list = L /\ a[0].at = c[p] /\ 0 < left /\ Atmost(0, left) = 0 /\ p + 0 = p
      BY <1>1, <2>2 DEF Atmost
    <3>2. Shrunk(L, L, cap, E, c, n, p, 0)
      BY ShrunkStart
    <3> QED BY <3>1, <3>2
  <2>4. ASSUME NEW i \in Nat, i \in P PROVE i + 1 \in P
    <3>1. SUFFICES ASSUME i + 1 <= count
                   PROVE  /\ Shrunk(L, a[i + 1].list, cap, E, c, n, p, Atmost(i + 1, left))
                          /\ a[i + 1].at = IF i + 1 < left THEN c[p + (i + 1)] ELSE 0
      OBVIOUS
    <3>2. /\ Shrunk(L, a[i].list, cap, E, c, n, p, Atmost(i, left))
          /\ a[i].at = IF i < left THEN c[p + i] ELSE 0
          /\ left \in Nat /\ i < count
      BY <1>1, <2>4, <3>1
    <3>3. CASE ~(i < left)
      <4>1. a[i].at = 0 /\ Atmost(i, left) = left /\ Atmost(i + 1, left) = left /\ ~(i + 1 < left)
        BY <3>2, <3>3 DEF Atmost
      <4>2. a[i + 1] = a[i]
        BY <2>2, <3>2, <4>1
      <4> QED BY <3>2, <4>1, <4>2
    <3>4. CASE i < left
      <4> DEFINE K == a[i].list
                 x == c[p + i]
                 N == Remove(K, x)
                 y == Nxt(K)[x]
                 d == Cut(c, n, p, i)
                 r == n - i
      <4>1. p + i \in 1..n /\ a[i].at = x /\ x # 0
        BY <1>1, <3>2, <3>4
      <4>2. a[i + 1] = [list |-> N, at |-> y]
        BY <2>2, <3>2, <4>1
      <4>3. Atmost(i, left) = i /\ Atmost(i + 1, left) = i + 1 /\ p \in 1..r /\ r > 1
        BY <1>1, <1>3, <3>4 DEF Atmost
      <4>4. Shrunk(L, K, cap, E, c, n, p, i)
        BY <3>2, <4>3
      <4>5. d[p] = x /\ (p # r => d[p + 1] = c[p + (i + 1)])
        BY <1>1, <4>3 DEF Cut
      <4>6. p = r <=> ~(i + 1 < left)
        BY <1>1, <4>3
      <4> HIDE DEF K, N, x, y, d, left
      <4>7. Shrunk(L, N, cap, E, c, n, p, i + 1)
        BY <1>1, <4>3, <4>4, ShrunkStep DEF N, x
      <4>8. Order(K, cap, E, d, r)
        BY <4>4 DEF Shrunk, d
      <4> HIDE DEF r
      <4>9. Nxt(K)[d[p]] = IF p = r THEN 0 ELSE d[p + 1]
        BY <4>3, <4>8, OrderFacts
      <4>10. y = IF i + 1 < left THEN c[p + (i + 1)] ELSE 0
        BY <4>5, <4>6, <4>9 DEF y
      <4> QED BY <4>2, <4>3, <4>7, <4>10
    <3> QED BY <3>3, <3>4
  <2> HIDE DEF P
  <2>5. count \in P
    BY <2>3, <2>4, NatInd
  <2> QED BY <2>2, <2>5 DEF P
<1> QED BY <1>2, <1>3

(* d is the order of M, which is L with k nodes more from place p on; they *)
(* hold the elements v, and the old nodes keep theirs.                     *)
Grown(L, M, cap, E, c, n, p, k, d, v) ==
  /\ Order(M, cap, E, d, n + k)
  /\ c = Cut(d, n + k, p, k)
  /\ \A i \in 1..n : Elm(M)[c[i]] = Elm(L)[c[i]]
  /\ \A i \in 1..k : Elm(M)[d[p + i - 1]] = v[i]

(* Nothing has been put in yet.                                            *)
LEMMA GrownStart ==
  ASSUME NEW L, NEW cap, NEW E, NEW c, NEW n, Order(L, cap, E, c, n), NEW p, NEW v
  PROVE  Grown(L, L, cap, E, c, n, p, 0, c, v)
<1>1. n \in Nat /\ ListOf(Node(cap), c, n) /\ n + 0 = n
  BY OrderFacts DEF ListOf
<1>2. Cut(c, n, p, 0) = c
  BY <1>1, CutNone
<1> QED BY <1>1, <1>2 DEF Grown

(* Where the old places are.                                               *)
LEMMA GrownPlaces ==
  ASSUME NEW L, NEW M, NEW cap, NEW E, NEW c, NEW n, NEW p, NEW k, NEW d, NEW v,
         Grown(L, M, cap, E, c, n, p, k, d, v), n \in Nat, k \in Nat, p \in 1..(n + 1)
  PROVE  /\ \A i \in 1..n : i < p => i \in 1..(n + k) /\ c[i] = d[i]
         /\ \A i \in 1..n : ~(i < p) => i + k \in 1..(n + k) /\ c[i] = d[i + k]
         /\ \A i \in 1..n : c[i] \in Values(d, n + k) /\ c[i] \in Node(cap)
<1>1. c = [i \in 1..((n + k) - k) |-> IF i < p THEN d[i] ELSE d[i + k]] /\ (n + k) - k = n
  BY DEF Grown, Cut
<1>2. /\ \A i \in 1..n : i < p => i \in 1..(n + k) /\ c[i] = d[i]
      /\ \A i \in 1..n : ~(i < p) => i + k \in 1..(n + k) /\ c[i] = d[i + k]
  BY <1>1
<1>3. Order(M, cap, E, d, n + k)
  BY DEF Grown
<1>4. \A i \in 1..(n + k) : d[i] \in Values(d, n + k) /\ d[i] \in Node(cap)
  BY <1>3, OrderFacts, ValuesMember
<1> QED BY <1>2, <1>4

(* The insertion point in the list that has grown.                         *)
LEMMA GrownPlace ==
  ASSUME NEW L, NEW M, NEW cap, NEW E, NEW c, NEW n, NEW p, NEW k, NEW d, NEW v,
         Grown(L, M, cap, E, c, n, p, k, d, v), n \in Nat, k \in Nat,
         NEW before, IsPlace(c, n, before, p)
  PROVE  IsPlace(d, n + k, before, p + k)
<1>1. p \in 1..(n + 1)
  BY DEF IsPlace
<1>2. p \in 1..n => p + k \in 1..(n + k) /\ c[p] = d[p + k]
  BY <1>1, GrownPlaces
<1>3. p + k \in 1..((n + k) + 1) /\ (p = n + 1 => p + k = (n + k) + 1)
  BY <1>1
<1> QED BY <1>2, <1>3 DEF IsPlace

(* One node more is put in, after those that have been put in before.      *)
LEMMA GrownStep ==
  ASSUME NEW L, NEW M, NEW cap, NEW E, NEW c, NEW n, NEW p, NEW k, NEW d, NEW v,
         Grown(L, M, cap, E, c, n, p, k, d, v), n \in Nat, k \in Nat, n + k < cap,
         NEW before, IsPlace(c, n, before, p), NEW e, e \in E, e = v[k + 1],
         NEW N, N = InsertOne(M, before, e), NEW a, a = Allocate(M, e).node,
         NEW h, h = InsertAt(d, n + k, p + k, a)
  PROVE  /\ Grown(L, N, cap, E, c, n, p, k + 1, h, v)
         /\ h[p + k] = a /\ a \in Node(cap)
         /\ \A i \in 1..(p + k - 1) : h[i] = d[i]
<1> DEFINE r == n + k
           q == p + k
<1>1. p \in 1..(n + 1) /\ q \in 1..(r + 1) /\ r \in Nat
  BY DEF IsPlace
<1>2. IsPlace(d, r, before, q) /\ Order(M, cap, E, d, r) /\ r < cap /\ h = InsertAt(d, r, q, a)
  <2>1. IsPlace(d, n + k, before, p + k)
    BY GrownPlace
  <2>2. Order(M, cap, E, d, n + k)
    BY DEF Grown
  <2> QED BY <2>1, <2>2
<1>3. /\ \A i \in 1..n : i < p => i \in 1..r /\ c[i] = d[i]
      /\ \A i \in 1..n : ~(i < p) => i + k \in 1..r /\ c[i] = d[i + k]
      /\ \A i \in 1..n : c[i] \in Values(d, r) /\ c[i] \in Node(cap)
  BY <1>1, GrownPlaces
<1>4. r + 1 = n + (k + 1) /\ (r + 1) - (k + 1) = n
  OBVIOUS
<1>5. \A i \in 1..n : i < p => i < q
  BY <1>1
<1>6. \A i \in 1..n : ~(i < p) => (i + k) + 1 > q /\ (i + k) + 1 = i + (k + 1)
  BY <1>1
<1>7. c = [i \in 1..n |-> c[i]]
  BY <1>4 DEF Grown, Cut
<1>8. \A i \in 1..k : p + i - 1 \in 1..r /\ p + i - 1 < q
  BY <1>1
<1>9. p + (k + 1) - 1 = q /\ p + k - 1 = q - 1
  BY <1>1
<1>10. \A i \in 1..k : Elm(M)[d[p + i - 1]] = v[i]
  BY DEF Grown
<1>11. \A i \in 1..n : Elm(M)[c[i]] = Elm(L)[c[i]]
  BY DEF Grown
<1>16. /\ \A i \in 1..(r + 1) : i < q => h[i] = d[i]
       /\ h[q] = a
       /\ \A i \in 1..(r + 1) : i > q => h[i] = d[i - 1]
  <2>1. h = [i \in 1..(r + 1) |-> IF i < q THEN d[i] ELSE IF i = q THEN a ELSE d[i - 1]]
    BY DEF InsertAt
  <2> HIDE DEF r, q
  <2> QED BY <1>1, <2>1
<1> HIDE DEF r, q
<1>12. /\ Order(N, cap, E, h, r + 1)
       /\ a \in Node(cap) /\ a \notin Values(d, r)
       /\ Put(Elm(N), Elm(M), a, e)
  BY <1>2, OrderInsertOne
<1>13. \A i \in 1..r : d[i] \in Values(d, r) /\ d[i] \in Node(cap)
  <2>1. d \in [1..r -> Node(cap)]
    BY <1>2, OrderFacts
  <2> QED BY <2>1, ValuesMember
<1>14. Elm(M) \in [Node(cap) -> E]
  BY <1>2, OrderFacts
<1>15. Elm(N)[a] = e /\ \A y \in Node(cap) : y # a => Elm(N)[y] = Elm(M)[y]
  BY <1>12, <1>14 DEF Put
<1>17. \A i \in 1..r : i < q => h[i] = d[i] /\ Elm(N)[h[i]] = Elm(M)[d[i]]
  BY <1>1, <1>12, <1>13, <1>15, <1>16
<1>18. c = Cut(h, r + 1, p, k + 1)
  <2>1. ASSUME NEW i \in 1..n PROVE c[i] = IF i < p THEN h[i] ELSE h[i + (k + 1)]
    <3>1. CASE i < p
      BY <1>3, <1>5, <1>17, <3>1
    <3>2. CASE ~(i < p)
      <4>1. i + k \in 1..r /\ c[i] = d[i + k] /\ (i + k) + 1 > q /\ (i + k) + 1 = i + (k + 1)
        BY <1>3, <1>6, <3>2
      <4> DEFINE j == i + k
      <4>2. j \in 1..r /\ j + 1 > q /\ j + 1 = i + (k + 1) /\ c[i] = d[j]
        BY <4>1
      <4> HIDE DEF j
      <4>3. j + 1 \in 1..(r + 1) /\ (j + 1) - 1 = j
        BY <1>1, <4>2
      <4>4. h[j + 1] = d[j]
        BY <1>16, <4>2, <4>3
      <4> QED BY <3>2, <4>2, <4>4
    <3> QED BY <3>1, <3>2
  <2> QED BY <1>4, <1>7, <2>1 DEF Cut
<1>19. \A i \in 1..n : Elm(N)[c[i]] = Elm(L)[c[i]]
  BY <1>3, <1>11, <1>12, <1>15
<1>20. ASSUME NEW i \in 1..(k + 1) PROVE Elm(N)[h[p + i - 1]] = v[i]
  <2>1. CASE i = k + 1
    BY <1>9, <1>15, <1>16, <2>1
  <2>2. CASE i # k + 1
    <3>1. i \in 1..k
      BY <2>2
    <3> DEFINE j == p + i - 1
    <3>2. j \in 1..r /\ j < q /\ Elm(M)[d[j]] = v[i]
      BY <1>8, <1>10, <3>1
    <3> HIDE DEF j
    <3>3. Elm(N)[h[j]] = v[i]
      BY <1>17, <3>2
    <3> QED BY <3>3 DEF j
  <2> QED BY <2>1, <2>2
<1>21. Grown(L, N, cap, E, c, n, p, k + 1, h, v)
  BY <1>4, <1>12, <1>18, <1>19, <1>20 DEF Grown
<1>22. \A i \in 1..(q - 1) : i \in 1..r /\ i < q
  BY <1>1
<1> QED BY <1>9, <1>12, <1>16, <1>17, <1>21, <1>22 DEF q

(* Insert puts count nodes at the place of before, with equal elements.    *)
THEOREM OrderInsert ==
  ASSUME NEW L, NEW cap, NEW E, NEW c, NEW n, Order(L, cap, E, c, n),
         NEW before, NEW p, IsPlace(c, n, before, p), NEW e, e \in E,
         NEW count, count \in Nat, n + count <= cap, NEW M, M = Insert(L, before, e, count),
         NEW v, v = [i \in Nat |-> e]
  PROVE  \E d : /\ Grown(L, M, cap, E, c, n, p, count, d, v)
                /\ count # 0 => d[p] = Allocate(L, e).node
<1>1. PICK a : /\ a[0] = L /\ Insert(L, before, e, count) = a[count]
               /\ \A i \in Nat : i < count => a[i + 1] = InsertOne(a[i], before, e)
  BY InsertLoop
<1>2. n \in Nat /\ cap \in Nat
  BY OrderFacts
<1>3. p \in Nat /\ p > 0
  BY <1>2 DEF IsPlace
<1> DEFINE P == {i \in Nat : i <= count =>
                   \E d : /\ Grown(L, a[i], cap, E, c, n, p, i, d, v)
                          /\ i # 0 => d[p] = Allocate(L, e).node}
<1>4. 0 \in P
  BY <1>1, GrownStart
<1>5. ASSUME NEW i \in Nat, i \in P PROVE i + 1 \in P
  <2>1. SUFFICES ASSUME i + 1 <= count
                 PROVE  \E d : /\ Grown(L, a[i + 1], cap, E, c, n, p, i + 1, d, v)
                               /\ i + 1 # 0 => d[p] = Allocate(L, e).node
    OBVIOUS
  <2> DEFINE K == a[i]
             N == a[i + 1]
             b == Allocate(K, e).node
  <2>2. PICK d : /\ Grown(L, K, cap, E, c, n, p, i, d, v)
                 /\ i # 0 => d[p] = Allocate(L, e).node
    BY <1>5, <2>1
  <2>3. N = InsertOne(K, before, e)
    BY <1>1, <2>1
  <2>4. n + i < cap /\ e = v[i + 1]
    BY <1>2, <2>1
  <2>5. i = 0 => K = L
    BY <1>1
  <2> DEFINE h == InsertAt(d, n + i, p + i, b)
  <2> HIDE DEF K, N, b, h
  <2>6. /\ Grown(L, N, cap, E, c, n, p, i + 1, h, v)
        /\ h[p + i] = b
        /\ \A j \in 1..(p + i - 1) : h[j] = d[j]
    BY <1>2, <2>2, <2>3, <2>4, GrownStep DEF b, h
  <2>7. h[p] = Allocate(L, e).node
    <3>1. CASE i = 0
      <4>1. p + i = p
        BY <1>3, <3>1
      <4> QED BY <2>5, <2>6, <3>1, <4>1 DEF b
    <3>2. CASE i # 0
      <4>1. p \in 1..(p + i - 1)
        BY <1>3, <3>2
      <4> QED BY <2>2, <2>6, <3>2, <4>1
    <3> QED BY <3>1, <3>2
  <2> QED BY <2>6, <2>7 DEF N
<1> HIDE DEF P
<1>6. count \in P
  BY <1>4, <1>5, NatInd
<1> QED BY <1>1, <1>6 DEF P

(* Writing elements leaves the order alone.                                *)
LEMMA OrderElements ==
  ASSUME NEW L, NEW cap, NEW E, NEW c, NEW n, Order(L, cap, E, c, n), NEW M, DOMAIN M = Fields,
         Cap(M) = Cap(L), Lng(M) = Lng(L), Fst(M) = Fst(L), Lst(M) = Lst(L),
         Prv(M) = Prv(L), Nxt(M) = Nxt(L), Fre(M) = Fre(L), Elm(M) \in [Node(cap) -> E]
  PROVE  Order(M, cap, E, c, n)
<1>1. IsRep(M, cap, E)
  BY DEF Order, IsRep
<1>2. PICK f : Shape(L, cap, c, n, f, cap - n, {})
  BY DEF Order
<1>3. Shape(M, cap, c, n, f, cap - n, {})
  BY <1>2, ShapeFrame
<1> QED BY <1>1, <1>3 DEF Order

(* Replace_Element writes the element of its cursor.                       *)
THEOREM OrderReplace ==
  ASSUME NEW L, NEW cap, NEW E, NEW c, NEW n, Order(L, cap, E, c, n), NEW x, NEW e, e \in E,
         NEW M, M = Replace_Element(L, x, e)
  PROVE  Order(M, cap, E, c, n) /\ Put(Elm(M), Elm(L), x, e)
<1>1. DOMAIN L = Fields /\ Elm(L) \in [Node(cap) -> E]
  BY DEF Order, IsRep
<1>2. M = [L EXCEPT !.Element[x] = e]
  BY DEF Replace_Element
<1>3. /\ DOMAIN M = Fields
      /\ Cap(M) = Cap(L) /\ Lng(M) = Lng(L) /\ Fst(M) = Fst(L) /\ Lst(M) = Lst(L)
      /\ Prv(M) = Prv(L) /\ Nxt(M) = Nxt(L) /\ Fre(M) = Fre(L)
      /\ Elm(M) = [Elm(L) EXCEPT ![x] = e]
  BY <1>1, <1>2 DEF Fields, Cap, Fre, Lng, Fst, Lst, Prv, Nxt, Elm
<1>4. Elm(M) \in [Node(cap) -> E]
  BY <1>1, <1>3
<1>5. Order(M, cap, E, c, n)
  BY <1>3, <1>4, OrderElements
<1> QED BY <1>3, <1>5 DEF Put

(* Swap exchanges two elements.                                            *)
THEOREM OrderSwap ==
  ASSUME NEW L, NEW cap, NEW E, NEW c, NEW n, Order(L, cap, E, c, n),
         NEW i, i \in Node(cap), NEW j, j \in Node(cap), NEW M, M = Swap(L, i, j)
  PROVE  Order(M, cap, E, c, n) /\ Put2(Elm(M), Elm(L), i, Elm(L)[j], j, Elm(L)[i])
<1>1. DOMAIN L = Fields /\ Elm(L) \in [Node(cap) -> E]
  BY DEF Order, IsRep
<1>2. M = [L EXCEPT !.Element[i] = L.Element[j], !.Element[j] = L.Element[i]]
  BY DEF Swap
<1>3. /\ DOMAIN M = Fields
      /\ Cap(M) = Cap(L) /\ Lng(M) = Lng(L) /\ Fst(M) = Fst(L) /\ Lst(M) = Lst(L)
      /\ Prv(M) = Prv(L) /\ Nxt(M) = Nxt(L) /\ Fre(M) = Fre(L)
      /\ Elm(M) = [[Elm(L) EXCEPT ![i] = Elm(L)[j]] EXCEPT ![j] = Elm(L)[i]]
  BY <1>1, <1>2 DEF Fields, Cap, Fre, Lng, Fst, Lst, Prv, Nxt, Elm
<1>4. Elm(M) \in [Node(cap) -> E]
  BY <1>1, <1>3
<1>5. Order(M, cap, E, c, n)
  BY <1>3, <1>4, OrderElements
<1> QED BY <1>3, <1>5 DEF Put2

(* Reverse_Elements reverses the order.                                    *)
THEOREM OrderReverse ==
  ASSUME NEW L, NEW cap, NEW E, NEW c, NEW n, Order(L, cap, E, c, n),
         NEW M, M = Reverse_Elements(L)
  PROVE  Order(M, cap, E, Reversal(c, n), n) /\ Elm(M) = Elm(L)
<1>1. IsRep(L, cap, E) /\ Lng(L) = n
  BY DEF Order
<1>2. PICK f : Shape(L, cap, c, n, f, cap - n, {})
  BY DEF Order
<1>3. /\ IsRep(M, cap, E) /\ Lng(M) = n /\ Elm(M) = Elm(L)
      /\ Shape(M, cap, Reversal(c, n), n, f, cap - n, {})
  BY <1>1, <1>2, ReverseShape
<1> QED BY <1>3 DEF Order

(* c with the node at place p put at place q of the others.                *)
Relocated(c, n, p, q) == InsertAt(RemoveAt(c, n, p), n - 1, q, c[p])

(* Where it puts each of them.                                             *)
LEMMA RelocatedPlaces ==
  ASSUME NEW c, NEW n, NEW p, NEW q, n \in Nat, p \in 1..n, q \in 1..n
  PROVE  \A k \in 1..n : Relocated(c, n, p, q)[k] =
           IF k = q THEN c[p]
           ELSE IF k < q THEN (IF k < p THEN c[k] ELSE c[k + 1])
           ELSE (IF k - 1 < p THEN c[k - 1] ELSE c[k])
<1> DEFINE d == RemoveAt(c, n, p)
           r == n - 1
<1>1. r + 1 = n /\ \A k \in 1..r : d[k] = IF k < p THEN c[k] ELSE c[k + 1]
  BY DEF RemoveAt
<1>2. \A k \in 1..n : /\ k < q => k \in 1..r
                      /\ k > q => k - 1 \in 1..r /\ (k - 1) + 1 = k
  OBVIOUS
<1> HIDE DEF d, r
<1>3. \A k \in 1..(r + 1) : InsertAt(d, r, q, c[p])[k] =
        IF k < q THEN d[k] ELSE IF k = q THEN c[p] ELSE d[k - 1]
  BY DEF InsertAt
<1>4. \A k \in 1..n : Relocated(c, n, p, q)[k] =
        IF k < q THEN d[k] ELSE IF k = q THEN c[p] ELSE d[k - 1]
  BY <1>1, <1>3 DEF Relocated, d, r
<1> QED BY <1>1, <1>2, <1>4

(* A node put where it was.                                                *)
LEMMA RelocatedSame ==
  ASSUME NEW T, NEW c, NEW n, ListOf(T, c, n), NEW p, p \in 1..n
  PROVE  Relocated(c, n, p, p) = c
<1> DEFINE h == Relocated(c, n, p, p)
<1>1. n \in Nat /\ c \in [1..n -> T]
  BY DEF ListOf
<1>2. \A k \in 1..n : h[k] = IF k = p THEN c[p]
           ELSE IF k < p THEN (IF k < p THEN c[k] ELSE c[k + 1])
           ELSE (IF k - 1 < p THEN c[k - 1] ELSE c[k])
  BY <1>1, RelocatedPlaces
<1>3. DOMAIN h = 1..n /\ h = [k \in 1..n |-> h[k]]
  BY <1>1 DEF Relocated, InsertAt
<1> HIDE DEF h
<1>4. \A k \in 1..n : h[k] = c[k]
  BY <1>1, <1>2
<1>5. c = [k \in 1..n |-> c[k]]
  BY <1>1
<1> QED BY <1>3, <1>4, <1>5 DEF h

(* x is taken out of place p of the chain and linked again before another. *)
Moving(L, M, c, n, p, x, d, r, before, h, q) ==
  /\ n \in Nat /\ n > 1 /\ p \in 1..n /\ x = c[p]
  /\ r \in Nat /\ n = r + 1 /\ d = RemoveAt(c, n, p) /\ IsPlace(d, r, before, q)
  /\ M = Link(Unlink(L, x), before, x) /\ h = InsertAt(d, r, q, x)

(* A node that is taken out of the chain and linked again at place q.      *)
LEMMA MovedShape ==
  ASSUME NEW L, NEW cap, NEW E, IsRep(L, cap, E), NEW c, NEW n, NEW f, NEW m,
         Shape(L, cap, c, n, f, m, {}), Lng(L) = n,
         NEW p, NEW x, NEW d, NEW r, NEW before, NEW h, NEW q, NEW M,
         Moving(L, M, c, n, p, x, d, r, before, h, q)
  PROVE  /\ IsRep(M, cap, E) /\ Lng(M) = n /\ Elm(M) = Elm(L)
         /\ Shape(M, cap, h, n, f, m, {})
<1> DEFINE U == Unlink(L, x)
           out == {x}
<1>1. Unlinked(L, U, c, n, p, x) /\ out = {x}
  BY DEF Moving, Unlinked
<1>2. M = Link(U, before, x) /\ IsPlace(d, r, before, q)
  BY DEF Moving
<1>6. n - 1 = r /\ d = RemoveAt(c, n, p) /\ n > 1
  BY DEF Moving
<1>7. n = r + 1 /\ h = InsertAt(d, r, q, x)
  BY DEF Moving
<1> HIDE DEF U, out
<1>3. /\ IsRep(U, cap, E) /\ Lng(U) = n /\ Elm(U) = Elm(L)
      /\ Shape(U, cap, d, r, f, m, out)
  BY <1>1, <1>6, UnlinkShape
<1>8. r # 0 /\ n # 0
  BY DEF Moving
<1>4. Shape(U, cap, d, r, f, m, {x}) /\ (Lng(U) = 0 <=> r = 0)
  BY <1>1, <1>3, <1>8
<1>5. /\ IsRep(M, cap, E) /\ Lng(M) = Lng(U) /\ Elm(M) = Elm(U)
      /\ Shape(M, cap, InsertAt(d, r, q, x), r + 1, f, m, {})
  BY <1>2, <1>3, <1>4, LinkShape
<1> QED BY <1>3, <1>5, <1>7

(* Splice within a list puts the node at the place of before among the     *)
(* others.                                                                 *)
THEOREM OrderSpliceWithin ==
  ASSUME NEW L, NEW cap, NEW E, NEW c, NEW n, Order(L, cap, E, c, n), NEW p, p \in 1..n,
         NEW before, before # c[p], NEW q, IsPlace(RemoveAt(c, n, p), n - 1, before, q),
         NEW M, M = SpliceWithin(L, before, c[p])
  PROVE  Order(M, cap, E, Relocated(c, n, p, q), n) /\ Elm(M) = Elm(L)
<1> DEFINE m == cap - n
           x == c[p]
           d == RemoveAt(c, n, p)
           r == n - 1
           U == Unlink(L, x)
           out == {x}
<1>1. /\ n \in Nat /\ cap \in Nat /\ m \in Nat /\ c \in [1..n -> Node(cap)] /\ ListOf(Node(cap), c, n)
      /\ \A i, j \in 1..n : i # j => c[i] # c[j]
      /\ \A i \in 1..n : c[i] # 0
      /\ Nxt(L)[c[p]] = IF p = n THEN 0 ELSE c[p + 1]
  BY OrderFacts DEF ListOf
<1>2. /\ r \in Nat /\ r + 1 = n /\ q \in 1..n
      /\ \A k \in 1..r : d[k] = IF k < p THEN c[k] ELSE c[k + 1]
      /\ (before = 0 /\ q = n) \/ (q \in 1..r /\ before = d[q])
  BY <1>1 DEF IsPlace, RemoveAt
<1>3. CASE Nxt(L)[x] = before
  <2>1. M = L
    BY <1>3 DEF SpliceWithin, Nxt
  <2>2. q = p
    <3>1. CASE p = n
      <4>1. before = 0
        BY <1>1, <1>3, <3>1
      <4>2. \A k \in 1..r : d[k] # 0
        BY <1>1, <1>2
      <4> QED BY <1>2, <3>1, <4>1, <4>2
    <3>2. CASE p # n
      <4>1. before = c[p + 1] /\ p + 1 \in 1..n /\ before # 0 /\ p \in 1..r
        BY <1>1, <1>3, <3>2
      <4>2. q \in 1..r /\ before = IF q < p THEN c[q] ELSE c[q + 1]
        BY <1>2, <4>1
      <4>3. \A i \in 1..n : c[i] = c[p + 1] => i = p + 1
        BY <1>1, <4>1
      <4>4. CASE q < p
        <5>1. q \in 1..n /\ c[q] = c[p + 1] /\ q # p + 1
          BY <1>1, <1>2, <4>1, <4>2, <4>4
        <5> QED BY <4>3, <5>1
      <4>5. CASE ~(q < p)
        <5>1. q + 1 \in 1..n /\ c[q + 1] = c[p + 1]
          BY <1>1, <1>2, <4>1, <4>2, <4>5
        <5>2. q + 1 = p + 1
          BY <4>3, <5>1
        <5> QED BY <1>2, <5>2
      <4> QED BY <4>4, <4>5
    <3> QED BY <3>1, <3>2
  <2>3. Relocated(c, n, p, q) = c
    BY <1>1, <2>2, RelocatedSame
  <2> QED BY <2>1, <2>3
<1>4. CASE Nxt(L)[x] # before
  <2>1. M = Link(U, before, x)
    BY <1>4 DEF SpliceWithin, Nxt
  <2>2. n > 1
    <3> SUFFICES ASSUME n = 1 PROVE FALSE
      BY <1>1
    <3> QED BY <1>1, <1>2, <1>4
  <2>3. PICK f : Shape(L, cap, c, n, f, m, {})
    BY DEF Order
  <2>4. IsRep(L, cap, E) /\ Lng(L) = n
    BY DEF Order
  <2>5. IsPlace(d, r, before, q)
    OBVIOUS
  <2> DEFINE h == InsertAt(d, r, q, x)
  <2>6. h = Relocated(c, n, p, q)
    BY DEF Relocated
  <2>7. Moving(L, M, c, n, p, x, d, r, before, h, q)
    BY <1>1, <1>2, <2>1, <2>2, <2>5 DEF Moving
  <2>8. m = cap - n
    OBVIOUS
  <2> HIDE DEF x, d, h, r, m, U, out
  <2>9. /\ IsRep(M, cap, E) /\ Lng(M) = n /\ Elm(M) = Elm(L)
        /\ Shape(M, cap, h, n, f, m, {})
    BY <2>3, <2>4, <2>7, MovedShape
  <2> QED BY <2>6, <2>8, <2>9 DEF Order
<1> QED BY <1>3, <1>4

(* The place among the others of the node at place i, or of the end.       *)
LEMMA PlaceAmong ==
  ASSUME NEW c, NEW n, n \in Nat, NEW p, p \in 1..n, NEW i, i \in 1..(n + 1), i # p,
         NEW before, before = IF i = n + 1 THEN 0 ELSE c[i],
         NEW q, q = IF i < p THEN i ELSE i - 1
  PROVE  IsPlace(RemoveAt(c, n, p), n - 1, before, q)
<1>1. \A k \in 1..(n - 1) : RemoveAt(c, n, p)[k] = IF k < p THEN c[k] ELSE c[k + 1]
  BY DEF RemoveAt
<1>2. q \in 1..((n - 1) + 1)
  OBVIOUS
<1>3. CASE i = n + 1
  <2>1. before = 0 /\ q = (n - 1) + 1
    BY <1>3
  <2> QED BY <1>2, <2>1 DEF IsPlace
<1>4. CASE i # n + 1
  <2>1. q \in 1..(n - 1) /\ before = c[i]
    BY <1>4
  <2>2. CASE i < p
    <3>1. q = i /\ RemoveAt(c, n, p)[q] = c[i]
      BY <1>1, <2>1, <2>2
    <3> QED BY <1>2, <2>1, <3>1 DEF IsPlace
  <2>3. CASE ~(i < p)
    <3>1. ~(q < p) /\ q + 1 = i
      BY <2>3
    <3>2. RemoveAt(c, n, p)[q] = c[i]
      BY <1>1, <2>1, <3>1
    <3> QED BY <1>2, <2>1, <3>2 DEF IsPlace
  <2> QED BY <2>2, <2>3
<1> QED BY <1>3, <1>4

(* Two sequences of the same length with the same values.                  *)
LEMMA SamePlaces ==
  ASSUME NEW a, NEW b, NEW n, a = [k \in 1..n |-> a[k]], b = [k \in 1..n |-> b[k]],
         \A k \in 1..n : a[k] = b[k]
  PROVE  a = b
BY Zenon

(* Two neighbours exchanged by one relocation.                             *)
LEMMA RelocatedNext ==
  ASSUME NEW c, NEW n, n \in Nat, NEW p, p \in 1..n, p + 1 \in 1..n
  PROVE  /\ Relocated(c, n, p + 1, p) = SwapAt(c, n, p, p + 1)
         /\ SwapAt(c, n, p, p + 1) = SwapAt(c, n, p + 1, p)
<1> DEFINE a == Relocated(c, n, p + 1, p)
           b == SwapAt(c, n, p, p + 1)
           d == SwapAt(c, n, p + 1, p)
<1>1. \A k \in 1..n : a[k] =
           IF k = p THEN c[p + 1]
           ELSE IF k < p THEN (IF k < p + 1 THEN c[k] ELSE c[k + 1])
           ELSE (IF k - 1 < p + 1 THEN c[k - 1] ELSE c[k])
  BY RelocatedPlaces
<1>2. \A k \in 1..n : /\ b[k] = IF k = p THEN c[p + 1] ELSE IF k = p + 1 THEN c[p] ELSE c[k]
                      /\ d[k] = IF k = p + 1 THEN c[p] ELSE IF k = p THEN c[p + 1] ELSE c[k]
  BY DEF SwapAt
<1>3. a = [k \in 1..n |-> a[k]] /\ b = [k \in 1..n |-> b[k]] /\ d = [k \in 1..n |-> d[k]]
  <2>1. (n - 1) + 1 = n
    OBVIOUS
  <2> QED BY <2>1 DEF Relocated, InsertAt, SwapAt
<1> HIDE DEF a, b, d
<1>4. ASSUME NEW k \in 1..n PROVE a[k] = b[k] /\ d[k] = b[k]
  <2>1. CASE k < p
    BY <1>1, <1>2, <2>1
  <2>2. CASE k = p
    BY <1>1, <1>2, <2>2
  <2>3. CASE k = p + 1
    <3>1. k - 1 = p /\ k # p /\ ~(k < p) /\ k - 1 < p + 1
      BY <2>3
    <3> QED BY <1>1, <1>2, <2>3, <3>1
  <2>4. CASE k > p + 1
    <3>1. k # p /\ k # p + 1 /\ ~(k < p) /\ ~(k - 1 < p + 1)
      BY <2>4
    <3> QED BY <1>1, <1>2, <3>1
  <2> QED BY <2>1, <2>2, <2>3, <2>4
<1>5. a = b /\ d = b
  BY <1>3, <1>4, SamePlaces
<1> QED BY <1>5 DEF a, b, d

(* r is the place after p, and before q.                                   *)
Between(p, r, q) == r = p + 1 /\ r < q

(* Two nodes further apart, by two relocations: the second of them is      *)
(* first put after the first one.                                          *)
LEMMA RelocatedForth ==
  ASSUME NEW c, NEW n, n \in Nat, NEW p, p \in 1..n, NEW q, q \in 1..n, p + 1 < q,
         NEW d, d = Relocated(c, n, q, p + 1)
  PROVE  /\ d[p] = c[p] /\ (q # n => d[q + 1] = c[q + 1])
         /\ Relocated(d, n, p, q) = SwapAt(c, n, p, q)
<1> DEFINE a == Relocated(d, n, p, q)
           b == SwapAt(c, n, p, q)
<1>0. p + 1 \in 1..n
  OBVIOUS
<1>1. \A k \in 1..n : d[k] =
           IF k = p + 1 THEN c[q]
           ELSE IF k < p + 1 THEN (IF k < q THEN c[k] ELSE c[k + 1])
           ELSE (IF k - 1 < q THEN c[k - 1] ELSE c[k])
  BY <1>0, RelocatedPlaces
<1>2. \A k \in 1..n : a[k] =
           IF k = q THEN d[p]
           ELSE IF k < q THEN (IF k < p THEN d[k] ELSE d[k + 1])
           ELSE (IF k - 1 < p THEN d[k - 1] ELSE d[k])
  BY RelocatedPlaces
<1>3. \A k \in 1..n : b[k] = IF k = p THEN c[q] ELSE IF k = q THEN c[p] ELSE c[k]
  BY DEF SwapAt
<1>4. a = [k \in 1..n |-> a[k]] /\ b = [k \in 1..n |-> b[k]]
  <2>1. (n - 1) + 1 = n
    OBVIOUS
  <2> QED BY <2>1 DEF Relocated, InsertAt, SwapAt
<1> HIDE DEF a, b
<1>5. \A k \in 1..n : k < p + 1 => d[k] = c[k]
  <2> TAKE k \in 1..n
  <2>1. k < p + 1 => k # p + 1 /\ k < q
    OBVIOUS
  <2> QED BY <1>1, <2>1
<1>6. \A k \in 1..n : k > q => d[k] = c[k]
  <2> TAKE k \in 1..n
  <2>1. k > q => k # p + 1 /\ ~(k < p + 1) /\ ~(k - 1 < q)
    OBVIOUS
  <2> QED BY <1>1, <2>1
<1>7. \A k \in 1..n : k > p + 1 /\ k < q + 1 => d[k] = c[k - 1]
  <2> TAKE k \in 1..n
  <2>1. k > p + 1 /\ k < q + 1 => k # p + 1 /\ ~(k < p + 1) /\ k - 1 < q
    OBVIOUS
  <2> QED BY <1>1, <2>1
<1>8. d[p + 1] = c[q]
  BY <1>0, <1>1
<1>9. d[p] = c[p] /\ (q # n => d[q + 1] = c[q + 1])
  <2>1. p < p + 1 /\ (q # n => q + 1 \in 1..n /\ q + 1 > q)
    OBVIOUS
  <2> QED BY <1>5, <1>6, <2>1
<1>10. ASSUME NEW k \in 1..n PROVE a[k] = b[k]
  <2>1. CASE k < p
    <3>1. k # q /\ k < q /\ k < p + 1 /\ k # p
      BY <2>1
    <3> QED BY <1>2, <1>3, <1>5, <2>1, <3>1
  <2>2. CASE k = p
    <3>1. k # q /\ k < q /\ ~(k < p) /\ k + 1 = p + 1
      BY <2>2
    <3> QED BY <1>2, <1>3, <1>8, <2>2, <3>1
  <2>3. CASE p < k /\ k < q
    <3>1. k # q /\ ~(k < p) /\ k # p /\ k + 1 \in 1..n /\ k + 1 > p + 1 /\ k + 1 < q + 1 /\ (k + 1) - 1 = k
      BY <2>3
    <3>2. d[k + 1] = c[k]
      BY <1>7, <3>1
    <3> QED BY <1>2, <1>3, <2>3, <3>1, <3>2
  <2>4. CASE k = q
    <3>1. k # p
      BY <2>4
    <3> QED BY <1>2, <1>3, <1>9, <2>4, <3>1
  <2>5. CASE k > q
    <3>1. k # q /\ ~(k < q) /\ k # p /\ ~(k - 1 < p)
      BY <2>5
    <3> QED BY <1>2, <1>3, <1>6, <2>5, <3>1
  <2> QED BY <2>1, <2>2, <2>3, <2>4, <2>5
<1>11. a = b
  BY <1>4, <1>10, SamePlaces
<1> QED BY <1>9, <1>11 DEF a, b

(* The same, with a name for the place after p.                            *)
LEMMA RelocatedBeyond ==
  ASSUME NEW c, NEW n, n \in Nat, NEW p, p \in 1..n, NEW q, q \in 1..n, NEW r, Between(p, r, q)
  PROVE  /\ Relocated(c, n, q, r)[p] = c[p]
         /\ q # n => Relocated(c, n, q, r)[q + 1] = c[q + 1]
         /\ Relocated(Relocated(c, n, q, r), n, p, q) = SwapAt(c, n, p, q)
<1>1. r = p + 1 /\ p + 1 < q
  BY DEF Between
<1>2. /\ Relocated(c, n, q, p + 1)[p] = c[p]
      /\ q # n => Relocated(c, n, q, p + 1)[q + 1] = c[q + 1]
      /\ Relocated(Relocated(c, n, q, p + 1), n, p, q) = SwapAt(c, n, p, q)
  BY <1>1, RelocatedForth
<1> QED BY <1>1, <1>2

(* The other way round: the first of them is first put at the place of the *)
(* second.                                                                 *)
LEMMA RelocatedBack ==
  ASSUME NEW c, NEW n, n \in Nat, NEW p, p \in 1..n, NEW q, q \in 1..n, q + 1 < p,
         NEW d, d = Relocated(c, n, q, p)
  PROVE  /\ d[p - 1] = c[p] /\ d[q] = c[q + 1]
         /\ Relocated(d, n, p - 1, q) = SwapAt(c, n, p, q)
<1> DEFINE a == Relocated(d, n, p - 1, q)
           b == SwapAt(c, n, p, q)
<1>0. p - 1 \in 1..n
  OBVIOUS
<1>1. \A k \in 1..n : d[k] =
           IF k = p THEN c[q]
           ELSE IF k < p THEN (IF k < q THEN c[k] ELSE c[k + 1])
           ELSE (IF k - 1 < q THEN c[k - 1] ELSE c[k])
  BY RelocatedPlaces
<1>2. \A k \in 1..n : a[k] =
           IF k = q THEN d[p - 1]
           ELSE IF k < q THEN (IF k < p - 1 THEN d[k] ELSE d[k + 1])
           ELSE (IF k - 1 < p - 1 THEN d[k - 1] ELSE d[k])
  BY <1>0, RelocatedPlaces
<1>3. \A k \in 1..n : b[k] = IF k = p THEN c[q] ELSE IF k = q THEN c[p] ELSE c[k]
  BY DEF SwapAt
<1>4. a = [k \in 1..n |-> a[k]] /\ b = [k \in 1..n |-> b[k]]
  <2>1. (n - 1) + 1 = n
    OBVIOUS
  <2> QED BY <2>1 DEF Relocated, InsertAt, SwapAt
<1> HIDE DEF a, b
<1>5. \A k \in 1..n : k < q => d[k] = c[k]
  <2> TAKE k \in 1..n
  <2>1. k < q => k # p /\ k < p
    OBVIOUS
  <2> QED BY <1>1, <2>1
<1>6. \A k \in 1..n : k > p => d[k] = c[k]
  <2> TAKE k \in 1..n
  <2>1. k > p => k # p /\ ~(k < p) /\ ~(k - 1 < q)
    OBVIOUS
  <2> QED BY <1>1, <2>1
<1>7. \A k \in 1..n : ~(k < q) /\ k < p => d[k] = c[k + 1]
  <2> TAKE k \in 1..n
  <2>1. k < p => k # p
    OBVIOUS
  <2> QED BY <1>1, <2>1
<1>8. d[p] = c[q]
  BY <1>1
<1>9. d[p - 1] = c[p] /\ d[q] = c[q + 1]
  <2>1. ~(p - 1 < q) /\ p - 1 < p /\ (p - 1) + 1 = p /\ ~(q < q) /\ q < p
    OBVIOUS
  <2> QED BY <1>0, <1>7, <2>1
<1>10. ASSUME NEW k \in 1..n PROVE a[k] = b[k]
  <2>1. CASE k < q
    <3>1. k # q /\ k < p - 1 /\ k # p
      BY <2>1
    <3> QED BY <1>2, <1>3, <1>5, <2>1, <3>1
  <2>2. CASE k = q
    <3>1. k # p
      BY <2>2
    <3> QED BY <1>2, <1>3, <1>9, <2>2, <3>1
  <2>3. CASE q < k /\ k < p
    <3>1. k # q /\ ~(k < q) /\ k # p /\ k - 1 < p - 1 /\ k - 1 \in 1..n /\ ~(k - 1 < q) /\ k - 1 < p /\ (k - 1) + 1 = k
      BY <2>3
    <3>2. d[k - 1] = c[k]
      BY <1>7, <3>1
    <3> QED BY <1>2, <1>3, <3>1, <3>2
  <2>4. CASE k = p
    <3>1. k # q /\ ~(k < q) /\ ~(k - 1 < p - 1)
      BY <2>4
    <3> QED BY <1>2, <1>3, <1>8, <2>4, <3>1
  <2>5. CASE k > p
    <3>1. k # q /\ ~(k < q) /\ k # p /\ ~(k - 1 < p - 1)
      BY <2>5
    <3> QED BY <1>2, <1>3, <1>6, <2>5, <3>1
  <2> QED BY <2>1, <2>2, <2>3, <2>4, <2>5
<1>11. a = b
  BY <1>4, <1>10, SamePlaces
<1> QED BY <1>9, <1>11 DEF a, b

(* A node moved before the one at place i, or to the end.                  *)
LEMMA OrderMoveBefore ==
  ASSUME NEW L, NEW cap, NEW E, NEW c, NEW n, Order(L, cap, E, c, n), NEW p, p \in 1..n,
         NEW i, i \in 1..(n + 1), i # p, NEW before, before = IF i = n + 1 THEN 0 ELSE c[i],
         NEW q, q = IF i < p THEN i ELSE i - 1,
         NEW x, x = c[p], NEW M, M = SpliceWithin(L, before, x)
  PROVE  Order(M, cap, E, Relocated(c, n, p, q), n) /\ Elm(M) = Elm(L)
<1>1. /\ n \in Nat /\ \A k, j \in 1..n : k # j => c[k] # c[j]
      /\ \A k \in 1..n : c[k] # 0
  BY OrderFacts
<1>2. before # c[p]
  <2>1. i # n + 1 => i \in 1..n
    BY <1>1
  <2> QED BY <1>1, <2>1
<1>3. IsPlace(RemoveAt(c, n, p), n - 1, before, q)
  BY <1>1, PlaceAmong
<1> QED BY <1>2, <1>3, OrderSpliceWithin

(* Swap_Links exchanges two nodes.                                         *)
THEOREM OrderSwapLinks ==
  ASSUME NEW L, NEW cap, NEW E, NEW c, NEW n, Order(L, cap, E, c, n),
         NEW p, p \in 1..n, NEW q, q \in 1..n, NEW M, M = Swap_Links(L, c[p], c[q])
  PROVE  Order(M, cap, E, SwapAt(c, n, p, q), n) /\ Elm(M) = Elm(L)
<1>1. /\ n \in Nat /\ ListOf(Node(cap), c, n)
      /\ \A k, j \in 1..n : k # j => c[k] # c[j]
      /\ \A k \in 1..n : c[k] # 0
      /\ \A k \in 1..n : Nxt(L)[c[k]] = IF k = n THEN 0 ELSE c[k + 1]
  BY OrderFacts DEF ListOf
<1>2. /\ \A k \in 1..n : k # n => k + 1 \in 1..n
      /\ p + 1 \in 1..(n + 1) /\ q + 1 \in 1..(n + 1)
      /\ \A k \in 1..n : k + 1 = n + 1 <=> k = n
  BY <1>1
<1>3. \A k, j \in 1..n : Nxt(L)[c[k]] = c[j] <=> j = k + 1
  <2> TAKE k, j \in 1..n
  <2>1. CASE k = n
    <3>1. j # k + 1
      BY <1>1, <2>1
    <3> QED BY <1>1, <2>1, <3>1
  <2>2. CASE k # n
    <3>1. Nxt(L)[c[k]] = c[k + 1] /\ k + 1 \in 1..n
      BY <1>1, <1>2, <2>2
    <3> QED BY <1>1, <3>1
  <2> QED BY <2>1, <2>2
<1>4. CASE p = q
  <2>1. M = L
    BY <1>4 DEF Swap_Links
  <2>2. SwapAt(c, n, p, q) = c
    <3> DEFINE b == SwapAt(c, n, p, q)
    <3>1. b = [k \in 1..n |-> b[k]] /\ \A k \in 1..n : b[k] = c[k]
      BY <1>4 DEF SwapAt
    <3>2. c = [k \in 1..n |-> c[k]]
      BY <1>1 DEF ListOf
    <3> HIDE DEF b
    <3>3. b = c
      BY <3>1, <3>2, SamePlaces
    <3> QED BY <3>3 DEF b
  <2> QED BY <2>1, <2>2
<1>5. CASE p # q /\ q = p + 1
  <2>1. M = SpliceWithin(L, c[p], c[q])
    BY <1>1, <1>3, <1>5 DEF Swap_Links, Nxt
  <2>2. p \in 1..(n + 1) /\ p < q /\ p # n + 1
    BY <1>1, <1>5
  <2>3. Order(M, cap, E, Relocated(c, n, q, p), n) /\ Elm(M) = Elm(L)
    BY <1>5, <2>1, <2>2, OrderMoveBefore
  <2>4. Relocated(c, n, p + 1, p) = SwapAt(c, n, p, p + 1)
    BY <1>1, <1>5, RelocatedNext
  <2> QED BY <1>5, <2>3, <2>4
<1>6. CASE p # q /\ p = q + 1
  <2>0. q # p + 1
    BY <1>6
  <2>1. M = SpliceWithin(L, c[q], c[p])
    BY <1>1, <1>3, <1>6, <2>0 DEF Swap_Links, Nxt
  <2>2. q \in 1..(n + 1) /\ q < p /\ q # n + 1
    BY <1>1, <1>6
  <2>3. Order(M, cap, E, Relocated(c, n, p, q), n) /\ Elm(M) = Elm(L)
    BY <1>6, <2>1, <2>2, OrderMoveBefore
  <2>4. Relocated(c, n, q + 1, q) = SwapAt(c, n, q + 1, q)
    <3>1. /\ Relocated(c, n, q + 1, q) = SwapAt(c, n, q, q + 1)
          /\ SwapAt(c, n, q, q + 1) = SwapAt(c, n, q + 1, q)
      BY <1>1, <1>6, RelocatedNext
    <3> QED BY <3>1
  <2> QED BY <1>6, <2>3, <2>4
<1>7. CASE p # q /\ q # p + 1 /\ p # q + 1
  <2> DEFINE ni == Nxt(L)[c[p]]
             nj == Nxt(L)[c[q]]
             i == c[p]
             j == c[q]
             K == SpliceWithin(L, ni, j)
             q1 == IF p < q THEN p + 1 ELSE p
             p1 == IF p < q THEN p ELSE p - 1
             i1 == IF p < q THEN q + 1 ELSE q
             d == Relocated(c, n, q, q1)
  <2>1. M = SpliceWithin(K, nj, i)
    BY <1>1, <1>3, <1>7 DEF Swap_Links, Nxt
  <2>2. /\ ni = IF p + 1 = n + 1 THEN 0 ELSE c[p + 1]
        /\ nj = IF q = n THEN 0 ELSE c[q + 1]
    BY <1>1, <1>2
  <2>3. q1 = IF p + 1 < q THEN p + 1 ELSE (p + 1) - 1
    BY <1>7
  <2>4. Order(K, cap, E, d, n) /\ Elm(K) = Elm(L)
    <3>1. p + 1 # q /\ j = c[q] /\ K = SpliceWithin(L, ni, j)
      BY <1>7
    <3> HIDE DEF K, ni, j, q1, d
    <3>2. Order(K, cap, E, Relocated(c, n, q, q1), n) /\ Elm(K) = Elm(L)
      BY <1>2, <2>2, <2>3, <3>1, OrderMoveBefore
    <3> QED BY <3>2 DEF d
  <2>5. /\ p1 \in 1..n /\ i1 \in 1..(n + 1) /\ i1 # p1 /\ q = IF i1 < p1 THEN i1 ELSE i1 - 1
    BY <1>1, <1>7
  <2>6. /\ i = d[p1] /\ Relocated(d, n, p1, q) = SwapAt(c, n, p, q)
        /\ nj = IF i1 = n + 1 THEN 0 ELSE d[i1]
    <3>1. CASE p < q
      <4>0. p + 1 < q /\ d = Relocated(c, n, q, p + 1) /\ p1 = p /\ i1 = q + 1
        BY <1>7, <3>1
      <4> DEFINE r == p + 1
      <4>a. d = Relocated(c, n, q, r) /\ Between(p, r, q)
        BY <4>0 DEF Between
      <4>b. n \in Nat /\ r \in 1..n
        BY <1>1, <4>0
      <4> HIDE DEF d, p1, i1, nj, r
      <4>1. /\ d[p] = c[p] /\ (q # n => d[q + 1] = c[q + 1])
            /\ Relocated(d, n, p, q) = SwapAt(c, n, p, q)
        BY <4>a, <4>b, RelocatedBeyond
      <4>2. nj = IF q + 1 = n + 1 THEN 0 ELSE d[q + 1]
        BY <1>2, <2>2, <4>1
      <4> QED BY <4>0, <4>1, <4>2
    <3>2. CASE ~(p < q)
      <4>0. q + 1 < p /\ d = Relocated(c, n, q, p) /\ p1 = p - 1 /\ i1 = q /\ q # n + 1 /\ q # n
        BY <1>1, <1>7, <3>2
      <4>a. d = Relocated(c, n, q, p)
        BY <4>0
      <4>b. q + 1 < p /\ n \in Nat
        BY <1>1, <4>0
      <4> HIDE DEF d, p1, i1, nj
      <4>1. /\ d[p - 1] = c[p] /\ d[q] = c[q + 1]
            /\ Relocated(d, n, p - 1, q) = SwapAt(c, n, p, q)
        BY <4>a, <4>b, RelocatedBack
      <4> QED BY <2>2, <4>0, <4>1
    <3> QED BY <3>1, <3>2
  <2> HIDE DEF K, ni, nj, i, j, q1, p1, i1, d
  <2>7. Order(M, cap, E, Relocated(d, n, p1, q), n) /\ Elm(M) = Elm(K)
    BY <2>1, <2>4, <2>5, <2>6, OrderMoveBefore
  <2> QED BY <2>4, <2>6, <2>7
<1> QED BY <1>4, <1>5, <1>6, <1>7

(* Taking the first node, or the last one, out of what is left.            *)
LEMMA ShrunkFirst ==
  ASSUME NEW S, NEW cap, NEW E, NEW c, NEW n, n \in Nat, NEW k, k \in Nat, k < n,
         NEW J, Shrunk(S, J, cap, E, c, n, 1, k), NEW N, N = Delete_First(J, 1)
  PROVE  /\ Shrunk(S, N, cap, E, c, n, 1, k + 1)
         /\ Elm(J)[Fst(J)] = Elm(S)[c[k + 1]]
<1> DEFINE d == Cut(c, n, 1, k)
           r == n - k
<1>1. Order(J, cap, E, d, r) /\ Elm(J) = Elm(S)
  BY DEF Shrunk
<1>2. r \in Nat /\ r # 0 /\ r - 1 = n - (k + 1) /\ 1 \in 1..r /\ Atmost(1, r) = 1
  BY DEF Atmost
<1>3. d[1] = c[k + 1]
  BY DEF Cut
<1>4. RemoveAt(d, r, 1) = Cut(c, n, 1, k + 1)
  <2>1. \A p \in Nat : p <= n - k => RemoveAt(Cut(c, n, p, k), n - k, p) = Cut(c, n, p, k + 1)
    BY CutMore
  <2> QED BY <1>2, <2>1
<1>5. Cut(d, r, 1, 1) = RemoveAt(d, r, 1)
  BY DEF Cut, RemoveAt
<1> HIDE DEF d, r
<1>6. Shrunk(J, N, cap, E, d, r, 1, Atmost(1, r))
  BY <1>1, OrderDeleteFirst
<1>7. Order(N, cap, E, Cut(d, r, 1, 1), r - 1) /\ Elm(N) = Elm(J)
  BY <1>2, <1>6 DEF Shrunk
<1>8. Fst(J) = d[1]
  BY <1>1, <1>2, OrderFacts
<1> QED BY <1>1, <1>2, <1>3, <1>4, <1>5, <1>7, <1>8 DEF Shrunk

(* Taking the last node out of what is left.                               *)
LEMMA ShrunkLast ==
  ASSUME NEW S, NEW cap, NEW E, NEW c, NEW n, n \in Nat, NEW k, k \in Nat, k < n,
         NEW J, Shrunk(S, J, cap, E, c, n, n - k + 1, k), NEW N, N = Delete_Last(J, 1)
  PROVE  /\ Shrunk(S, N, cap, E, c, n, n - (k + 1) + 1, k + 1)
         /\ Elm(J)[Lst(J)] = Elm(S)[c[n - k]]
<1> DEFINE d == Cut(c, n, n - k + 1, k)
           r == n - k
<1>1. Order(J, cap, E, d, r) /\ Elm(J) = Elm(S)
  BY DEF Shrunk
<1>2. r \in Nat /\ r # 0 /\ r - 1 = n - (k + 1) /\ r - 1 + 1 = r /\ Atmost(1, r) = 1
  BY DEF Atmost
<1>3. d[r] = c[r]
  BY DEF Cut
<1>4. RemoveAt(d, r, r) = Cut(c, n, n - (k + 1) + 1, k + 1)
  BY CutEnd
<1>5. Cut(d, r, r, 1) = RemoveAt(d, r, r)
  BY DEF Cut, RemoveAt
<1>60. c[n - k] = c[r]
  OBVIOUS
<1> HIDE DEF d, r
<1>6. Shrunk(J, N, cap, E, d, r, r - Atmost(1, r) + 1, Atmost(1, r))
  BY <1>1, OrderDeleteLast
<1>7. Order(N, cap, E, Cut(d, r, r, 1), r - 1) /\ Elm(N) = Elm(J)
  BY <1>2, <1>6 DEF Shrunk
<1>8. Lst(J) = d[r]
  BY <1>1, <1>2, OrderFacts
<1> QED BY <1>1, <1>2, <1>3, <1>4, <1>5, <1>60, <1>7, <1>8 DEF Shrunk

(* A cleared list, at the end of which k elements have been put.           *)
LEMMA OrderCleared ==
  ASSUME NEW T, NEW cap, NEW E, NEW b, NEW m, Order(T, cap, E, b, m), NEW K, K = Clear(T)
  PROVE  \E d : Order(K, cap, E, d, 0) /\ IsPlace(d, 0, 0, 1)
<1>1. m \in Nat /\ m - m = 0
  BY OrderFacts
<1>2. Shrunk(T, K, cap, E, b, m, 1, m)
  BY OrderClear
<1>3. Order(K, cap, E, Cut(b, m, 1, m), 0)
  BY <1>1, <1>2 DEF Shrunk
<1>4. \A d : IsPlace(d, 0, 0, 1)
  BY DEF IsPlace
<1> QED BY <1>3, <1>4

(* M with the order d has the elements of L with the order c.              *)
Alike(M, d, L, c, n) == \A i \in 1..n : Elm(M)[d[i]] = Elm(L)[c[i]]

(* Assign copies the elements in their order.                              *)
THEOREM OrderAssign ==
  ASSUME NEW T, NEW cap, NEW E, NEW b, NEW m, Order(T, cap, E, b, m),
         NEW S, NEW cap2, NEW c, NEW n, Order(S, cap2, E, c, n), n <= cap,
         NEW M, M = Assign(T, S)
  PROVE  \E d : Order(M, cap, E, d, n) /\ Alike(M, d, S, c, n)
<1>1. /\ n \in Nat /\ cap \in Nat /\ Lng(S) = n
      /\ \A i \in 1..n : Nxt(S)[c[i]] = IF i = n THEN 0 ELSE c[i + 1]
      /\ n # 0 => Fst(S) = c[1]
      /\ \A i \in 1..n : Elm(S)[c[i]] \in E
  BY OrderFacts
<1>2. PICK a : /\ a[0] = [list |-> Clear(T), at |-> Fst(S)] /\ Assign(T, S) = a[n].list
               /\ \A i \in Nat : i < n =>
                    a[i + 1] = [list |-> Append_(a[i].list, Elm(S)[a[i].at]), at |-> Nxt(S)[a[i].at]]
  BY <1>1, AssignLoop
<1> DEFINE K == Clear(T)
           v == [i \in 1..n |-> Elm(S)[c[i]]]
<1>3. PICK z : Order(K, cap, E, z, 0) /\ IsPlace(z, 0, 0, 1)
  BY OrderCleared
<1>4. \A i \in 1..n : v[i] = Elm(S)[c[i]]
  OBVIOUS
<1>5. a[0].list = K /\ a[0].at = Fst(S)
  BY <1>2
<1> HIDE DEF K, v
<1> DEFINE P == {i \in Nat : i <= n =>
                   /\ \E d : Grown(K, a[i].list, cap, E, z, 0, 1, i, d, v)
                   /\ i < n => a[i].at = c[i + 1]}
<1>6. 0 \in P
  BY <1>1, <1>3, <1>5, GrownStart
<1>7. ASSUME NEW i \in Nat, i \in P PROVE i + 1 \in P
  <2>1. SUFFICES ASSUME i + 1 <= n
                 PROVE  /\ \E d : Grown(K, a[i + 1].list, cap, E, z, 0, 1, i + 1, d, v)
                        /\ i + 1 < n => a[i + 1].at = c[(i + 1) + 1]
    OBVIOUS
  <2> DEFINE A == a[i].list
             B == a[i + 1].list
             x == c[i + 1]
             e == Elm(S)[x]
             q == Allocate(A, e).node
             zero == 0
             one == 1
  <2>2. PICK d : Grown(K, A, cap, E, z, 0, 1, i, d, v)
    BY <1>1, <1>7, <2>1
  <2>3. a[i].at = x /\ i + 1 \in 1..n /\ i < cap /\ 0 + i < cap /\ i < n
    BY <1>1, <1>7, <2>1
  <2>4. B = InsertOne(A, 0, e) /\ a[i + 1].at = Nxt(S)[x]
    <3>1. a[i + 1] = [list |-> Append_(a[i].list, Elm(S)[a[i].at]), at |-> Nxt(S)[a[i].at]]
      BY <1>2, <2>3
    <3> QED BY <2>3, <3>1 DEF Append_, No_Element
  <2>5. e \in E /\ e = v[i + 1]
    BY <1>1, <1>4, <2>3
  <2>6. Nxt(S)[x] = IF i + 1 = n THEN 0 ELSE c[(i + 1) + 1]
    BY <1>1, <2>3
  <2> DEFINE h == InsertAt(d, zero + i, one + i, q)
  <2>7. /\ Grown(K, A, cap, E, z, zero, one, i, d, v) /\ zero \in Nat /\ zero + i < cap
        /\ IsPlace(z, zero, zero, one) /\ B = InsertOne(A, zero, e)
    BY <1>3, <2>2, <2>3, <2>4
  <2> HIDE DEF A, B, e, q, h, zero, one
  <2>8. Grown(K, B, cap, E, z, zero, one, i + 1, h, v)
    BY <2>5, <2>7, GrownStep DEF q, h
  <2> QED BY <2>4, <2>6, <2>8 DEF B, zero, one
<1> HIDE DEF P
<1>8. n \in P
  BY <1>1, <1>6, <1>7, NatInd
<1>9. PICK d : Grown(K, M, cap, E, z, 0, 1, n, d, v)
  BY <1>1, <1>2, <1>8 DEF P
<1>10. Order(M, cap, E, d, n) /\ \A i \in 1..n : Elm(M)[d[i]] = v[i]
  <2>1. 0 + n = n /\ \A i \in 1..n : 1 + i - 1 = i
    BY <1>1
  <2> QED BY <1>9, <2>1 DEF Grown
<1> QED BY <1>4, <1>10 DEF Alike

(* Move does, and leaves the source empty.                                 *)
THEOREM OrderMove ==
  ASSUME NEW T, NEW cap, NEW E, NEW b, NEW m, Order(T, cap, E, b, m),
         NEW S, NEW cap2, NEW c, NEW n, Order(S, cap2, E, c, n), n <= cap,
         NEW R, R = Move(T, S)
  PROVE  /\ \E d : Order(R.t, cap, E, d, n) /\ Alike(R.t, d, S, c, n)
         /\ \E d : Order(R.s, cap2, E, d, 0)
<1>1. /\ n \in Nat /\ cap \in Nat /\ Lng(S) = n
      /\ \A i \in 1..n : Elm(S)[c[i]] \in E
  BY OrderFacts
<1>2. PICK a : /\ a[0] = [t |-> Clear(T), s |-> S] /\ Move(T, S) = a[n]
               /\ \A i \in Nat : i < n =>
                     a[i + 1] = [t |-> Append_(a[i].t, Elm(a[i].s)[Fst(a[i].s)]),
                                 s |-> Delete_First(a[i].s, 1)]
  BY <1>1, MoveLoop
<1> DEFINE K == Clear(T)
           v == [i \in 1..n |-> Elm(S)[c[i]]]
<1>3. PICK z : Order(K, cap, E, z, 0) /\ IsPlace(z, 0, 0, 1)
  BY OrderCleared
<1>4. \A i \in 1..n : v[i] = Elm(S)[c[i]]
  OBVIOUS
<1>5. a[0].t = K /\ a[0].s = S
  BY <1>2
<1> HIDE DEF K, v
<1> DEFINE P == {i \in Nat : i <= n =>
                   /\ \E d : Grown(K, a[i].t, cap, E, z, 0, 1, i, d, v)
                   /\ Shrunk(S, a[i].s, cap2, E, c, n, 1, i)}
<1>6. 0 \in P
  BY <1>1, <1>3, <1>5, GrownStart, ShrunkStart
<1>7. ASSUME NEW i \in Nat, i \in P PROVE i + 1 \in P
  <2>1. SUFFICES ASSUME i + 1 <= n
                 PROVE  /\ \E d : Grown(K, a[i + 1].t, cap, E, z, 0, 1, i + 1, d, v)
                        /\ Shrunk(S, a[i + 1].s, cap2, E, c, n, 1, i + 1)
    OBVIOUS
  <2> DEFINE A == a[i].t
             B == a[i + 1].t
             J == a[i].s
             N == a[i + 1].s
             e == Elm(S)[c[i + 1]]
             q == Allocate(A, e).node
             zero == 0
             one == 1
  <2>2. PICK d : Grown(K, A, cap, E, z, 0, 1, i, d, v)
    BY <1>1, <1>7, <2>1
  <2>3. i + 1 \in 1..n /\ i < cap /\ 0 + i < cap /\ i < n
    BY <1>1, <2>1
  <2>4. Shrunk(S, J, cap2, E, c, n, 1, i) /\ N = Delete_First(J, 1)
        /\ B = Append_(A, Elm(J)[Fst(J)])
    <3>1. a[i + 1] = [t |-> Append_(A, Elm(J)[Fst(J)]), s |-> Delete_First(J, 1)]
      BY <1>2, <2>3
    <3>2. Shrunk(S, J, cap2, E, c, n, 1, i)
      BY <1>1, <1>7, <2>3
    <3> QED BY <3>1, <3>2
  <2>5. e \in E /\ e = v[i + 1]
    BY <1>1, <1>4, <2>3
  <2> HIDE DEF J, N, A, B
  <2>6. Shrunk(S, N, cap2, E, c, n, 1, i + 1) /\ Elm(J)[Fst(J)] = e
    BY <1>1, <2>3, <2>4, ShrunkFirst
  <2>60. B = InsertOne(A, 0, e)
    BY <2>4, <2>6 DEF Append_, No_Element
  <2> DEFINE h == InsertAt(d, zero + i, one + i, q)
  <2>7. /\ Grown(K, A, cap, E, z, zero, one, i, d, v) /\ zero \in Nat /\ zero + i < cap
        /\ IsPlace(z, zero, zero, one) /\ B = InsertOne(A, zero, e)
    BY <1>3, <2>2, <2>3, <2>60
  <2> HIDE DEF e, q, h, zero, one
  <2>8. Grown(K, B, cap, E, z, zero, one, i + 1, h, v)
    BY <2>5, <2>7, GrownStep DEF q, h
  <2> QED BY <2>6, <2>8 DEF B, N, zero, one
<1> HIDE DEF P
<1>8. n \in P
  BY <1>1, <1>6, <1>7, NatInd
<1>9. PICK d : Grown(K, R.t, cap, E, z, 0, 1, n, d, v)
  BY <1>1, <1>2, <1>8 DEF P
<1>10. Order(R.t, cap, E, d, n) /\ \A i \in 1..n : Elm(R.t)[d[i]] = v[i]
  <2>1. 0 + n = n /\ \A i \in 1..n : 1 + i - 1 = i
    BY <1>1
  <2> QED BY <1>9, <2>1 DEF Grown
<1>11. Order(R.s, cap2, E, Cut(c, n, 1, n), 0)
  <2>1. Shrunk(S, R.s, cap2, E, c, n, 1, n) /\ n - n = 0
    BY <1>1, <1>2, <1>8 DEF P
  <2> QED BY <2>1 DEF Shrunk
<1> QED BY <1>4, <1>10, <1>11 DEF Alike

(* v holds the elements of S, whose order is c, from the last one on.      *)
Backward(v, S, c, n) == v = [i \in 1..n |-> Elm(S)[c[n + 1 - i]]]

(* Splice (Target, Before, Source) puts the elements of the source, from   *)
(* the last to the first, before the given place.                          *)
THEOREM OrderSpliceAll ==
  ASSUME NEW T, NEW cap, NEW E, NEW b, NEW m, Order(T, cap, E, b, m),
         NEW before, NEW p, IsPlace(b, m, before, p),
         NEW S, NEW cap2, NEW c, NEW n, Order(S, cap2, E, c, n), m + n <= cap,
         NEW R, R = SpliceAll(T, before, S),
         NEW v, Backward(v, S, c, n)
  PROVE  /\ \E d : Grown(T, R.t, cap, E, b, m, p, n, d, v)
         /\ \E d : Order(R.s, cap2, E, d, 0)
<1>1. /\ n \in Nat /\ cap \in Nat /\ Lng(S) = n /\ m \in Nat
      /\ \A i \in 1..n : Elm(S)[c[i]] \in E
  BY OrderFacts
<1>2. PICK a : /\ a[0] = [t |-> T, s |-> S] /\ SpliceAll(T, before, S) = a[n]
               /\ \A i \in Nat : i < n =>
                     a[i + 1] = [t |-> InsertOne(a[i].t, before, Elm(a[i].s)[Lst(a[i].s)]),
                                 s |-> Delete_Last(a[i].s, 1)]
  BY <1>1, SpliceLoop
<1>3. a[0].t = T /\ a[0].s = S
  BY <1>2
<1>4. \A i \in Nat : i < n => v[i + 1] = Elm(S)[c[n - i]] /\ n - i \in 1..n
  <2> TAKE i \in Nat
  <2> HAVE i < n
  <2>1. i + 1 \in 1..n /\ n + 1 - (i + 1) = n - i /\ n - i \in 1..n
    BY <1>1
  <2>2. v[i + 1] = Elm(S)[c[n + 1 - (i + 1)]]
    BY <2>1 DEF Backward
  <2> QED BY <2>1, <2>2
<1> DEFINE P == {i \in Nat : i <= n =>
                   /\ \E d : Grown(T, a[i].t, cap, E, b, m, p, i, d, v)
                   /\ Shrunk(S, a[i].s, cap2, E, c, n, n - i + 1, i)}
<1>6. 0 \in P
  BY <1>1, <1>3, GrownStart, ShrunkStart
<1>7. ASSUME NEW i \in Nat, i \in P PROVE i + 1 \in P
  <2>1. SUFFICES ASSUME i + 1 <= n
                 PROVE  /\ \E d : Grown(T, a[i + 1].t, cap, E, b, m, p, i + 1, d, v)
                        /\ Shrunk(S, a[i + 1].s, cap2, E, c, n, n - (i + 1) + 1, i + 1)
    OBVIOUS
  <2> DEFINE A == a[i].t
             B == a[i + 1].t
             J == a[i].s
             N == a[i + 1].s
             e == Elm(S)[c[n - i]]
             q == Allocate(A, e).node
  <2>2. PICK d : Grown(T, A, cap, E, b, m, p, i, d, v)
    BY <1>1, <1>7, <2>1
  <2>3. m + i < cap /\ i < n
    BY <1>1, <2>1
  <2>4. Shrunk(S, J, cap2, E, c, n, n - i + 1, i) /\ N = Delete_Last(J, 1)
        /\ B = InsertOne(A, before, Elm(J)[Lst(J)])
    <3>1. a[i + 1] = [t |-> InsertOne(A, before, Elm(J)[Lst(J)]), s |-> Delete_Last(J, 1)]
      BY <1>2, <2>3
    <3>2. Shrunk(S, J, cap2, E, c, n, n - i + 1, i)
      BY <1>1, <1>7, <2>3
    <3> QED BY <3>1, <3>2
  <2>5. e \in E /\ e = v[i + 1]
    BY <1>1, <1>4, <2>3
  <2> HIDE DEF J, N, A, B
  <2>6. Shrunk(S, N, cap2, E, c, n, n - (i + 1) + 1, i + 1) /\ Elm(J)[Lst(J)] = e
    BY <1>1, <2>3, <2>4, ShrunkLast
  <2>7. B = InsertOne(A, before, e)
    BY <2>4, <2>6
  <2> DEFINE h == InsertAt(d, m + i, p + i, q)
  <2> HIDE DEF e, q, h
  <2>8. Grown(T, B, cap, E, b, m, p, i + 1, h, v)
    BY <1>1, <2>2, <2>3, <2>5, <2>7, GrownStep DEF q, h
  <2> QED BY <2>6, <2>8 DEF B, N
<1> HIDE DEF P
<1>8. n \in P
  BY <1>1, <1>6, <1>7, NatInd
<1>9. \E d : Grown(T, R.t, cap, E, b, m, p, n, d, v)
  BY <1>1, <1>2, <1>8 DEF P
<1>10. Order(R.s, cap2, E, Cut(c, n, n - n + 1, n), 0)
  <2>1. Shrunk(S, R.s, cap2, E, c, n, n - n + 1, n) /\ n - n = 0
    BY <1>1, <1>2, <1>8 DEF P
  <2> QED BY <2>1 DEF Shrunk
<1> QED BY <1>9, <1>10

(* Copy keeps the order and the elements.                                  *)
THEOREM OrderCopy ==
  ASSUME NEW S, NEW cap2, NEW E, NEW c, NEW n, Order(S, cap2, E, c, n),
         NEW cap, cap \in Nat, 0 < cap2, cap2 <= cap,
         NEW M, M = Copy(S, cap)
  PROVE  Order(M, cap, E, c, n) /\ \A i \in 1..n : Elm(M)[c[i]] = Elm(S)[c[i]]
<1> DEFINE m == cap2 - n
           K == CopyWithoutExtra(S, cap)
<1>1. /\ IsRep(S, cap2, E) /\ Lng(S) = n /\ cap2 \in Nat /\ n \in Nat /\ m \in Nat
      /\ n + m = cap2 /\ Cap(S) = cap2 /\ \A i \in 1..n : c[i] \in Node(cap2)
  <2>1. cap2 \in Nat /\ n \in Nat /\ m \in Nat /\ \A i \in 1..n : c[i] \in Node(cap2)
    BY OrderFacts
  <2>2. IsRep(S, cap2, E) /\ Lng(S) = n
    BY DEF Order
  <2>3. Cap(S) = cap2
    BY <2>2 DEF IsRep
  <2>4. n + m = cap2
    BY <2>1
  <2> QED BY <2>1, <2>2, <2>3, <2>4
<1>2. PICK f : Shape(S, cap2, c, n, f, m, {})
  BY DEF Order
<1>3. PICK a : /\ a[cap2] = K
               /\ \A i \in Nat : cap2 <= i /\ i < cap => a[i + 1] = Free(a[i], i + 1)
               /\ Copy(S, cap) = IF Fre(K) >= 0 THEN a[cap] ELSE K
  BY <1>1, CopyLoop
<1>30. \A i \in 1..n : Elm(K)[c[i]] = Elm(S)[c[i]]
  <2>1. Elm(K) = [y \in 1..cap |-> IF y \in Node(cap2) THEN Elm(S)[y] ELSE Elm(S)[1]]
    <3> HIDE DEF K
    <3>1. CopyOf(K, S, cap2, cap)
      BY <1>1, CopyFields DEF K
    <3> QED BY <3>1 DEF CopyOf
  <2>2. \A y \in Node(cap2) : y \in 1..cap
    BY <1>1 DEF Node
  <2> QED BY <1>1, <2>1, <2>2
<1> HIDE DEF m, K
<1>4. /\ IsRep(K, cap, E) /\ Lng(K) = n
      /\ Fre(K) >= 0 => Shape(K, cap, c, n, f, m, Above(cap2, cap))
      /\ Fre(K) < 0 => \E g : Shape(K, cap, c, n, g, cap - n, {})
  BY <1>1, <1>2, CopyExtra DEF K
<1>5. CASE Fre(K) < 0
  <2>1. Fre(K) \in Int
    BY <1>4 DEF IsRep
  <2>2. M = K
    BY <1>3, <1>5, <2>1
  <2> QED BY <1>4, <1>5, <1>30, <2>2 DEF Order
<1>6. CASE Fre(K) >= 0
  <2> DEFINE P == {i \in Nat : cap2 + i <= cap =>
                     /\ IsRep(a[cap2 + i], cap, E) /\ Lng(a[cap2 + i]) = n
                     /\ Elm(a[cap2 + i]) = Elm(K)
                     /\ \E g : Shape(a[cap2 + i], cap, c, n, g, m + i, Above(cap2 + i, cap))}
  <2>1. 0 \in P
    BY <1>1, <1>3, <1>4, <1>6
  <2>2. ASSUME NEW i \in Nat, i \in P PROVE i + 1 \in P
    <3> DEFINE x == cap2 + i + 1
               r == m + i
               A == a[cap2 + i]
               B == a[x]
               out == Above(cap2 + i, cap)
               rest == Above(x, cap)
    <3>1. SUFFICES ASSUME cap2 + (i + 1) <= cap
                   PROVE  /\ IsRep(a[cap2 + (i + 1)], cap, E) /\ Lng(a[cap2 + (i + 1)]) = n
                          /\ Elm(a[cap2 + (i + 1)]) = Elm(K)
                          /\ \E g : Shape(a[cap2 + (i + 1)], cap, c, n, g, m + (i + 1),
                                          Above(cap2 + (i + 1), cap))
      OBVIOUS
    <3>2. cap2 + (i + 1) = x /\ m + (i + 1) = r + 1
      BY <1>1
    <3>3. /\ IsRep(A, cap, E) /\ Lng(A) = n /\ Elm(A) = Elm(K)
          /\ \E g : Shape(A, cap, c, n, g, r, out)
      BY <1>1, <2>2, <3>1
    <3>4. B = Free(A, x)
      <4>1. cap2 + i \in Nat /\ cap2 <= cap2 + i /\ cap2 + i < cap /\ (cap2 + i) + 1 = x
        BY <1>1, <3>1
      <4> QED BY <1>3, <4>1
    <3>5. x \in out /\ rest = out \ {x}
      BY <1>1, <3>1 DEF Above, Node
    <3> HIDE DEF x, r, A, B, out, rest
    <3>6. Freed(A, B, x, out, rest)
      BY <3>4, <3>5 DEF Freed
    <3>7. PICK g : Shape(A, cap, c, n, g, r, out)
      BY <3>3
    <3>8. /\ IsRep(B, cap, E) /\ Lng(B) = Lng(A) /\ Elm(B) = Elm(A)
          /\ Shape(B, cap, c, n, Cons(x, g, r), r + 1, rest)
      BY <3>3, <3>6, <3>7, FreeOneOf
    <3>9. a[cap2 + (i + 1)] = B /\ Above(cap2 + (i + 1), cap) = rest
      BY <3>2 DEF B, rest
    <3> QED BY <3>2, <3>3, <3>8, <3>9
  <2> HIDE DEF P
  <2>3. cap - cap2 \in P
    BY <1>1, <2>1, <2>2, NatInd
  <2>4. cap2 + (cap - cap2) = cap /\ m + (cap - cap2) = cap - n
    BY <1>1
  <2>5. M = a[cap]
    BY <1>3, <1>6
  <2>6. /\ IsRep(M, cap, E) /\ Lng(M) = n /\ Elm(M) = Elm(K)
        /\ \E g : Shape(M, cap, c, n, g, cap - n, Above(cap, cap))
    BY <1>1, <2>3, <2>4, <2>5 DEF P
  <2>7. Above(cap, cap) = {}
    BY DEF Above, Node
  <2> QED BY <1>30, <2>6, <2>7 DEF Order
<1>7. Fre(K) \in Int
  BY <1>4 DEF IsRep
<1> QED BY <1>5, <1>6, <1>7

(* h takes each place of d to the place of c with the same node; d ascends *)
(* by element, then by the place in c.                                     *)
Stably(el, c, d, n, h) ==
  /\ h \in [1..n -> 1..n]
  /\ \A i \in 1..n : d[i] = c[h[i]]
  /\ \A i, j \in 1..n : i < j =>
        el[d[i]] < el[d[j]] \/ (el[d[i]] = el[d[j]] /\ h[i] < h[j])

(* Sort, which merges halves at every level, is a stable sort: the nodes   *)
(* ascend by element, and those with equal elements keep their order.      *)
THEOREM OrderSort ==
  ASSUME NEW L, NEW cap, NEW E, E \subseteq Int, NEW c, NEW n, Order(L, cap, E, c, n),
         NEW M, M = Sort(L)
  PROVE  \E d, h : Order(M, cap, E, d, n) /\ Elm(M) = Elm(L) /\ Stably(Elm(L), c, d, n, h)
<1> DEFINE el == Elm(L)
           g == [x \in Node(cap) |-> IF x \in Values(c, n) THEN CHOOSE i \in 1..n : c[i] = x ELSE 0]
<1>1. /\ n \in Nat /\ Lng(L) = n /\ c \in [1..n -> Node(cap)]
      /\ \A i, j \in 1..n : i # j => c[i] # c[j]
      /\ \A i \in 1..n : c[i] \in Node(cap)
      /\ el \in [Node(cap) -> E]
  BY OrderFacts
<1>2. Good(L, cap, E)
  BY OrderGood
<1>3. PICK f : Shape(L, cap, c, n, f, cap - n, {})
  BY DEF Order
<1>4. PICK d : Resorted(L, cap, E, g, c, n, f, cap - n, M, d)
  <2> HIDE DEF g
  <2> QED BY <1>1, <1>2, <1>3, SortShape
<1>5. /\ IsRep(M, cap, E) /\ Lng(M) = n /\ Elm(M) = Elm(L)
      /\ Shape(M, cap, d, n, f, cap - n, {})
      /\ \A y : y \in Values(d, n) <=> y \in Values(c, n)
      /\ Ordering(L, g, cap, c, n, d)
  <2> HIDE DEF g
  <2> QED BY <1>4 DEF Resorted
<1>6. Order(M, cap, E, d, n)
  <2> HIDE DEF g
  <2> QED BY <1>5 DEF Order
<1>7. \A i \in 1..n : g[c[i]] = i
  <2> TAKE i \in 1..n
  <2>1. \A j \in 1..n : c[j] = c[i] <=> j = i
    BY <1>1
  <2>2. (CHOOSE j \in 1..n : c[j] = c[i]) = i
    BY <2>1
  <2>3. c[i] \in Values(c, n) /\ c[i] \in Node(cap)
    BY <1>1, ValuesMember
  <2> QED BY <2>2, <2>3
<1>8. \A x \in Node(cap) : g[x] \in Int
  <2> TAKE x \in Node(cap)
  <2>1. CASE x \in Values(c, n)
    <3>1. PICK i \in 1..n : x = c[i]
      BY <2>1, ValuesMember
    <3> QED BY <1>7, <3>1
  <2>2. CASE x \notin Values(c, n)
    BY <2>2
  <2> QED BY <2>1, <2>2
<1> HIDE DEF g
<1>9. Keyed(el, g, cap)
  BY <1>1, <1>8 DEF Keyed
<1>10. Numbered(g, c, n)
  BY <1>7 DEF Numbered
<1>11. Ascends(el, g, d, n)
  BY <1>5, <1>9, <1>10 DEF Ordering
<1> DEFINE h == [i \in 1..n |-> g[d[i]]]
<1>12. \A i \in 1..n : h[i] = g[d[i]] /\ h[i] \in 1..n /\ d[i] = c[h[i]]
  <2> TAKE i \in 1..n
  <2>1. d[i] \in Values(c, n)
    BY <1>5, ValuesMember
  <2>2. PICK k \in 1..n : d[i] = c[k]
    BY <2>1, ValuesMember
  <2>3. g[d[i]] = k
    BY <1>7, <2>2
  <2> QED BY <2>2, <2>3
<1>13. h \in [1..n -> 1..n]
  BY <1>12
<1> HIDE DEF h
<1>14. Stably(el, c, d, n, h)
  BY <1>11, <1>12, <1>13 DEF Stably, Ascends, Precedes
<1> QED BY <1>5, <1>6, <1>14
=============================================================================
