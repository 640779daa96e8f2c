--------------------------- MODULE ListPair_proofs ---------------------------
(***************************************************************************)
(* Proofs about ListPair, for every set of lists, all capacities and every *)
(* set of elements.  First the representation: the invariants of ListPair  *)
(* follow from IInv, which says of every list that it is good.  Then the   *)
(* contracts: the item sequence of a good list follows its order, each     *)
(* call changes the order as FormalLists_proofs shows, and so maps to a    *)
(* step of AbstractLists.                                                  *)
(***************************************************************************)
EXTENDS ListPair, FormalLists_proofs, FiniteSetTheorems, SequenceTheorems

-----------------------------------------------------------------------------
(* The invariants of ListPair, which walk over the links, say of a good    *)
(* list what its shape says.                                               *)

(* c is a sequence of n different nodes.                                   *)
Distinct(c, n, N) ==
  /\ n \in Nat /\ c \in [1..n -> N]
  /\ \A i, j \in 1..n : i # j => c[i] # c[j]

(* It has n values.                                                        *)
LEMMA DistinctValues ==
  ASSUME NEW N, NEW n, NEW c, Distinct(c, n, N)
  PROVE  Cardinality(Values(c, n)) = n
<1> DEFINE V == Values(c, n)
<1> n \in Nat /\ c \in [1..n -> N] /\ \A i, j \in 1..n : i # j => c[i] # c[j]
  BY DEF Distinct
<1>1. c \in [1..n -> V]
  BY DEF Values
<1>2. \A v \in V : \E i \in 1..n : c[i] = v
  BY DEF Values
<1> HIDE DEF V
<1>3. c \in Bijection(1..n, V)
  BY <1>1, <1>2 DEF Bijection, Injection, Surjection, IsInjective
<1>4. IsFiniteSet(1..n) /\ Cardinality(1..n) = n
  BY FS_Interval
<1>5. ExistsBijection(1..n, V)
  BY <1>3 DEF ExistsBijection
<1> QED BY <1>4, <1>5, FS_Bijection DEF V

(* Following Next from start visits c.                                     *)
Walks(L, N, start, c, n) ==
  /\ n \in Nat /\ c \in [1..n -> N] /\ Nodes(L) = N
  /\ n # 0 => start = c[1]
  /\ \A k \in 1..n : k # n => L.Next[c[k]] = c[k + 1]

(* NodesFrom, which walks over links that may be broken, then returns c.   *)
LEMMA Walk ==
  ASSUME NEW L, NEW N, NEW start, NEW c, NEW n, Walks(L, N, start, c, n)
  PROVE  NodesFrom(L, start, n) = c
<1> n \in Nat /\ c \in [1..n -> N] /\ Nodes(L) = N
  BY DEF Walks
<1> DEFINE Body(x) == IF x \in Nodes(L) THEN L.Next[x] ELSE 0
           IsWalk(g) == g = [k \in 1..n |-> IF k = 1 THEN start ELSE Body(g[k - 1])]
           node == CHOOSE node : node = [k \in 1..n |->
                     IF k = 1 THEN start
                     ELSE IF node[k - 1] \in Nodes(L) THEN L.Next[node[k - 1]] ELSE 0]
<1>1. NodesFrom(L, start, n) = node
  BY DEF NodesFrom
<1>2. ASSUME NEW k \in 1..n PROVE c[k] = IF k = 1 THEN start ELSE Body(c[k - 1])
  <2>1. CASE k = 1
    BY <2>1 DEF Walks
  <2>2. CASE k # 1
    <3>1. k - 1 \in 1..n /\ k - 1 # n /\ (k - 1) + 1 = k /\ c[k - 1] \in N
      BY <2>2
    <3>2. L.Next[c[k - 1]] = c[k]
      BY <3>1 DEF Walks
    <3> QED BY <2>2, <3>1, <3>2
  <2> QED BY <2>1, <2>2
<1> HIDE DEF Body
<1>3. IsWalk(c)
  BY <1>2
<1>4. IsWalk(node)
  <2>1. \E g : IsWalk(g)
    BY <1>3
  <2>2. IsWalk(CHOOSE g : IsWalk(g))
    BY <2>1
  <2> QED BY <2>2 DEF Body
<1> HIDE DEF node
<1>5. \A k \in 1..n : node[k] = IF k = 1 THEN start ELSE Body(node[k - 1])
  BY <1>4
<1> DEFINE P == {k \in Nat : k + 1 <= n => node[k + 1] = c[k + 1]}
<1>6. 0 \in P
  BY <1>2, <1>5
<1>7. ASSUME NEW k \in Nat, k \in P PROVE k + 1 \in P
  <2> SUFFICES ASSUME (k + 1) + 1 <= n PROVE node[(k + 1) + 1] = c[(k + 1) + 1]
    OBVIOUS
  <2>1. (k + 1) + 1 \in 1..n /\ (k + 1) + 1 # 1 /\ ((k + 1) + 1) - 1 = k + 1 /\ k + 1 <= n
    OBVIOUS
  <2>2. node[k + 1] = c[k + 1]
    BY <1>7, <2>1
  <2> QED BY <1>2, <1>5, <2>1, <2>2
<1> HIDE DEF P
<1>8. Nat \subseteq P
  BY <1>6, <1>7, NatInd
<1>9. ASSUME NEW k \in 1..n PROVE node[k] = c[k]
  <2>1. k - 1 \in Nat /\ (k - 1) + 1 = k /\ k <= n
    OBVIOUS
  <2> QED BY <1>8, <2>1 DEF P
<1>10. node = [k \in 1..n |-> node[k]]
  BY <1>4
<1>11. c = [k \in 1..n |-> c[k]]
  OBVIOUS
<1> QED BY <1>1, <1>9, <1>10, <1>11

(* Chain and FreeChain of a list are the chains of its shape.              *)
LEMMA Chains ==
  ASSUME NEW L, NEW cap, NEW E, IsRep(L, cap, E), NEW c, NEW f,
         Shape(L, cap, c, Lng(L), f, cap - Lng(L), {})
  PROVE  Chain(L) = c /\ FreeChain(L) = f
<1> DEFINE n == Lng(L)
           m == cap - Lng(L)
           N == Node(cap)
<1> cap \in Nat /\ n \in Nat /\ n <= cap /\ m \in Nat
  BY DEF IsRep
<1>1. L.Length = n /\ L.Capacity = cap /\ L.Capacity - L.Length = m
  BY DEF IsRep, Lng, Cap
<1>2. Active(L, N, c, n) /\ Store(L, cap, f, m)
  BY DEF Shape
<1>3. Nodes(L) = N
  BY DEF IsRep, Nodes, Prv
<1> HIDE DEF n, m, N
<1>4. Chain(L) = c
  <2>1. Walks(L, N, Fst(L), c, n)
    <3>1. /\ c \in [1..n -> N] /\ (n # 0 => Fst(L) = c[1])
          /\ \A k \in 1..n : Nxt(L)[c[k]] = IF k = n THEN 0 ELSE c[k + 1]
      BY <1>2 DEF Active, Segment
    <3> QED BY <1>3, <3>1 DEF Walks, Nxt
  <2>2. NodesFrom(L, Fst(L), n) = c
    BY <2>1, Walk
  <2> QED BY <1>1, <2>2 DEF Chain, Fst
<1>5. FreeChain(L) = f
  <2>0. f \in [1..m -> Node(cap)] /\ Fre(L) \in Int
    BY <1>2 DEF Store, IsRep
  <2>1. CASE Fre(L) >= 0
    <3>1. Chained(L, f, m)
      BY <1>2, <2>1 DEF Store
    <3>2. Walks(L, N, Fre(L), f, m)
      BY <1>3, <2>0, <3>1 DEF Walks, Chained, Nxt, N
    <3>3. NodesFrom(L, Fre(L), m) = f
      BY <3>2, Walk
    <3> QED BY <1>1, <2>1, <3>3 DEF FreeChain, Fre
  <2>2. CASE ~(Fre(L) >= 0)
    <3>1. Suffix(L, cap, f, m)
      BY <1>2, <2>0, <2>2 DEF Store
    <3>2. f = [k \in 1..m |-> k - Fre(L) - 1]
      BY <2>0, <3>1 DEF Suffix
    <3> QED BY <1>1, <2>2, <3>2 DEF FreeChain, Fre
  <2> QED BY <2>1, <2>2
<1> QED BY <1>4, <1>5

(* Which nodes are on them, and how many.                                  *)
LEMMA ChainFacts ==
  ASSUME NEW L, NEW cap, NEW E, IsRep(L, cap, E), NEW c, NEW f,
         Shape(L, cap, c, Lng(L), f, cap - Lng(L), {})
  PROVE  /\ NodesIn(Chain(L)) = Values(c, Lng(L))
         /\ NodesIn(FreeChain(L)) = Values(f, cap - Lng(L))
         /\ Cardinality(Values(c, Lng(L))) = Lng(L)
         /\ Cardinality(Values(f, cap - Lng(L))) = cap - Lng(L)
         /\ \A x : x \in Values(c, Lng(L)) <=> x \in Cursors(L)
         /\ \A x : x \in Values(f, cap - Lng(L)) <=> x \in Nodes(L) /\ x \notin Cursors(L)
<1> DEFINE n == Lng(L)
           m == cap - Lng(L)
<1> cap \in Nat /\ n \in Nat /\ n <= cap /\ m \in Nat
  BY DEF IsRep
<1>1. Chain(L) = c /\ FreeChain(L) = f
  BY Chains
<1>2. /\ c \in [1..n -> Node(cap)] /\ f \in [1..m -> Node(cap)]
      /\ \A i, j \in 1..n : i # j => c[i] # c[j]
      /\ \A i, j \in 1..m : i # j => f[i] # f[j]
      /\ \A y \in Node(cap) : y \in Values(c, n) \/ y \in Values(f, m)
      /\ \A k \in 1..m : Prv(L)[f[k]] = -1
  BY DEF Shape, Active, Store, Segment
<1>3. \A x : x \in Cursors(L) <=> x \in Values(c, n)
  BY CursorsShape
<1>4. Nodes(L) = Node(cap)
  BY DEF IsRep, Nodes, Prv
<1> HIDE DEF n, m
<1>5. NodesIn(c) = Values(c, n) /\ NodesIn(f) = Values(f, m)
  BY <1>2 DEF NodesIn, Values
<1>9. Distinct(c, n, Node(cap)) /\ Distinct(f, m, Node(cap))
  BY <1>2 DEF Distinct
<1>6. Cardinality(Values(c, n)) = n
  BY <1>9, DistinctValues
<1>7. Cardinality(Values(f, m)) = m
  BY <1>9, DistinctValues
<1>8. ASSUME NEW x, x \in Values(f, m) PROVE x \in Node(cap) /\ x \notin Cursors(L)
  <2>1. PICK k \in 1..m : x = f[k]
    BY <1>8, ValuesMember
  <2> QED BY <1>2, <2>1, CursorsFields
<1> QED BY <1>1, <1>2, <1>3, <1>4, <1>5, <1>6, <1>7, <1>8 DEF n, m

(* WellLinked, for one list.                                               *)
Linkage(L) ==
  LET n == L.Length
      c == Chain(L) IN
  /\ Cardinality(NodesIn(c)) = n
  /\ NodesIn(c) = Cursors(L)
  /\ IF n = 0 THEN L.First = 0 /\ L.Last = 0
     ELSE c[n] = L.Last /\ L.Next[L.Last] = 0 /\ L.Prev[L.First] = 0
  /\ \A k \in 2..n : L.Prev[c[k]] = c[k - 1]

(* NoNodeLost, for one list.                                               *)
Stock(L) ==
  LET f == FreeChain(L) IN
  /\ NodesIn(f) = Nodes(L) \ Cursors(L)
  /\ Cardinality(NodesIn(f)) = L.Capacity - L.Length
  /\ L.Free >= 0 =>
       IF f = <<>> THEN L.Free = 0 ELSE L.Next[f[Len(f)]] = 0

(* A good list is well linked.                                             *)
LEMMA GoodLinkage ==
  ASSUME NEW L, NEW cap, NEW E, Good(L, cap, E)
  PROVE  Linkage(L)
<1> DEFINE n == Lng(L)
           m == cap - Lng(L)
<1>1. IsRep(L, cap, E) /\ n \in Nat
  BY GoodNumbers
<1>2. PICK c, f : Shape(L, cap, c, n, f, m, {})
  BY DEF Good
<1>3. Chain(L) = c
  BY <1>1, <1>2, Chains
<1>4. /\ NodesIn(Chain(L)) = Values(c, n) /\ Cardinality(Values(c, n)) = n
      /\ \A x : x \in Values(c, n) <=> x \in Cursors(L)
  BY <1>1, <1>2, ChainFacts
<1> HIDE DEF n, m
<1>5. NodesIn(c) = Cursors(L) /\ Cardinality(NodesIn(c)) = n
  BY <1>3, <1>4
<1>6. Segment(Nxt(L), Prv(L), c, n) /\ (n = 0 => Fst(L) = 0 /\ Lst(L) = 0)
      /\ (n # 0 => Fst(L) = c[1] /\ Lst(L) = c[n])
  BY <1>2 DEF Shape, Active
<1>7. n # 0 => c[n] = Lst(L) /\ Nxt(L)[Lst(L)] = 0 /\ Prv(L)[Fst(L)] = 0
  <2> SUFFICES ASSUME n # 0 PROVE c[n] = Lst(L) /\ Nxt(L)[Lst(L)] = 0 /\ Prv(L)[Fst(L)] = 0
    OBVIOUS
  <2>1. 1 \in 1..n /\ n \in 1..n
    BY <1>1
  <2>2. Nxt(L)[c[n]] = (IF n = n THEN 0 ELSE c[n + 1]) /\ Prv(L)[c[1]] = (IF 1 = 1 THEN 0 ELSE c[1 - 1])
    BY <1>6, <2>1 DEF Segment
  <2> QED BY <1>6, <2>2
<1>8. \A k \in 2..n : Prv(L)[c[k]] = c[k - 1]
  <2> SUFFICES ASSUME NEW k \in 2..n PROVE Prv(L)[c[k]] = c[k - 1]
    OBVIOUS
  <2>1. k \in 1..n /\ k # 1
    BY <1>1
  <2> QED BY <1>6, <2>1 DEF Segment
<1> QED BY <1>3, <1>5, <1>6, <1>7, <1>8 DEF Linkage, n, Lng, Fst, Lst, Prv, Nxt

(* A good list has lost no node.                                           *)
LEMMA GoodStock ==
  ASSUME NEW L, NEW cap, NEW E, Good(L, cap, E)
  PROVE  Stock(L)
<1> DEFINE n == Lng(L)
           m == cap - Lng(L)
<1>1. IsRep(L, cap, E) /\ n \in Nat /\ m \in Nat
  BY GoodNumbers
<1>2. PICK c, f : Shape(L, cap, c, n, f, m, {})
  BY DEF Good
<1>3. FreeChain(L) = f
  BY <1>1, <1>2, Chains
<1>4. /\ NodesIn(FreeChain(L)) = Values(f, m) /\ Cardinality(Values(f, m)) = m
      /\ \A x : x \in Values(f, m) <=> x \in Nodes(L) /\ x \notin Cursors(L)
  BY <1>1, <1>2, ChainFacts
<1> HIDE DEF n, m
<1>5. NodesIn(f) = Nodes(L) \ Cursors(L) /\ Cardinality(NodesIn(f)) = m
  BY <1>3, <1>4
<1>6. Store(L, cap, f, m) /\ f \in [1..m -> Node(cap)]
  BY <1>2 DEF Shape, Store
<1>7. L.Capacity - L.Length = m
  BY <1>1 DEF IsRep, Cap, Lng, m
<1>8. Fre(L) >= 0 => IF f = <<>> THEN Fre(L) = 0 ELSE Nxt(L)[f[Len(f)]] = 0
  <2> SUFFICES ASSUME Fre(L) >= 0 PROVE IF f = <<>> THEN Fre(L) = 0 ELSE Nxt(L)[f[Len(f)]] = 0
    OBVIOUS
  <2>1. Chained(L, f, m)
    BY <1>6 DEF Store
  <2>2. f \in Seq(Node(cap)) /\ Len(f) = m
    BY <1>1, <1>6
  <2>3. f = <<>> <=> m = 0
    BY <1>1, <2>2
  <2>4. m # 0 => m \in 1..m
    BY <1>1
  <2> QED BY <2>1, <2>2, <2>3, <2>4 DEF Chained
<1> QED BY <1>3, <1>5, <1>7, <1>8 DEF Stock, Fre, Nxt

-----------------------------------------------------------------------------
(* The checks of Vet, one place of the chain at a time.                    *)

(* The active chain of a list that is not empty, without its free store.   *)
Ring(L, cap, c, n) ==
  /\ cap \in Nat /\ n \in Nat /\ n # 0 /\ Lng(L) = n /\ Cap(L) = cap /\ Nodes(L) = Node(cap)
  /\ c \in [1..n -> Node(cap)]
  /\ Segment(Nxt(L), Prv(L), c, n)
  /\ Fst(L) = c[1] /\ Lst(L) = c[n]

(* The neighbours of a place in the chain.                                 *)
LEMMA RingFacts ==
  ASSUME NEW L, NEW cap, NEW c, NEW n, Ring(L, cap, c, n), NEW i \in 1..n
  PROVE  /\ c[i] \in Node(cap) /\ c[i] # 0
         /\ i # n => /\ i + 1 \in 1..n /\ Nxt(L)[c[i]] = c[i + 1] /\ Prv(L)[c[i + 1]] = c[i]
                     /\ c[i] # Lst(L)
         /\ i = n => Nxt(L)[c[i]] = 0 /\ c[i] = Lst(L)
         /\ i # 1 => /\ i - 1 \in 1..n /\ Prv(L)[c[i]] = c[i - 1] /\ Nxt(L)[c[i - 1]] = c[i]
                     /\ c[i] # Fst(L)
         /\ i = 1 => Prv(L)[c[i]] = 0 /\ c[i] = Fst(L)
<1> n \in Nat /\ n # 0 /\ cap \in Nat /\ 1 \in 1..n /\ n \in 1..n
  BY DEF Ring
<1>1. c \in [1..n -> Node(cap)] /\ Fst(L) = c[1] /\ Lst(L) = c[n]
  BY DEF Ring
<1>2. /\ \A k, j \in 1..n : k # j => c[k] # c[j]
      /\ \A k \in 1..n : Nxt(L)[c[k]] = IF k = n THEN 0 ELSE c[k + 1]
      /\ \A k \in 1..n : Prv(L)[c[k]] = IF k = 1 THEN 0 ELSE c[k - 1]
  BY DEF Ring, Segment
<1>3. c[i] \in Node(cap) /\ c[i] # 0
  BY <1>1, NodeNumbers
<1>4. i # n => /\ i + 1 \in 1..n /\ Nxt(L)[c[i]] = c[i + 1] /\ Prv(L)[c[i + 1]] = c[i]
               /\ c[i] # Lst(L)
  <2> SUFFICES ASSUME i # n
               PROVE  /\ i + 1 \in 1..n /\ Nxt(L)[c[i]] = c[i + 1] /\ Prv(L)[c[i + 1]] = c[i]
                      /\ c[i] # Lst(L)
    OBVIOUS
  <2>1. i + 1 \in 1..n /\ i + 1 # 1 /\ (i + 1) - 1 = i
    OBVIOUS
  <2> QED BY <1>1, <1>2, <2>1
<1>5. i # 1 => /\ i - 1 \in 1..n /\ Prv(L)[c[i]] = c[i - 1] /\ Nxt(L)[c[i - 1]] = c[i]
               /\ c[i] # Fst(L)
  <2> SUFFICES ASSUME i # 1
               PROVE  /\ i - 1 \in 1..n /\ Prv(L)[c[i]] = c[i - 1] /\ Nxt(L)[c[i - 1]] = c[i]
                      /\ c[i] # Fst(L)
    OBVIOUS
  <2>1. i - 1 \in 1..n /\ i - 1 # n /\ (i - 1) + 1 = i
    OBVIOUS
  <2> QED BY <1>1, <1>2, <2>1
<1>6. (i = n => Nxt(L)[c[i]] = 0 /\ c[i] = Lst(L)) /\ (i = 1 => Prv(L)[c[i]] = 0 /\ c[i] = Fst(L))
  BY <1>1, <1>2
<1> QED BY <1>3, <1>4, <1>5, <1>6

(* Vet without the set of the two ends.                                    *)
Vetted(L, cap, n, p) ==
  LET N == Nxt(L)
      P == Prv(L) IN
  /\ n # 0 /\ Fst(L) # 0 /\ Lst(L) # 0
  /\ p \in Nodes(L) /\ P[p] \in 0..cap /\ N[p] <= cap
  /\ P[Fst(L)] = 0 /\ N[Lst(L)] = 0
  /\ P[p] = 0 => p = Fst(L)
  /\ N[p] = 0 => p = Lst(L)
  /\ n = 1 <=> Fst(L) = Lst(L)
  /\ n > 1 =>
       /\ N[Fst(L)] # 0 /\ P[N[Fst(L)]] = Fst(L)
       /\ P[Lst(L)] # 0 /\ N[P[Lst(L)]] = Lst(L)
       /\ n = 2 <=> N[Fst(L)] = Lst(L)
       /\ n = 2 <=> P[Lst(L)] = Fst(L)
  /\ n > 2 /\ p # Fst(L) /\ p # Lst(L) =>
       /\ N[p] # 0 /\ P[N[p]] = p
       /\ P[p] # 0 /\ N[P[p]] = p
       /\ n = 3 => N[Fst(L)] = p /\ P[Lst(L)] = p

(* Vet accepts every place of the chain.                                   *)
LEMMA RingVetted ==
  ASSUME NEW L, NEW cap, NEW c, NEW n, Ring(L, cap, c, n), NEW i \in 1..n
  PROVE  Vetted(L, cap, n, c[i])
<1> DEFINE p == c[i]
           N == Nxt(L)
           P == Prv(L)
<1> n \in Nat /\ n # 0 /\ cap \in Nat /\ 1 \in 1..n /\ n \in 1..n
  BY DEF Ring
<1>1. Fst(L) = c[1] /\ Lst(L) = c[n] /\ Nodes(L) = Node(cap)
  BY DEF Ring
<1>2. \A k \in 1..n : c[k] \in Node(cap) /\ c[k] # 0 /\ c[k] \in 0..cap /\ c[k] <= cap
  <2>1. \A k \in 1..n : c[k] \in Node(cap) /\ c[k] # 0
    BY RingFacts
  <2> QED BY <2>1 DEF Node
<1>3. P[Fst(L)] = 0 /\ N[Lst(L)] = 0 /\ Fst(L) # 0 /\ Lst(L) # 0
  BY <1>1, <1>2, RingFacts
<1>4. P[p] \in 0..cap /\ (P[p] = 0 => p = Fst(L))
  BY <1>2, RingFacts
<1>5. N[p] <= cap /\ (N[p] = 0 => p = Lst(L))
  BY <1>2, RingFacts
<1>6. n = 1 <=> Fst(L) = Lst(L)
  BY <1>1, RingFacts
<1>7. ASSUME n > 1
      PROVE  /\ N[Fst(L)] = c[2] /\ 2 \in 1..n /\ P[c[2]] = Fst(L)
             /\ P[Lst(L)] = c[n - 1] /\ n - 1 \in 1..n /\ N[c[n - 1]] = Lst(L)
             /\ n = 2 <=> c[2] = Lst(L)
             /\ n = 2 <=> c[n - 1] = Fst(L)
  <2>1. 1 # n /\ 1 + 1 = 2
    BY <1>7
  <2>2. /\ 2 \in 1..n /\ N[c[1]] = c[2] /\ P[c[2]] = c[1]
    BY <2>1, RingFacts
  <2>3. /\ n - 1 \in 1..n /\ P[c[n]] = c[n - 1] /\ N[c[n - 1]] = c[n]
    BY <2>1, RingFacts
  <2>4. n = 2 <=> c[2] = Lst(L)
    BY <2>2, RingFacts
  <2>5. n = 2 <=> c[n - 1] = Fst(L)
    <3> DEFINE j == n - 1
    <3>1. j \in 1..n /\ (n = 2 <=> j = 1)
      BY <2>3
    <3> HIDE DEF j
    <3>2. j = 1 <=> c[j] = Fst(L)
      BY <3>1, RingFacts
    <3> QED BY <3>1, <3>2 DEF j
  <2> QED BY <1>1, <2>2, <2>3, <2>4, <2>5
<1>8. ASSUME n > 2, p # Fst(L), p # Lst(L)
      PROVE  /\ N[p] # 0 /\ P[N[p]] = p
             /\ P[p] # 0 /\ N[P[p]] = p
             /\ n = 3 => N[Fst(L)] = p /\ P[Lst(L)] = p
  <2>1. i # 1 /\ i # n
    BY <1>1, <1>8
  <2>2. /\ i + 1 \in 1..n /\ N[p] = c[i + 1] /\ P[c[i + 1]] = p
        /\ i - 1 \in 1..n /\ P[p] = c[i - 1] /\ N[c[i - 1]] = p
    BY <2>1, RingFacts
  <2>3. n = 3 => i = 2 /\ n - 1 = 2
    BY <2>1
  <2> QED BY <1>2, <1>7, <1>8, <2>2, <2>3
<1>9. p \in Nodes(L)
  BY <1>1, <1>2
<1>10. ASSUME n > 1
       PROVE  /\ N[Fst(L)] # 0 /\ P[N[Fst(L)]] = Fst(L)
              /\ P[Lst(L)] # 0 /\ N[P[Lst(L)]] = Lst(L)
              /\ n = 2 <=> N[Fst(L)] = Lst(L)
              /\ n = 2 <=> P[Lst(L)] = Fst(L)
  BY <1>2, <1>7, <1>10
<1> HIDE DEF p, N, P
<1>11. n > 1 =>
       /\ N[Fst(L)] # 0 /\ P[N[Fst(L)]] = Fst(L)
       /\ P[Lst(L)] # 0 /\ N[P[Lst(L)]] = Lst(L)
       /\ n = 2 <=> N[Fst(L)] = Lst(L)
       /\ n = 2 <=> P[Lst(L)] = Fst(L)
  BY <1>10
<1>12. n > 2 /\ p # Fst(L) /\ p # Lst(L) =>
       /\ N[p] # 0 /\ P[N[p]] = p
       /\ P[p] # 0 /\ N[P[p]] = p
       /\ n = 3 => N[Fst(L)] = p /\ P[Lst(L)] = p
  BY <1>8
<1> QED BY <1>3, <1>4, <1>5, <1>6, <1>9, <1>11, <1>12 DEF Vetted, p, N, P

(* Vet accepts every cursor of a good list.                                *)
LEMMA GoodVet ==
  ASSUME NEW L, NEW cap, NEW E, Good(L, cap, E), NEW p, p \in Cursors(L)
  PROVE  Vet(L, p)
<1> DEFINE n == Lng(L)
           m == cap - Lng(L)
<1>1. IsRep(L, cap, E) /\ n \in Nat /\ cap \in Nat
  BY GoodNumbers
<1>2. PICK c, f : Shape(L, cap, c, n, f, m, {})
  BY DEF Good
<1>3. p \in Values(c, n)
  BY <1>1, <1>2, CursorsShape
<1>4. PICK i \in 1..n : p = c[i]
  BY <1>3, ValuesMember
<1>5. Nodes(L) = Node(cap) /\ Cap(L) = cap
  BY <1>1 DEF IsRep, Nodes, Prv
<1>6. Ring(L, cap, c, n)
  BY <1>1, <1>2, <1>5 DEF Ring, Shape, Active
<1>7. Vetted(L, cap, n, p)
  BY <1>4, <1>6, RingVetted
<1>8. L.Length = n /\ L.Capacity = cap
  BY <1>5 DEF Lng, Cap
<1> HIDE DEF n
<1> QED BY <1>7, <1>8 DEF Vet, Vetted, Fst, Lst, Nxt, Prv

-----------------------------------------------------------------------------
(* The inductive invariant of the program, and its steps.                  *)

(* Every list is good, for its own capacity.                               *)
GoodLists(state) ==
  /\ DOMAIN state = Lists
  /\ \A l \in Lists : Good(state[l], Capacity[l], Elements)

(* The inductive invariant. The walks of the checked invariants say        *)
(* little about a list in the middle of an operation; a chain and a store  *)
(* that exist can be followed through every link that is written.          *)
IInv == GoodLists(list) /\ Position \in Nat

(* A call that changes one list.                                           *)
LEMMA KeepOne ==
  ASSUME IInv, NEW l, l \in Lists, NEW R, list' = [list EXCEPT ![l] = R],
         Good(R, Capacity[l], Elements), Position' \in Nat
  PROVE  IInv'
<1>1. DOMAIN list' = Lists /\ \A x \in Lists : list'[x] = IF x = l THEN R ELSE list[x]
  BY DEF IInv, GoodLists
<1>2. \A x \in Lists : Good(list'[x], Capacity[x], Elements)
  BY <1>1 DEF IInv, GoodLists
<1> QED BY <1>1, <1>2 DEF IInv, GoodLists

(* A call that changes two lists.                                          *)
LEMMA KeepTwo ==
  ASSUME IInv, NEW t, t \in Lists, NEW s, s \in Lists, t # s,
         NEW R, list' = [list EXCEPT ![t] = R.t, ![s] = R.s],
         Good(R.t, Capacity[t], Elements), Good(R.s, Capacity[s], Elements), Position' \in Nat
  PROVE  IInv'
<1>1. /\ DOMAIN list' = Lists
      /\ \A x \in Lists : list'[x] = IF x = s THEN R.s ELSE IF x = t THEN R.t ELSE list[x]
  BY DEF IInv, GoodLists
<1>2. \A x \in Lists : Good(list'[x], Capacity[x], Elements)
  BY <1>1 DEF IInv, GoodLists
<1> QED BY <1>1, <1>2 DEF IInv, GoodLists

(* What the invariant says of one list.                                    *)
LEMMA ListFacts ==
  ASSUME IInv, NEW l, l \in Lists
  PROVE  /\ Good(list[l], Capacity[l], Elements)
         /\ Capacity[l] \in Nat /\ Capacity[l] > 0
         /\ list[l].Length = Lng(list[l]) /\ Lng(list[l]) \in Nat /\ Lng(list[l]) <= Capacity[l]
         /\ list[l].Capacity = Capacity[l] /\ Room(l) = Capacity[l] - Lng(list[l])
         /\ \A x : x \in Cursors(list[l]) => x \in Node(Capacity[l]) /\ x \in Nat
<1>1. Good(list[l], Capacity[l], Elements)
  BY DEF IInv, GoodLists
<1>2. IsRep(list[l], Capacity[l], Elements) /\ Lng(list[l]) \in Nat /\ Lng(list[l]) <= Capacity[l]
  BY <1>1, GoodNumbers
<1>3. Capacity[l] \in Nat /\ Capacity[l] > 0
  BY ListPairAssumption
<1>4. \A x : x \in Cursors(list[l]) => x \in Node(Capacity[l]) /\ x \in Nat
  BY <1>2, <1>3, CursorsFields, NodeNumbers
<1>5. list[l].Capacity = Capacity[l] /\ list[l].Length = Lng(list[l])
  BY <1>2 DEF IsRep, Cap, Lng
<1> QED BY <1>1, <1>2, <1>3, <1>4, <1>5 DEF Room

(* The cursor that Insert returns is a number, for any count.              *)
LEMMA InsertedCursor ==
  ASSUME NEW L, NEW cap, NEW E, Good(L, cap, E), NEW before, before \in Cursors(L) \/ before = 0,
         NEW e, e \in E, NEW count, count \in Nat, Lng(L) + count <= cap
  PROVE  Inserted(L, before, e, count) \in Nat
<1>1. cap \in Nat /\ Lng(L) \in Nat
  BY GoodNumbers
<1>2. CASE count = 0
  <2>1. before \in Nat
    BY <1>1, GoodEnds, NodeNumbers
  <2> QED BY <1>2, <2>1 DEF Inserted
<1>3. CASE count # 0
  <2>1. Lng(L) < cap
    BY <1>1, <1>3
  <2>2. Allocate(L, e).node \in Node(cap)
    BY <2>1, GoodInsertOne
  <2> QED BY <1>1, <1>3, <2>2, NodeNumbers DEF Inserted
<1> QED BY <1>2, <1>3

(* The declared lists are good.                                            *)
LEMMA InitIInv ==
  ASSUME Init PROVE IInv
<1>1. PICK e \in Elements : list = [l \in Lists |-> Empty_List(Capacity[l], e)]
  BY DEF Init
<1>2. DOMAIN list = Lists
  BY <1>1
<1>3. ASSUME NEW l \in Lists PROVE Good(list[l], Capacity[l], Elements)
  <2>1. list[l] = Empty_List(Capacity[l], e) /\ Capacity[l] \in Nat
    BY <1>1, ListPairAssumption
  <2> QED BY <2>1, GoodEmpty
<1>4. Position \in Nat
  BY DEF Init, No_Element
<1> QED BY <1>2, <1>3, <1>4 DEF IInv, GoodLists

(* The calls with one list, one step each.                                 *)
LEMMA OneListKeepsIInv ==
  ASSUME IInv, NEW l, l \in Lists, OneList(l)
  PROVE  IInv'
<1> DEFINE L == list[l]
           cap == Capacity[l]
           n == Lng(list[l])
<1>1. /\ Good(L, cap, Elements) /\ cap \in Nat /\ L.Length = n /\ n \in Nat /\ n <= cap
      /\ Room(l) = cap - n /\ \A x : x \in Cursors(L) => x \in Node(cap) /\ x \in Nat
  BY ListFacts
<1>2. No_Element = 0 /\ 0 \in Nat
  BY DEF No_Element
<1> HIDE DEF cap, n
<1>3. CASE Insert_(l)
  <2>1. PICK before \in Before(l), e \in Elements, count \in 0..Room(l) :
          /\ list' = [list EXCEPT ![l] = Insert(L, before, e, count)]
          /\ Position' = Inserted(L, before, e, count)
    BY <1>3 DEF Insert_
  <2>2. count \in Nat /\ n + count <= cap /\ (before \in Cursors(L) \/ before = 0)
    BY <1>1, <1>2 DEF Before
  <2>3. Good(Insert(L, before, e, count), cap, Elements)
    BY <1>1, <2>2, GoodInsert DEF n
  <2>4. Position' \in Nat
    BY <1>1, <2>1, <2>2, InsertedCursor DEF n
  <2> QED BY <2>1, <2>3, <2>4, KeepOne DEF cap
<1>4. CASE Prepend_(l)
  <2>1. PICK e \in Elements, count \in 1..Room(l) :
          /\ list' = [list EXCEPT ![l] = Insert(L, L.First, e, count)]
          /\ Position' = Inserted(L, L.First, e, count)
    BY <1>4 DEF Prepend_
  <2> DEFINE before == Fst(L)
  <2>2. count \in Nat /\ n + count <= cap
    BY <1>1
  <2>3. before \in Cursors(L) \/ before = 0
    BY <1>1, GoodEnds
  <2>4. list' = [list EXCEPT ![l] = Insert(L, before, e, count)] /\ Position' = Inserted(L, before, e, count)
    BY <2>1 DEF Fst
  <2> HIDE DEF before
  <2>5. Good(Insert(L, before, e, count), cap, Elements)
    BY <1>1, <2>2, <2>3, GoodInsert DEF n
  <2>6. Position' \in Nat
    BY <1>1, <2>2, <2>3, <2>4, InsertedCursor DEF n
  <2> QED BY <2>4, <2>5, <2>6, KeepOne DEF cap
<1>5. CASE Delete_(l)
  <2>1. PICK position \in Cursors(L), count \in 0..L.Length : Becomes(l, Delete(L, position, count))
    BY <1>5 DEF Delete_
  <2>2. count \in Nat
    BY <1>1
  <2>3. Good(Delete(L, position, count), cap, Elements)
    BY <1>1, <2>2, GoodDelete
  <2> QED BY <1>2, <2>1, <2>3, KeepOne DEF cap, Becomes
<1>6. CASE Delete_First_(l)
  <2>1. PICK count \in 1..L.Length : Becomes(l, Delete_First(L, count))
    BY <1>6 DEF Delete_First_
  <2>2. count \in Nat
    BY <1>1
  <2>3. Good(Delete_First(L, count), cap, Elements)
    BY <1>1, <2>2, GoodDeleteFirst
  <2> QED BY <1>2, <2>1, <2>3, KeepOne DEF cap, Becomes
<1>7. CASE Delete_Last_(l)
  <2>1. PICK count \in 1..L.Length : Becomes(l, Delete_Last(L, count))
    BY <1>7 DEF Delete_Last_
  <2>2. count \in Nat
    BY <1>1
  <2>3. Good(Delete_Last(L, count), cap, Elements)
    BY <1>1, <2>2, GoodDeleteLast
  <2> QED BY <1>2, <2>1, <2>3, KeepOne DEF cap, Becomes
<1>8. CASE Clear_(l)
  <2>1. Becomes(l, Clear(L))
    BY <1>8 DEF Clear_
  <2>2. Good(Clear(L), cap, Elements)
    BY <1>1, GoodClear
  <2> QED BY <1>2, <2>1, <2>2, KeepOne DEF cap, Becomes
<1>9. CASE Replace_Element_(l)
  <2>1. PICK position \in Cursors(L), e \in Elements : Becomes(l, Replace_Element(L, position, e))
    BY <1>9 DEF Replace_Element_
  <2>2. Good(Replace_Element(L, position, e), cap, Elements)
    BY <1>1, GoodReplaceElement
  <2> QED BY <1>2, <2>1, <2>2, KeepOne DEF cap, Becomes
<1>10. CASE Swap_(l)
  <2>1. PICK i \in Cursors(L), j \in Cursors(L) : Becomes(l, Swap(L, i, j))
    BY <1>10 DEF Swap_
  <2>2. Good(Swap(L, i, j), cap, Elements)
    BY <1>1, GoodSwap
  <2> QED BY <1>2, <2>1, <2>2, KeepOne DEF cap, Becomes
<1>11. CASE SwapLinks_(l)
  <2>1. PICK i \in Cursors(L), j \in Cursors(L) : Becomes(l, Swap_Links(L, i, j))
    BY <1>11 DEF SwapLinks_
  <2>2. Good(Swap_Links(L, i, j), cap, Elements)
    BY <1>1, GoodSwapLinks
  <2> QED BY <1>2, <2>1, <2>2, KeepOne DEF cap, Becomes
<1>12. CASE SpliceWithin_(l)
  <2>1. PICK before \in Before(l), position \in Cursors(L) : Becomes(l, SpliceWithin(L, before, position))
    BY <1>12 DEF SpliceWithin_
  <2>2. before \in Cursors(L) \/ before = 0
    BY <1>2 DEF Before
  <2>3. Good(SpliceWithin(L, before, position), cap, Elements)
    BY <1>1, <2>2, GoodSpliceWithin
  <2> QED BY <1>2, <2>1, <2>3, KeepOne DEF cap, Becomes
<1>13. CASE Reverse_(l)
  <2>1. Becomes(l, Reverse_Elements(L))
    BY <1>13 DEF Reverse_
  <2>2. Good(Reverse_Elements(L), cap, Elements)
    BY <1>1, GoodReverse
  <2> QED BY <1>2, <2>1, <2>2, KeepOne DEF cap, Becomes
<1>14. CASE Sort_(l)
  <2>1. Becomes(l, Sort(L))
    BY <1>14 DEF Sort_
  <2>2. Good(Sort(L), cap, Elements)
    BY <1>1, GoodSort
  <2> QED BY <1>2, <2>1, <2>2, KeepOne DEF cap, Becomes
<1> QED
  BY <1>3, <1>4, <1>5, <1>6, <1>7, <1>8, <1>9, <1>10, <1>11, <1>12, <1>13, <1>14 DEF OneList

(* The calls with a target and a source, one step each.                    *)
LEMMA TwoListsKeepsIInv ==
  ASSUME IInv, NEW t, t \in Lists, NEW s, s \in Lists, t # s, TwoLists(t, s)
  PROVE  IInv'
<1> DEFINE T == list[t]
           S == list[s]
           cap == Capacity[t]
           cap2 == Capacity[s]
<1>1. /\ Good(T, cap, Elements) /\ cap \in Nat /\ T.Length = Lng(T) /\ Lng(T) \in Nat
      /\ Lng(T) <= cap /\ T.Capacity = cap /\ Room(t) = cap - Lng(T)
  BY ListFacts
<1>2. /\ Good(S, cap2, Elements) /\ cap2 \in Nat /\ cap2 > 0 /\ S.Length = Lng(S) /\ Lng(S) \in Nat
      /\ Lng(S) <= cap2 /\ S.Capacity = cap2
  BY ListFacts
<1>3. No_Element = 0 /\ 0 \in Nat
  BY DEF No_Element
<1> HIDE DEF cap, cap2
<1>4. CASE Assign_(t, s)
  <2>1. Lng(S) <= cap /\ Becomes(t, Assign(T, S))
    BY <1>1, <1>2, <1>4 DEF Assign_
  <2>2. Good(Assign(T, S), cap, Elements)
    BY <1>1, <1>2, <2>1, GoodAssign
  <2> QED BY <1>3, <2>1, <2>2, KeepOne DEF cap, Becomes
<1>5. CASE Copy_(t, s)
  <2>1. cap2 <= cap /\ Becomes(t, Copy(S, cap))
    BY <1>1, <1>2, <1>5 DEF Copy_
  <2>2. Good(Copy(S, cap), cap, Elements)
    BY <1>1, <1>2, <2>1, GoodCopy
  <2> QED BY <1>3, <2>1, <2>2, KeepOne DEF cap, Becomes
<1>6. CASE Move_(t, s)
  <2> DEFINE R == Move(T, S)
  <2>1. Lng(S) <= cap /\ BecomePair(t, s, R)
    BY <1>1, <1>2, <1>6 DEF Move_
  <2>2. Good(R.t, cap, Elements) /\ Good(R.s, cap2, Elements)
    BY <1>1, <1>2, <2>1, GoodMove
  <2> HIDE DEF R
  <2> QED BY <1>3, <2>1, <2>2, KeepTwo DEF cap, cap2, BecomePair
<1>7. CASE SpliceOne_(t, s)
  <2>1. PICK before \in Before(t), position \in Cursors(S) :
          /\ list' = [list EXCEPT ![t] = SpliceOne(T, before, S, position).t,
                                  ![s] = SpliceOne(T, before, S, position).s]
          /\ Position' = Inserted(T, before, S.Element[position], 1)
    BY <1>7 DEF SpliceOne_
  <2> DEFINE R == SpliceOne(T, before, S, position)
             e == S.Element[position]
  <2>2. Lng(T) < cap /\ (before \in Cursors(T) \/ before = 0)
    BY <1>1, <1>3, <1>7 DEF SpliceOne_, Before
  <2>3. Good(R.t, cap, Elements) /\ Good(R.s, cap2, Elements)
    BY <1>1, <1>2, <2>2, GoodSpliceOne
  <2>4. e \in Elements
    <3>1. IsRep(S, cap2, Elements) /\ position \in Node(cap2)
      BY <1>2, GoodNumbers, CursorsFields
    <3> QED BY <3>1 DEF IsRep, Elm
  <2> HIDE DEF R, e
  <2>5. Lng(T) + 1 <= cap /\ 1 \in Nat
    BY <1>1, <2>2
  <2>6. Inserted(T, before, e, 1) \in Nat
    BY <1>1, <2>2, <2>4, <2>5, InsertedCursor
  <2>7. list' = [list EXCEPT ![t] = R.t, ![s] = R.s] /\ Position' \in Nat
    BY <2>1, <2>6 DEF R, e
  <2> QED BY <2>3, <2>7, KeepTwo DEF cap, cap2
<1>8. CASE SpliceAll_(t, s)
  <2>1. PICK before \in Before(t) : BecomePair(t, s, SpliceAll(T, before, S))
    BY <1>8 DEF SpliceAll_
  <2> DEFINE R == SpliceAll(T, before, S)
  <2>2. Lng(T) + Lng(S) <= cap /\ (before \in Cursors(T) \/ before = 0)
    BY <1>1, <1>2, <1>3, <1>8 DEF SpliceAll_, Before
  <2>3. Good(R.t, cap, Elements) /\ Good(R.s, cap2, Elements)
    BY <1>1, <1>2, <2>2, GoodSpliceAll
  <2> HIDE DEF R
  <2>4. BecomePair(t, s, R)
    BY <2>1 DEF R
  <2> QED BY <1>3, <2>3, <2>4, KeepTwo DEF cap, cap2, BecomePair
<1>9. CASE Merge_(t, s)
  <2> DEFINE R == Merge(T, S)
  <2>1. Lng(T) + Lng(S) <= cap /\ BecomePair(t, s, R)
    BY <1>1, <1>2, <1>9 DEF Merge_
  <2>2. Good(R.t, cap, Elements) /\ Good(R.s, cap2, Elements)
    BY <1>1, <1>2, <2>1, GoodMerge
  <2> HIDE DEF R
  <2> QED BY <1>3, <2>1, <2>2, KeepTwo DEF cap, cap2, BecomePair
<1> QED
  BY <1>4, <1>5, <1>6, <1>7, <1>8, <1>9 DEF TwoLists

(* Every step keeps the invariant.                                         *)
LEMMA StepKeepsIInv ==
  ASSUME IInv, [Next]_vars PROVE IInv'
<1>1. ASSUME NEW l \in Lists, OneList(l) PROVE IInv'
  BY <1>1, OneListKeepsIInv
<1>2. ASSUME NEW t \in Lists, NEW s \in Lists, t # s, TwoLists(t, s) PROVE IInv'
  BY <1>2, TwoListsKeepsIInv
<1>3. CASE UNCHANGED vars
  BY <1>3 DEF vars, IInv, GoodLists
<1> QED BY <1>1, <1>2, <1>3 DEF Next

(* In every state that the program can reach, every list is good: its      *)
(* links are those of one chain of Length different active nodes, and all  *)
(* its other nodes are in the free store. No sequence of calls whose       *)
(* preconditions hold breaks a list, for any number of lists, any          *)
(* capacities and any set of elements.                                     *)
THEOREM Inductive == Spec => []IInv
<1>1. Init => IInv
  BY InitIInv
<1>2. IInv /\ [Next]_vars => IInv'
  BY StepKeepsIInv
<1> QED BY <1>1, <1>2, PTL DEF Spec

(* The type invariant is part of it.                                       *)
LEMMA IInvTypeOK ==
  ASSUME IInv PROVE TypeOK
<1>1. ASSUME NEW l \in Lists
      PROVE  LET L == list[l] IN
             /\ L.Capacity = Capacity[l]
             /\ L.Free \in -(L.Capacity + 1)..L.Capacity
             /\ L.Length \in 0..L.Capacity
             /\ L.First \in 0..L.Capacity /\ L.Last \in 0..L.Capacity
             /\ L.Prev \in [1..L.Capacity -> -1..L.Capacity]
             /\ L.Next \in [1..L.Capacity -> 0..L.Capacity]
             /\ L.Element \in [1..L.Capacity -> Elements]
  <2> DEFINE L == list[l]
             cap == Capacity[l]
  <2>1. IsRep(L, cap, Elements) /\ cap \in Nat
    BY ListFacts, GoodNumbers
  <2> HIDE DEF L, cap
  <2>2. Node(cap) = 1..cap /\ 1..cap \cup {0} = 0..cap /\ 1..cap \cup {0, -1} = -1..cap
    BY <2>1 DEF Node
  <2>3. /\ L.Capacity = cap /\ L.Free \in -(cap + 1)..cap
        /\ L.Length \in 0..cap /\ L.First \in 1..cap \cup {0} /\ L.Last \in 1..cap \cup {0}
        /\ L.Prev \in [1..cap -> 1..cap \cup {0, -1}] /\ L.Next \in [1..cap -> 1..cap \cup {0}]
        /\ L.Element \in [1..cap -> Elements]
    BY <2>1, <2>2 DEF IsRep, Cap, Fre, Lng, Fst, Lst, Prv, Nxt, Elm
  <2> QED BY <2>2, <2>3 DEF L, cap
<1> QED BY <1>1 DEF TypeOK, IInv

(* The components of the lists stay in the ranges that their Ada types     *)
(* and the documented meaning of Free give them.                           *)
THEOREM ListTypes == Spec => []TypeOK
BY Inductive, IInvTypeOK, PTL

(* First leads to Last over Length different nodes, which are exactly the  *)
(* nodes with Has_Element, and Prev is the way back.                       *)
THEOREM ListsWellLinked == Spec => []WellLinked
<1>1. ASSUME IInv PROVE WellLinked
  <2>1. \A l \in Lists : Linkage(list[l])
    BY <1>1, ListFacts, GoodLinkage
  <2> QED BY <2>1 DEF WellLinked, Linkage
<1> QED BY <1>1, Inductive, PTL

(* Every other node is on the free store, once, and the chain of free      *)
(* nodes ends where it should: no node is leaked by any sequence of        *)
(* calls, or handed out twice.                                             *)
THEOREM FreeNodesKept == Spec => []NoNodeLost
<1>1. ASSUME IInv PROVE NoNodeLost
  <2>1. \A l \in Lists : Stock(list[l])
    BY <1>1, ListFacts, GoodStock
  <2> QED BY <2>1 DEF NoNodeLost, Stock
<1> QED BY <1>1, Inductive, PTL

(* The checks that the body makes of a cursor never reject one that        *)
(* designates an element of the list: enabling Container_Checks changes    *)
(* nothing for a correct client.                                           *)
THEOREM CursorsVetted == Spec => []VetAcceptsCursors
<1>1. ASSUME IInv PROVE VetAcceptsCursors
  BY <1>1, ListFacts, GoodVet DEF VetAcceptsCursors
<1> QED BY <1>1, Inductive, PTL

-----------------------------------------------------------------------------
(* The contracts of the calls with one list.                               *)

(* The items of a list with the order c, whose elements are el.            *)
Item(x, e) == [cursor |-> x, element |-> e]
ItemsOf(c, n, el) == [k \in 1..n |-> Item(c[k], el[c[k]])]

(* The walk of Items visits the order.                                     *)
LEMMA OrderItems ==
  ASSUME NEW L, NEW cap, NEW E, NEW c, NEW n, Order(L, cap, E, c, n)
  PROVE  Items(L) = ItemsOf(c, n, Elm(L))
<1>1. IsRep(L, cap, E) /\ Lng(L) = n
  BY DEF Order
<1>2. PICK f : Shape(L, cap, c, n, f, cap - n, {})
  BY DEF Order
<1>3. Chain(L) = c
  BY <1>1, <1>2, Chains
<1>4. DOMAIN c = 1..n
  BY OrderFacts
<1> QED BY <1>3, <1>4 DEF Items, ItemsOf, Item, Elm

(* The contracts count with the same Cardinality.                          *)
LEMMA ContractCardinality ==
  ASSUME NEW S PROVE Contract!Cardinality(S) = Cardinality(S)
BY DEF Contract!Cardinality, Cardinality

(* An item sequence is what IsList asks for.                               *)
LEMMA OrderIsList ==
  ASSUME NEW L, NEW cap, NEW E, NEW c, NEW n, Order(L, cap, E, c, n), E = Elements
  PROVE  Contract!IsList(Items(L), cap)
<1> DEFINE s == ItemsOf(c, n, Elm(L))
<1>1. /\ n \in Nat /\ n <= cap /\ \A i, j \in 1..n : i # j => c[i] # c[j]
      /\ c \in [1..n -> Node(cap)] /\ \A i \in 1..n : Elm(L)[c[i]] \in E
  BY OrderFacts
<1>2. Items(L) = s
  BY OrderItems
<1>3. DOMAIN s = 1..n /\ Len(s) = n /\ \A i \in 1..n : s[i].cursor = c[i] /\ s[i].element = Elm(L)[c[i]]
  BY <1>1 DEF ItemsOf, Item
<1> HIDE DEF s
<1>4. {s[i].cursor : i \in DOMAIN s} = Values(c, n)
  BY <1>3 DEF Values
<1>5. Cardinality(Values(c, n)) = n
  BY <1>1, DistinctValues DEF Distinct
<1>6. Node(cap) = 1..cap
  BY DEF Node
<1>7. \A i \in 1..n : s[i].cursor \in 1..cap /\ s[i].element \in Elements
  BY <1>1, <1>3, <1>6
<1>8. Cardinality({s[i].cursor : i \in DOMAIN s}) = n
  BY <1>4, <1>5
<1> QED BY <1>1, <1>2, <1>3, <1>7, <1>8, ContractCardinality DEF Contract!IsList

(* The declared lists are empty sequences.                                 *)
LEMMA InitContract ==
  ASSUME Init PROVE Contract!Init
<1>1. PICK e \in Elements : list = [l \in Lists |-> Empty_List(Capacity[l], e)]
  BY DEF Init
<1>2. ASSUME NEW l \in Lists PROVE Items(list[l]) = <<>>
  <2>1. Good(list[l], Capacity[l], Elements) /\ Lng(list[l]) = 0
    <3>1. list[l] = Empty_List(Capacity[l], e) /\ Capacity[l] \in Nat
      BY <1>1, ListPairAssumption
    <3> QED BY <3>1, GoodEmpty
  <2>2. PICK c : Order(list[l], Capacity[l], Elements, c, 0)
    BY <2>1, OrderGood
  <2>3. Items(list[l]) = ItemsOf(c, 0, Elm(list[l]))
    BY <2>2, OrderItems
  <2> QED BY <2>3 DEF ItemsOf
<1>3. Position = 0 /\ call = <<>>
  BY DEF Init, No_Element
<1> QED BY <1>2, <1>3 DEF Contract!Init

(* A sequence without k items from place p on.                             *)
LEMMA RemovedItems ==
  ASSUME NEW s, NEW n, n \in Nat, s = [i \in 1..n |-> s[i]],
         NEW p, NEW k, p \in Nat, k \in Nat, p > 0, p + k <= n + 1
  PROVE  Contract!Removed(s, p, k) = Cut(s, n, p, k)
<1> DEFINE T == Values(s, n)
           a == SubSeq(s, 1, p - 1)
           b == SubSeq(s, p + k, n)
           d == Cut(s, n, p, k)
<1>1. n \in Nat /\ s \in [1..n -> T] /\ s \in Seq(T) /\ Len(s) = n
  <2>1. \A i \in 1..n : s[i] \in T
    BY ValuesMember
  <2> HIDE DEF T
  <2>2. s \in [1..n -> T]
    BY <2>1
  <2> QED BY <2>2
<1> HIDE DEF T
<1>2. a \in Seq(T) /\ Len(a) = p - 1 /\ \A i \in 1..(p - 1) : a[i] = s[i]
  BY <1>1
<1>3. b \in Seq(T) /\ Len(b) = n - p - k + 1 /\ \A i \in 1..(n - p - k + 1) : b[i] = s[p + k + i - 1]
  BY <1>1
<1> HIDE DEF a, b
<1>4. /\ a \o b \in Seq(T) /\ Len(a \o b) = n - k
      /\ \A i \in 1..(n - k) : (a \o b)[i] = IF i < p THEN s[i] ELSE s[i + k]
  <2>1. /\ a \o b \in Seq(T) /\ Len(a \o b) = Len(a) + Len(b)
        /\ \A i \in 1..(Len(a) + Len(b)) : (a \o b)[i] = IF i <= Len(a) THEN a[i] ELSE b[i - Len(a)]
    BY <1>2, <1>3, ConcatProperties
  <2>2. Len(a) + Len(b) = n - k
    BY <1>1, <1>2, <1>3
  <2>3. ASSUME NEW i \in 1..(n - k) PROVE (a \o b)[i] = IF i < p THEN s[i] ELSE s[i + k]
    <3>1. CASE i < p
      <4>1. i <= Len(a) /\ i \in 1..(p - 1)
        BY <1>2, <3>1
      <4> QED BY <1>2, <2>1, <2>2, <3>1, <4>1
    <3>2. CASE ~(i < p)
      <4>1. ~(i <= Len(a)) /\ i - Len(a) \in 1..(n - p - k + 1) /\ p + k + (i - Len(a)) - 1 = i + k
        BY <1>1, <1>2, <3>2
      <4> QED BY <1>3, <2>1, <2>2, <3>2, <4>1
    <3> QED BY <3>1, <3>2
  <2> QED BY <2>1, <2>2, <2>3
<1>5. a \o b = [i \in 1..(n - k) |-> IF i < p THEN s[i] ELSE s[i + k]]
  <2> DEFINE h == a \o b
  <2>1. h \in Seq(T) /\ Len(h) = n - k /\ \A i \in 1..(n - k) : h[i] = IF i < p THEN s[i] ELSE s[i + k]
    BY <1>4
  <2> HIDE DEF h
  <2>2. h = [i \in 1..Len(h) |-> h[i]]
    BY <2>1
  <2>3. h = [i \in 1..(n - k) |-> h[i]]
    BY <2>1, <2>2
  <2> QED BY <2>1, <2>3 DEF h
<1>6. Contract!Removed(s, p, k) = a \o b
  BY <1>1 DEF Contract!Removed, a, b
<1> QED BY <1>5, <1>6 DEF Cut

(* What the item sequence is.                                              *)
LEMMA ItemsFacts ==
  ASSUME NEW s, NEW c, NEW n, NEW el, n \in Nat, s = ItemsOf(c, n, el)
  PROVE  /\ Len(s) = n /\ DOMAIN s = 1..n
         /\ s = [i \in 1..n |-> s[i]]
         /\ \A i \in 1..n : s[i] = Item(c[i], el[c[i]])
         /\ \A i \in 1..n : s[i].cursor = c[i] /\ s[i].element = el[c[i]]
<1>1. /\ Len(s) = n /\ DOMAIN s = 1..n
      /\ s = [i \in 1..n |-> s[i]]
      /\ \A i \in 1..n : s[i] = Item(c[i], el[c[i]])
  BY DEF ItemsOf
<1>2. \A x, e : Item(x, e).cursor = x /\ Item(x, e).element = e
  BY DEF Item
<1> QED BY <1>1, <1>2

(* The place of a cursor.                                                  *)
LEMMA ItemsPlace ==
  ASSUME NEW L, NEW cap, NEW E, NEW c, NEW n, Order(L, cap, E, c, n), NEW s, s = Items(L),
         NEW x, NEW p, IsPlace(c, n, x, p)
  PROVE  Contract!Place(s, x) = p
<1>0. s = ItemsOf(c, n, Elm(L)) /\ n \in Nat
  BY OrderItems, OrderFacts
<1>1. /\ Len(s) = n /\ DOMAIN s = 1..n /\ \A i \in 1..n : s[i].cursor = c[i]
  BY <1>0, ItemsFacts
<1>2. /\ n \in Nat /\ \A i \in 1..n : c[i] # 0
      /\ \A i, j \in 1..n : i # j => c[i] # c[j]
  BY OrderFacts
<1>3. CASE p = n + 1
  BY <1>1, <1>3 DEF IsPlace, Contract!Place
<1>4. CASE p # n + 1
  <2>1. p \in 1..n /\ x = c[p] /\ x # 0
    BY <1>2, <1>4 DEF IsPlace
  <2>2. \A i \in DOMAIN s : s[i].cursor = x <=> i = p
    BY <1>1, <1>2, <2>1
  <2>3. (CHOOSE i \in DOMAIN s : s[i].cursor = x) = p
    BY <1>1, <2>1, <2>2
  <2> QED BY <2>1, <2>3 DEF Contract!Place
<1> QED BY <1>3, <1>4

(* A list without some of its nodes.                                       *)
LEMMA ShrunkItems ==
  ASSUME NEW L, NEW cap, NEW E, NEW c, NEW n, Order(L, cap, E, c, n), NEW s, s = Items(L),
         NEW M, NEW p, NEW k, p \in Nat, k \in Nat, p > 0, p + k <= n + 1,
         Shrunk(L, M, cap, E, c, n, p, k), NEW r, r = Items(M)
  PROVE  r = Contract!Removed(s, p, k)
<1> DEFINE d == Cut(c, n, p, k)
           el == Elm(L)
           m == n - k
<1>0. s = ItemsOf(c, n, el) /\ n \in Nat /\ m \in Nat
  BY OrderItems, OrderFacts
<1>2. Order(M, cap, E, d, m) /\ Elm(M) = el
  BY DEF Shrunk
<1>3. d = [i \in 1..m |-> IF i < p THEN c[i] ELSE c[i + k]]
  BY DEF Cut
<1> HIDE DEF d, m, el
<1>1. s = [i \in 1..n |-> s[i]] /\ \A i \in 1..n : s[i] = Item(c[i], el[c[i]])
  BY <1>0, ItemsFacts
<1>40. r = ItemsOf(d, m, el)
  BY <1>2, OrderItems
<1>4. r = [i \in 1..m |-> r[i]] /\ \A i \in 1..m : r[i] = Item(d[i], el[d[i]])
  BY <1>0, <1>40, ItemsFacts
<1>5. Contract!Removed(s, p, k) = Cut(s, n, p, k)
  BY <1>0, <1>1, RemovedItems
<1>6. ASSUME NEW i \in 1..m
      PROVE  r[i] = IF i < p THEN s[i] ELSE s[i + k]
  <2>1. CASE i < p
    <3>1. i \in 1..n /\ d[i] = c[i]
      BY <1>0, <1>3, <2>1 DEF m
    <3> QED BY <1>1, <1>4, <2>1, <3>1
  <2>2. CASE ~(i < p)
    <3>1. i + k \in 1..n /\ d[i] = c[i + k]
      BY <1>0, <1>3, <2>2 DEF m
    <3> QED BY <1>1, <1>4, <2>2, <3>1
  <2> QED BY <2>1, <2>2
<1>8. r = [i \in 1..m |-> IF i < p THEN s[i] ELSE s[i + k]]
  BY <1>4, <1>6
<1> QED BY <1>5, <1>8 DEF Cut, m

(* A list with some nodes more.                                            *)
LEMMA GrownItems ==
  ASSUME NEW L, NEW cap, NEW E, NEW c, NEW n, Order(L, cap, E, c, n), NEW s, s = Items(L),
         NEW M, NEW p, NEW k, NEW d, NEW v, p \in 1..(n + 1), k \in Nat,
         Grown(L, M, cap, E, c, n, p, k, d, v), NEW r, r = Items(M)
  PROVE  /\ Contract!Added(s, r, p, k)
         /\ Len(r) = n + k /\ DOMAIN r = 1..(n + k)
         /\ \A i \in p..(p + k - 1) : i \in 1..(n + k) /\ r[i].element = v[i - p + 1]
         /\ \A i \in 1..(n + k) : r[i].cursor = d[i] /\ r[i].element = Elm(M)[d[i]]
<1> DEFINE m == n + k
           el == Elm(L)
           em == Elm(M)
<1>0. s = ItemsOf(c, n, el) /\ n \in Nat /\ m \in Nat /\ m - k = n /\ p \in Nat /\ p > 0 /\ p + k <= m + 1
  BY OrderItems, OrderFacts
<1>2. Order(M, cap, E, d, m) /\ c = Cut(d, m, p, k)
  BY DEF Grown
<1>20. /\ \A i \in 1..n : em[c[i]] = el[c[i]]
       /\ \A i \in 1..k : em[d[p + i - 1]] = v[i]
  BY DEF Grown
<1>21. c = [i \in 1..n |-> IF i < p THEN d[i] ELSE d[i + k]]
  BY <1>0, <1>2 DEF Cut
<1>23. \A i \in 1..n : (i < p => i \in 1..m) /\ (~(i < p) => i + k \in 1..m)
  BY <1>0
<1>24. \A i \in p..(p + k - 1) : i \in 1..m /\ i - p + 1 \in 1..k /\ p + (i - p + 1) - 1 = i
  BY <1>0
<1>25. m = n + k
  OBVIOUS
<1> HIDE DEF m, el, em
<1>1. /\ s = [i \in 1..n |-> s[i]] /\ Len(s) = n
      /\ \A i \in 1..n : s[i] = Item(c[i], el[c[i]])
  BY <1>0, ItemsFacts
<1>30. r = ItemsOf(d, m, em)
  BY <1>2, OrderItems DEF em
<1>3. /\ Len(r) = m /\ DOMAIN r = 1..m /\ r = [i \in 1..m |-> r[i]]
      /\ \A i \in 1..m : r[i] = Item(d[i], em[d[i]])
      /\ \A i \in 1..m : r[i].cursor = d[i] /\ r[i].element = em[d[i]]
  BY <1>0, <1>30, ItemsFacts
<1>4. Contract!Removed(r, p, k) = Cut(r, m, p, k)
  BY <1>0, <1>3, RemovedItems
<1>5. ASSUME NEW i \in 1..n
      PROVE  (IF i < p THEN r[i] ELSE r[i + k]) = s[i]
  <2>0. s[i] = Item(c[i], em[c[i]])
    BY <1>1, <1>20
  <2>1. CASE i < p
    <3>1. c[i] = d[i] /\ r[i] = Item(d[i], em[d[i]])
      BY <1>3, <1>21, <1>23, <2>1
    <3> QED BY <2>0, <2>1, <3>1
  <2>2. CASE ~(i < p)
    <3>1. c[i] = d[i + k] /\ r[i + k] = Item(d[i + k], em[d[i + k]])
      BY <1>3, <1>21, <1>23, <2>2
    <3> QED BY <2>0, <2>2, <3>1
  <2> QED BY <2>1, <2>2
<1>7. Cut(r, m, p, k) = [i \in 1..n |-> IF i < p THEN r[i] ELSE r[i + k]]
  BY <1>0 DEF Cut
<1>8. Cut(r, m, p, k) = s
  BY <1>1, <1>5, <1>7
<1>9. Contract!Added(s, r, p, k)
  BY <1>1, <1>3, <1>4, <1>8, <1>25 DEF Contract!Added
<1>10. ASSUME NEW i \in p..(p + k - 1) PROVE i \in 1..m /\ r[i].element = v[i - p + 1]
  <2>1. i \in 1..m /\ r[i].element = em[d[i]]
    BY <1>3, <1>24
  <2>2. i - p + 1 \in 1..k /\ p + (i - p + 1) - 1 = i
    BY <1>24
  <2>3. em[d[p + (i - p + 1) - 1]] = v[i - p + 1]
    BY <1>20, <2>2
  <2> QED BY <2>1, <2>2, <2>3
<1> QED BY <1>3, <1>9, <1>10, <1>25 DEF em

(* The first of the inserted nodes is the one that Insert returns.         *)
LEMMA InsertContract ==
  ASSUME NEW L, NEW cap, NEW E, NEW c, NEW n, Order(L, cap, E, c, n), NEW s, s = Items(L),
         NEW before, NEW p, IsPlace(c, n, before, p), NEW e, e \in E,
         NEW count, count \in Nat, n + count <= cap,
         NEW M, M = Insert(L, before, e, count), NEW r, r = Items(M)
  PROVE  /\ Contract!Place(s, before) = p
         /\ Contract!Added(s, r, p, count)
         /\ \A i \in p..(p + count - 1) : r[i].element = e
         /\ Inserted(L, before, e, count) = IF p \in DOMAIN r THEN r[p].cursor ELSE 0
<1>1. Contract!Place(s, before) = p
  BY ItemsPlace
<1>2. PICK v : v = [i \in Nat |-> e]
  OBVIOUS
<1>3. PICK d : /\ Grown(L, M, cap, E, c, n, p, count, d, v)
               /\ count # 0 => d[p] = Allocate(L, e).node
  BY <1>2, OrderInsert
<1>4. p \in 1..(n + 1) /\ n \in Nat
  BY OrderFacts DEF IsPlace
<1>5. /\ Contract!Added(s, r, p, count)
      /\ DOMAIN r = 1..(n + count)
      /\ \A i \in p..(p + count - 1) : i \in 1..(n + count) /\ r[i].element = v[i - p + 1]
      /\ \A i \in 1..(n + count) : r[i].cursor = d[i]
  BY <1>3, <1>4, GrownItems
<1>6. \A i \in p..(p + count - 1) : r[i].element = e
  <2>1. \A i \in p..(p + count - 1) : i - p + 1 \in Nat
    BY <1>4
  <2> QED BY <1>2, <1>5, <2>1
<1>7. Inserted(L, before, e, count) = IF p \in DOMAIN r THEN r[p].cursor ELSE 0
  <2>1. CASE count = 0
    <3>1. n + 0 = n /\ M = L
      <4>1. IsPlace(c, n, before, p) /\ n + 0 = n
        BY <1>4
      <4>2. M = L
        <5>1. PICK a : a[0] = L /\ M = a[count]
          BY InsertLoop
        <5> QED BY <2>1, <5>1
      <4> QED BY <4>1, <4>2
    <3>2. DOMAIN r = 1..n /\ \A i \in 1..n : r[i].cursor = c[i]
      <4>1. r = ItemsOf(c, n, Elm(L))
        BY <3>1, OrderItems
      <4> QED BY <1>4, <4>1, ItemsFacts
    <3>3. before = IF p = n + 1 THEN 0 ELSE c[p]
      BY <1>4 DEF IsPlace
    <3>4. p \in 1..n <=> p # n + 1
      BY <1>4
    <3> QED BY <2>1, <3>2, <3>3, <3>4 DEF Inserted
  <2>2. CASE count # 0
    <3>1. p \in p..(p + count - 1)
      BY <1>4, <2>2
    <3>2. p \in DOMAIN r /\ r[p].cursor = d[p]
      BY <1>5, <3>1
    <3> QED BY <1>3, <2>2, <3>2 DEF Inserted
  <2> QED BY <2>1, <2>2
<1> QED BY <1>1, <1>5, <1>6, <1>7

(* The calls that take nodes out.                                          *)
LEMMA DeleteContract ==
  ASSUME NEW L, NEW cap, NEW E, NEW c, NEW n, Order(L, cap, E, c, n), NEW s, s = Items(L),
         NEW p, p \in 1..n, NEW count, count \in Nat,
         NEW x, x = c[p], NEW M, M = Delete(L, x, count), NEW r, r = Items(M)
  PROVE  Contract!Delete(s, r, x, count)
<1>1. n \in Nat /\ s = ItemsOf(c, n, Elm(L)) /\ c[p] # 0
  BY OrderFacts, OrderItems
<1>2. Len(s) = n
  BY <1>1, ItemsFacts
<1>3. IsPlace(c, n, x, p)
  BY <1>1 DEF IsPlace
<1>4. Contract!Place(s, x) = p
  BY <1>3, ItemsPlace
<1> DEFINE k == Atmost(count, n - p + 1)
<1>5. k \in Nat /\ p \in Nat /\ p > 0 /\ p + k <= n + 1
  BY <1>1 DEF Atmost
<1>6. Contract!AtMost(count, n - p + 1) = k
  BY DEF Contract!AtMost, Atmost
<1> HIDE DEF k
<1>7. Shrunk(L, M, cap, E, c, n, p, k)
  BY OrderDelete DEF k
<1>8. r = Contract!Removed(s, p, k)
  BY <1>5, <1>7, ShrunkItems
<1> QED BY <1>2, <1>4, <1>6, <1>8 DEF Contract!Delete

(* Delete_First keeps its contract: up to count items disappear from the   *)
(* front, and the others stay as they were.                                *)
LEMMA DeleteFirstContract ==
  ASSUME NEW L, NEW cap, NEW E, NEW c, NEW n, Order(L, cap, E, c, n), NEW s, s = Items(L),
         NEW count, count \in Nat, NEW M, M = Delete_First(L, count), NEW r, r = Items(M)
  PROVE  Contract!Delete_First(s, r, count)
<1>1. n \in Nat /\ s = ItemsOf(c, n, Elm(L))
  BY OrderFacts, OrderItems
<1>2. Len(s) = n
  BY <1>1, ItemsFacts
<1> DEFINE k == Atmost(count, n)
           p == 1
<1>5. k \in Nat /\ p \in Nat /\ p > 0 /\ p + k <= n + 1
  BY <1>1 DEF Atmost
<1>6. Contract!AtMost(count, n) = k
  BY DEF Contract!AtMost, Atmost
<1> HIDE DEF k
<1>7. Shrunk(L, M, cap, E, c, n, p, k)
  BY OrderDeleteFirst DEF k
<1> HIDE DEF p
<1>8. r = Contract!Removed(s, p, k)
  BY <1>5, <1>7, ShrunkItems
<1> QED BY <1>2, <1>6, <1>8 DEF Contract!Delete_First, p

(* Delete_Last keeps its contract: up to count items disappear from the    *)
(* end, and the others stay as they were.                                  *)
LEMMA DeleteLastContract ==
  ASSUME NEW L, NEW cap, NEW E, NEW c, NEW n, Order(L, cap, E, c, n), NEW s, s = Items(L),
         NEW count, count \in Nat, NEW M, M = Delete_Last(L, count), NEW r, r = Items(M)
  PROVE  Contract!Delete_Last(s, r, count)
<1>1. n \in Nat /\ s = ItemsOf(c, n, Elm(L))
  BY OrderFacts, OrderItems
<1>2. Len(s) = n /\ s = [i \in 1..n |-> s[i]]
  BY <1>1, ItemsFacts
<1> DEFINE k == Atmost(count, n)
           p == n - k + 1
           m == n - k
<1>5. k \in Nat /\ p \in Nat /\ p > 0 /\ p + k <= n + 1 /\ m \in Nat /\ m <= n /\ n - k < p
  BY <1>1 DEF Atmost
<1>6. Contract!AtMost(count, n) = k
  BY DEF Contract!AtMost, Atmost
<1> HIDE DEF k
<1>7. Shrunk(L, M, cap, E, c, n, p, k)
  BY OrderDeleteLast DEF k
<1>80. Cut(s, n, p, k) = [i \in 1..m |-> s[i]]
  BY <1>5 DEF Cut
<1>9. SubSeq(s, 1, m) = [i \in 1..m |-> s[i]]
  BY <1>2, <1>5
<1> HIDE DEF p
<1>8. r = Contract!Removed(s, p, k)
  BY <1>5, <1>7, ShrunkItems
<1>10. Contract!Removed(s, p, k) = Cut(s, n, p, k)
  BY <1>1, <1>2, <1>5, RemovedItems
<1> QED BY <1>2, <1>6, <1>8, <1>80, <1>9, <1>10 DEF Contract!Delete_Last

(* Clear keeps its contract: no item is left.                              *)
LEMMA ClearContract ==
  ASSUME NEW L, NEW cap, NEW E, NEW c, NEW n, Order(L, cap, E, c, n),
         NEW M, M = Clear(L)
  PROVE  Items(M) = <<>>
<1>1. n \in Nat /\ n - n = 0
  BY OrderFacts
<1>2. Shrunk(L, M, cap, E, c, n, 1, n)
  BY OrderClear
<1> DEFINE d == Cut(c, n, 1, n)
<1> HIDE DEF d
<1>3. Order(M, cap, E, d, 0)
  BY <1>1, <1>2 DEF Shrunk, d
<1>4. Items(M) = ItemsOf(d, 0, Elm(M))
  BY <1>3, OrderItems
<1> QED BY <1>4 DEF ItemsOf

(* Two lists with the same places: where their items differ.               *)
LEMMA ItemPut ==
  ASSUME NEW x, NEW e, NEW f
  PROVE  [Item(x, e) EXCEPT !.element = f] = Item(x, f)
BY DEF Item

(* u has the cursors d, and their elements.                                *)
Itemized(u, d, n, el) ==
  u = [i \in 1..n |-> u[i]] /\ \A i \in 1..n : u[i] = Item(d[i], el[d[i]])

(* The items of a list are those that have its cursors and their elements. *)
LEMMA SameItems ==
  ASSUME NEW M, NEW cap, NEW E, NEW d, NEW n, Order(M, cap, E, d, n),
         NEW u, NEW em, em = Elm(M), Itemized(u, d, n, em)
  PROVE  Items(M) = u
<1> DEFINE el == Elm(M)
           r == Items(M)
<1>1. r = ItemsOf(d, n, el) /\ n \in Nat
  BY OrderItems, OrderFacts
<1>2. u = [i \in 1..n |-> u[i]] /\ \A i \in 1..n : u[i] = Item(d[i], el[d[i]])
  BY DEF Itemized
<1> HIDE DEF el, r
<1>3. r = [i \in 1..n |-> r[i]] /\ \A i \in 1..n : r[i] = Item(d[i], el[d[i]])
  BY <1>1, ItemsFacts
<1> QED BY <1>2, <1>3 DEF r

(* One element is replaced.                                                *)
LEMMA ReplaceContract ==
  ASSUME NEW L, NEW cap, NEW E, NEW c, NEW n, Order(L, cap, E, c, n), NEW s, s = Items(L),
         NEW p, p \in 1..n, NEW x, x = c[p], NEW e, e \in E,
         NEW M, M = Replace_Element(L, x, e), NEW r, r = Items(M)
  PROVE  Contract!Replace_Element(s, r, x, e)
<1> DEFINE el == Elm(L)
           em == Elm(M)
           u == [s EXCEPT ![p].element = e]
<1>1. /\ n \in Nat /\ s = ItemsOf(c, n, el) /\ c \in [1..n -> Node(cap)]
      /\ \A i, j \in 1..n : i # j => c[i] # c[j]
      /\ \A i \in 1..n : c[i] \in Node(cap) /\ c[i] # 0
      /\ el \in [Node(cap) -> E]
  BY OrderFacts, OrderItems
<1>2. Order(M, cap, E, c, n) /\ em = [el EXCEPT ![x] = e]
  BY OrderReplace DEF Put
<1>3. IsPlace(c, n, x, p)
  BY <1>1 DEF IsPlace
<1>4. Contract!Place(s, x) = p
  BY <1>3, ItemsPlace
<1>5. DOMAIN s = 1..n /\ s = [i \in 1..n |-> s[i]] /\ \A i \in 1..n : s[i] = Item(c[i], el[c[i]])
  BY <1>1, ItemsFacts
<1>6. \A i \in 1..n : em[c[i]] = IF i = p THEN e ELSE el[c[i]]
  BY <1>1, <1>2
<1>7. u = [i \in 1..n |-> IF i = p THEN [s[p] EXCEPT !.element = e] ELSE s[i]]
  BY <1>5
<1>8. [s[p] EXCEPT !.element = e] = Item(c[p], e)
  BY <1>5, ItemPut
<1>9. u = [i \in 1..n |-> u[i]] /\ \A i \in 1..n : u[i] = IF i = p THEN Item(c[p], e) ELSE s[i]
  BY <1>7, <1>8
<1> HIDE DEF el, em, u
<1>10. \A i \in 1..n : u[i] = Item(c[i], em[c[i]])
  BY <1>5, <1>6, <1>9
<1>11. Itemized(u, c, n, em) /\ em = Elm(M)
  BY <1>9, <1>10 DEF Itemized, em
<1>12. r = u
  BY <1>2, <1>11, SameItems
<1> QED BY <1>4, <1>12 DEF u, Contract!Replace_Element

(* Two elements are exchanged.                                             *)
LEMMA SwapContract ==
  ASSUME NEW L, NEW cap, NEW E, NEW c, NEW n, Order(L, cap, E, c, n), NEW s, s = Items(L),
         NEW p, p \in 1..n, NEW x, x = c[p], NEW q, q \in 1..n, NEW y, y = c[q],
         NEW M, M = Swap(L, x, y), NEW r, r = Items(M)
  PROVE  Contract!Swap(s, r, x, y)
<1> DEFINE el == Elm(L)
           em == Elm(M)
           a == s[q].element
           b == s[p].element
           u1 == [s EXCEPT ![p].element = a]
           u == [u1 EXCEPT ![q].element = b]
<1>1. /\ n \in Nat /\ s = ItemsOf(c, n, el) /\ c \in [1..n -> Node(cap)]
      /\ \A i, j \in 1..n : i # j => c[i] # c[j]
      /\ \A i \in 1..n : c[i] \in Node(cap) /\ c[i] # 0
      /\ el \in [Node(cap) -> E]
  BY OrderFacts, OrderItems
<1>2. Order(M, cap, E, c, n) /\ em = [[el EXCEPT ![x] = el[y]] EXCEPT ![y] = el[x]]
  BY <1>1, OrderSwap DEF Put2
<1>3. IsPlace(c, n, x, p) /\ IsPlace(c, n, y, q)
  BY <1>1 DEF IsPlace
<1>4. Contract!Place(s, x) = p /\ Contract!Place(s, y) = q
  BY <1>3, ItemsPlace
<1>5. /\ DOMAIN s = 1..n /\ s = [i \in 1..n |-> s[i]] /\ \A i \in 1..n : s[i] = Item(c[i], el[c[i]])
      /\ \A i \in 1..n : s[i].element = el[c[i]]
  BY <1>1, ItemsFacts
<1>6. \A i \in 1..n : em[c[i]] = IF i = q THEN b ELSE IF i = p THEN a ELSE el[c[i]]
  BY <1>1, <1>2, <1>5
<1> HIDE DEF el, em, a, b
<1>7. u1 = [i \in 1..n |-> IF i = p THEN [s[p] EXCEPT !.element = a] ELSE s[i]]
  BY <1>5
<1>8. [s[p] EXCEPT !.element = a] = Item(c[p], a)
  BY <1>5, ItemPut
<1>9. DOMAIN u1 = 1..n /\ \A i \in 1..n : u1[i] = IF i = p THEN Item(c[i], a) ELSE Item(c[i], el[c[i]])
  BY <1>5, <1>7, <1>8
<1>10. \E f : u1[q] = Item(c[q], f)
  BY <1>9
<1>11. [u1[q] EXCEPT !.element = b] = Item(c[q], b)
  BY <1>10, ItemPut
<1>12. u = [i \in 1..n |-> IF i = q THEN [u1[q] EXCEPT !.element = b] ELSE u1[i]]
  <2> HIDE DEF u1
  <2>1. DOMAIN u1 = 1..n
    BY <1>9
  <2>2. u1 = [i \in 1..n |-> u1[i]]
    BY <1>7 DEF u1
  <2> QED BY <2>1, <2>2
<1> HIDE DEF u1
<1>13. u = [i \in 1..n |-> u[i]] /\ \A i \in 1..n : u[i] = IF i = q THEN Item(c[q], b) ELSE u1[i]
  BY <1>11, <1>12
<1> HIDE DEF u
<1>14. \A i \in 1..n : u[i] = Item(c[i], em[c[i]])
  BY <1>6, <1>9, <1>13
<1>15. Itemized(u, c, n, em) /\ em = Elm(M)
  BY <1>13, <1>14 DEF Itemized, em
<1>16. r = u
  BY <1>2, <1>15, SameItems
<1> QED BY <1>4, <1>16 DEF u, u1, a, b, Contract!Swap

(* Two nodes are exchanged.                                                *)
LEMMA SwapLinksContract ==
  ASSUME NEW L, NEW cap, NEW E, NEW c, NEW n, Order(L, cap, E, c, n), NEW s, s = Items(L),
         NEW p, p \in 1..n, NEW x, x = c[p], NEW q, q \in 1..n, NEW y, y = c[q],
         NEW M, M = Swap_Links(L, x, y), NEW r, r = Items(M)
  PROVE  Contract!Swap_Links(s, r, x, y)
<1> DEFINE el == Elm(L)
           d == SwapAt(c, n, p, q)
           u == [[s EXCEPT ![p] = s[q]] EXCEPT ![q] = s[p]]
<1>1. /\ n \in Nat /\ s = ItemsOf(c, n, el)
      /\ \A i \in 1..n : c[i] \in Node(cap) /\ c[i] # 0
  BY OrderFacts, OrderItems
<1>2. Order(M, cap, E, d, n) /\ Elm(M) = el
  BY OrderSwapLinks
<1>3. IsPlace(c, n, x, p) /\ IsPlace(c, n, y, q)
  BY <1>1 DEF IsPlace
<1>4. Contract!Place(s, x) = p /\ Contract!Place(s, y) = q
  BY <1>3, ItemsPlace
<1>5. /\ DOMAIN s = 1..n /\ s = [i \in 1..n |-> s[i]] /\ \A i \in 1..n : s[i] = Item(c[i], el[c[i]])
  BY <1>1, ItemsFacts
<1>6. \A i \in 1..n : d[i] = IF i = p THEN c[q] ELSE IF i = q THEN c[p] ELSE c[i]
  BY DEF SwapAt
<1> HIDE DEF el, d
<1>7. u = [i \in 1..n |-> u[i]] /\ \A i \in 1..n : u[i] = IF i = q THEN s[p] ELSE IF i = p THEN s[q] ELSE s[i]
  BY <1>5
<1> HIDE DEF u
<1>8. \A i \in 1..n : u[i] = Item(d[i], el[d[i]])
  <2> TAKE i \in 1..n
  <2>1. CASE i = q
    <3>1. d[i] = c[p] /\ u[i] = s[p]
      BY <1>6, <1>7, <2>1
    <3> QED BY <1>5, <3>1
  <2>2. CASE i # q /\ i = p
    <3>1. d[i] = c[q] /\ u[i] = s[q]
      BY <1>6, <1>7, <2>2
    <3> QED BY <1>5, <3>1
  <2>3. CASE i # q /\ i # p
    <3>1. d[i] = c[i] /\ u[i] = s[i]
      BY <1>6, <1>7, <2>3
    <3> QED BY <1>5, <3>1
  <2> QED BY <2>1, <2>2, <2>3
<1>9. Itemized(u, d, n, el)
  BY <1>7, <1>8 DEF Itemized
<1>10. r = u
  BY <1>2, <1>9, SameItems
<1> QED BY <1>4, <1>10 DEF u, Contract!Swap_Links

(* The list is reversed.                                                   *)
LEMMA ReverseContract ==
  ASSUME NEW L, NEW cap, NEW E, NEW c, NEW n, Order(L, cap, E, c, n), NEW s, s = Items(L),
         NEW M, M = Reverse_Elements(L), NEW r, r = Items(M)
  PROVE  Contract!Reverse_Elements(s, r)
<1> DEFINE el == Elm(L)
           d == Reversal(c, n)
           u == [i \in 1..n |-> s[n + 1 - i]]
<1>1. n \in Nat /\ s = ItemsOf(c, n, el)
  BY OrderFacts, OrderItems
<1>2. Order(M, cap, E, d, n) /\ Elm(M) = el
  BY OrderReverse
<1>3. /\ DOMAIN s = 1..n /\ Len(s) = n /\ \A i \in 1..n : s[i] = Item(c[i], el[c[i]])
  BY <1>1, ItemsFacts
<1>4. \A i \in 1..n : d[i] = c[n + 1 - i] /\ n + 1 - i \in 1..n
  BY <1>1 DEF Reversal
<1>5. u = [i \in 1..n |-> u[i]] /\ \A i \in 1..n : u[i] = s[n + 1 - i]
  OBVIOUS
<1> HIDE DEF el, d, u
<1>6. \A i \in 1..n : u[i] = Item(d[i], el[d[i]])
  <2> TAKE i \in 1..n
  <2>1. PICK j : j = n + 1 - i
    OBVIOUS
  <2>2. j \in 1..n /\ d[i] = c[j] /\ u[i] = s[j]
    BY <1>4, <1>5, <2>1
  <2> QED BY <1>3, <2>2
<1>7. Itemized(u, d, n, el)
  BY <1>5, <1>6 DEF Itemized
<1>8. r = u
  BY <1>2, <1>7, SameItems
<1> QED BY <1>3, <1>8 DEF u, Contract!Reverse_Elements

(* A sequence of items with the cursors d, which are different nodes.      *)
Cursored(s, d, n) ==
  /\ n \in Nat /\ Len(s) = n /\ DOMAIN s = 1..n
  /\ \A i \in 1..n : s[i].cursor = d[i] /\ d[i] # 0
  /\ \A i, j \in 1..n : i # j => d[i] # d[j]

(* The place of a cursor in it.                                            *)
LEMMA CursorPlace ==
  ASSUME NEW s, NEW d, NEW n, Cursored(s, d, n), NEW x, NEW p, IsPlace(d, n, x, p)
  PROVE  Contract!Place(s, x) = p
<1>1. /\ Len(s) = n /\ DOMAIN s = 1..n /\ \A i \in 1..n : s[i].cursor = d[i]
      /\ n \in Nat /\ \A i \in 1..n : d[i] # 0
      /\ \A i, j \in 1..n : i # j => d[i] # d[j]
  BY DEF Cursored
<1>3. CASE p = n + 1
  BY <1>1, <1>3 DEF IsPlace, Contract!Place
<1>4. CASE p # n + 1
  <2>1. p \in 1..n /\ x = d[p] /\ x # 0
    BY <1>1, <1>4 DEF IsPlace
  <2>2. \A i \in DOMAIN s : s[i].cursor = x <=> i = p
    BY <1>1, <2>1
  <2>3. (CHOOSE i \in DOMAIN s : s[i].cursor = x) = p
    BY <1>1, <2>1, <2>2
  <2> QED BY <2>1, <2>3 DEF Contract!Place
<1> QED BY <1>3, <1>4

(* A node is moved to the place that before has without it.                *)
LEMMA SpliceWithinContract ==
  ASSUME NEW L, NEW cap, NEW E, NEW c, NEW n, Order(L, cap, E, c, n), NEW s, s = Items(L),
         NEW p, p \in 1..n, NEW x, x = c[p], NEW before, before \in Values(c, n) \/ before = 0,
         NEW M, M = SpliceWithin(L, before, x), NEW r, r = Items(M)
  PROVE  Contract!SpliceWithin(s, r, before, x)
<1> DEFINE el == Elm(L)
           d == RemoveAt(c, n, p)
           m == n - 1
           rest == Contract!Removed(s, p, 1)
<1>1. /\ n \in Nat /\ s = ItemsOf(c, n, el) /\ m \in Nat /\ m + 1 = n
      /\ \A i \in 1..n : c[i] \in Node(cap) /\ c[i] # 0
      /\ \A i, j \in 1..n : i # j => c[i] # c[j]
  BY OrderFacts, OrderItems
<1>2. IsPlace(c, n, x, p)
  BY <1>1 DEF IsPlace
<1>3. Contract!Place(s, x) = p
  BY <1>2, ItemsPlace
<1>4. /\ DOMAIN s = 1..n /\ Len(s) = n /\ s = [i \in 1..n |-> s[i]]
      /\ \A i \in 1..n : s[i] = Item(c[i], el[c[i]])
  BY <1>1, ItemsFacts
<1>5. CASE before = x
  <2>1. M = L
    BY <1>5 DEF SpliceWithin
  <2> QED BY <1>5, <2>1 DEF Contract!SpliceWithin
<1>6. CASE before # x
  <2>1. d = [i \in 1..m |-> IF i < p THEN c[i] ELSE c[i + 1]]
    BY DEF RemoveAt
  <2>2. \A i \in 1..m : (i < p => i \in 1..n) /\ (~(i < p) => i + 1 \in 1..n /\ i + 1 # p)
    BY <1>1
  <2>3. Cut(s, n, p, 1) = [i \in 1..m |-> IF i < p THEN s[i] ELSE s[i + 1]]
    BY DEF Cut
  <2>4. rest = Cut(s, n, p, 1)
    <3>1. p \in Nat /\ 1 \in Nat /\ p > 0 /\ p + 1 <= n + 1
      BY <1>1
    <3> QED BY <1>1, <1>4, <3>1, RemovedItems
  <2>5. Len(rest) = m /\ rest = [i \in 1..m |-> IF i < p THEN s[i] ELSE s[i + 1]]
    BY <1>1, <2>3, <2>4
  <2> HIDE DEF d, m, el, rest
  <2>6. \A i \in 1..m : rest[i] = Item(d[i], el[d[i]])
    <3> TAKE i \in 1..m
    <3>1. CASE i < p
      BY <1>4, <2>1, <2>2, <2>5, <3>1
    <3>2. CASE ~(i < p)
      BY <1>4, <2>1, <2>2, <2>5, <3>2
    <3> QED BY <3>1, <3>2
  <2>7. Cursored(rest, d, m)
    <3>1. rest = [i \in 1..m |-> rest[i]]
      BY <2>5
    <3>2. rest = ItemsOf(d, m, el)
      BY <2>6, <3>1 DEF ItemsOf
    <3>3. Len(rest) = m /\ DOMAIN rest = 1..m /\ \A i \in 1..m : rest[i].cursor = d[i]
      BY <1>1, <3>2, ItemsFacts
    <3>4. \A i \in 1..m : d[i] # 0
      BY <1>1, <2>1, <2>2
    <3>5. \A i, j \in 1..m : i # j => d[i] # d[j]
      <4> TAKE i, j \in 1..m
      <4>0. i \in Int /\ j \in Int /\ p \in Int
        BY <1>1
      <4>1. CASE i < p /\ j < p
        BY <1>1, <2>1, <2>2, <4>1
      <4>2. CASE i < p /\ ~(j < p)
        <5>1. d[i] = c[i] /\ d[j] = c[j + 1] /\ i \in 1..n /\ j + 1 \in 1..n /\ i # j + 1
          BY <2>1, <2>2, <4>0, <4>2
        <5> QED BY <1>1, <5>1
      <4>3. CASE ~(i < p) /\ j < p
        <5>1. d[i] = c[i + 1] /\ d[j] = c[j] /\ i + 1 \in 1..n /\ j \in 1..n /\ i + 1 # j
          BY <2>1, <2>2, <4>0, <4>3
        <5> QED BY <1>1, <5>1
      <4>4. CASE ~(i < p) /\ ~(j < p)
        <5>1. d[i] = c[i + 1] /\ d[j] = c[j + 1] /\ i + 1 \in 1..n /\ j + 1 \in 1..n /\ (i # j => i + 1 # j + 1)
          BY <2>1, <2>2, <4>0, <4>4
        <5> QED BY <1>1, <5>1
      <4> QED BY <4>1, <4>2, <4>3, <4>4
    <3> QED BY <1>1, <3>3, <3>4, <3>5 DEF Cursored
  <2>8. PICK q : IsPlace(d, m, before, q)
    <3>1. before \in Values(d, m) \/ before = 0
      <4>1. CASE before \in Values(c, n)
        <5>1. PICK i \in 1..n : before = c[i]
          BY <4>1 DEF Values
        <5>2. i # p /\ i \in Int /\ p \in Int
          BY <1>1, <1>6, <5>1
        <5>3. CASE i < p
          <6>1. i \in 1..m /\ d[i] = before
            BY <1>1, <2>1, <5>1, <5>3
          <6> QED BY <6>1 DEF Values
        <5>4. CASE ~(i < p)
          <6>1. i - 1 \in 1..m /\ ~(i - 1 < p) /\ (i - 1) + 1 = i
            BY <1>1, <5>1, <5>2, <5>4
          <6>2. d[i - 1] = before
            BY <2>1, <5>1, <6>1
          <6> QED BY <6>1, <6>2 DEF Values
        <5> QED BY <5>3, <5>4
      <4> QED BY <4>1
    <3> QED BY <1>1, <3>1, PlaceExists
  <2>9. Contract!Place(rest, before) = q
    BY <2>7, <2>8, CursorPlace
  <2> DEFINE h == Relocated(c, n, p, q)
  <2>10. Order(M, cap, E, h, n) /\ Elm(M) = el
    <3>1. IsPlace(RemoveAt(c, n, p), n - 1, before, q) /\ before # c[p]
      BY <1>6, <2>8 DEF d, m
    <3> QED BY <3>1, OrderSpliceWithin DEF el
  <2>11. h = [i \in 1..n |-> IF i < q THEN d[i] ELSE IF i = q THEN x ELSE d[i - 1]]
    <3>1. h = InsertAt(d, m, q, x)
      BY DEF Relocated, d, m
    <3>2. InsertAt(d, m, q, x) = [i \in 1..(m + 1) |-> IF i < q THEN d[i] ELSE IF i = q THEN x ELSE d[i - 1]]
      BY DEF InsertAt
    <3> QED BY <1>1, <3>1, <3>2
  <2> HIDE DEF h
  <2>12. /\ Len(r) = n /\ r = [i \in 1..n |-> r[i]] /\ \A i \in 1..n : r[i] = Item(h[i], el[h[i]])
    <3>1. r = ItemsOf(h, n, el)
      BY <2>10, OrderItems
    <3> QED BY <1>1, <3>1, ItemsFacts
  <2>13. q \in 1..n /\ q \in Nat /\ q > 0 /\ q + 1 <= n + 1 /\ n - 1 = m
    BY <1>1, <2>8 DEF IsPlace
  <2>14. Contract!Removed(r, q, 1) = Cut(r, n, q, 1)
    <3> DEFINE k == 1
    <3>1. k \in Nat /\ q + k <= n + 1
      BY <2>13
    <3>2. n \in Nat /\ r = [i \in 1..n |-> r[i]] /\ q \in Nat /\ q > 0
      BY <1>1, <2>12, <2>13
    <3> HIDE DEF k
    <3>3. Contract!Removed(r, q, k) = Cut(r, n, q, k)
      BY <3>1, <3>2, RemovedItems
    <3> QED BY <3>3 DEF k
  <2>15. Cut(r, n, q, 1) = [i \in 1..m |-> IF i < q THEN r[i] ELSE r[i + 1]]
    BY <2>13 DEF Cut
  <2>16. ASSUME NEW i \in 1..m PROVE (IF i < q THEN r[i] ELSE r[i + 1]) = rest[i]
    <3>1. CASE i < q
      <4>1. i \in 1..n /\ h[i] = d[i]
        BY <1>1, <2>11, <3>1
      <4> QED BY <2>6, <2>12, <3>1, <4>1
    <3>2. CASE ~(i < q)
      <4>1. i + 1 \in 1..n /\ ~(i + 1 < q) /\ i + 1 # q /\ (i + 1) - 1 = i
        BY <1>1, <2>13, <3>2
      <4>2. h[i + 1] = d[i]
        BY <2>11, <4>1
      <4> QED BY <2>6, <2>12, <3>2, <4>1, <4>2
    <3> QED BY <3>1, <3>2
  <2>17. Contract!Removed(r, q, 1) = rest
    BY <2>5, <2>14, <2>15, <2>16
  <2>18. r[q] = s[p]
    <3>1. h[q] = x
      BY <2>11, <2>13
    <3> QED BY <1>4, <2>12, <2>13, <3>1
  <2>19. Contract!Added(rest, r, q, 1)
    <3>1. Len(r) = Len(rest) + 1
      BY <1>1, <2>5, <2>12
    <3> QED BY <2>17, <3>1 DEF Contract!Added
  <2> QED BY <1>3, <1>6, <2>9, <2>18, <2>19 DEF rest, Contract!SpliceWithin
<1> QED BY <1>5, <1>6

(* Sort keeps the contract: a permutation of the items, in the order of    *)
(* the elements, that keeps the order of equal ones.                       *)
LEMMA SortContract ==
  ASSUME NEW L, NEW cap, NEW E, E \subseteq Int, NEW c, NEW n, Order(L, cap, E, c, n),
         NEW s, s = Items(L), NEW M, M = Sort(L), NEW r, r = Items(M)
  PROVE  Contract!Sort(s, r)
<1> DEFINE el == Elm(L)
<1>1. n \in Nat /\ c \in [1..n -> Node(cap)] /\ el \in [Node(cap) -> E]
  BY OrderFacts
<1>2. PICK d, h : Order(M, cap, E, d, n) /\ Elm(M) = Elm(L) /\ Stably(Elm(L), c, d, n, h)
  BY OrderSort
<1>3. s = ItemsOf(c, n, el)
  BY OrderItems
<1>4. r = ItemsOf(d, n, el)
  BY <1>2, OrderItems
<1> HIDE DEF el
<1>5. /\ DOMAIN s = 1..n
      /\ \A i \in 1..n : s[i] = Item(c[i], el[c[i]]) /\ s[i].element = el[c[i]]
  BY <1>1, <1>3, ItemsFacts
<1>6. /\ r = [i \in 1..n |-> r[i]]
      /\ \A i \in 1..n : r[i] = Item(d[i], el[d[i]]) /\ r[i].element = el[d[i]]
  BY <1>1, <1>4, ItemsFacts
<1>7. /\ h \in [1..n -> 1..n]
      /\ \A i \in 1..n : d[i] = c[h[i]] /\ h[i] \in 1..n
      /\ \A i, j \in 1..n : i < j =>
            el[d[i]] < el[d[j]] \/ (el[d[i]] = el[d[j]] /\ h[i] < h[j])
  BY <1>2 DEF Stably, el
<1>8. \A i \in 1..n : r[i] = s[h[i]]
  BY <1>5, <1>6, <1>7
<1>9. r = [i \in DOMAIN s |-> s[h[i]]]
  BY <1>5, <1>6, <1>8
<1>10. \A i \in 1..n : el[d[i]] \in Int
  BY <1>1, <1>7
<1>11. ASSUME NEW i \in 1..n, NEW j \in 1..n, i < j
       PROVE  /\ h[i] # h[j] /\ r[i].element <= r[j].element
              /\ (r[i].element = r[j].element => h[i] < h[j])
  <2>1. r[i].element = el[d[i]] /\ r[j].element = el[d[j]] /\ el[d[i]] \in Int /\ el[d[j]] \in Int
    BY <1>6, <1>10
  <2>2. el[d[i]] < el[d[j]] \/ (el[d[i]] = el[d[j]] /\ h[i] < h[j])
    BY <1>7, <1>11
  <2>3. h[i] \in Int /\ h[j] \in Int
    BY <1>7
  <2>4. h[i] = h[j] => el[d[i]] = el[d[j]]
    BY <1>7
  <2> QED BY <2>1, <2>2, <2>3, <2>4
<1>12. h \in [DOMAIN s -> DOMAIN s]
  BY <1>5, <1>7
<1>13. \A i, j \in DOMAIN s :
         i < j => /\ h[i] # h[j] /\ r[i].element <= r[j].element
                  /\ (r[i].element = r[j].element => h[i] < h[j])
  BY <1>5, <1>11
<1> HIDE DEF el
<1> QED BY <1>9, <1>12, <1>13 DEF Contract!Sort

(* The lists after a step are sequences that IsList accepts.               *)
LEMMA NextIsList ==
  ASSUME IInv'
  PROVE  \A x \in Lists : Contract!IsList(Items(list'[x]), Capacity[x])
<1> TAKE x \in Lists
<1>1. Good(list'[x], Capacity[x], Elements)
  BY DEF IInv, GoodLists
<1>2. PICK c : Order(list'[x], Capacity[x], Elements, c, Lng(list'[x]))
  BY <1>1, OrderGood
<1> QED BY <1>2, OrderIsList

(* A call that changes one list.                                           *)
LEMMA OneListRefines ==
  ASSUME IInv, IInv', NEW l, l \in Lists, NEW R, list' = [list EXCEPT ![l] = R],
         NEW op, NEW args,
         Called(op, l, l, args), Contract!OneList(Items(list[l]), Items(R), op, args)
  PROVE  Contract!Next
<1>1. DOMAIN list' = Lists /\ \A x \in Lists : list'[x] = IF x = l THEN R ELSE list[x]
  BY DEF IInv, GoodLists
<1>2. \A x \in Lists : Contract!IsList(Items(list'[x]), Capacity[x])
  BY NextIsList
<1>3. call'.target = l /\ call'.source = l /\ call'.op = op /\ call'.args = args
  BY DEF Called
<1> QED BY <1>1, <1>2, <1>3 DEF Contract!Next

(* The same for a call that returns no cursor.                             *)
LEMMA BecomesRefines ==
  ASSUME IInv, IInv', NEW l, l \in Lists, NEW R, Becomes(l, R), NEW op, NEW args, Called(op, l, l, args),
         Position' = 0 => Contract!OneList(Items(list[l]), Items(R), op, args)
  PROVE  Contract!Next
<1>1. list' = [list EXCEPT ![l] = R] /\ Position' = 0
  BY DEF Becomes, No_Element
<1> QED BY <1>1, OneListRefines

(* The calls with one list.                                                *)
LEMMA OneListContract ==
  ASSUME IInv, IInv', NEW l, l \in Lists, OneList(l)
  PROVE  Contract!Next
<1> DEFINE L == list[l]
           cap == Capacity[l]
           n == Lng(list[l])
           s == Items(L)
<1>1. /\ Good(L, cap, Elements) /\ cap \in Nat /\ L.Length = n /\ n \in Nat /\ n <= cap
      /\ Room(l) = cap - n
  BY ListFacts
<1>2. No_Element = 0
  BY DEF No_Element
<1> HIDE DEF cap, n
<1>3. PICK c : Order(L, cap, Elements, c, n)
  BY <1>1, OrderGood DEF n
<1>4. /\ \A x : x \in Cursors(L) <=> x \in Values(c, n)
      /\ n = 0 => Fst(L) = 0
      /\ n # 0 => Fst(L) = c[1]
      /\ \A i \in 1..n : c[i] # 0
  BY <1>3, OrderFacts
<1>5. \A x \in Cursors(L) : \E p \in 1..n : x = c[p]
  BY <1>4 DEF Values
<1>6. \A x : x \in Cursors(L) \/ x = 0 => \E p : IsPlace(c, n, x, p)
  BY <1>1, <1>4, PlaceExists
<1> HIDE DEF s
<1>7. s = Items(L) /\ s = Items(list[l])
  BY DEF s
<1>8. CASE Insert_(l)
  <2>1. PICK before \in Before(l), e \in Elements, count \in 0..Room(l) :
          /\ list' = [list EXCEPT ![l] = Insert(L, before, e, count)]
          /\ Position' = Inserted(L, before, e, count)
          /\ Called("Insert", l, l, <<before, e, count>>)
    BY <1>8 DEF Insert_
  <2>2. count \in Nat /\ n + count <= cap /\ (before \in Cursors(L) \/ before = 0)
    BY <1>1, <1>2 DEF Before
  <2>3. PICK p : IsPlace(c, n, before, p)
    BY <1>6, <2>2
  <2> DEFINE M == Insert(L, before, e, count)
             r == Items(M)
             args == <<before, e, count>>
  <2> HIDE DEF M, r, args
  <2>4. /\ Contract!Place(s, before) = p
        /\ Contract!Added(s, r, p, count)
        /\ \A i \in p..(p + count - 1) : r[i].element = e
        /\ Inserted(L, before, e, count) = IF p \in DOMAIN r THEN r[p].cursor ELSE 0
    BY <1>3, <1>7, <2>2, <2>3, InsertContract DEF M, r
  <2>5. Contract!Insert(s, r, before, e, count)
    BY <2>1, <2>4 DEF Contract!Insert
  <2>6. args[1] = before /\ args[2] = e /\ args[3] = count
    BY DEF args
  <2>7. Contract!OneList(s, r, "Insert", args)
    BY <2>5, <2>6 DEF Contract!OneList
  <2>8. list' = [list EXCEPT ![l] = M] /\ Called("Insert", l, l, args)
    BY <2>1 DEF M, args
  <2> QED BY <1>7, <2>7, <2>8, OneListRefines DEF r
<1>9. CASE Prepend_(l)
  <2>1. PICK e \in Elements, count \in 1..Room(l) :
          /\ list' = [list EXCEPT ![l] = Insert(L, L.First, e, count)]
          /\ Position' = Inserted(L, L.First, e, count)
          /\ Called("Prepend", l, l, <<e, count>>)
    BY <1>9 DEF Prepend_
  <2> DEFINE before == Fst(L)
             M == Insert(L, before, e, count)
             r == Items(M)
             args == <<e, count>>
  <2>2. count \in Nat /\ n + count <= cap
    BY <1>1
  <2>3. before \in Cursors(L) \/ before = 0
    BY <1>1, GoodEnds
  <2>30. PICK p : IsPlace(c, n, before, p)
    BY <1>6, <2>3
  <2>31. /\ list' = [list EXCEPT ![l] = M] /\ Called("Prepend", l, l, args)
         /\ Position' = Inserted(L, before, e, count)
    BY <2>1 DEF Fst
  <2>32. before = IF s = <<>> THEN 0 ELSE s[1].cursor
    <3>1. s = ItemsOf(c, n, Elm(L))
      BY <1>3, <1>7, OrderItems
    <3>2. Len(s) = n /\ \A i \in 1..n : s[i].cursor = c[i]
      BY <1>1, <3>1, ItemsFacts
    <3>3. CASE n = 0
      <4>1. s = <<>>
        BY <3>1, <3>3 DEF ItemsOf
      <4> QED BY <1>4, <3>3, <4>1
    <3>4. CASE n # 0
      <4>1. 1 \in 1..n /\ s # <<>>
        BY <1>1, <3>2, <3>4
      <4> QED BY <1>4, <3>2, <3>4, <4>1
    <3> QED BY <3>3, <3>4
  <2> HIDE DEF before, M, r, args
  <2>4. /\ Contract!Place(s, before) = p
        /\ Contract!Added(s, r, p, count)
        /\ \A i \in p..(p + count - 1) : r[i].element = e
        /\ Inserted(L, before, e, count) = IF p \in DOMAIN r THEN r[p].cursor ELSE 0
    BY <1>3, <1>7, <2>2, <2>30, InsertContract DEF M, r
  <2>5. Contract!Insert(s, r, before, e, count)
    BY <2>31, <2>4 DEF Contract!Insert
  <2>50. Contract!Prepend(s, r, e, count)
    BY <2>5, <2>32 DEF Contract!Prepend
  <2>6. args[1] = e /\ args[2] = count
    BY DEF args
  <2>7. Contract!OneList(s, r, "Prepend", args)
    BY <2>50, <2>6 DEF Contract!OneList
  <2> QED BY <1>7, <2>7, <2>31, OneListRefines DEF r
<1>10. CASE Delete_(l)
  <2>1. PICK position \in Cursors(L), count \in 0..L.Length :
          Becomes(l, Delete(L, position, count)) /\ Called("Delete", l, l, <<position, count>>)
    BY <1>10 DEF Delete_
  <2> DEFINE r == Items(Delete(L, position, count))
             args == <<position, count>>
  <2>2. count \in Nat /\ args[1] = position /\ args[2] = count
    BY <1>1
  <2>3. PICK p \in 1..n : position = c[p]
    BY <1>5
  <2>4. Contract!Delete(s, r, position, count)
    BY <1>3, <1>7, <2>2, <2>3, DeleteContract
  <2> HIDE DEF args, r
  <2>5. Position' = 0 => Contract!OneList(s, r, "Delete", args)
    BY <2>2, <2>4 DEF Contract!OneList
  <2> QED BY <1>7, <2>1, <2>5, BecomesRefines DEF r, args
<1>11. CASE Delete_First_(l)
  <2>1. PICK count \in 1..L.Length :
          Becomes(l, Delete_First(L, count)) /\ Called("Delete_First", l, l, <<count>>)
    BY <1>11 DEF Delete_First_
  <2> DEFINE r == Items(Delete_First(L, count))
             args == <<count>>
  <2>2. count \in Nat /\ args[1] = count
    BY <1>1
  <2>4. Contract!Delete_First(s, r, count)
    BY <1>3, <1>7, <2>2, DeleteFirstContract
  <2> HIDE DEF args, r
  <2>5. Position' = 0 => Contract!OneList(s, r, "Delete_First", args)
    BY <2>2, <2>4 DEF Contract!OneList
  <2> QED BY <1>7, <2>1, <2>5, BecomesRefines DEF r, args
<1>12. CASE Delete_Last_(l)
  <2>1. PICK count \in 1..L.Length :
          Becomes(l, Delete_Last(L, count)) /\ Called("Delete_Last", l, l, <<count>>)
    BY <1>12 DEF Delete_Last_
  <2> DEFINE r == Items(Delete_Last(L, count))
             args == <<count>>
  <2>2. count \in Nat /\ args[1] = count
    BY <1>1
  <2>4. Contract!Delete_Last(s, r, count)
    BY <1>3, <1>7, <2>2, DeleteLastContract
  <2> HIDE DEF args, r
  <2>5. Position' = 0 => Contract!OneList(s, r, "Delete_Last", args)
    BY <2>2, <2>4 DEF Contract!OneList
  <2> QED BY <1>7, <2>1, <2>5, BecomesRefines DEF r, args
<1>13. CASE Clear_(l)
  <2>1. Becomes(l, Clear(L)) /\ Called("Clear", l, l, <<>>)
    BY <1>13 DEF Clear_
  <2>2. Items(Clear(L)) = <<>>
    BY <1>3, ClearContract
  <2>3. Position' = 0 => Contract!OneList(s, Items(Clear(L)), "Clear", <<>>)
    BY <2>2 DEF Contract!OneList
  <2> QED BY <1>7, <2>1, <2>3, BecomesRefines
<1>14. CASE Replace_Element_(l)
  <2>1. PICK position \in Cursors(L), e \in Elements :
          Becomes(l, Replace_Element(L, position, e)) /\ Called("Replace_Element", l, l, <<position, e>>)
    BY <1>14 DEF Replace_Element_
  <2> DEFINE r == Items(Replace_Element(L, position, e))
             args == <<position, e>>
  <2>2. args[1] = position /\ args[2] = e
    OBVIOUS
  <2>3. PICK p \in 1..n : position = c[p]
    BY <1>5
  <2>4. Contract!Replace_Element(s, r, position, e)
    BY <1>3, <1>7, <2>3, ReplaceContract
  <2> HIDE DEF args, r
  <2>5. Position' = 0 => Contract!OneList(s, r, "Replace_Element", args)
    BY <2>2, <2>4 DEF Contract!OneList
  <2> QED BY <1>7, <2>1, <2>5, BecomesRefines DEF r, args
<1>15. CASE Swap_(l)
  <2>1. PICK i \in Cursors(L), j \in Cursors(L) :
          Becomes(l, Swap(L, i, j)) /\ Called("Swap", l, l, <<i, j>>)
    BY <1>15 DEF Swap_
  <2> DEFINE r == Items(Swap(L, i, j))
             args == <<i, j>>
  <2>2. args[1] = i /\ args[2] = j
    OBVIOUS
  <2>3. PICK p \in 1..n : i = c[p]
    BY <1>5
  <2>30. PICK q \in 1..n : j = c[q]
    BY <1>5
  <2>4. Contract!Swap(s, r, i, j)
    BY <1>3, <1>7, <2>3, <2>30, SwapContract
  <2> HIDE DEF args, r
  <2>5. Position' = 0 => Contract!OneList(s, r, "Swap", args)
    BY <2>2, <2>4 DEF Contract!OneList
  <2> QED BY <1>7, <2>1, <2>5, BecomesRefines DEF r, args
<1>16. CASE SwapLinks_(l)
  <2>1. PICK i \in Cursors(L), j \in Cursors(L) :
          Becomes(l, Swap_Links(L, i, j)) /\ Called("Swap_Links", l, l, <<i, j>>)
    BY <1>16 DEF SwapLinks_
  <2> DEFINE r == Items(Swap_Links(L, i, j))
             args == <<i, j>>
  <2>2. args[1] = i /\ args[2] = j
    OBVIOUS
  <2>3. PICK p \in 1..n : i = c[p]
    BY <1>5
  <2>30. PICK q \in 1..n : j = c[q]
    BY <1>5
  <2>4. Contract!Swap_Links(s, r, i, j)
    BY <1>3, <1>7, <2>3, <2>30, SwapLinksContract
  <2> HIDE DEF args, r
  <2>5. Position' = 0 => Contract!OneList(s, r, "Swap_Links", args)
    BY <2>2, <2>4 DEF Contract!OneList
  <2> QED BY <1>7, <2>1, <2>5, BecomesRefines DEF r, args
<1>17. CASE SpliceWithin_(l)
  <2>1. PICK before \in Before(l), position \in Cursors(L) :
          Becomes(l, SpliceWithin(L, before, position)) /\ Called("SpliceWithin", l, l, <<before, position>>)
    BY <1>17 DEF SpliceWithin_
  <2> DEFINE r == Items(SpliceWithin(L, before, position))
             args == <<before, position>>
  <2>2. args[1] = before /\ args[2] = position
    OBVIOUS
  <2>3. PICK p \in 1..n : position = c[p]
    BY <1>5
  <2>30. before \in Values(c, n) \/ before = 0
    BY <1>2, <1>4 DEF Before
  <2>4. Contract!SpliceWithin(s, r, before, position)
    BY <1>3, <1>7, <2>3, <2>30, SpliceWithinContract
  <2> HIDE DEF args, r
  <2>5. Position' = 0 => Contract!OneList(s, r, "SpliceWithin", args)
    BY <2>2, <2>4 DEF Contract!OneList
  <2> QED BY <1>7, <2>1, <2>5, BecomesRefines DEF r, args
<1>18. CASE Reverse_(l)
  <2>1. Becomes(l, Reverse_Elements(L)) /\ Called("Reverse_Elements", l, l, <<>>)
    BY <1>18 DEF Reverse_
  <2> DEFINE r == Items(Reverse_Elements(L))
  <2>4. Contract!Reverse_Elements(s, r)
    BY <1>3, <1>7, ReverseContract
  <2> HIDE DEF r
  <2>5. Position' = 0 => Contract!OneList(s, r, "Reverse_Elements", <<>>)
    BY <2>4 DEF Contract!OneList
  <2> QED BY <1>7, <2>1, <2>5, BecomesRefines DEF r
<1>19. CASE Sort_(l)
  <2>1. Becomes(l, Sort(L)) /\ Called("Sort", l, l, <<>>)
    BY <1>19 DEF Sort_
  <2> DEFINE r == Items(Sort(L))
  <2>2. Elements \subseteq Int
    BY ListPairAssumption
  <2>3. Order(L, cap, Elements, c, n) /\ s = Items(L)
    BY <1>3, <1>7
  <2>4. Contract!Sort(s, r)
    BY <2>2, <2>3, SortContract
  <2> HIDE DEF r
  <2>5. Position' = 0 => Contract!OneList(s, r, "Sort", <<>>)
    BY <2>4 DEF Contract!OneList
  <2> QED BY <1>7, <2>1, <2>5, BecomesRefines DEF r
<1> QED
  BY <1>8, <1>9, <1>10, <1>11, <1>12, <1>13, <1>14, <1>15, <1>16, <1>17, <1>18, <1>19 DEF OneList

-----------------------------------------------------------------------------
(* The contracts of the calls with two lists.                              *)

(* A call with a target t and a source s, which leaves a and b in them.    *)
PairStep(t, s, a, b) ==
  \A x \in Lists : list'[x] = IF x = t THEN a ELSE IF x = s THEN b ELSE list[x]

(* A call on two lists that leaves a in the target and b in the source, and*)
(* keeps its contract, is a step of the contracts.                         *)
LEMMA TwoListsRefines ==
  ASSUME IInv', NEW t, t \in Lists, NEW s, s \in Lists, t # s, NEW a, NEW b, PairStep(t, s, a, b),
         NEW op, NEW args, Called(op, t, s, args),
         Contract!TwoLists(Items(list[t]), Items(a), Items(list[s]), Items(b), op, args)
  PROVE  Contract!Next
<1>1. /\ DOMAIN list' = Lists
      /\ \A x \in Lists : list'[x] = IF x = t THEN a ELSE IF x = s THEN b ELSE list[x]
  BY DEF IInv, GoodLists, PairStep
<1>2. \A x \in Lists : Contract!IsList(Items(list'[x]), Capacity[x])
  BY NextIsList
<1>3. call'.target = t /\ call'.source = s /\ call'.op = op /\ call'.args = args
  BY DEF Called
<1>4. list'[t] = a /\ list'[s] = b /\ \A x \in Lists \ {t, s} : list'[x] = list[x]
  BY <1>1
<1> QED BY <1>1, <1>2, <1>3, <1>4 DEF Contract!Next

(* h maps the places D of a to the places R of b one to one, and a to b.   *)
Matched(h, D, R, a, b) ==
  /\ IsFiniteSet(D) /\ h \in [D -> R]
  /\ \A i, j \in D : h[i] = h[j] => i = j
  /\ \A k \in R : \E i \in D : h[i] = k
  /\ \A i \in D : a[i] = b[h[i]]

(* The places where a has e.                                               *)
PlacesOf(D, a, e) == {i \in D : a[i] = e}

(* Then every element is as often in both.                                 *)
LEMMA SameCount ==
  ASSUME NEW h, NEW D, NEW R, NEW a, NEW b, Matched(h, D, R, a, b), NEW e
  PROVE  Cardinality(PlacesOf(D, a, e)) = Cardinality(PlacesOf(R, b, e))
<1> DEFINE X == {i \in D : a[i] = e}
           Y == {i \in R : b[i] = e}
           g == [i \in X |-> h[i]]
<1>1. /\ IsFiniteSet(D) /\ h \in [D -> R]
      /\ \A i, j \in D : h[i] = h[j] => i = j
      /\ \A k \in R : \E i \in D : h[i] = k
      /\ \A i \in D : a[i] = b[h[i]]
  BY DEF Matched
<1>2. g \in [X -> Y] /\ \A i, j \in X : g[i] = g[j] => i = j
  BY <1>1
<1>3. \A k \in Y : \E i \in X : g[i] = k
  BY <1>1
<1>4. X \subseteq D
  OBVIOUS
<1> HIDE DEF X, Y, g
<1>5. g \in Bijection(X, Y)
  BY <1>2, <1>3 DEF Bijection, Injection, Surjection, IsInjective
<1>6. ExistsBijection(X, Y)
  BY <1>5 DEF ExistsBijection
<1>7. IsFiniteSet(X)
  BY <1>1, <1>4, FS_Subset
<1>8. Cardinality(X) = Cardinality(Y)
  BY <1>6, <1>7, FS_Bijection
<1> QED BY <1>8 DEF X, Y, PlacesOf

(* The same elements, place by place.                                      *)
LEMMA SameModel ==
  ASSUME NEW L, NEW cap, NEW E, NEW c, NEW n, Order(L, cap, E, c, n), NEW s, s = Items(L),
         NEW M, NEW cap2, NEW F, NEW d, Order(M, cap2, F, d, n), NEW u, u = Items(M),
         Alike(M, d, L, c, n)
  PROVE  Contract!Model(u) = Contract!Model(s)
<1>1. n \in Nat
  BY OrderFacts
<1>2. s = ItemsOf(c, n, Elm(L))
  BY OrderItems
<1>3. u = ItemsOf(d, n, Elm(M))
  BY OrderItems
<1>4. DOMAIN s = 1..n /\ \A i \in 1..n : s[i].element = Elm(L)[c[i]]
  BY <1>1, <1>2, ItemsFacts
<1>5. DOMAIN u = 1..n /\ \A i \in 1..n : u[i].element = Elm(M)[d[i]]
  BY <1>1, <1>3, ItemsFacts
<1> QED BY <1>4, <1>5 DEF Alike, Contract!Model

(* A list without an active node is empty.                                 *)
LEMMA NoItems ==
  ASSUME NEW L, NEW cap, NEW E, NEW c, Order(L, cap, E, c, 0)
  PROVE  Items(L) = <<>>
<1>1. Items(L) = ItemsOf(c, 0, Elm(L))
  BY OrderItems
<1> QED BY <1>1 DEF ItemsOf

(* Assign: the target gets the elements of the source.                     *)
LEMMA AssignContract ==
  ASSUME NEW T, NEW cap, NEW E, NEW b, NEW m, Order(T, cap, E, b, m), NEW t, t = Items(T),
         NEW S, NEW cap2, NEW c, NEW n, Order(S, cap2, E, c, n), n <= cap, NEW s, s = Items(S),
         NEW M, M = Assign(T, S), NEW u, u = Items(M)
  PROVE  Contract!Assign(t, u, s, s)
<1>1. PICK d : Order(M, cap, E, d, n) /\ Alike(M, d, S, c, n)
  BY OrderAssign
<1>2. Contract!Model(u) = Contract!Model(s)
  BY <1>1, SameModel
<1> QED BY <1>2 DEF Contract!Assign

(* Copy: it gets the cursors, too.                                         *)
LEMMA CopyContract ==
  ASSUME NEW t, NEW S, NEW cap2, NEW E, NEW c, NEW n, Order(S, cap2, E, c, n), NEW s, s = Items(S),
         NEW cap, cap \in Nat, 0 < cap2, cap2 <= cap,
         NEW M, M = Copy(S, cap), NEW u, u = Items(M)
  PROVE  Contract!Copy(t, u, s, s)
<1> DEFINE el == Elm(S)
           em == Elm(M)
<1>1. Order(M, cap, E, c, n) /\ \A i \in 1..n : em[c[i]] = el[c[i]]
  BY OrderCopy
<1>2. s = ItemsOf(c, n, el) /\ n \in Nat
  BY OrderItems, OrderFacts
<1>3. u = ItemsOf(c, n, em)
  BY <1>1, OrderItems
<1> HIDE DEF el, em
<1>4. s = [i \in 1..n |-> s[i]] /\ \A i \in 1..n : s[i] = Item(c[i], el[c[i]])
  BY <1>2, ItemsFacts
<1>5. u = [i \in 1..n |-> u[i]] /\ \A i \in 1..n : u[i] = Item(c[i], em[c[i]])
  BY <1>2, <1>3, ItemsFacts
<1>6. u = s
  BY <1>1, <1>4, <1>5
<1> QED BY <1>6 DEF Contract!Copy

(* Move: it gets the elements, and the source is empty afterwards.         *)
LEMMA MoveContract ==
  ASSUME NEW T, NEW cap, NEW E, NEW b, NEW m, Order(T, cap, E, b, m), NEW t, t = Items(T),
         NEW S, NEW cap2, NEW c, NEW n, Order(S, cap2, E, c, n), n <= cap, NEW s, s = Items(S),
         NEW R, R = Move(T, S), NEW u, u = Items(R.t), NEW r, r = Items(R.s)
  PROVE  Contract!Move(t, u, s, r)
<1> DEFINE M == R.t
           N == R.s
<1>1. /\ \E d : Order(M, cap, E, d, n) /\ Alike(M, d, S, c, n)
      /\ \E d : Order(N, cap2, E, d, 0)
  BY OrderMove
<1>2. u = Items(M) /\ r = Items(N)
  OBVIOUS
<1> HIDE DEF M, N
<1>3. PICK d : Order(M, cap, E, d, n) /\ Alike(M, d, S, c, n)
  BY <1>1
<1>4. Contract!Model(u) = Contract!Model(s)
  BY <1>2, <1>3, SameModel
<1>5. PICK e : Order(N, cap2, E, e, 0)
  BY <1>1
<1>6. r = <<>>
  BY <1>2, <1>5, NoItems
<1> QED BY <1>4, <1>6 DEF Contract!Move

(* Splice of one element.                                                  *)
LEMMA SpliceOneContract ==
  ASSUME NEW T, NEW cap, NEW E, NEW b, NEW m, Order(T, cap, E, b, m), m < cap, NEW t, t = Items(T),
         NEW before, NEW p, IsPlace(b, m, before, p),
         NEW S, NEW cap2, NEW c, NEW n, Order(S, cap2, E, c, n), NEW s, s = Items(S),
         NEW q, q \in 1..n, NEW x, x = c[q],
         NEW R, R = SpliceOne(T, before, S, x), NEW u, u = Items(R.t), NEW r, r = Items(R.s),
         Position' = Inserted(T, before, S.Element[x], 1)
  PROVE  Contract!SpliceOne(t, u, s, r, before, x)
<1> DEFINE e == Elm(S)[x]
           M == InsertOne(T, before, e)
           N == Delete(S, x, 1)
           one == 1
<1>1. R.t = M /\ R.s = N /\ S.Element[x] = e
  BY DEF SpliceOne, Elm
<1>2. /\ e \in E /\ n \in Nat /\ m \in Nat /\ cap \in Nat /\ m + one <= cap /\ one \in Nat
      /\ s = ItemsOf(c, n, Elm(S)) /\ c[q] # 0
      /\ p \in 1..(m + 1) /\ IsPlace(c, n, x, q)
  <2>1. /\ \A i \in 1..n : Elm(S)[c[i]] \in E /\ c[i] # 0
        /\ n \in Nat /\ m \in Nat /\ cap \in Nat
    BY OrderFacts
  <2>2. s = ItemsOf(c, n, Elm(S))
    BY OrderItems
  <2> QED BY <2>1, <2>2 DEF IsPlace
<1>3. M = Insert(T, before, e, one)
  <2> HIDE DEF one, e
  <2>1. PICK a : /\ a[0] = T /\ Insert(T, before, e, one) = a[one]
                 /\ \A i \in Nat : i < one => a[i + 1] = InsertOne(a[i], before, e)
    BY <1>2, InsertLoop
  <2>2. a[0 + 1] = InsertOne(a[0], before, e)
    BY <2>1 DEF one
  <2> QED BY <2>1, <2>2 DEF one
<1>4. DOMAIN s = 1..n /\ Len(s) = n /\ s[q].element = e
  <2>1. DOMAIN s = 1..n /\ Len(s) = n /\ \A i \in 1..n : s[i].element = Elm(S)[c[i]]
    BY <1>2, ItemsFacts
  <2> QED BY <2>1
<1>5. Contract!Place(s, x) = q
  <2>1. IsPlace(c, n, x, q)
    BY <1>2
  <2> QED BY <2>1, ItemsPlace
<1>6. Contract!Delete(s, r, x, one)
  <2>1. N = Delete(S, x, one) /\ r = Items(N)
    BY <1>1
  <2> HIDE DEF N, one
  <2> QED BY <1>2, <2>1, DeleteContract
<1>7. r = Contract!Removed(s, q, 1)
  <2>1. Contract!AtMost(1, Len(s) - q + 1) = 1
    BY <1>2, <1>4 DEF Contract!AtMost
  <2> QED BY <1>5, <1>6, <2>1 DEF Contract!Delete
<1>80. u = Items(M)
  BY <1>1
<1> HIDE DEF e, M, N, one
<1>8. /\ Contract!Place(t, before) = p
      /\ Contract!Added(t, u, p, one)
      /\ \A i \in p..(p + one - 1) : u[i].element = e
      /\ Inserted(T, before, e, one) = IF p \in DOMAIN u THEN u[p].cursor ELSE 0
  BY <1>2, <1>3, <1>80, InsertContract
<1>9. p \in p..(p + one - 1)
  BY <1>2 DEF one
<1>10. p \in DOMAIN u
  <2>1. PICK v : v = [i \in Nat |-> e]
    OBVIOUS
  <2>2. PICK d : Grown(T, M, cap, E, b, m, p, one, d, v)
    BY <1>2, <1>3, <2>1, OrderInsert
  <2>3. Order(M, cap, E, d, m + one)
    BY <2>2 DEF Grown
  <2>4. u = ItemsOf(d, m + one, Elm(M)) /\ m + one \in Nat
    BY <1>2, <1>80, <2>3, OrderItems
  <2>5. DOMAIN u = 1..(m + one)
    BY <2>4 DEF ItemsOf
  <2> QED BY <1>2, <2>5 DEF one
<1>11. Position' = u[p].cursor
  BY <1>1, <1>8, <1>10 DEF one
<1> QED BY <1>4, <1>5, <1>7, <1>8, <1>9, <1>11 DEF one, Contract!SpliceOne

(* The n places of u from p on have the elements of s, the last one first. *)
Mirroring(u, m, p, n, s) ==
  /\ m \in Nat /\ u = [i \in 1..m |-> u[i]]
  /\ p \in Nat /\ p > 0 /\ n \in Nat /\ p + n <= m + 1 /\ DOMAIN s = 1..n
  /\ \A j \in 1..n : u[p + j - 1].element = s[n + 1 - j].element

(* Then these are the elements of s.                                       *)
LEMMA ReversedCount ==
  ASSUME NEW u, NEW m, NEW p, NEW n, NEW s, Mirroring(u, m, p, n, s)
  PROVE  Contract!SameElements(Contract!Slice(u, p, n), s)
<1>0. /\ m \in Nat /\ u = [i \in 1..m |-> u[i]]
      /\ p \in Nat /\ p > 0 /\ n \in Nat /\ p + n <= m + 1 /\ DOMAIN s = 1..n
      /\ \A j \in 1..n : u[p + j - 1].element = s[n + 1 - j].element
  BY DEF Mirroring
<1> DEFINE w == SubSeq(u, p, p + n - 1)
           h == [j \in 1..n |-> n + 1 - j]
           a == [j \in 1..n |-> w[j].element]
           b == [j \in 1..n |-> s[j].element]
           D == 1..n
           T == Values(u, m)
<1>1. DOMAIN w = 1..n /\ \A j \in 1..n : w[j] = u[p + j - 1]
  <2>1. \A i \in 1..m : u[i] \in T
    BY ValuesMember
  <2> HIDE DEF T
  <2>2. u \in [1..m -> T] /\ u \in Seq(T) /\ Len(u) = m
    BY <1>0, <2>1
  <2> QED BY <1>0, <2>2
<1> HIDE DEF w
<1>2. IsFiniteSet(D) /\ h \in [D -> D]
  <2>1. IsFiniteSet(1..n)
    <3>1. n \in Int /\ 1 \in Int
      BY <1>0
    <3> QED BY <3>1, FS_Interval
  <2>2. \A j \in 1..n : n + 1 - j \in 1..n
    BY <1>0
  <2> QED BY <2>1, <2>2
<1>3. \A i, j \in D : h[i] = h[j] => i = j
  BY <1>0
<1>4. \A k \in D : \E j \in D : h[j] = k
  <2> TAKE k \in D
  <2>1. n + 1 - k \in D /\ n + 1 - (n + 1 - k) = k
    BY <1>0
  <2>2. h[n + 1 - k] = n + 1 - (n + 1 - k)
    BY <2>1
  <2> QED BY <2>1, <2>2
<1>5. \A j \in D : a[j] = b[h[j]]
  <2> TAKE j \in D
  <2>1. n + 1 - j \in 1..n
    BY <1>0
  <2>2. a[j] = u[p + j - 1].element /\ b[h[j]] = s[n + 1 - j].element
    BY <1>1, <2>1
  <2> QED BY <1>0, <2>2
<1>6. Matched(h, D, D, a, b)
  BY <1>2, <1>3, <1>4, <1>5 DEF Matched
<1>7. \A j \in D : a[j] = w[j].element /\ b[j] = s[j].element
  OBVIOUS
<1>70. DOMAIN w = D /\ DOMAIN s = D
  BY <1>0, <1>1
<1> HIDE DEF h, D, a, b
<1>8. ASSUME NEW e PROVE Cardinality({j \in D : w[j].element = e}) = Cardinality({j \in D : s[j].element = e})
  <2>1. Cardinality(PlacesOf(D, a, e)) = Cardinality(PlacesOf(D, b, e))
    BY <1>6, SameCount
  <2>2. {j \in D : w[j].element = e} = PlacesOf(D, a, e) /\ {j \in D : s[j].element = e} = PlacesOf(D, b, e)
    BY <1>7 DEF PlacesOf
  <2> QED BY <2>1, <2>2
<1>9. \A e : Contract!Occurrences(w, DOMAIN w, e) = Contract!Occurrences(s, DOMAIN s, e)
  <2>1. \A e : Contract!Occurrences(w, DOMAIN w, e) = Cardinality({j \in D : w[j].element = e})
    BY <1>70, ContractCardinality DEF Contract!Occurrences
  <2>2. \A e : Contract!Occurrences(s, DOMAIN s, e) = Cardinality({j \in D : s[j].element = e})
    BY <1>70, ContractCardinality DEF Contract!Occurrences
  <2> QED BY <1>8, <2>1, <2>2
<1>10. Contract!Slice(u, p, n) = w
  BY DEF Contract!Slice, w
<1> QED BY <1>9, <1>10 DEF Contract!SameElements

(* Splice of a whole list.                                                 *)
LEMMA SpliceAllContract ==
  ASSUME NEW T, NEW cap, NEW E, NEW b, NEW m, Order(T, cap, E, b, m), NEW t, t = Items(T),
         NEW before, NEW p, IsPlace(b, m, before, p),
         NEW S, NEW cap2, NEW c, NEW n, Order(S, cap2, E, c, n), m + n <= cap, NEW s, s = Items(S),
         NEW R, R = SpliceAll(T, before, S), NEW u, u = Items(R.t), NEW r, r = Items(R.s)
  PROVE  Contract!SpliceAll(t, u, s, r, before)
<1> DEFINE v == [i \in 1..n |-> Elm(S)[c[n + 1 - i]]]
           M == R.t
           N == R.s
           k == m + n
<1>0. Backward(v, S, c, n)
  BY DEF Backward
<1>1. /\ n \in Nat /\ m \in Nat /\ s = ItemsOf(c, n, Elm(S)) /\ p \in 1..(m + 1)
      /\ Contract!Place(t, before) = p
  <2>1. n \in Nat /\ m \in Nat
    BY OrderFacts
  <2>2. s = ItemsOf(c, n, Elm(S))
    BY OrderItems
  <2>3. Contract!Place(t, before) = p
    BY ItemsPlace
  <2> QED BY <2>1, <2>2, <2>3 DEF IsPlace
<1>2. DOMAIN s = 1..n /\ Len(s) = n /\ \A i \in 1..n : s[i].element = Elm(S)[c[i]]
  BY <1>1, ItemsFacts
<1>3. \A i \in 1..n : n + 1 - i \in 1..n /\ v[i] = s[n + 1 - i].element
  <2> TAKE i \in 1..n
  <2>1. n + 1 - i \in 1..n
    BY <1>1
  <2> QED BY <1>2, <2>1
<1>4. \A j \in 1..n : p + j - 1 \in p..(p + n - 1) /\ (p + j - 1) - p + 1 = j
  BY <1>1
<1>5. p \in Nat /\ p > 0 /\ p + n <= k + 1 /\ k \in Nat
  BY <1>1
<1> HIDE DEF v, M, N
<1>6. (\E d : Grown(T, M, cap, E, b, m, p, n, d, v)) /\ (\E d : Order(N, cap2, E, d, 0))
  BY <1>0, OrderSpliceAll DEF M, N
<1>7. PICK d : Grown(T, M, cap, E, b, m, p, n, d, v)
  BY <1>6
<1>8. PICK z : Order(N, cap2, E, z, 0)
  BY <1>6
<1>9. r = <<>>
  BY <1>8, NoItems DEF N
<1>10. u = Items(M)
  BY DEF M
<1>11. /\ Contract!Added(t, u, p, n)
       /\ \A i \in p..(p + n - 1) : i \in 1..(m + n) /\ u[i].element = v[i - p + 1]
  <2>1. p \in 1..(m + 1) /\ n \in Nat
    BY <1>1
  <2>2. Contract!Added(t, u, p, n)
    BY <1>7, <1>10, <2>1, GrownItems
  <2>3. \A i \in p..(p + n - 1) : i \in 1..(m + n) /\ u[i].element = v[i - p + 1]
    BY <1>7, <1>10, <2>1, GrownItems
  <2> QED BY <2>2, <2>3
<1> HIDE DEF k
<1>12. u = [i \in 1..k |-> u[i]]
  <2>1. Order(M, cap, E, d, k)
    BY <1>7 DEF Grown, k
  <2>2. u = ItemsOf(d, k, Elm(M))
    BY <1>10, <2>1, OrderItems
  <2> QED BY <1>5, <2>2, ItemsFacts
<1>13. \A j \in 1..n : u[p + j - 1].element = s[n + 1 - j].element
  BY <1>3, <1>4, <1>11
<1>14. Contract!SameElements(Contract!Slice(u, p, n), s)
  <2>1. Mirroring(u, k, p, n, s)
    BY <1>1, <1>2, <1>5, <1>12, <1>13 DEF Mirroring
  <2> QED BY <2>1, ReversedCount
<1> QED BY <1>1, <1>2, <1>9, <1>11, <1>14 DEF Contract!SpliceAll

(* u is made of the m items of t, in their order, and of items with the    *)
(* first k elements of s: o[i] is the number of the one at place i, first  *)
(* those of t, then those of s.                                            *)
Mixed(t, m, u, n, s, k, o) ==
  /\ m \in Nat /\ k \in Nat /\ n = m + k
  /\ o \in [1..n -> 1..n]
  /\ \A i, j \in 1..n : o[i] = o[j] => i = j
  /\ \A x \in 1..n : \E i \in 1..n : o[i] = x
  /\ \A i, j \in 1..n : i < j /\ o[j] <= m /\ o[i] <= m => o[i] < o[j]
  /\ \A i \in 1..n : o[i] <= m => u[i] = t[o[i]]
  /\ \A i \in 1..n : o[i] > m => u[i].element = s[o[i] - m].element

(* w is u with j items put in at place p: the elements of s after the      *)
(* first k, the last of them first.                                        *)
Mixing(u, n, w, p, j, s, k) ==
  /\ j \in Nat /\ k \in Nat /\ p \in 1..(n + 1)
  /\ u = Cut(w, n + j, p, j)
  /\ \A i \in 1..j : w[p + i - 1].element = s[k + j + 1 - i].element

(* The items of t and the first elements of s, before the first iteration. *)
LEMMA MixedStart ==
  ASSUME NEW t, NEW m, m \in Nat, NEW s
  PROVE  \E o : Mixed(t, m, t, m, s, 0, o)
<1> DEFINE o == [i \in 1..m |-> i]
<1>1. m = m + 0 /\ 0 \in Nat /\ o \in [1..m -> 1..m] /\ \A i \in 1..m : o[i] = i /\ ~(i > m)
  OBVIOUS
<1> HIDE DEF o
<1>2. Mixed(t, m, t, m, s, 0, o)
  BY <1>1 DEF Mixed
<1> QED BY <1>2

(* Where the items of u are in w, and where they are not.                  *)
MixedPlaces(u, n, w, p, j, s, k, N) ==
  /\ \A x \in 1..N : x < p => x \in 1..n /\ w[x] = u[x]
  /\ \A x \in 1..N : ~(x < p) /\ ~(x < p + j) => x - j \in 1..n /\ ~(x - j < p) /\ w[x] = u[x - j]
  /\ \A x \in 1..N : ~(x < p) /\ x < p + j =>
       w[x].element = s[k + (p + j - x)].element /\ p + j - x \in 1..j
  /\ \A y \in 1..n : y < p => y \in 1..N
  /\ \A y \in 1..n : ~(y < p) => y + j \in 1..N /\ ~(y + j < p) /\ ~(y + j < p + j) /\ (y + j) - j = y
  /\ \A y \in 1..j : p + j - y \in 1..N /\ ~(p + j - y < p) /\ p + j - y < p + j /\ p + j - (p + j - y) = y

(* A place is before the spliced items, among them or after them, and each *)
(* item is where the splice put it.                                        *)
LEMMA MixingPlaces ==
  ASSUME NEW u, NEW n, n \in Nat, NEW w, NEW p, NEW j, NEW s, NEW k, Mixing(u, n, w, p, j, s, k)
  PROVE  MixedPlaces(u, n, w, p, j, s, k, n + j)
<1>1. /\ j \in Nat /\ k \in Nat /\ p \in Nat /\ p > 0 /\ p <= n + 1
      /\ \A i \in 1..j : w[p + i - 1].element = s[k + j + 1 - i].element
  BY DEF Mixing
<1>2. u = [i \in 1..n |-> IF i < p THEN w[i] ELSE w[i + j]]
  <2>1. (n + j) - j = n
    BY <1>1
  <2> QED BY <2>1 DEF Mixing, Cut
<1>3. ASSUME NEW x \in 1..(n + j), x < p PROVE x \in 1..n /\ w[x] = u[x]
  BY <1>1, <1>2, <1>3
<1>4. ASSUME NEW x \in 1..(n + j), ~(x < p), ~(x < p + j)
      PROVE  x - j \in 1..n /\ ~(x - j < p) /\ w[x] = u[x - j]
  <2>1. x - j \in 1..n /\ ~(x - j < p) /\ (x - j) + j = x
    BY <1>1, <1>4
  <2>2. u[x - j] = w[(x - j) + j]
    BY <1>2, <2>1
  <2> QED BY <2>1, <2>2
<1>5. ASSUME NEW x \in 1..(n + j), ~(x < p), x < p + j
      PROVE  w[x].element = s[k + (p + j - x)].element /\ p + j - x \in 1..j
  <2> DEFINE i == x - p + 1
  <2>1. i \in 1..j /\ p + i - 1 = x /\ p + j - x \in 1..j /\ j + 1 - i = p + j - x
    BY <1>1, <1>5
  <2>2. w[p + i - 1].element = s[k + j + 1 - i].element
    BY <1>1, <2>1
  <2>3. k + j + 1 - i = k + (p + j - x)
    BY <1>1, <2>1
  <2> HIDE DEF i
  <2> QED BY <2>1, <2>2, <2>3
<1>6. /\ \A y \in 1..n : y < p => y \in 1..(n + j)
      /\ \A y \in 1..n : ~(y < p) => y + j \in 1..(n + j) /\ ~(y + j < p) /\ ~(y + j < p + j) /\ (y + j) - j = y
  BY <1>1
<1>7. \A y \in 1..j : p + j - y \in 1..(n + j) /\ ~(p + j - y < p) /\ p + j - y < p + j /\ p + j - (p + j - y) = y
  BY <1>1
<1> QED BY <1>1, <1>3, <1>4, <1>5, <1>6, <1>7 DEF MixedPlaces

(* With the items that are put in, w is made of more of s.                 *)
LEMMA MixedStep ==
  ASSUME NEW t, NEW m, NEW u, NEW n, NEW s, NEW k, NEW o, Mixed(t, m, u, n, s, k, o),
         NEW w, NEW p, NEW j, Mixing(u, n, w, p, j, s, k)
  PROVE  \E q : Mixed(t, m, w, n + j, s, k + j, q)
<1> DEFINE N == n + j
           q == [x \in 1..N |-> IF x < p THEN o[x] ELSE IF x < p + j THEN n + (p + j - x) ELSE o[x - j]]
<1>1. /\ m \in Nat /\ k \in Nat /\ n = m + k
      /\ o \in [1..n -> 1..n]
      /\ \A x, y \in 1..n : o[x] = o[y] => x = y
      /\ \A x \in 1..n : \E i \in 1..n : o[i] = x
      /\ \A x, y \in 1..n : x < y /\ o[y] <= m /\ o[x] <= m => o[x] < o[y]
      /\ \A i \in 1..n : o[i] <= m => u[i] = t[o[i]]
      /\ \A i \in 1..n : o[i] > m => u[i].element = s[o[i] - m].element
  BY DEF Mixed
<1>0. n \in Nat /\ m <= n
  BY <1>1
<1>02. j \in Nat /\ p \in Nat /\ p > 0 /\ p <= n + 1
  BY <1>0 DEF Mixing
<1>20. MixedPlaces(u, n, w, p, j, s, k, N)
  BY <1>0, MixingPlaces
<1>3. N \in Nat /\ N = m + (k + j) /\ k + j \in Nat /\ N = n + j
  BY <1>0, <1>1, <1>02
<1>4. /\ \A x \in 1..N : x < p => q[x] = o[x]
      /\ \A x \in 1..N : ~(x < p) /\ x < p + j => q[x] = n + (p + j - x)
      /\ \A x \in 1..N : ~(x < p) /\ ~(x < p + j) => q[x] = o[x - j]
      /\ DOMAIN q = 1..N /\ q = [x \in 1..N |-> q[x]]
  OBVIOUS
<1> HIDE DEF N, q
<1>2. /\ \A x \in 1..N : x < p => x \in 1..n /\ w[x] = u[x]
      /\ \A x \in 1..N : ~(x < p) /\ ~(x < p + j) => x - j \in 1..n /\ ~(x - j < p) /\ w[x] = u[x - j]
      /\ \A x \in 1..N : ~(x < p) /\ x < p + j =>
           w[x].element = s[k + (p + j - x)].element /\ p + j - x \in 1..j
      /\ \A y \in 1..n : y < p => y \in 1..N
      /\ \A y \in 1..n : ~(y < p) => y + j \in 1..N /\ ~(y + j < p) /\ ~(y + j < p + j) /\ (y + j) - j = y
      /\ \A y \in 1..j : p + j - y \in 1..N /\ ~(p + j - y < p) /\ p + j - y < p + j /\ p + j - (p + j - y) = y
  BY <1>20 DEF MixedPlaces
<1>5. \A x \in 1..N :
        \/ x < p /\ q[x] = o[x] /\ x \in 1..n /\ w[x] = u[x] /\ o[x] \in 1..n
        \/ /\ ~(x < p) /\ x < p + j /\ q[x] = n + (p + j - x) /\ p + j - x \in 1..j
           /\ w[x].element = s[k + (p + j - x)].element
        \/ /\ ~(x < p) /\ ~(x < p + j) /\ q[x] = o[x - j] /\ x - j \in 1..n /\ ~(x - j < p) /\ w[x] = u[x - j]
           /\ o[x - j] \in 1..n
  <2> TAKE x \in 1..N
  <2>1. CASE x < p
    BY <1>1, <1>2, <1>4, <2>1
  <2>2. CASE ~(x < p) /\ x < p + j
    BY <1>2, <1>4, <2>2
  <2>3. CASE ~(x < p) /\ ~(x < p + j)
    BY <1>1, <1>2, <1>4, <2>3
  <2> QED BY <2>1, <2>2, <2>3
<1>60. /\ \A y \in 1..n : y \in 1..N /\ y <= n
       /\ \A y \in 1..j : n + y \in 1..N /\ ~(n + y <= n)
  BY <1>0, <1>02, <1>3
<1>61. \A x \in 1..N : x < p => x < p + j
  BY <1>02, <1>3
<1>6. \A x \in 1..N : q[x] \in 1..N /\ (q[x] <= n <=> x < p \/ ~(x < p + j))
  <2> TAKE x \in 1..N
  <2>1. CASE x < p
    BY <1>5, <1>60, <2>1
  <2>2. CASE ~(x < p) /\ x < p + j
    <3>1. q[x] = n + (p + j - x) /\ p + j - x \in 1..j
      BY <1>5, <2>2
    <3> DEFINE y == p + j - x
    <3> HIDE DEF y
    <3>2. q[x] = n + y /\ y \in 1..j
      BY <3>1 DEF y
    <3> QED BY <1>60, <2>2, <3>2
  <2>3. CASE ~(x < p) /\ ~(x < p + j)
    BY <1>5, <1>60, <2>3
  <2> QED BY <2>1, <2>2, <2>3
<1>7. q \in [1..N -> 1..N]
  BY <1>4, <1>6
<1>8. ASSUME NEW x \in 1..N, NEW y \in 1..N, q[x] = q[y] PROVE x = y
  <2>1. CASE q[x] <= n
    <3> DEFINE X == IF x < p THEN x ELSE x - j
               Y == IF y < p THEN y ELSE y - j
    <3>1. X \in 1..n /\ Y \in 1..n /\ o[X] = o[Y]
      BY <1>5, <1>6, <1>8, <2>1
    <3>2. X = Y
      BY <1>1, <3>1
    <3>3. (x < p \/ ~(x - j < p)) /\ (y < p \/ ~(y - j < p))
      BY <1>5, <1>6, <1>8, <2>1
    <3> QED BY <1>02, <1>3, <3>2, <3>3
  <2>2. CASE ~(q[x] <= n)
    <3>1. q[x] = n + (p + j - x) /\ q[y] = n + (p + j - y)
      BY <1>5, <1>6, <1>8, <2>2
    <3>2. n \in Nat /\ p \in Nat /\ j \in Nat /\ N \in Nat
      BY <1>0, <1>02, <1>3
    <3>3. n + (p + j - x) = n + (p + j - y)
      BY <1>8, <3>1
    <3> QED BY <3>2, <3>3
  <2> QED BY <2>1, <2>2
<1>9. ASSUME NEW y \in 1..N PROVE \E x \in 1..N : q[x] = y
  <2>1. CASE y <= n
    <3>1. y \in 1..n
      BY <1>1, <1>3, <2>1
    <3>2. PICK z \in 1..n : o[z] = y
      BY <1>1, <3>1
    <3>3. CASE z < p
      BY <1>2, <1>4, <3>2, <3>3
    <3>4. CASE ~(z < p)
      <4> DEFINE x == z + j
      <4>1. x \in 1..N /\ ~(x < p) /\ ~(x < p + j) /\ x - j = z
        BY <1>2, <3>4
      <4> HIDE DEF x
      <4>2. q[x] = o[x - j]
        BY <1>4, <4>1
      <4> QED BY <3>2, <4>1, <4>2
    <3> QED BY <3>3, <3>4
  <2>2. CASE ~(y <= n)
    <3> DEFINE i == y - n
               x == p + j - i
    <3>1. i \in 1..j /\ n + i = y
      BY <1>0, <1>02, <1>3, <2>2
    <3>2. x \in 1..N /\ ~(x < p) /\ x < p + j /\ p + j - x = i
      BY <1>2, <3>1
    <3> HIDE DEF x, i
    <3>3. q[x] = n + (p + j - x)
      BY <1>4, <3>2
    <3> QED BY <3>1, <3>2, <3>3
  <2> QED BY <2>1, <2>2
<1>10. ASSUME NEW x \in 1..N, NEW y \in 1..N, x < y, q[y] <= m, q[x] <= m PROVE q[x] < q[y]
  <2> DEFINE X == IF x < p THEN x ELSE x - j
             Y == IF y < p THEN y ELSE y - j
  <2>9. q[x] \in 1..N /\ q[y] \in 1..N
    BY <1>6
  <2>0. q[x] <= n /\ q[y] <= n /\ q[x] \in Nat /\ q[y] \in Nat
    <3>1. q[x] \in Nat /\ q[y] \in Nat
      BY <1>3, <2>9
    <3>2. m \in Nat /\ m <= n /\ n \in Nat
      BY <1>0, <1>1
    <3> QED BY <1>10, <3>1, <3>2
  <2>1. X \in 1..n /\ Y \in 1..n /\ q[x] = o[X] /\ q[y] = o[Y]
    BY <1>5, <1>6, <2>0
  <2>2. (x < p \/ ~(x - j < p)) /\ (y < p \/ ~(y - j < p))
    BY <1>5, <1>6, <2>0
  <2>3. X < Y
    BY <1>02, <1>3, <1>10, <2>2
  <2> HIDE DEF X, Y
  <2> QED BY <1>1, <1>10, <2>1, <2>3
<1>11. ASSUME NEW x \in 1..N, q[x] <= m PROVE w[x] = t[q[x]]
  <2>1. q[x] \in 1..N
    BY <1>6
  <2>2. q[x] <= n
    BY <1>0, <1>1, <1>3, <1>11, <2>1
  <2>3. CASE x < p
    <3>1. q[x] = o[x] /\ x \in 1..n /\ w[x] = u[x]
      BY <1>5, <2>3
    <3> QED BY <1>1, <1>11, <3>1
  <2>4. CASE ~(x < p)
    <3>1. q[x] = o[x - j] /\ x - j \in 1..n /\ w[x] = u[x - j]
      BY <1>5, <1>6, <2>2, <2>4
    <3> QED BY <1>1, <1>11, <3>1
  <2> QED BY <2>3, <2>4
<1>12. ASSUME NEW x \in 1..N, q[x] > m PROVE w[x].element = s[q[x] - m].element
  <2>1. CASE q[x] <= n
    <3>3. CASE x < p
      <4>1. q[x] = o[x] /\ x \in 1..n /\ w[x] = u[x]
        BY <1>5, <3>3
      <4> QED BY <1>1, <1>12, <4>1
    <3>4. CASE ~(x < p)
      <4>1. q[x] = o[x - j] /\ x - j \in 1..n /\ w[x] = u[x - j]
        BY <1>5, <1>6, <2>1, <3>4
      <4> QED BY <1>1, <1>12, <4>1
    <3> QED BY <3>3, <3>4
  <2>2. CASE ~(q[x] <= n)
    <3>1. q[x] = n + (p + j - x) /\ w[x].element = s[k + (p + j - x)].element /\ p + j - x \in 1..j
      BY <1>5, <1>6, <2>2
    <3> DEFINE y == p + j - x
    <3> HIDE DEF y
    <3>2. q[x] = n + y /\ w[x].element = s[k + y].element /\ y \in 1..j
      BY <3>1 DEF y
    <3>3. q[x] - m = k + y
      BY <1>1, <1>02, <3>2
    <3> QED BY <3>2, <3>3
  <2> QED BY <2>1, <2>2
<1>13. Mixed(t, m, w, N, s, k + j, q)
  BY <1>1, <1>3, <1>7, <1>8, <1>9, <1>10, <1>11, <1>12 DEF Mixed
<1> QED BY <1>13 DEF N

(* When all of s is in, u is what Merge promises.                          *)
LEMMA MixedContract ==
  ASSUME NEW t, NEW m, NEW u, NEW N, NEW s, NEW n, NEW o, Mixed(t, m, u, N, s, n, o),
         DOMAIN t = 1..m, DOMAIN u = 1..N, DOMAIN s = 1..n
  PROVE  Contract!Merge(t, u, s, <<>>)
<1> DEFINE At(i) == CHOOSE j \in 1..N : o[j] = i
           f == [i \in 1..m |-> At(i)]
           old == {f[i] : i \in 1..m}
           new == (1..N) \ old
           later == {j \in 1..N : o[j] > m}
           R == 1..n
           h == [j \in later |-> o[j] - m]
           a == [j \in later |-> u[j].element]
           b == [j \in R |-> s[j].element]
<1>1. /\ m \in Nat /\ n \in Nat /\ N = m + n
      /\ o \in [1..N -> 1..N]
      /\ \A x, y \in 1..N : o[x] = o[y] => x = y
      /\ \A x \in 1..N : \E i \in 1..N : o[i] = x
      /\ \A x, y \in 1..N : x < y /\ o[y] <= m /\ o[x] <= m => o[x] < o[y]
      /\ \A i \in 1..N : o[i] <= m => u[i] = t[o[i]]
      /\ \A i \in 1..N : o[i] > m => u[i].element = s[o[i] - m].element
  BY DEF Mixed
<1>01. m \in Nat /\ n \in Nat /\ N = m + n
  BY <1>1
<1>2. N \in Nat /\ \A i \in 1..m : i \in 1..N /\ i <= m
  BY <1>1
<1>3. \A i \in 1..m : At(i) \in 1..N /\ o[At(i)] = i
  BY <1>1, <1>2
<1> HIDE DEF At
<1>4. f \in [1..m -> 1..N] /\ \A i \in 1..m : f[i] \in 1..N /\ o[f[i]] = i
  BY <1>3
<1> HIDE DEF f
<1>5. ASSUME NEW i \in 1..m, NEW j \in 1..m, i < j PROVE f[i] < f[j]
  <2>1. f[i] # f[j] /\ f[i] \in 1..N /\ f[j] \in 1..N /\ o[f[i]] = i /\ o[f[j]] = j /\ i <= m /\ j <= m
    BY <1>1, <1>4, <1>5
  <2>2. CASE f[j] < f[i]
    <3> DEFINE x == f[j]
               y == f[i]
    <3>0. x \in 1..N /\ y \in 1..N /\ x < y /\ o[x] <= m /\ o[y] <= m
      BY <2>1, <2>2
    <3> HIDE DEF x, y
    <3>9. o[x] < o[y]
      BY <1>1, <3>0
    <3>1. o[f[j]] < o[f[i]]
      BY <3>9 DEF x, y
    <3> QED BY <1>1, <1>5, <2>1, <3>1
  <2>3. f[i] \in Nat /\ f[j] \in Nat
    BY <1>2, <2>1
  <2> QED BY <2>1, <2>2, <2>3
<1>6. \A i \in 1..m : u[f[i]] = t[i]
  BY <1>1, <1>2, <1>4
<1>7. new = later
  <2>1. ASSUME NEW j \in 1..N PROVE j \in old <=> ~(o[j] > m)
    <3>1. o[j] \in 1..N
      BY <1>1
    <3>2. CASE o[j] > m
      <4>1. \A i \in 1..m : f[i] # j
        <5> TAKE i \in 1..m
        <5>1. o[f[i]] = i /\ ~(i > m)
          BY <1>1, <1>4
        <5> QED BY <3>2, <5>1
      <4> QED BY <3>2, <4>1
    <3>3. CASE ~(o[j] > m)
      <4>1. o[j] \in 1..m
        BY <1>1, <3>1, <3>3
      <4>2. f[o[j]] = j
        BY <1>1, <1>4, <4>1
      <4> QED BY <3>3, <4>1, <4>2
    <3> QED BY <3>2, <3>3
  <2> HIDE DEF old
  <2> QED BY <2>1
<1>8. Matched(h, later, R, a, b)
  <2>1. IsFiniteSet(later)
    <3>1. N \in Int /\ 1 \in Int
      BY <1>2
    <3>2. IsFiniteSet(1..N)
      BY <3>1, FS_Interval
    <3>3. later \subseteq 1..N
      OBVIOUS
    <3> HIDE DEF later
    <3> QED BY <3>2, <3>3, FS_Subset
  <2>2. \A j \in later : j \in 1..N /\ o[j] \in 1..N /\ o[j] > m /\ o[j] - m \in R
    <3> TAKE j \in later
    <3>1. j \in 1..N /\ o[j] > m /\ o[j] \in 1..N
      BY <1>1
    <3>2. o[j] - m \in 1..n
      BY <1>01, <3>1
    <3> QED BY <3>1, <3>2
  <2>3. \A j \in later : h[j] = o[j] - m /\ a[j] = u[j].element
    OBVIOUS
  <2>30. h \in [later -> R]
    BY <2>2
  <2>4. ASSUME NEW x \in later, NEW y \in later, h[x] = h[y] PROVE x = y
    <3>1. o[x] = o[y]
      BY <1>1, <2>2, <2>3, <2>4
    <3> QED BY <1>1, <2>2, <3>1
  <2>5. ASSUME NEW k \in R PROVE \E j \in later : h[j] = k
    <3>1. m + k \in 1..N /\ m + k > m /\ (m + k) - m = k
      BY <1>1
    <3>2. PICK j \in 1..N : o[j] = m + k
      BY <1>1, <3>1
    <3>3. j \in later
      BY <3>1, <3>2
    <3> QED BY <2>3, <3>1, <3>2, <3>3
  <2>6. \A j \in later : a[j] = b[h[j]]
    BY <1>1, <2>2, <2>3
  <2> HIDE DEF h, later, R, a, b
  <2> QED BY <2>1, <2>30, <2>4, <2>5, <2>6 DEF Matched
<1>9. (\A j \in later : a[j] = u[j].element) /\ (\A j \in R : b[j] = s[j].element) /\ DOMAIN s = R
  OBVIOUS
<1> HIDE DEF h, later, R, a, b, new
<1>10. \A e : Contract!Occurrences(u, new, e) = Contract!Occurrences(s, DOMAIN s, e)
  <2> TAKE e
  <2>1. Cardinality(PlacesOf(later, a, e)) = Cardinality(PlacesOf(R, b, e))
    BY <1>8, SameCount
  <2>2. {j \in later : u[j].element = e} = PlacesOf(later, a, e) /\ {j \in R : s[j].element = e} = PlacesOf(R, b, e)
    BY <1>9 DEF PlacesOf
  <2> QED BY <1>7, <1>9, <2>1, <2>2, ContractCardinality DEF Contract!Occurrences
<1>11. f \in [DOMAIN t -> DOMAIN u] /\ new = DOMAIN u \ {f[i] : i \in DOMAIN t}
  BY <1>4 DEF new
<1> HIDE DEF old
<1> QED BY <1>5, <1>6, <1>10, <1>11 DEF Contract!Merge

(* v holds j elements of s, the ones after the first k, from the last on.  *)
Following(v, s, k, j) ==
  /\ k \in Nat /\ j \in Nat
  /\ \A i \in 1..j : v[i] = s[k + j + 1 - i].element

(* Nodes that are put in keep the target a mixture.                        *)
LEMMA GrownMixed ==
  ASSUME NEW T, NEW cap, NEW E, NEW d, NEW N, Order(T, cap, E, d, N), NEW u, u = Items(T),
         NEW t, NEW m, NEW s, NEW k, NEW o, Mixed(t, m, u, N, s, k, o),
         NEW M, NEW p, NEW j, NEW h, NEW v, Grown(T, M, cap, E, d, N, p, j, h, v),
         p \in 1..(N + 1), Following(v, s, k, j), NEW w, w = Items(M)
  PROVE  \E q : Mixed(t, m, w, N + j, s, k + j, q)
<1> DEFINE r == N + j
<1>1. N \in Nat /\ j \in Nat /\ k \in Nat /\ p \in Nat /\ p > 0
  BY OrderFacts DEF Following
<1>2. r \in Nat /\ p + j <= r + 1
  BY <1>1
<1>3. Contract!Added(u, w, p, j)
  BY <1>1, GrownItems
<1>4. \A i \in p..(p + j - 1) : i \in 1..(N + j) /\ w[i].element = v[i - p + 1]
  <2>1. j \in Nat
    BY <1>1
  <2> QED BY <2>1, GrownItems
<1>5. \A i \in 1..j : p + i - 1 \in p..(p + j - 1) /\ (p + i - 1) - p + 1 = i
  BY <1>1
<1>6. \A i \in 1..j : w[p + i - 1].element = s[k + j + 1 - i].element
  BY <1>4, <1>5 DEF Following
<1> HIDE DEF r
<1>7. w = [i \in 1..r |-> w[i]]
  <2>1. Order(M, cap, E, h, r)
    BY DEF Grown, r
  <2>2. w = ItemsOf(h, r, Elm(M))
    BY <2>1, OrderItems
  <2> QED BY <1>2, <2>2, ItemsFacts
<1>8. Contract!Removed(w, p, j) = Cut(w, r, p, j)
  BY <1>1, <1>2, <1>7, RemovedItems
<1>9. u = Cut(w, N + j, p, j)
  BY <1>3, <1>8 DEF Contract!Added, r
<1>10. Mixing(u, N, w, p, j, s, k)
  BY <1>1, <1>6, <1>9 DEF Mixing
<1> QED BY <1>10, MixedStep

(* J is S without its first k nodes, or has no node at all.                *)
Remaining(S, J, cap, E, c, n, k) ==
  IF k = n THEN \E z : Order(J, cap, E, z, 0) ELSE Shrunk(S, J, cap, E, c, n, 1, k)

(* A source that has lost its first nodes remains.                         *)
LEMMA ShrunkRemains ==
  ASSUME NEW S, NEW J, NEW cap, NEW E, NEW c, NEW n, n \in Nat, NEW k,
         Shrunk(S, J, cap, E, c, n, 1, k)
  PROVE  Remaining(S, J, cap, E, c, n, k)
<1>1. CASE k = n
  <2>1. Order(J, cap, E, Cut(c, n, 1, k), n - k) /\ n - k = 0
    BY <1>1 DEF Shrunk
  <2> QED BY <1>1, <2>1 DEF Remaining
<1>2. CASE k # n
  BY <1>2 DEF Remaining
<1> QED BY <1>1, <1>2

(* The state of Merge after i iterations: k elements of the source have    *)
(* gone, and the cursor of the target has come to place i + 1, which       *)
(* counts nodes of both.                                                   *)
MergeAt(p, i, cap, cap2, E, t, m, S, s, c, n) ==
  /\ DOMAIN p = {"t", "s", "li", "ri"}
  /\ \E k, d, o :
       /\ k \in 0..n
       /\ Remaining(S, p.s, cap2, E, c, n, k)
       /\ p.ri = IF k = n THEN 0 ELSE c[k + 1]
       /\ Order(p.t, cap, E, d, m + k)
       /\ Mixed(t, m, Items(p.t), m + k, s, k, o)
       /\ p.ri = 0 \/ IsPlace(d, m + k, p.li, i + 1)

(* The source J: the first k of the n nodes c of S have gone.              *)
Headed(S, J, c, n, k) ==
  /\ Elm(J) = Elm(S)
  /\ Fst(J) = c[k + 1]
  /\ Nxt(J)[c[k + 1]] = IF k + 1 = n THEN 0 ELSE c[(k + 1) + 1]
  /\ \A i \in 1..(n - k) : Cut(c, n, 1, k)[i] = c[i + k]

(* What a source that has lost its first nodes is.                         *)
LEMMA ShrunkHead ==
  ASSUME NEW S, NEW cap, NEW E, NEW c, NEW n, n \in Nat, NEW k, k \in Nat, k < n,
         NEW J, Shrunk(S, J, cap, E, c, n, 1, k)
  PROVE  Headed(S, J, c, n, k)
<1> DEFINE d == Cut(c, n, 1, k)
           r == n - k
<1>1. Order(J, cap, E, d, r) /\ Elm(J) = Elm(S)
  BY DEF Shrunk
<1>2. /\ r \in Nat /\ r # 0 /\ 1 \in 1..r /\ (1 = r <=> k + 1 = n) /\ (1 # r => 1 + 1 \in 1..r)
      /\ 1 + k = k + 1 /\ (1 + 1) + k = (k + 1) + 1
  OBVIOUS
<1>3. \A i \in 1..r : d[i] = c[i + k]
  BY DEF Cut
<1> HIDE DEF d, r
<1>4. /\ Fst(J) = d[1]
      /\ \A i \in 1..r : Nxt(J)[d[i]] = IF i = r THEN 0 ELSE d[i + 1]
  BY <1>1, <1>2, OrderFacts
<1>5. Nxt(J)[d[1]] = IF 1 = r THEN 0 ELSE d[1 + 1]
  BY <1>2, <1>4
<1>6. d[1] = c[k + 1] /\ (1 # r => d[1 + 1] = c[(k + 1) + 1])
  BY <1>2, <1>3
<1> QED BY <1>1, <1>2, <1>3, <1>4, <1>5, <1>6 DEF d, r, Headed

(* An iteration that moves an element of the source to the target.         *)
LEMMA MergeTakes ==
  ASSUME NEW t, NEW m, NEW S, NEW s, NEW c, NEW n, NEW cap, NEW cap2, NEW E,
         Order(S, cap2, E, c, n), s = Items(S), m \in Nat, m + n <= cap,
         NEW J, NEW K, NEW l, NEW i, i \in Nat, NEW k, NEW d, NEW o, k \in 0..n, k # n,
         Shrunk(S, J, cap2, E, c, n, 1, k), Order(K, cap, E, d, m + k),
         NEW u, u = Items(K), Mixed(t, m, u, m + k, s, k, o), IsPlace(d, m + k, l, i + 1),
         NEW R, R = SpliceOne(K, l, J, c[k + 1]), NEW q,
         q = [t |-> R.t, s |-> R.s, li |-> l, ri |-> Nxt(J)[c[k + 1]]]
  PROVE  MergeAt(q, i + 1, cap, cap2, E, t, m, S, s, c, n)
<1> DEFINE e == Elm(J)[c[k + 1]]
           N == m + k
           M == InsertOne(K, l, e)
           D == Delete(J, c[k + 1], 1)
           r == Nxt(J)[c[k + 1]]
           a == Allocate(K, e).node
           h == InsertAt(d, N, i + 1, a)
           p == i + 1
           v == [x \in 1..1 |-> s[k + 1].element]
           one == 1
<1>1. /\ n \in Nat /\ k \in Nat /\ k < n /\ k + 1 \in 1..n /\ N \in Nat /\ N < cap /\ N + one = m + (k + 1)
      /\ \A j \in 1..n : c[j] # 0 /\ Elm(S)[c[j]] \in E
  <2>1. n \in Nat /\ cap2 \in Nat /\ \A j \in 1..n : c[j] # 0 /\ Elm(S)[c[j]] \in E
    BY OrderFacts
  <2>2. cap \in Nat
    BY OrderFacts
  <2> QED BY <2>1, <2>2
<1>2. R.t = M /\ R.s = D /\ q.t = R.t /\ q.s = R.s /\ q.li = l /\ q.ri = r /\ DOMAIN q = {"t", "s", "li", "ri"}
  BY DEF SpliceOne, Elm
<1>3. /\ Elm(J) = Elm(S) /\ Fst(J) = c[k + 1]
      /\ Nxt(J)[c[k + 1]] = IF k + 1 = n THEN 0 ELSE c[(k + 1) + 1]
  <2>1. n \in Nat /\ k \in Nat /\ k < n
    BY <1>1
  <2>2. Headed(S, J, c, n, k)
    BY <2>1, ShrunkHead
  <2> QED BY <2>2 DEF Headed
<1>4. D = Delete_First(J, 1)
  BY <1>3 DEF Delete, Fst
<1>5. e \in E /\ e = s[k + 1].element
  <2>1. s = ItemsOf(c, n, Elm(S))
    BY OrderItems
  <2>2. \A j \in 1..n : s[j].element = Elm(S)[c[j]]
    BY <1>1, <2>1, ItemsFacts
  <2> QED BY <1>1, <1>3, <2>2
<1>6. p \in 1..(N + 1) /\ IsPlace(d, N, l, p) /\ one \in Nat /\ 0 \in Nat /\ 0 + 1 = one /\ N + 0 = N /\ p + 0 = p
  BY DEF IsPlace
<1>7. e = v[0 + 1] /\ Following(v, s, k, one)
  <2>1. \A x \in 1..1 : x = 1 /\ k + 1 + 1 - x = k + 1
    BY <1>1
  <2> QED BY <1>1, <1>5, <2>1 DEF Following
<1> HIDE DEF e, M, D, r, a, v, p, one
<1>8. Shrunk(S, D, cap2, E, c, n, 1, k + 1)
  BY <1>1, <1>4, ShrunkFirst
<1> HIDE DEF N
<1>9. Order(K, cap, E, d, N) /\ Mixed(t, m, u, N, s, k, o)
  BY DEF N
<1>10. Grown(K, M, cap, E, d, N, p, one, h, v)
  <2> DEFINE z == 0
  <2>1. Grown(K, K, cap, E, d, N, p, z, d, v)
    BY <1>9, GrownStart
  <2>2. z \in Nat /\ N + z < cap /\ N + z = N /\ p + z = p /\ z + 1 = one /\ e = v[z + 1]
    BY <1>1, <1>6, <1>7
  <2>3. h = InsertAt(d, N + z, p + z, a)
    BY <2>2 DEF p
  <2> HIDE DEF z, h
  <2>4. Grown(K, M, cap, E, d, N, p, z + 1, h, v)
    BY <1>1, <1>5, <1>6, <2>1, <2>2, <2>3, GrownStep DEF M, a
  <2> QED BY <2>2, <2>4
<1> HIDE DEF h
<1> DEFINE w == Items(M)
<1> HIDE DEF w
<1>11. PICK x : Mixed(t, m, w, N + one, s, k + one, x)
  BY <1>6, <1>7, <1>9, <1>10, GrownMixed DEF w
<1>12. IsPlace(h, N + one, l, p + one)
  BY <1>1, <1>6, <1>10, GrownPlace
<1>13. Order(M, cap, E, h, N + one)
  BY <1>10 DEF Grown
<1>14. k + 1 \in 0..n /\ k + one = k + 1 /\ p + one = (i + 1) + 1
  BY <1>1 DEF one, p
<1>15. r = IF k + 1 = n THEN 0 ELSE c[(k + 1) + 1]
  BY <1>3 DEF r
<1> DEFINE kk == k + 1
<1>17. Remaining(S, q.s, cap2, E, c, n, kk)
  <2>1. n \in Nat /\ Shrunk(S, q.s, cap2, E, c, n, 1, kk)
    BY <1>1, <1>2, <1>8
  <2> HIDE DEF kk
  <2> QED BY <2>1, ShrunkRemains
<1>16. /\ kk \in 0..n
       /\ q.ri = IF kk = n THEN 0 ELSE c[kk + 1]
       /\ Order(q.t, cap, E, h, m + kk)
       /\ Mixed(t, m, Items(q.t), m + kk, s, kk, x)
       /\ IsPlace(h, m + kk, q.li, (i + 1) + 1)
  BY <1>1, <1>2, <1>8, <1>11, <1>12, <1>13, <1>14, <1>15 DEF w
<1> HIDE DEF kk
<1> QED BY <1>2, <1>16, <1>17 DEF MergeAt

(* The last iteration that changes the lists: it moves what is left of the *)
(* source behind the target.                                               *)
LEMMA MergeEnds ==
  ASSUME NEW t, NEW m, NEW S, NEW s, NEW c, NEW n, NEW cap, NEW cap2, NEW E,
         Order(S, cap2, E, c, n), s = Items(S), m \in Nat, m + n <= cap,
         NEW J, NEW K, NEW i, NEW k, NEW d, NEW o, k \in 0..n, k # n,
         Shrunk(S, J, cap2, E, c, n, 1, k), Order(K, cap, E, d, m + k),
         NEW u, u = Items(K), Mixed(t, m, u, m + k, s, k, o),
         NEW R, R = SpliceAll(K, 0, J), NEW q, q = [t |-> R.t, s |-> R.s, li |-> 0, ri |-> 0]
  PROVE  MergeAt(q, i, cap, cap2, E, t, m, S, s, c, n)
<1> DEFINE N == m + k
           j == n - k
           b == Cut(c, n, 1, k)
           v == [x \in 1..j |-> Elm(J)[b[j + 1 - x]]]
           p == N + 1
           before == 0
<1>1. /\ n \in Nat /\ k \in Nat /\ k < n /\ N \in Nat /\ cap \in Nat
      /\ j \in Nat /\ N + j = m + n /\ k + j = n
  BY OrderFacts
<1>2. q.t = R.t /\ q.s = R.s /\ q.li = 0 /\ q.ri = 0 /\ DOMAIN q = {"t", "s", "li", "ri"}
  OBVIOUS
<1>3. Elm(J) = Elm(S) /\ \A x \in 1..j : b[x] = c[x + k]
  <2>1. n \in Nat /\ k \in Nat /\ k < n
    BY <1>1
  <2>2. Headed(S, J, c, n, k)
    BY <2>1, ShrunkHead
  <2> QED BY <2>2 DEF Headed
<1>4. \A x \in 1..n : s[x].element = Elm(S)[c[x]]
  <2>1. s = ItemsOf(c, n, Elm(S))
    BY OrderItems
  <2> QED BY <1>1, <2>1, ItemsFacts
<1>5. Following(v, s, k, j)
  <2>1. ASSUME NEW x \in 1..j PROVE v[x] = s[k + j + 1 - x].element
    <3>1. j + 1 - x \in 1..j /\ (j + 1 - x) + k \in 1..n /\ (j + 1 - x) + k = k + j + 1 - x
      BY <1>1
    <3>2. v[x] = Elm(J)[b[j + 1 - x]]
      OBVIOUS
    <3>3. b[j + 1 - x] = c[(j + 1 - x) + k]
      BY <1>3, <3>1
    <3> QED BY <1>3, <1>4, <3>1, <3>2, <3>3
  <2> HIDE DEF v, j
  <2> QED BY <1>1, <2>1 DEF Following
<1>6. Backward(v, J, b, j)
  BY DEF Backward
<1>7. IsPlace(d, N, before, p) /\ p \in 1..(N + 1)
  BY <1>1 DEF IsPlace
<1>8. Order(J, cap2, E, b, j) /\ N + j <= cap /\ R = SpliceAll(K, before, J)
  BY <1>1 DEF Shrunk
<1>9. Order(K, cap, E, d, N) /\ Mixed(t, m, u, N, s, k, o)
  OBVIOUS
<1>10. N + j = m + n /\ k + j = n
  BY <1>1
<1> HIDE DEF v, b, j, p, before, N
<1>11. (\E h : Grown(K, R.t, cap, E, d, N, p, j, h, v)) /\ (\E h : Order(R.s, cap2, E, h, 0))
  BY <1>6, <1>7, <1>8, <1>9, OrderSpliceAll
<1>12. PICK h : Grown(K, R.t, cap, E, d, N, p, j, h, v)
  BY <1>11
<1> DEFINE M == R.t
           w == Items(M)
<1>120. Grown(K, M, cap, E, d, N, p, j, h, v)
  BY <1>12
<1> HIDE DEF M, w
<1>13. PICK x : Mixed(t, m, w, N + j, s, k + j, x)
  BY <1>5, <1>7, <1>9, <1>120, GrownMixed DEF w
<1>14. Order(M, cap, E, h, N + j)
  BY <1>120 DEF Grown
<1>15. Remaining(S, q.s, cap2, E, c, n, n)
  BY <1>2, <1>11 DEF Remaining
<1>16. n \in 0..n
  BY <1>1
<1>17. /\ Order(q.t, cap, E, h, m + n)
       /\ Mixed(t, m, Items(q.t), m + n, s, n, x)
  BY <1>2, <1>10, <1>13, <1>14 DEF M, w
<1> QED BY <1>2, <1>15, <1>16, <1>17 DEF MergeAt

(* An iteration that goes on to the next node of the target.               *)
LEMMA MergeSkips ==
  ASSUME NEW t, NEW m, NEW S, NEW s, NEW c, NEW n, NEW cap, NEW cap2, NEW E,
         n \in Nat, m \in Nat,
         NEW J, NEW K, NEW l, l # 0, NEW r, NEW i, i \in Nat, NEW k, NEW d, NEW o, k \in 0..n,
         Remaining(S, J, cap2, E, c, n, k), r = IF k = n THEN 0 ELSE c[k + 1],
         Order(K, cap, E, d, m + k), Mixed(t, m, Items(K), m + k, s, k, o),
         IsPlace(d, m + k, l, i + 1),
         NEW q, DOMAIN q = {"t", "s", "li", "ri"}, q.t = K, q.s = J, q.li = Nxt(K)[l], q.ri = r
  PROVE  MergeAt(q, i + 1, cap, cap2, E, t, m, S, s, c, n)
<1> DEFINE N == m + k
           p == i + 1
<1>1. N \in Nat /\ p \in 1..(N + 1) /\ (IF l = 0 THEN p = N + 1 ELSE p \in 1..N /\ l = d[p])
  BY DEF IsPlace
<1>2. p \in 1..N /\ l = d[p] /\ p + 1 \in 1..(N + 1)
  BY <1>1
<1>3. Order(K, cap, E, d, N)
  OBVIOUS
<1> HIDE DEF N, p
<1>4. (\A x \in 1..N : Nxt(K)[d[x]] = IF x = N THEN 0 ELSE d[x + 1]) /\ (\A x \in 1..N : d[x] # 0)
  BY <1>3, OrderFacts
<1>5. Nxt(K)[l] = IF p = N THEN 0 ELSE d[p + 1]
  BY <1>2, <1>4
<1>6. p # N => p + 1 \in 1..N
  BY <1>1, <1>2
<1>7. IsPlace(d, N, q.li, p + 1)
  BY <1>2, <1>4, <1>5, <1>6 DEF IsPlace
<1>8. IsPlace(d, m + k, q.li, (i + 1) + 1)
  BY <1>7 DEF N, p
<1> QED BY <1>8 DEF MergeAt

(* Every iteration of Merge.                                               *)
LEMMA MergeGoes ==
  ASSUME NEW t, NEW m, NEW S, NEW s, NEW c, NEW n, NEW cap, NEW cap2, NEW E,
         Order(S, cap2, E, c, n), s = Items(S), m \in Nat, m + n <= cap,
         NEW p, NEW i, i \in Nat, MergeAt(p, i, cap, cap2, E, t, m, S, s, c, n),
         NEW q, q = Step("Merge", 0, i + 1, p)
  PROVE  MergeAt(q, i + 1, cap, cap2, E, t, m, S, s, c, n)
<1> DEFINE K == p.t
           J == p.s
           l == p.li
           r == p.ri
<1>0. n \in Nat /\ \A x \in 1..n : c[x] # 0
  BY OrderFacts
<1>1. PICK k, d, o :
        /\ k \in 0..n
        /\ Remaining(S, J, cap2, E, c, n, k)
        /\ r = IF k = n THEN 0 ELSE c[k + 1]
        /\ Order(K, cap, E, d, m + k)
        /\ Mixed(t, m, Items(K), m + k, s, k, o)
        /\ r = 0 \/ IsPlace(d, m + k, l, i + 1)
  BY DEF MergeAt
<1>2. DOMAIN p = {"t", "s", "li", "ri"}
  BY DEF MergeAt
<1>3. k # n => r = c[k + 1] /\ r # 0 /\ Shrunk(S, J, cap2, E, c, n, 1, k)
  <2>1. k # n => k + 1 \in 1..n
    BY <1>0, <1>1
  <2> QED BY <1>0, <1>1, <2>1 DEF Remaining
<1>4. CASE r = 0
  <2>1. q = p
    BY <1>4 DEF Step
  <2> QED BY <1>1, <1>2, <1>4, <2>1 DEF MergeAt
<1>5. CASE r # 0 /\ l = 0
  <2> DEFINE R == SpliceAll(K, 0, J)
             u == Items(K)
  <2>1. q = [t |-> R.t, s |-> R.s, li |-> 0, ri |-> 0]
    BY <1>5 DEF Step
  <2>2. k # n
    BY <1>1, <1>5
  <2>3. Mixed(t, m, u, m + k, s, k, o)
    BY <1>1
  <2> DEFINE y == i + 1
  <2> HIDE DEF R, u, K, J, y, l, r
  <2>4. MergeAt(q, y, cap, cap2, E, t, m, S, s, c, n)
    BY <1>1, <1>3, <2>1, <2>2, <2>3, MergeEnds DEF R, u
  <2> QED BY <2>4 DEF y
<1>6. CASE r # 0 /\ l # 0 /\ J.Element[r] < K.Element[l]
  <2> DEFINE R == SpliceOne(K, l, J, r)
             u == Items(K)
  <2>1. q = [t |-> R.t, s |-> R.s, li |-> l, ri |-> Nxt(J)[r]]
    BY <1>6 DEF Step, Nxt
  <2>2. k # n
    BY <1>1, <1>6
  <2>3. Mixed(t, m, u, m + k, s, k, o) /\ IsPlace(d, m + k, l, i + 1)
    BY <1>1, <1>6
  <2> HIDE DEF R, u, K, J, l, r
  <2>4. R = SpliceOne(K, l, J, c[k + 1]) /\ q = [t |-> R.t, s |-> R.s, li |-> l, ri |-> Nxt(J)[c[k + 1]]]
    BY <1>3, <2>1, <2>2 DEF R
  <2> QED BY <1>1, <1>3, <2>2, <2>3, <2>4, MergeTakes DEF u
<1>7. CASE r # 0 /\ l # 0 /\ ~(J.Element[r] < K.Element[l])
  <2>1. q = [p EXCEPT !.li = Nxt(K)[l]]
    BY <1>7 DEF Step, Nxt
  <2>2. q.t = K /\ q.s = J /\ q.li = Nxt(K)[l] /\ q.ri = r /\ DOMAIN q = {"t", "s", "li", "ri"}
    BY <1>2, <2>1
  <2>3. IsPlace(d, m + k, l, i + 1)
    BY <1>1, <1>7
  <2> HIDE DEF K, J, l, r
  <2> QED BY <1>0, <1>1, <1>7, <2>2, <2>3, MergeSkips
<1> QED BY <1>4, <1>5, <1>6, <1>7

(* Merge.                                                                  *)
LEMMA MergeContract ==
  ASSUME NEW T, NEW cap, NEW E, NEW b, NEW m, Order(T, cap, E, b, m), NEW t, t = Items(T),
         NEW S, NEW cap2, NEW c, NEW n, Order(S, cap2, E, c, n), m + n <= cap, NEW s, s = Items(S),
         NEW R, R = Merge(T, S), NEW u, u = Items(R.t), NEW r, r = Items(R.s)
  PROVE  Contract!Merge(t, u, s, r)
<1> DEFINE z == m + n + 1
<1>1. n \in Nat /\ m \in Nat /\ z \in Nat /\ Lng(T) = m /\ Lng(S) = n
  <2>1. m \in Nat /\ Lng(T) = m
    BY OrderFacts
  <2>2. n \in Nat /\ Lng(S) = n
    BY OrderFacts
  <2> QED BY <2>1, <2>2
<1>2. PICK a : /\ MergeStart(a[0], T, S)
               /\ Merge(T, S) = a[z]
               /\ \A i \in Nat : i < z => a[i + 1] = Step("Merge", 0, i + 1, a[i])
  BY <1>1, MergeLoop
<1> DEFINE P == {i \in Nat : i <= z => MergeAt(a[i], i, cap, cap2, E, t, m, S, s, c, n)}
<1>30. z \in Nat
  BY <1>1
<1> HIDE DEF z
<1>3. 0 \in P
  <2> DEFINE k == 0
             p == a[0]
  <2>1. p.t = T /\ p.s = S /\ p.li = Fst(T) /\ p.ri = Fst(S) /\ DOMAIN p = {"t", "s", "li", "ri"}
    BY <1>2 DEF MergeStart
  <2>2. PICK o : Mixed(t, m, t, m, s, 0, o)
    BY <1>1, MixedStart
  <2>3. Remaining(S, S, cap2, E, c, n, 0)
    <3>1. Shrunk(S, S, cap2, E, c, n, 1, 0)
      BY ShrunkStart
    <3> QED BY <1>1, <3>1, ShrunkRemains
  <2>4. Fst(S) = IF 0 = n THEN 0 ELSE c[0 + 1]
    BY OrderFacts
  <2>5. IsPlace(b, m, Fst(T), 1)
    <3>1. (m = 0 => Fst(T) = 0) /\ (m # 0 => Fst(T) = b[1]) /\ (\A x \in 1..m : b[x] # 0)
      BY OrderFacts
    <3>2. 1 \in 1..(m + 1) /\ (m # 0 => 1 \in 1..m) /\ (m = 0 => 1 = m + 1)
      BY <1>1
    <3> QED BY <3>1, <3>2 DEF IsPlace
  <2>6. 0 \in 0..n /\ m + 0 = m /\ 0 + 1 = 1
    BY <1>1
  <2>7. /\ k \in 0..n /\ Remaining(S, p.s, cap2, E, c, n, k)
        /\ p.ri = IF k = n THEN 0 ELSE c[k + 1]
        /\ Order(p.t, cap, E, b, m + k) /\ Mixed(t, m, Items(p.t), m + k, s, k, o)
        /\ IsPlace(b, m + k, p.li, 0 + 1)
    BY <2>1, <2>2, <2>3, <2>4, <2>5, <2>6
  <2> HIDE DEF k, p
  <2>8. MergeAt(p, 0, cap, cap2, E, t, m, S, s, c, n)
    BY <2>1, <2>7 DEF MergeAt
  <2> QED BY <2>8 DEF p
<1>4. ASSUME NEW i \in Nat, i \in P PROVE i + 1 \in P
  <2>1. SUFFICES ASSUME i + 1 <= z PROVE MergeAt(a[i + 1], i + 1, cap, cap2, E, t, m, S, s, c, n)
    OBVIOUS
  <2> DEFINE p == a[i]
             q == a[i + 1]
  <2>2. MergeAt(p, i, cap, cap2, E, t, m, S, s, c, n) /\ q = Step("Merge", 0, i + 1, p)
    BY <1>2, <1>4, <1>30, <2>1
  <2>3. m \in Nat
    BY <1>1
  <2> HIDE DEF p, q
  <2>4. MergeAt(q, i + 1, cap, cap2, E, t, m, S, s, c, n)
    BY <2>2, <2>3, MergeGoes
  <2> QED BY <2>4 DEF q
<1> HIDE DEF P
<1>5. z \in P
  BY <1>3, <1>4, <1>30, NatInd
<1>6. MergeAt(R, z, cap, cap2, E, t, m, S, s, c, n)
  BY <1>2, <1>5, <1>30 DEF P
<1>7. PICK k, d, o :
        /\ k \in 0..n
        /\ Remaining(S, R.s, cap2, E, c, n, k)
        /\ R.ri = IF k = n THEN 0 ELSE c[k + 1]
        /\ Order(R.t, cap, E, d, m + k)
        /\ Mixed(t, m, Items(R.t), m + k, s, k, o)
        /\ R.ri = 0 \/ IsPlace(d, m + k, R.li, z + 1)
  BY <1>6 DEF MergeAt
<1>8. k = n
  <2>1. \A x \in 1..n : c[x] # 0
    BY OrderFacts
  <2>2. ~IsPlace(d, m + k, R.li, z + 1)
    <3>1. ~(z + 1 \in 1..(m + k + 1))
      BY <1>1, <1>7 DEF z
    <3> QED BY <3>1 DEF IsPlace
  <2>3. k # n => k + 1 \in 1..n
    BY <1>1, <1>7
  <2> QED BY <1>7, <2>1, <2>2, <2>3
<1>9. r = <<>>
  <2>1. PICK y : Order(R.s, cap2, E, y, 0)
    BY <1>7, <1>8 DEF Remaining
  <2> DEFINE N == R.s
  <2>2. Order(N, cap2, E, y, 0) /\ r = Items(N)
    BY <2>1
  <2> HIDE DEF N
  <2> QED BY <2>2, NoItems
<1>10. DOMAIN t = 1..m /\ DOMAIN s = 1..n
  <2>1. DOMAIN t = 1..m
    BY <1>1, OrderItems, ItemsFacts
  <2>2. DOMAIN s = 1..n
    BY <1>1, OrderItems, ItemsFacts
  <2> QED BY <2>1, <2>2
<1> DEFINE N == m + n
           M == R.t
<1>11. Order(M, cap, E, d, N) /\ Mixed(t, m, u, N, s, n, o) /\ u = Items(M) /\ N \in Nat
  BY <1>1, <1>7, <1>8
<1> HIDE DEF N, M
<1>12. DOMAIN u = 1..N
  BY <1>11, OrderItems, ItemsFacts
<1> QED BY <1>9, <1>10, <1>11, <1>12, MixedContract

(* A call that changes the target only.                                    *)
LEMMA BecomesPairRefines ==
  ASSUME IInv, IInv', NEW t, t \in Lists, NEW s, s \in Lists, t # s, NEW R, Becomes(t, R),
         NEW op, NEW args, Called(op, t, s, args),
         Position' = 0 =>
           Contract!TwoLists(Items(list[t]), Items(R), Items(list[s]), Items(list[s]), op, args)
  PROVE  Contract!Next
<1> DEFINE S == list[s]
<1>1. list' = [list EXCEPT ![t] = R] /\ Position' = 0
  BY DEF Becomes, No_Element
<1>2. DOMAIN list = Lists
  BY DEF IInv, GoodLists
<1>3. PairStep(t, s, R, S)
  BY <1>1, <1>2 DEF PairStep
<1> HIDE DEF S
<1>4. Contract!TwoLists(Items(list[t]), Items(R), Items(list[s]), Items(S), op, args)
  BY <1>1 DEF S
<1> QED BY <1>3, <1>4, TwoListsRefines

(* A call that changes both lists.                                         *)
LEMMA BecomePairRefines ==
  ASSUME IInv, IInv', NEW t, t \in Lists, NEW s, s \in Lists, t # s, NEW a, NEW b,
         list' = [list EXCEPT ![t] = a, ![s] = b],
         NEW op, NEW args, Called(op, t, s, args),
         Contract!TwoLists(Items(list[t]), Items(a), Items(list[s]), Items(b), op, args)
  PROVE  Contract!Next
<1>1. DOMAIN list = Lists
  BY DEF IInv, GoodLists
<1>2. PairStep(t, s, a, b)
  BY <1>1 DEF PairStep
<1> QED BY <1>2, TwoListsRefines

(* Every call with two lists does what its contract says.                  *)
LEMMA TwoListsContract ==
  ASSUME IInv, IInv', NEW t, t \in Lists, NEW s, s \in Lists, t # s, TwoLists(t, s)
  PROVE  Contract!Next
<1> DEFINE T == list[t]
           S == list[s]
           cap == Capacity[t]
           cap2 == Capacity[s]
           m == Lng(list[t])
           n == Lng(list[s])
           before0 == Items(T)
           source0 == Items(S)
<1>1. /\ Good(T, cap, Elements) /\ cap \in Nat /\ T.Length = m /\ m \in Nat /\ m <= cap
      /\ Room(t) = cap - m /\ T.Capacity = cap
  BY ListFacts
<1>2. /\ Good(S, cap2, Elements) /\ cap2 \in Nat /\ S.Length = n /\ n \in Nat /\ n <= cap2
      /\ S.Capacity = cap2
  BY ListFacts
<1>3. No_Element = 0 /\ 0 < cap2
  BY ListPairAssumption DEF No_Element
<1> HIDE DEF cap, cap2, m, n
<1>4. PICK b : Order(T, cap, Elements, b, m)
  BY <1>1, OrderGood DEF m
<1>5. PICK c : Order(S, cap2, Elements, c, n)
  BY <1>2, OrderGood DEF n
<1>6. /\ \A x : x \in Cursors(T) <=> x \in Values(b, m)
      /\ \A i \in 1..m : b[i] # 0
  BY <1>4, OrderFacts
<1>7. \A x : x \in Cursors(S) <=> x \in Values(c, n)
  BY <1>5, OrderFacts
<1>8. \A x \in Cursors(S) : \E p \in 1..n : x = c[p]
  BY <1>7 DEF Values
<1>9. \A x : x \in Cursors(T) \/ x = 0 => \E p : IsPlace(b, m, x, p)
  BY <1>1, <1>6, PlaceExists
<1> HIDE DEF before0, source0
<1>10. /\ before0 = Items(T) /\ before0 = Items(list[t])
       /\ source0 = Items(S) /\ source0 = Items(list[s])
  BY DEF before0, source0
<1>11. CASE Assign_(t, s)
  <2>1. n <= cap /\ Becomes(t, Assign(T, S)) /\ Called("Assign", t, s, <<>>)
    BY <1>1, <1>2, <1>11 DEF Assign_
  <2> DEFINE M == Assign(T, S)
             u == Items(M)
  <2> HIDE DEF M, u
  <2>2. Contract!Assign(before0, u, source0, source0)
    BY <1>4, <1>5, <1>10, <2>1, AssignContract DEF M, u
  <2>3. Position' = 0 => Contract!TwoLists(before0, u, source0, source0, "Assign", <<>>)
    BY <2>2 DEF Contract!TwoLists
  <2>4. Becomes(t, M)
    BY <2>1 DEF M
  <2> QED BY <1>10, <2>1, <2>3, <2>4, BecomesPairRefines DEF u
<1>12. CASE Copy_(t, s)
  <2>1. cap2 <= cap /\ Becomes(t, Copy(S, cap)) /\ Called("Copy", t, s, <<>>)
    BY <1>1, <1>2, <1>12 DEF Copy_
  <2> DEFINE M == Copy(S, cap)
             u == Items(M)
  <2> HIDE DEF M, u
  <2>2. Contract!Copy(before0, u, source0, source0)
    BY <1>1, <1>3, <1>5, <1>10, <2>1, CopyContract DEF M, u
  <2>3. Position' = 0 => Contract!TwoLists(before0, u, source0, source0, "Copy", <<>>)
    BY <2>2 DEF Contract!TwoLists
  <2>4. Becomes(t, M)
    BY <2>1 DEF M
  <2> QED BY <1>10, <2>1, <2>3, <2>4, BecomesPairRefines DEF u
<1>13. CASE Move_(t, s)
  <2>1. n <= cap /\ BecomePair(t, s, Move(T, S)) /\ Called("Move", t, s, <<>>)
    BY <1>1, <1>2, <1>13 DEF Move_
  <2> DEFINE R == Move(T, S)
             u == Items(R.t)
             r == Items(R.s)
  <2>2. list' = [list EXCEPT ![t] = R.t, ![s] = R.s] /\ Position' = 0
    BY <1>3, <2>1 DEF BecomePair
  <2> HIDE DEF R, u, r
  <2>3. Contract!Move(before0, u, source0, r)
    BY <1>4, <1>5, <1>10, <2>1, MoveContract DEF R, u, r
  <2>4. Contract!TwoLists(before0, u, source0, r, "Move", <<>>)
    BY <2>2, <2>3 DEF Contract!TwoLists
  <2> QED BY <1>10, <2>1, <2>2, <2>4, BecomePairRefines DEF u, r
<1>14. CASE SpliceOne_(t, s)
  <2>1. PICK before \in Before(t), position \in Cursors(S) :
          /\ list' = [list EXCEPT ![t] = SpliceOne(T, before, S, position).t,
                                  ![s] = SpliceOne(T, before, S, position).s]
          /\ Position' = Inserted(T, before, S.Element[position], 1)
          /\ Called("SpliceOne", t, s, <<before, position>>)
    BY <1>14 DEF SpliceOne_
  <2>2. m < cap /\ (before \in Cursors(T) \/ before = 0)
    BY <1>1, <1>3, <1>14 DEF SpliceOne_, Before
  <2>3. PICK p : IsPlace(b, m, before, p)
    BY <1>9, <2>2
  <2>4. PICK q \in 1..n : position = c[q]
    BY <1>8
  <2> DEFINE R == SpliceOne(T, before, S, position)
             u == Items(R.t)
             r == Items(R.s)
             args == <<before, position>>
  <2>5. args[1] = before /\ args[2] = position
    OBVIOUS
  <2>6. list' = [list EXCEPT ![t] = R.t, ![s] = R.s] /\ Called("SpliceOne", t, s, args)
    BY <2>1
  <2> HIDE DEF R, u, r, args
  <2>7. Contract!SpliceOne(before0, u, source0, r, before, position)
    BY <1>4, <1>5, <1>10, <2>1, <2>2, <2>3, <2>4, SpliceOneContract DEF R, u, r
  <2>8. Contract!TwoLists(before0, u, source0, r, "SpliceOne", args)
    BY <2>5, <2>7 DEF Contract!TwoLists
  <2> QED BY <1>10, <2>6, <2>8, BecomePairRefines DEF u, r
<1>15. CASE SpliceAll_(t, s)
  <2>1. PICK before \in Before(t) :
          BecomePair(t, s, SpliceAll(T, before, S)) /\ Called("SpliceAll", t, s, <<before>>)
    BY <1>15 DEF SpliceAll_
  <2>2. m + n <= cap /\ (before \in Cursors(T) \/ before = 0)
    BY <1>1, <1>2, <1>3, <1>15 DEF SpliceAll_, Before
  <2>3. PICK p : IsPlace(b, m, before, p)
    BY <1>9, <2>2
  <2> DEFINE R == SpliceAll(T, before, S)
             u == Items(R.t)
             r == Items(R.s)
             args == <<before>>
  <2>5. args[1] = before
    OBVIOUS
  <2>6. list' = [list EXCEPT ![t] = R.t, ![s] = R.s] /\ Position' = 0 /\ Called("SpliceAll", t, s, args)
    BY <1>3, <2>1 DEF BecomePair
  <2> HIDE DEF R, u, r, args
  <2>7. Contract!SpliceAll(before0, u, source0, r, before)
    BY <1>4, <1>5, <1>10, <2>2, <2>3, SpliceAllContract DEF R, u, r
  <2>8. Contract!TwoLists(before0, u, source0, r, "SpliceAll", args)
    BY <2>5, <2>6, <2>7 DEF Contract!TwoLists
  <2> QED BY <1>10, <2>6, <2>8, BecomePairRefines DEF u, r
<1>16. CASE Merge_(t, s)
  <2>1. m + n <= cap /\ BecomePair(t, s, Merge(T, S)) /\ Called("Merge", t, s, <<>>)
    BY <1>1, <1>2, <1>16 DEF Merge_
  <2> DEFINE R == Merge(T, S)
             u == Items(R.t)
             r == Items(R.s)
  <2>2. list' = [list EXCEPT ![t] = R.t, ![s] = R.s] /\ Position' = 0
    BY <1>3, <2>1 DEF BecomePair
  <2> HIDE DEF R, u, r
  <2>3. Contract!Merge(before0, u, source0, r)
    BY <1>4, <1>5, <1>10, <2>1, MergeContract DEF R, u, r
  <2>4. Contract!TwoLists(before0, u, source0, r, "Merge", <<>>)
    BY <2>2, <2>3 DEF Contract!TwoLists
  <2> QED BY <1>10, <2>1, <2>2, <2>4, BecomePairRefines DEF u, r
<1> QED
  BY <1>11, <1>12, <1>13, <1>14, <1>15, <1>16 DEF TwoLists

(* Every call keeps its contract: it maps to a step of AbstractLists.      *)
LEMMA NextContract ==
  ASSUME IInv, IInv', [Next]_vars
  PROVE  [Contract!Next]_(Contract!vars)
<1>1. ASSUME NEW l \in Lists, OneList(l) PROVE Contract!Next
  BY <1>1, OneListContract
<1>2. ASSUME NEW t \in Lists, NEW s \in Lists, t # s, TwoLists(t, s) PROVE Contract!Next
  BY <1>2, TwoListsContract
<1>3. CASE UNCHANGED vars
  <2>1. list' = list /\ Position' = Position /\ call' = call
    BY <1>3 DEF vars
  <2> QED BY <2>1 DEF Contract!vars
<1> QED BY <1>1, <1>2, <1>3 DEF Next

(* The bodies in spark-containers-formal-doubly_linked_lists.adb implement *)
(* the contracts of the .ads file: seen through Items, every behaviour of  *)
(* the linked representation is one of the sequences with cursors, for all *)
(* lists, capacities and elements. Every call, from Insert and Delete to   *)
(* Sort, Splice and Merge, changes just the items that its postcondition   *)
(* lets it change, and gives back the cursor that it promises.             *)
THEOREM ListsMeetContracts == Spec => MeetsContracts
<1>1. Init => Contract!Init
  BY InitContract
<1>2. IInv /\ IInv' /\ [Next]_vars => [Contract!Next]_(Contract!vars)
  BY NextContract
<1> QED BY <1>1, <1>2, Inductive, PTL DEF Spec, MeetsContracts, Contract!Spec
=============================================================================
