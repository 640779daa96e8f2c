-------------------------- MODULE RtsDescriptor_proofs --------------------------
(***************************************************************************)
(* Proofs about the generator of the descriptor: the calls of the          *)
(* recursion share dirs without losing a directory, every entry of the     *)
(* descriptor is one that the rule of its directory admits, and in the end *)
(* every entry that is admitted is there.  Of the table of directories     *)
(* they use TableAssumption only, and that only for the last: they hold    *)
(* for any scenarios and conditions, and for any source trees.             *)
(***************************************************************************)
EXTENDS RtsDescriptor, SequenceTheorems, FiniteSetTheorems, WellFoundedInduction, TLAPS

(* The frames are of no type that matters here. *)
IsSeq(s) == \E S : s \in Seq(S)

Pruned(s) == UNION {s[i].pruned : i \in DOMAIN s}

Disjoint(s, d) ==
  \A i \in DOMAIN s :
    /\ s[i].pruned \cap d = {}
    /\ \A j \in DOMAIN s : i # j => s[i].pruned \cap s[j].pruned = {}

IInv ==
  /\ IsSeq(stack)
  /\ lib \in Libs \cup {"installed"}
  /\ lib \in Libs => dirs \cup Pruned(stack) = DirsOf(tree, lib)
                     /\ Disjoint(stack, dirs)

(* What a push and a pop do to a sequence. *)
LEMMA Push ==
  ASSUME NEW s, NEW x, IsSeq(s)
  PROVE  /\ IsSeq(Append(s, x))
         /\ DOMAIN s = 1..Len(s) /\ Len(s) \in Nat
         /\ DOMAIN Append(s, x) = 1..Len(s) + 1
         /\ \A i \in 1..Len(s) : Append(s, x)[i] = s[i]
         /\ Append(s, x)[Len(s) + 1] = x
<1>1. PICK S : s \in Seq(S)
  BY DEF IsSeq
<1>2. s \in Seq(S \cup {x}) /\ x \in S \cup {x}
  BY <1>1
<1>3. Append(s, x) \in Seq(S \cup {x})
  BY <1>2
<1> QED
  BY <1>2, <1>3 DEF IsSeq

(* A call that returns leaves the others.                                  *)
LEMMA Pop ==
  ASSUME NEW s, IsSeq(s), s # <<>>
  PROVE  LET b == SubSeq(s, 1, Len(s) - 1)
         IN  /\ IsSeq(b)
             /\ Len(s) \in Nat \ {0} /\ DOMAIN s = 1..Len(s)
             /\ Len(b) = Len(s) - 1 /\ DOMAIN b = 1..Len(s) - 1
             /\ \A i \in 1..Len(s) - 1 : b[i] = s[i]
<1>1. PICK S : s \in Seq(S)
  BY DEF IsSeq
<1>2. Len(s) \in Nat \ {0} /\ DOMAIN s = 1..Len(s)
  BY <1>1
<1>3. SubSeq(s, 1, Len(s) - 1) \in Seq(S)
  BY <1>1, <1>2
<1> QED
  BY <1>1, <1>2, <1>3 DEF IsSeq

(* The top frame replaced by one that has pruned the same directories. *)
LEMMA ReplaceTop ==
  ASSUME NEW f, IsSeq(stack), stack # <<>>, f.pruned = Top.pruned
  PROVE  /\ IsSeq(Append(Below, f))
         /\ DOMAIN Append(Below, f) = DOMAIN stack
         /\ \A i \in DOMAIN stack : Append(Below, f)[i].pruned = stack[i].pruned
<1>1. /\ IsSeq(Below) /\ Len(Below) = Len(stack) - 1
      /\ Len(stack) \in Nat \ {0} /\ DOMAIN stack = 1..Len(stack)
      /\ \A i \in 1..Len(stack) - 1 : Below[i] = stack[i]
  BY Pop DEF Below
<1>2. /\ IsSeq(Append(Below, f))
      /\ DOMAIN Append(Below, f) = 1..Len(Below) + 1
      /\ \A i \in 1..Len(Below) : Append(Below, f)[i] = Below[i]
      /\ Append(Below, f)[Len(Below) + 1] = f
  BY <1>1, Push
<1> QED
  BY <1>1, <1>2 DEF Top

(* What a call removes from dirs it has on the stack.                      *)
LEMMA EnterKeepsIInv ==
  ASSUME IInv, Enter
  PROVE  IInv'
<1> USE DEF IInv
<1>1. CASE UNCHANGED <<dirs, stack>>
  BY <1>1 DEF Enter, DirsOf, Pruned, Disjoint
<1>2. ASSUME NEW pruned, NEW frame, pruned \subseteq dirs, frame.pruned = pruned,
             dirs' = dirs \ pruned, stack' = Append(stack, frame)
      PROVE  IInv'
  <2>1. /\ IsSeq(stack') /\ Len(stack) \in Nat /\ DOMAIN stack = 1..Len(stack)
        /\ DOMAIN stack' = 1..Len(stack) + 1
        /\ \A i \in 1..Len(stack) : stack'[i] = stack[i]
        /\ stack'[Len(stack) + 1] = frame
    BY <1>2, Push
  <2>2. Pruned(stack') = Pruned(stack) \cup pruned
    BY <1>2, <2>1 DEF Pruned
  <2>3. lib' = lib /\ tree' = tree
    BY DEF Enter
  <2>4. lib \in Libs => dirs' \cup Pruned(stack') = DirsOf(tree, lib)
    BY <1>2, <2>2
  <2>5. lib \in Libs => Disjoint(stack', dirs')
    <3> SUFFICES ASSUME lib \in Libs, NEW i \in DOMAIN stack'
                 PROVE  /\ stack'[i].pruned \cap dirs' = {}
                        /\ \A j \in DOMAIN stack' :
                             i # j => stack'[i].pruned \cap stack'[j].pruned = {}
      BY DEF Disjoint
    <3>1. \A k \in 1..Len(stack) : stack'[k].pruned \cap dirs = {}
      BY <2>1 DEF Disjoint
    <3>2. \A k, j \in 1..Len(stack) :
            k # j => stack'[k].pruned \cap stack'[j].pruned = {}
      BY <2>1 DEF Disjoint
    <3>3. stack'[Len(stack) + 1].pruned = pruned
      BY <1>2, <2>1
    <3>4. \A k \in DOMAIN stack' : k \in 1..Len(stack) \/ k = Len(stack) + 1
      BY <2>1
    <3> QED
      BY <1>2, <3>1, <3>2, <3>3, <3>4
  <2>6. DirsOf(tree, lib)' = DirsOf(tree, lib)
    BY <2>3 DEF DirsOf
  <2> QED
    BY <2>1, <2>3, <2>4, <2>5, <2>6 DEF Pruned, Disjoint
<1> DEFINE matched == {d \in dirs : MatchesExactly(RulesOf[tree][d])}
           pruned == matched \cup {d \in dirs : ~CanStillMatch(RulesOf[tree][d])}
           first == IF stack = <<>> THEN 1 ELSE Top.at + 1
           frame == [first |-> first, at |-> first - 1, left |-> <<>>,
                     pruned |-> pruned]
<1>3. \/ UNCHANGED <<dirs, stack>>
      \/ dirs' = dirs \ pruned /\ stack' = Append(stack, frame)
  BY DEF Enter
<1>4. pruned \subseteq dirs /\ frame.pruned = pruned
  OBVIOUS
<1> HIDE DEF pruned, frame
<1> QED
  BY <1>1, <1>2, <1>3, <1>4

LEMMA StepKeepsIInv ==
  ASSUME IInv, [Generate]_genVars
  PROVE  IInv'
<1>1. CASE UNCHANGED genVars
  BY <1>1 DEF IInv, genVars, DirsOf, Pruned, Disjoint
<1>2. CASE Enter
  BY <1>2, EnterKeepsIInv
<1>3. ASSUME NEW f, stack # <<>>, f.pruned = Top.pruned,
             stack' = Append(Below, f), UNCHANGED <<tree, lib, dirs>>
      PROVE  IInv'
  <2>1. /\ IsSeq(stack')
        /\ DOMAIN stack' = DOMAIN stack
        /\ \A i \in DOMAIN stack : stack'[i].pruned = stack[i].pruned
    BY <1>3, ReplaceTop DEF IInv
  <2>2. Pruned(stack') = Pruned(stack)
    BY <2>1 DEF Pruned
  <2>3. Disjoint(stack, dirs) => Disjoint(stack', dirs')
    BY <1>3, <2>1 DEF Disjoint
  <2>4. DirsOf(tree, lib)' = DirsOf(tree, lib)
    BY <1>3 DEF DirsOf
  <2> QED
    BY <1>3, <2>1, <2>2, <2>3, <2>4 DEF IInv, Pruned, Disjoint
<1>4. CASE NextValue
  BY <1>3, <1>4 DEF NextValue, Resumed
<1>5. CASE NextVariable
  BY <1>3, <1>5 DEF NextVariable, Resumed
<1>6. CASE Leave
  <2>1. /\ IsSeq(stack') /\ Len(stack) \in Nat \ {0} /\ DOMAIN stack = 1..Len(stack)
        /\ DOMAIN stack' = 1..Len(stack) - 1
        /\ \A i \in 1..Len(stack) - 1 : stack'[i] = stack[i]
    BY <1>6, Pop DEF Leave, Below, IInv
  <2>2. dirs' = dirs \cup Top.pruned /\ UNCHANGED <<tree, lib>>
    BY <1>6 DEF Leave
  <2>3. Pruned(stack) = Pruned(stack') \cup Top.pruned
    BY <2>1 DEF Pruned, Top
  <2>4. Disjoint(stack, dirs) => Disjoint(stack', dirs')
    BY <2>1, <2>2 DEF Disjoint, Top
  <2>5. DirsOf(tree, lib)' = DirsOf(tree, lib)
    BY <2>2 DEF DirsOf
  <2> QED
    BY <2>1, <2>2, <2>3, <2>4, <2>5 DEF IInv, Pruned, Disjoint
<1>7. CASE NextLib
  <2>1. /\ stack = <<>> /\ stack' = <<>> /\ DOMAIN stack' = {}
        /\ lib' = "gnarl" /\ tree' = tree
        /\ dirs' = DirsOf(tree, "gnarl")
    BY <1>7 DEF NextLib
  <2>2. Pruned(stack') = {} /\ Disjoint(stack', dirs')
    BY <2>1 DEF Pruned, Disjoint
  <2>3. DirsOf(tree, lib)' = DirsOf(tree, "gnarl")
    BY <2>1 DEF DirsOf
  <2> QED
    BY <2>1, <2>2, <2>3 DEF IInv, Libs, Pruned, Disjoint
<1>8. CASE InstallTree
  <2>1. stack' = stack /\ lib' = "installed"
    BY <1>8 DEF InstallTree
  <2> QED
    BY <2>1 DEF IInv, Libs
<1> QED
  BY <1>1, <1>2, <1>4, <1>5, <1>6, <1>7, <1>8 DEF Generate

LEMMA InitIInv == GenInit => IInv
<1> SUFFICES ASSUME GenInit PROVE IInv
  OBVIOUS
<1>1. stack \in Seq({}) /\ DOMAIN stack = {}
  BY DEF GenInit
<1> QED
  BY <1>1 DEF GenInit, IInv, IsSeq, Libs, Pruned, Disjoint

LEMMA GenIInv == GenSpec => []IInv
  BY InitIInv, StepKeepsIInv, PTL DEF GenSpec

(* No call loses a directory: whatever the recursion has removed from dirs *)
(* is in the hands of exactly one call of the stack.                       *)
THEOREM RecursionRestoresDirs == GenSpec => []DirsRestored
<1>1. IInv => DirsRestored
  BY DEF IInv, DirsRestored, Pruned, Disjoint
<1> QED
  BY <1>1, GenIInv, PTL

Sound == DOMAIN descriptor \subseteq Libs /\ DescriptorSound

(* What Enter writes has matched exactly, and comes from dirs. *)
LEMMA StepKeepsSound ==
  ASSUME IInv, Sound, [Generate]_genVars
  PROVE  Sound'
<1> USE DEF Sound
<1>1. CASE UNCHANGED <<tree, descriptor>>
  BY <1>1 DEF DescriptorSound, DirsOf
<1>2. CASE Enter
  <2> DEFINE new == {<<env, d>> : d \in {d \in dirs : MatchesExactly(RulesOf[tree][d])}}
  <2>1. tree' = tree /\ descriptor' = [descriptor EXCEPT ![lib] = @ \cup new]
    BY <1>2 DEF Enter
  <2>2. ASSUME NEW l \in DOMAIN descriptor, NEW entry \in descriptor'[l]
        PROVE  /\ entry[2] \in DirsOf(tree, l)
               /\ RulesOf[tree][entry[2]].valid
               /\ ExactMatch(RulesOf[tree][entry[2]].scenarios, entry[1])
    <3>1. CASE entry \in descriptor[l]
      BY <3>1 DEF DescriptorSound
    <3>2. CASE entry \notin descriptor[l]
      <4>1. l = lib /\ entry \in new
        BY <2>1, <2>2, <3>2
      <4>2. PICK d \in dirs : MatchesExactly(RulesOf[tree][d]) /\ entry = <<env, d>>
        BY <4>1
      <4>3. entry[1] = env /\ entry[2] = d
        BY <4>2
      <4>4. d \in DirsOf(tree, lib)
        BY <4>1, <4>2 DEF IInv
      <4> QED
        BY <4>1, <4>2, <4>3, <4>4 DEF MatchesExactly
    <3> QED
      BY <3>1, <3>2
  <2>3. DOMAIN descriptor' = DOMAIN descriptor
    BY <2>1
  <2>4. \A l : DirsOf(tree, l)' = DirsOf(tree, l)
    BY <2>1 DEF DirsOf
  <2> QED
    BY <2>1, <2>2, <2>3, <2>4 DEF DescriptorSound
<1>3. CASE NextLib /\ descriptor' # descriptor
  <2>1. tree' = tree /\ descriptor' = Update(descriptor, [l \in {"gnarl"} |-> {}])
    BY <1>3 DEF NextLib
  <2>2. /\ DOMAIN descriptor' = DOMAIN descriptor \cup {"gnarl"}
        /\ descriptor'["gnarl"] = {}
        /\ \A l \in DOMAIN descriptor : l # "gnarl" => descriptor'[l] = descriptor[l]
    BY <2>1 DEF Update
  <2>3. \A l : DirsOf(tree, l)' = DirsOf(tree, l)
    BY <2>1 DEF DirsOf
  <2> QED
    BY <2>1, <2>2, <2>3 DEF DescriptorSound, Libs
<1>4. CASE Generate /\ ~Enter /\ ~(NextLib /\ descriptor' # descriptor)
  <2>1. UNCHANGED <<tree, descriptor>>
    BY <1>4 DEF Generate, NextValue, NextVariable, Leave, NextLib, InstallTree
  <2> QED
    BY <1>1, <2>1
<1> QED
  BY <1>1, <1>2, <1>3, <1>4 DEF genVars

(* The descriptor never offers a directory for values that its rule does   *)
(* not admit, nor an invalid rule's directory.                             *)
THEOREM DescriptorIsSound == GenSpec => []DescriptorSound
<1>1. GenInit => Sound
  BY DEF GenInit, Sound, DescriptorSound, Libs
<1>2. IInv /\ Sound /\ [Generate]_genVars => Sound'
  BY StepKeepsSound
<1>3. Sound => DescriptorSound
  BY DEF Sound
<1> QED
  BY <1>1, <1>2, <1>3, GenIInv, PTL DEF GenSpec

----------------------------------------------------------------------------
(* The order of the variables: Sorted lists each of them once.             *)

(* A set of naturals that is not empty has a least element.                *)
LEMMA SmallestIn ==
  ASSUME NEW S, S \subseteq Nat, S # {}
  PROVE  \E n \in S : \A m \in S : n <= m
<1>1. IsWellFoundedOn(OpToRel(<, Nat), Nat)
  BY NatLessThanWellFounded
<1>2. PICK x \in S : \A y \in S : ~(<<y, x>> \in OpToRel(<, Nat))
  BY <1>1, WFMin
<1>3. \A y \in S : ~(y < x)
  BY <1>2 DEF OpToRel
<1> QED BY <1>3

(* Hence Min of the library is what its name says. *)
LEMMA MinIn ==
  ASSUME NEW S, S \subseteq Nat, S # {}
  PROVE  Min(S) \in S /\ \A m \in S : Min(S) <= m
BY SmallestIn DEF Min

(* Induction over a set, in place of the theorem with an operator          *)
(* parameter.                                                              *)
LEMMA Induction ==
  ASSUME NEW S, 0 \in S, \A n \in Nat : n \in S => n + 1 \in S
  PROVE  Nat \subseteq S
<1> SUFFICES ASSUME Nat \ S # {} PROVE FALSE
  OBVIOUS
<1>1. PICK n \in Nat \ S : \A m \in Nat \ S : n <= m
  BY SmallestIn
<1>2. n # 0 /\ n - 1 \in Nat
  BY <1>1
<1>3. n - 1 \in S
  BY <1>1, <1>2
<1> QED
  BY <1>1, <1>2, <1>3

(* Of a finite set of ranked variables one comes before no other.          *)
Ranked(rank, vars) == \A v \in vars : rank[v].uses \in Int /\ rank[v].first \in Int

HasLeast(rank, vars) == \E v \in vars : \A w \in vars : ~Before(rank[w], rank[v])

(* Before is a strict order of the ranks.                                  *)
LEMMA BeforeIsStrict ==
  ASSUME NEW k, NEW m, NEW n, k.uses \in Int, k.first \in Int, m.uses \in Int,
         m.first \in Int, n.uses \in Int, n.first \in Int
  PROVE  ~Before(k, k) /\ (Before(k, m) /\ Before(m, n) => Before(k, n))
BY DEF Before

(* Least is one of the variables: by induction over their number.          *)
LEMMA LeastIn ==
  ASSUME NEW rank, NEW vars, IsFiniteSet(vars), vars # {}, Ranked(rank, vars)
  PROVE  Least(rank, vars) \in vars
<1> DEFINE P == {n \in Nat : \A T \in SUBSET vars :
                   Cardinality(T) = n + 1 => HasLeast(rank, T)}
<1>0. \A T \in SUBSET vars : IsFiniteSet(T)
  BY FS_Subset
<1>1. 0 \in P
  <2> SUFFICES ASSUME NEW T \in SUBSET vars, Cardinality(T) = 1
               PROVE  HasLeast(rank, T)
    OBVIOUS
  <2>1. PICK x : T = {x}
    BY <1>0, FS_Singleton
  <2> QED
    BY <2>1, BeforeIsStrict DEF HasLeast, Ranked
<1>2. ASSUME NEW n \in Nat, n \in P PROVE n + 1 \in P
  <2> SUFFICES ASSUME NEW T \in SUBSET vars, Cardinality(T) = n + 1 + 1
               PROVE  HasLeast(rank, T)
    OBVIOUS
  <2>1. T # {}
    BY FS_EmptySet
  <2>2. PICK x : x \in T
    BY <2>1
  <2>3. Cardinality(T \ {x}) = Cardinality(T) - 1
    BY <1>0, <2>2, FS_RemoveElement
  <2>8. Cardinality(T \ {x}) = n + 1 /\ T \ {x} \in SUBSET vars
    BY <2>3
  <2>4. HasLeast(rank, T \ {x})
    BY <1>2, <2>8
  <2>5. PICK v \in T \ {x} : \A w \in T \ {x} : ~Before(rank[w], rank[v])
    BY <2>4 DEF HasLeast
  <2>6. CASE Before(rank[x], rank[v])
    <3>1. ~Before(rank[x], rank[x])
      BY <2>2, BeforeIsStrict DEF Ranked
    <3>2. \A w \in T \ {x} : ~Before(rank[w], rank[x])
      BY <2>2, <2>5, <2>6, BeforeIsStrict DEF Ranked
    <3> QED
      BY <2>2, <3>1, <3>2 DEF HasLeast
  <2>7. CASE ~Before(rank[x], rank[v])
    BY <2>5, <2>7 DEF HasLeast
  <2> QED
    BY <2>6, <2>7
<1>3. Nat \subseteq P
  <2> HIDE DEF P
  <2> QED
    BY <1>1, <1>2, Induction
<1>4. Cardinality(vars) \in Nat /\ Cardinality(vars) # 0
  BY FS_CardinalityType, FS_EmptySet
<1>5. Cardinality(vars) - 1 \in P
  BY <1>3, <1>4
<1>6. HasLeast(rank, vars)
  BY <1>4, <1>5
<1> QED
  BY <1>6 DEF HasLeast, Least

(* The sequence o has each of the variables at one place.                  *)
ListsOnce(o, vars) ==
  /\ o \in Seq(vars)
  /\ \A j, k \in 1..Len(o) : o[j] = o[k] => j = k
  /\ \A v \in vars : \E j \in 1..Len(o) : o[j] = v

(* The function by which Sorted is defined, and that it exists.            *)
Longer(rank, done) == Append(done, Least(rank, DOMAIN rank \ Range(done)))

IsSorting(a, rank, last) ==
  a = [n \in 0..last |-> IF n = 0 THEN <<>> ELSE Longer(rank, a[n - 1])]

(* The function exists, which an unfolding of its definition needs.        *)
LEMMA SortingExists ==
  ASSUME NEW rank, NEW last, last \in Nat
  PROVE  \E a : IsSorting(a, rank, last)
<1> DEFINE P == {n \in Nat : \E a : IsSorting(a, rank, n)}
<1>1. 0 \in P
  <2> DEFINE a == [n \in 0..0 |-> <<>>]
  <2>1. a = [n \in 0..0 |-> IF n = 0 THEN <<>> ELSE Longer(rank, a[n - 1])]
    OBVIOUS
  <2> HIDE DEF a
  <2> QED
    BY <2>1 DEF IsSorting
<1>2. ASSUME NEW n \in Nat, n \in P PROVE n + 1 \in P
  <2>1. PICK a : IsSorting(a, rank, n)
    BY <1>2
  <2> DEFINE b == [i \in 0..n + 1 |-> IF i \in 0..n THEN a[i] ELSE Longer(rank, a[n])]
  <2>2. ASSUME NEW i \in 0..n + 1
        PROVE  b[i] = IF i = 0 THEN <<>> ELSE Longer(rank, b[i - 1])
    <3>1. CASE i \in 0..n
      <4>1. b[i] = a[i] /\ (i # 0 => b[i - 1] = a[i - 1])
        BY <3>1
      <4>2. a[i] = IF i = 0 THEN <<>> ELSE Longer(rank, a[i - 1])
        BY <2>1, <3>1 DEF IsSorting
      <4> HIDE DEF b
      <4> QED
        BY <4>1, <4>2
    <3>2. CASE i = n + 1
      <4>1. i # 0 /\ i - 1 = n /\ b[n] = a[n] /\ b[n + 1] = Longer(rank, a[n])
        BY <3>2
      <4> HIDE DEF b
      <4> QED
        BY <3>2, <4>1
    <3> QED
      BY <3>1, <3>2
  <2>3. b = [i \in 0..n + 1 |-> b[i]]
    OBVIOUS
  <2> HIDE DEF b
  <2>4. b = [i \in 0..n + 1 |-> IF i = 0 THEN <<>> ELSE Longer(rank, b[i - 1])]
    BY <2>2, <2>3
  <2> QED
    BY <2>4 DEF IsSorting
<1> HIDE DEF P
<1>3. last \in P
  BY <1>1, <1>2, Induction
<1> QED
  BY <1>3 DEF P

(* A list that has everything once still has when something new is         *)
(* appended.                                                               *)
LEMMA AppendNew ==
  ASSUME NEW vars, NEW s \in Seq(vars), NEW x \in vars, x \notin Range(s),
         \A j, k \in 1..Len(s) : s[j] = s[k] => j = k
  PROVE  /\ Append(s, x) \in Seq(vars) /\ Len(Append(s, x)) = Len(s) + 1
         /\ Range(Append(s, x)) = Range(s) \cup {x}
         /\ \A j, k \in 1..Len(s) + 1 : Append(s, x)[j] = Append(s, x)[k] => j = k
<1> DEFINE t == Append(s, x)
<1>1. /\ t \in Seq(vars) /\ Len(t) = Len(s) + 1 /\ Len(s) \in Nat
      /\ \A i \in 1..Len(s) : t[i] = s[i]
      /\ t[Len(s) + 1] = x
      /\ DOMAIN t = 1..Len(s) + 1 /\ DOMAIN s = 1..Len(s)
  OBVIOUS
<1> HIDE DEF t
<1>2. \A i \in 1..Len(s) : t[i] # x
  BY <1>1 DEF Range
<1>3. \A j, k \in 1..Len(s) + 1 : t[j] = t[k] => j = k
  BY <1>1, <1>2
<1>4. Range(t) = Range(s) \cup {x}
  BY <1>1 DEF Range
<1> QED
  BY <1>1, <1>3, <1>4 DEF t

(* Each step of Sorted appends a variable that it has not listed yet, and  *)
(* there are as many steps as variables.                                   *)
LEMMA SortedListsOnce ==
  ASSUME NEW rank, IsFiniteSet(DOMAIN rank), Ranked(rank, DOMAIN rank)
  PROVE  ListsOnce(Sorted(rank), DOMAIN rank)
<1> DEFINE vars == DOMAIN rank
           last == Cardinality(vars)
           a == CHOOSE a : a = [n \in 0..last |->
                  IF n = 0 THEN <<>>
                  ELSE Append(a[n - 1], Least(rank, vars \ Range(a[n - 1])))]
<1>0. last \in Nat
  BY FS_CardinalityType
<1>1. Sorted(rank) = a[last]
  BY DEF Sorted
<1>2. \E b : IsSorting(b, rank, last)
  BY <1>0, SortingExists
<1>3. IsSorting(a, rank, last)
  <2>1. \E b : b = [n \in 0..last |->
                  IF n = 0 THEN <<>>
                  ELSE Append(b[n - 1], Least(rank, vars \ Range(b[n - 1])))]
    BY <1>2 DEF IsSorting, Longer
  <2>2. a = [n \in 0..last |->
                  IF n = 0 THEN <<>>
                  ELSE Append(a[n - 1], Least(rank, vars \ Range(a[n - 1])))]
    BY <2>1
  <2> HIDE DEF a
  <2> QED
    BY <2>2 DEF IsSorting, Longer
<1> HIDE DEF a
<1>4. \A n \in 0..last : a[n] = IF n = 0 THEN <<>> ELSE Longer(rank, a[n - 1])
  BY <1>3 DEF IsSorting
<1> DEFINE Once(s) == \A j, k \in 1..Len(s) : s[j] = s[k] => j = k
           P == {n \in Nat : n <= last =>
                  /\ a[n] \in Seq(vars) /\ Len(a[n]) = n /\ Once(a[n])
                  /\ IsFiniteSet(Range(a[n])) /\ Cardinality(Range(a[n])) = n}
<1>5. 0 \in P
  <2>1. a[0] = <<>>
    BY <1>0, <1>4
  <2>2. Range(a[0]) = {}
    BY <2>1 DEF Range
  <2>3. IsFiniteSet(Range(a[0])) /\ Cardinality(Range(a[0])) = 0
    BY <2>2, FS_EmptySet
  <2>4. a[0] \in Seq(vars) /\ Len(a[0]) = 0 /\ Once(a[0])
    BY <2>1
  <2> QED
    BY <2>3, <2>4
<1>6. ASSUME NEW n \in Nat, n \in P PROVE n + 1 \in P
  <2> SUFFICES ASSUME n + 1 <= last
               PROVE  /\ a[n + 1] \in Seq(vars) /\ Len(a[n + 1]) = n + 1
                      /\ Once(a[n + 1])
                      /\ IsFiniteSet(Range(a[n + 1])) /\ Cardinality(Range(a[n + 1])) = n + 1
    OBVIOUS
  <2> DEFINE s == a[n]
             left == vars \ Range(s)
             x == Least(rank, left)
  <2>1. /\ s \in Seq(vars) /\ Len(s) = n /\ Once(s)
        /\ IsFiniteSet(Range(s)) /\ Cardinality(Range(s)) = n
    BY <1>0, <1>6
  <2>2. a[n + 1] = Append(s, x)
    <3>1. n + 1 \in 0..last /\ n + 1 # 0 /\ (n + 1) - 1 = n
      BY <1>0
    <3>2. a[n + 1] = Longer(rank, a[n])
      <4> HIDE DEF last
      <4> QED
        BY <1>4, <3>1
    <3> QED
      BY <3>2 DEF Longer
  <2> HIDE DEF s, x
  <2>3. Range(s) \subseteq vars
    BY <2>1 DEF Range
  <2>4. left # {}
    <3>1. ASSUME left = {} PROVE FALSE
      <4>1. vars = Range(s)
        BY <2>3, <3>1
      <4>2. last = n
        BY <2>1, <4>1
      <4> QED
        BY <1>0, <4>2
    <3> QED
      BY <3>1
  <2>5. IsFiniteSet(left) /\ Ranked(rank, left)
    BY FS_Subset DEF Ranked
  <2>6. x \in left
    BY <2>4, <2>5, LeastIn DEF x
  <2>7. /\ Append(s, x) \in Seq(vars) /\ Len(Append(s, x)) = Len(s) + 1
        /\ Range(Append(s, x)) = Range(s) \cup {x}
        /\ \A j, k \in 1..Len(s) + 1 : Append(s, x)[j] = Append(s, x)[k] => j = k
    BY <2>1, <2>6, AppendNew
  <2>8. IsFiniteSet(Range(s) \cup {x}) /\ Cardinality(Range(s) \cup {x}) = n + 1
    BY <2>1, <2>6, FS_AddElement
  <2> QED
    BY <2>1, <2>2, <2>7, <2>8
<1> HIDE DEF P
<1>7. last \in P
  BY <1>0, <1>5, <1>6, Induction
<1>8. /\ a[last] \in Seq(vars) /\ Once(a[last])
      /\ IsFiniteSet(Range(a[last])) /\ Cardinality(Range(a[last])) = last
  BY <1>0, <1>7 DEF P
<1>9. Range(a[last]) \subseteq vars
  BY <1>8 DEF Range
<1>10. vars = Range(a[last])
  BY <1>8, <1>9, FS_Subset
<1>11. \A v \in vars : \E j \in 1..Len(a[last]) : a[last][j] = v
  BY <1>8, <1>10 DEF Range
<1> HIDE DEF last, vars
<1> QED
  BY <1>1, <1>8, <1>11 DEF ListsOnce, vars

(* The values of a variable, and what RuleIn makes of a condition. *)
LEMMA ValuesAreListed ==
  ASSUME NEW t, NEW v \in DOMAIN Scenarios
  PROVE  IsSeq(ValuesOf(t, v))
<1>1. Scenarios[v] \in Seq(STRING)
  BY TableAssumption
<1>2. <<"light">> \in Seq({"light", "light-tasking", "cert"})
  OBVIOUS
<1>3. <<"light", "light-tasking">> \in Seq({"light", "light-tasking", "cert"})
  OBVIOUS
<1>4. <<"light", "cert">> \in Seq({"light", "light-tasking", "cert"})
  OBVIOUS
<1> QED
  BY <1>1, <1>2, <1>3, <1>4 DEF ValuesOf, IsSeq

Variables(t, l) == UNION {DOMAIN RulesOf[t][d].scenarios : d \in DirsOf(t, l)}

(* A rule is about known variables, and admits values of the tree only.    *)
LEMMA RuleFacts ==
  ASSUME NEW t \in Trees, NEW d \in DOMAIN RulesOf[t]
  PROVE  /\ d \in 1..Len(SharedDirs)
         /\ DOMAIN RulesOf[t][d].scenarios \subseteq DOMAIN Scenarios
         /\ \A v \in DOMAIN RulesOf[t][d].scenarios :
              RulesOf[t][d].scenarios[v] \subseteq Range(ValuesOf(t, v))
<1>1. RulesOf[t] = RulesFor(t, SharedDirs)
  BY DEF RulesOf
<1>2. d \in DOMAIN SharedDirs /\ RulesOf[t][d] = RuleIn(t, SharedDirs[d])
  BY <1>1 DEF RulesFor
<1> DEFINE dir == SharedDirs[d]
           rule == [v \in DOMAIN dir.when |-> dir.when[v] \cap Range(ValuesOf(t, v))]
<1>3. RulesOf[t][d].scenarios = rule \/ RulesOf[t][d].scenarios = Always
  BY <1>2 DEF RuleIn
<1>4. DOMAIN rule = DOMAIN dir.when /\ DOMAIN Always = {}
  BY DEF Always
<1>5. \A v \in DOMAIN rule : rule[v] \subseteq Range(ValuesOf(t, v))
  OBVIOUS
<1>6. DOMAIN dir.when \subseteq DOMAIN Scenarios /\ d \in 1..Len(SharedDirs)
  BY <1>2, TableAssumption
<1> HIDE DEF rule
<1> QED
  BY <1>3, <1>4, <1>5, <1>6

(* The order of a library has each of its variables once.                  *)
LEMMA OrderListsVariables ==
  ASSUME NEW t \in Trees, NEW l \in Libs
  PROVE  ListsOnce(OrderOf[t][l], Variables(t, l))
<1> DEFINE rules == RulesOf[t]
           mine == DirsIn(rules, l)
           UsersOf(v) == {d \in DOMAIN rules : v \in DOMAIN rules[d].scenarios}
           vars == UNION {DOMAIN rules[d].scenarios : d \in mine}
           rank == [v \in vars |-> [uses |-> Cardinality(UsersOf(v)),
                                    first |-> Min(UsersOf(v) \cap mine)]]
<1>1. OrderOf[t][l] = Sorted(rank)
  BY DEF OrderOf, OrderFor
<1>2. Variables(t, l) = vars /\ DOMAIN rank = vars
  BY DEF Variables, DirsOf
<1>3. \A d \in DOMAIN rules :
         d \in 1..Len(SharedDirs) /\ DOMAIN rules[d].scenarios \subseteq DOMAIN Scenarios
  BY RuleFacts
<1>4. IsFiniteSet(DOMAIN rank)
  <2>1. mine \subseteq DOMAIN rules
    BY DEF DirsIn
  <2>2. vars \subseteq DOMAIN Scenarios
    BY <1>3, <2>1
  <2> QED
    BY <1>2, <2>2, FS_Subset, TableAssumption
<1>5. Ranked(rank, DOMAIN rank)
  <2> SUFFICES ASSUME NEW v \in vars
               PROVE  Cardinality(UsersOf(v)) \in Int /\ Min(UsersOf(v) \cap mine) \in Int
    BY <1>2 DEF Ranked
  <2>1. IsFiniteSet(1..Len(SharedDirs))
    BY FS_Interval, TableAssumption
  <2>2. UsersOf(v) \in SUBSET (1..Len(SharedDirs))
    BY <1>3
  <2>3. Cardinality(UsersOf(v)) \in Nat
    BY <2>1, <2>2, FS_Subset, FS_CardinalityType
  <2>4. UsersOf(v) \cap mine \subseteq Nat /\ UsersOf(v) \cap mine # {}
    BY <2>2 DEF DirsIn
  <2>5. Min(UsersOf(v) \cap mine) \in UsersOf(v) \cap mine
    BY <2>4, MinIn
  <2>6. Min(UsersOf(v) \cap mine) \in Nat
    <3> HIDE DEF mine, UsersOf
    <3> QED
      BY <2>4, <2>5
  <2> QED
    <3> HIDE DEF mine, UsersOf
    <3> QED
      BY <2>3, <2>6
<1> HIDE DEF rank, vars
<1> QED
  BY <1>1, <1>2, <1>4, <1>5, SortedListsOnce

(* What ListsOnce gives of the order of the library at work.               *)
LEMMA OrderFacts ==
  ASSUME NEW o, NEW vars, ListsOnce(o, vars)
  PROVE  /\ Len(o) \in Nat
         /\ \A j \in 1..Len(o) : o[j] \in vars
         /\ \A j, k \in 1..Len(o) : o[j] = o[k] => j = k
         /\ \A v \in vars : \E j \in 1..Len(o) : o[j] = v
BY DEF ListsOnce

----------------------------------------------------------------------------
(* Completeness: of every branch at which a directory belongs, the         *)
(* recursion can tell that it has been written, or where it will be.       *)

IsAFcn(f) == f = [x \in DOMAIN f |-> f[x]]

(* The place in the order up to which the branch env has been chosen.      *)
Here == IF stack = <<>> THEN 0 ELSE Top.at

(* The calls are nested: each starts after the variable of its caller, and *)
(* one that has a value to try, or has called, is at a variable.           *)
Nested ==
  /\ \A i \in DOMAIN stack :
       /\ stack[i].first \in Nat \ {0} /\ stack[i].at \in Nat
       /\ stack[i].first = (IF i = 1 THEN 0 ELSE stack[i - 1].at) + 1
       /\ stack[i].first <= stack[i].at + 1 /\ stack[i].first <= Len(order)
       /\ stack[i].at <= Len(order)
       /\ IsSeq(stack[i].left)
       /\ (stack[i].left # <<>> \/ i # Len(stack)) => stack[i].first <= stack[i].at
       /\ \A k \in DOMAIN stack : i < k => stack[i].at < stack[k].first
  /\ entering /\ stack # <<>> => Top.first <= Top.at

(* The branch has variables up to here only, and none that a call has      *)
(* passed.                                                                 *)
EnvPlaced ==
  /\ IsAFcn(env)
  /\ \A v \in DOMAIN env : \E j \in 1..Here : v = order[j]
  /\ \A i \in DOMAIN stack : \A j \in stack[i].first..stack[i].at - 1 :
       order[j] \notin DOMAIN env

Ordered ==
  /\ tree \in Trees
  /\ lib \in Libs => ListsOnce(order, Variables(tree, lib))
  /\ lib \notin Libs => stack = <<>> /\ ~entering

IsTarget(b, d) ==
  /\ d \in DirsOf(tree, lib)
  /\ RulesOf[tree][d].valid
  /\ IsAFcn(b) /\ DOMAIN b = DOMAIN RulesOf[tree][d].scenarios
  /\ \A v \in DOMAIN b : b[v] \in RulesOf[tree][d].scenarios[v]

Same(e, b, v) ==
  (v \in DOMAIN b <=> v \in DOMAIN e) /\ (v \in DOMAIN b => b[v] = e[v])

Untouched(d, n) == \A k \in 1..n : d \notin stack[k].pruned

(* The call that starts will write it, in its own branch or further down. *)
AtEntry(b, d) ==
  entering /\ Untouched(d, Len(stack)) /\ \A j \in 1..Here : Same(env, b, order[j])

(* The call of frame i still has to take the value that leads to b. *)
Ahead(i, b, d) ==
  /\ Untouched(d, i)
  /\ \A j \in 1..stack[i].first - 1 : Same(env, b, order[j])
  /\ \A j \in stack[i].first..stack[i].at :
       order[j] \in DOMAIN b => j = stack[i].at /\ b[order[j]] \in Range(stack[i].left)
  /\ \E m \in stack[i].first..Len(order) : m >= stack[i].at /\ order[m] \in DOMAIN b

Written(b, d) == <<b, d>> \in descriptor[lib]

Coming(b, d) == AtEntry(b, d) \/ \E i \in DOMAIN stack : Ahead(i, b, d)

EachComing ==
  lib \in Libs => \A b, d : IsTarget(b, d) => Written(b, d) \/ Coming(b, d)

Calls == IInv /\ Ordered /\ Nested /\ EnvPlaced

(* The stack when it is not empty, and after each kind of change.          *)
LEMMA TopFacts ==
  ASSUME IsSeq(stack), stack # <<>>
  PROVE  /\ Len(stack) \in Nat \ {0} /\ DOMAIN stack = 1..Len(stack)
         /\ Top = stack[Len(stack)] /\ Here = stack[Len(stack)].at
BY Pop DEF Top, Here

(* The call at the top goes on: its first variable and what it has removed *)
(* stay.                                                                   *)
LEMMA ResumedFacts ==
  ASSUME IsSeq(stack), stack # <<>>, NEW at, NEW left, stack' = Resumed(at, left)
  PROVE  /\ DOMAIN stack' = DOMAIN stack /\ Len(stack') = Len(stack)
         /\ stack' # <<>> /\ IsSeq(stack')
         /\ \A i \in DOMAIN stack : i # Len(stack) => stack'[i] = stack[i]
         /\ stack'[Len(stack)].first = stack[Len(stack)].first
         /\ stack'[Len(stack)].at = at
         /\ stack'[Len(stack)].left = left
         /\ stack'[Len(stack)].pruned = stack[Len(stack)].pruned
<1> DEFINE f == [first |-> Top.first, at |-> at, left |-> left, pruned |-> Top.pruned]
<1>1. /\ IsSeq(Below) /\ Len(Below) = Len(stack) - 1
      /\ Len(stack) \in Nat \ {0} /\ DOMAIN stack = 1..Len(stack)
      /\ \A i \in 1..Len(stack) - 1 : Below[i] = stack[i]
  BY Pop DEF Below
<1>2. f.first = Top.first /\ f.at = at /\ f.left = left /\ f.pruned = Top.pruned
  OBVIOUS
<1>3. stack' = Append(Below, f)
  BY DEF Resumed
<1> HIDE DEF f
<1>4. /\ IsSeq(Append(Below, f))
      /\ DOMAIN Append(Below, f) = 1..Len(Below) + 1
      /\ \A i \in 1..Len(Below) : Append(Below, f)[i] = Below[i]
      /\ Append(Below, f)[Len(Below) + 1] = f
  BY <1>1, Push
<1>5. Len(stack') = Len(stack) /\ stack' # <<>>
  BY <1>1, <1>3, <1>4 DEF IsSeq
<1> QED
  BY <1>1, <1>2, <1>3, <1>4, <1>5 DEF Top

Branched(e, x, y) == Update(e, [v \in {x} |-> y])

(* The branch with one more variable chosen ...                            *)
LEMMA BranchedFacts ==
  ASSUME NEW e, NEW x, NEW y
  PROVE  /\ IsAFcn(Branched(e, x, y)) /\ DOMAIN Branched(e, x, y) = DOMAIN e \cup {x}
         /\ Branched(e, x, y)[x] = y
         /\ \A v \in DOMAIN e : v # x => Branched(e, x, y)[v] = e[v]
BY DEF Branched, Update, IsAFcn

(* ... and without the variables of a call.                                *)
LEMMA AfterValuesFacts ==
  ASSUME NEW f, f = EnvAfterValues
  PROVE  /\ IsAFcn(f)
         /\ DOMAIN f = DOMAIN env \ {order[j] : j \in Top.first..Top.at}
         /\ \A v \in DOMAIN f : f[v] = env[v]
BY DEF EnvAfterValues, IsAFcn

(* What the invariant says of the frames, in terms of numbers.             *)
LEMMA FrameFacts ==
  ASSUME Calls, lib \in Libs
  PROVE  LET n == Len(stack)
         IN  /\ n \in Nat /\ DOMAIN stack = 1..n /\ Len(order) \in Nat
             /\ \A i \in 1..n :
                  /\ stack[i].first \in Nat /\ stack[i].at \in Nat
                  /\ 1 <= stack[i].first /\ stack[i].first <= Len(order)
                  /\ stack[i].first <= stack[i].at + 1 /\ stack[i].at <= Len(order)
                  /\ IsSeq(stack[i].left)
                  /\ i # n => stack[i].first <= stack[i].at
                  /\ i # n => stack[i].at < stack[n].first
                  /\ stack[i].at <= stack[n].at
             /\ \A i, k \in 1..n : i < k => stack[i].at < stack[k].first
             /\ \A j, k \in 1..Len(order) : order[j] = order[k] => j = k
<1> DEFINE n == Len(stack)
<1>1. n \in Nat /\ DOMAIN stack = 1..n
  BY Push DEF Calls, IInv
<1>2. /\ Len(order) \in Nat
      /\ \A j, k \in 1..Len(order) : order[j] = order[k] => j = k
  BY OrderFacts DEF Calls, Ordered
<1>3. ASSUME NEW i \in 1..n
      PROVE  /\ stack[i].first \in Nat \ {0} /\ stack[i].at \in Nat
             /\ stack[i].first <= stack[i].at + 1 /\ stack[i].first <= Len(order)
             /\ stack[i].at <= Len(order)
             /\ IsSeq(stack[i].left)
             /\ i # n => stack[i].first <= stack[i].at
             /\ \A k \in 1..n : i < k => stack[i].at < stack[k].first
  BY <1>1 DEF Calls, Nested
<1> HIDE DEF n
<1>4. ASSUME NEW i \in 1..n, i # n
      PROVE  stack[i].at < stack[n].first /\ stack[i].at < stack[n].at + 1
  <2>1. i < n /\ n \in 1..n
    BY <1>1, <1>4
  <2>2. stack[i].at < stack[n].first /\ stack[n].first <= stack[n].at + 1
    BY <1>3, <2>1
  <2> QED
    BY <1>3, <2>1, <2>2
<1>5. \A i \in 1..n : stack[i].at <= stack[n].at
  BY <1>1, <1>3, <1>4
<1>6. ASSUME NEW i \in 1..n
      PROVE  /\ stack[i].first \in Nat /\ stack[i].at \in Nat
             /\ 1 <= stack[i].first /\ stack[i].first <= Len(order)
             /\ stack[i].first <= stack[i].at + 1 /\ stack[i].at <= Len(order)
             /\ IsSeq(stack[i].left)
             /\ i # n => stack[i].first <= stack[i].at
             /\ i # n => stack[i].at < stack[n].first
             /\ stack[i].at <= stack[n].at
  BY <1>3, <1>4, <1>5
<1>7. \A i, k \in 1..n : i < k => stack[i].at < stack[k].first
  BY <1>3
<1> QED
  BY <1>1, <1>2, <1>6, <1>7 DEF n

----------------------------------------------------------------------------
(* A call takes its next value. *)
LEMMA NextValueFacts ==
  ASSUME Calls, NextValue
  PROVE  LET n == Len(stack)
             x == order[stack[n].at]
         IN  /\ n \in Nat \ {0} /\ DOMAIN stack = 1..n
             /\ DOMAIN stack' = 1..n /\ Len(stack') = n /\ stack' # <<>> /\ stack # <<>>
             /\ Top' = stack'[n] /\ Here' = stack[n].at /\ Here = stack[n].at
             /\ \A i \in 1..n : i # n => stack'[i] = stack[i]
             /\ \A i \in 1..n : /\ stack'[i].first = stack[i].first
                                /\ stack'[i].at = stack[i].at
                                /\ stack'[i].pruned = stack[i].pruned
             /\ IsSeq(stack[n].left) /\ stack[n].left # <<>>
             /\ stack'[n].left = Tail(stack[n].left)
             /\ stack[n].first <= stack[n].at
             /\ env' = Branched(env, x, Head(stack[n].left))
             /\ entering' = TRUE /\ UNCHANGED <<tree, lib, order, dirs, descriptor>>
<1> DEFINE n == Len(stack)
<1>1. /\ n \in Nat \ {0} /\ DOMAIN stack = 1..n
      /\ Top = stack[n] /\ Here = stack[n].at
  BY TopFacts DEF Calls, IInv, NextValue
<1>2. stack' = Resumed(Top.at, Tail(Top.left)) /\ stack # <<>> /\ IsSeq(stack)
  BY DEF NextValue, Calls, IInv
<1>3. /\ DOMAIN stack' = DOMAIN stack /\ Len(stack') = n /\ stack' # <<>>
      /\ \A i \in DOMAIN stack : i # n => stack'[i] = stack[i]
      /\ stack'[n].first = stack[n].first
      /\ stack'[n].at = Top.at
      /\ stack'[n].left = Tail(Top.left)
      /\ stack'[n].pruned = stack[n].pruned
  BY <1>2, ResumedFacts
<1>4. Top' = stack'[n] /\ Here' = stack'[n].at
  BY <1>3 DEF Top, Here
<1>5. Top.left # <<>>
  BY DEF NextValue
<1>6. IsSeq(stack[n].left) /\ stack[n].first <= stack[n].at
  BY <1>1, <1>5 DEF Calls, Nested
<1>7. /\ env' = Branched(env, order[Top.at], Head(Top.left))
      /\ entering' = TRUE /\ UNCHANGED <<tree, lib, order, dirs, descriptor>>
  BY DEF NextValue, Branched
<1> HIDE DEF n
<1> QED
  BY <1>1, <1>2, <1>3, <1>4, <1>5, <1>6, <1>7 DEF n

(* The values of a variable are taken one by one.                          *)
LEMMA HeadTail ==
  ASSUME NEW s, IsSeq(s), s # <<>>
  PROVE  /\ IsSeq(Tail(s)) /\ Range(s) = {Head(s)} \cup Range(Tail(s))
         /\ Head(s) \in Range(s)
<1>1. PICK S : s \in Seq(S)
  BY DEF IsSeq
<1>2. /\ Tail(s) \in Seq(S) /\ Len(s) \in Nat \ {0} /\ DOMAIN s = 1..Len(s)
      /\ Head(s) = s[1] /\ Len(Tail(s)) = Len(s) - 1 /\ DOMAIN Tail(s) = 1..Len(s) - 1
      /\ \A i \in 1..Len(s) - 1 : Tail(s)[i] = s[i + 1]
  BY <1>1
<1>3. \A y \in Range(s) : y = Head(s) \/ y \in Range(Tail(s))
  <2> SUFFICES ASSUME NEW i \in 1..Len(s), i # 1 PROVE s[i] \in Range(Tail(s))
    BY <1>2 DEF Range
  <2>1. i - 1 \in 1..Len(s) - 1 /\ (i - 1) + 1 = i
    BY <1>2
  <2>2. s[i] = Tail(s)[i - 1]
    BY <1>2, <2>1
  <2> QED
    BY <1>2, <2>1, <2>2 DEF Range
<1>4. \A y \in Range(Tail(s)) : y \in Range(s)
  <2> SUFFICES ASSUME NEW i \in 1..Len(s) - 1 PROVE Tail(s)[i] \in Range(s)
    BY <1>2 DEF Range
  <2> QED
    BY <1>2 DEF Range
<1>5. Head(s) \in Range(s)
  BY <1>2 DEF Range
<1> QED
  BY <1>1, <1>2, <1>3, <1>4, <1>5 DEF IsSeq

LEMMA NextValueKeepsNested ==
  ASSUME Calls, NextValue
  PROVE  Nested'
<1> DEFINE n == Len(stack)
<1>1. /\ n \in Nat \ {0} /\ DOMAIN stack = 1..n
      /\ DOMAIN stack' = 1..n /\ Len(stack') = n /\ Top' = stack'[n]
      /\ \A i \in 1..n : i # n => stack'[i] = stack[i]
      /\ \A i \in 1..n : stack'[i].first = stack[i].first /\ stack'[i].at = stack[i].at
      /\ IsSeq(stack[n].left) /\ stack[n].left # <<>>
      /\ stack'[n].left = Tail(stack[n].left)
      /\ stack[n].first <= stack[n].at
      /\ order' = order
  BY NextValueFacts
<1>2. IsSeq(stack'[n].left)
  BY <1>1, HeadTail
<1> HIDE DEF n
<1>3. ASSUME NEW i \in 1..n
      PROVE  /\ stack[i].first \in Nat \ {0} /\ stack[i].at \in Nat
             /\ stack[i].first = (IF i = 1 THEN 0 ELSE stack[i - 1].at) + 1
             /\ stack[i].first <= stack[i].at + 1 /\ stack[i].first <= Len(order)
             /\ stack[i].at <= Len(order)
             /\ IsSeq(stack[i].left)
             /\ (stack[i].left # <<>> \/ i # n) => stack[i].first <= stack[i].at
             /\ \A k \in 1..n : i < k => stack[i].at < stack[k].first
  BY <1>1, <1>3 DEF Calls, Nested, n
<1>4. ASSUME NEW i \in 1..n
      PROVE  /\ stack'[i].first \in Nat \ {0} /\ stack'[i].at \in Nat
             /\ stack'[i].first = (IF i = 1 THEN 0 ELSE stack'[i - 1].at) + 1
             /\ stack'[i].first <= stack'[i].at + 1 /\ stack'[i].first <= Len(order)
             /\ stack'[i].at <= Len(order)
             /\ IsSeq(stack'[i].left)
             /\ (stack'[i].left # <<>> \/ i # n) => stack'[i].first <= stack'[i].at
             /\ \A k \in 1..n : i < k => stack'[i].at < stack'[k].first
  <2>1. i # 1 => i - 1 \in 1..n
    BY <1>1
  <2>2. stack'[i].first = stack[i].first /\ stack'[i].at = stack[i].at
    BY <1>1
  <2>3. i # 1 => stack'[i - 1].at = stack[i - 1].at
    BY <1>1, <2>1
  <2>4. \A k \in 1..n : i < k => stack'[i].at < stack'[k].first
    BY <1>1, <1>3
  <2>5. IsSeq(stack'[i].left)
    BY <1>1, <1>2, <1>3
  <2>6. (stack'[i].left # <<>> \/ i # n) => stack'[i].first <= stack'[i].at
    BY <1>1, <1>3
  <2> QED
    BY <1>3, <2>2, <2>3, <2>4, <2>5, <2>6
<1>5. Top'.first <= Top'.at
  BY <1>1
<1> QED
  BY <1>1, <1>4, <1>5 DEF Nested

LEMMA NextValueKeepsEnv ==
  ASSUME Calls, NextValue, lib \in Libs
  PROVE  EnvPlaced'
<1> DEFINE n == Len(stack)
           x == order[stack[n].at]
<1>1. /\ n \in Nat \ {0} /\ DOMAIN stack = 1..n
      /\ DOMAIN stack' = 1..n
      /\ Here' = stack[n].at /\ Here = stack[n].at
      /\ \A i \in 1..n : stack'[i].first = stack[i].first /\ stack'[i].at = stack[i].at
      /\ stack[n].first <= stack[n].at
      /\ order' = order
      /\ env' = Branched(env, x, Head(stack[n].left))
  BY NextValueFacts
<1>2. IsAFcn(env') /\ DOMAIN env' = DOMAIN env \cup {x}
  <2> HIDE DEF x
  <2> QED
    BY <1>1, BranchedFacts
<1>3. /\ Len(order) \in Nat
      /\ \A j, k \in 1..Len(order) : order[j] = order[k] => j = k
      /\ \A i \in 1..n : /\ stack[i].first \in Nat /\ 1 <= stack[i].first
                         /\ stack[i].at \in Nat /\ stack[i].at <= stack[n].at
                         /\ stack[i].at <= Len(order)
  BY FrameFacts
<1>4. stack[n].at \in 1..Len(order)
  BY <1>1, <1>3
<1>5. \A v \in DOMAIN env' : \E j \in 1..stack[n].at : v = order[j]
  BY <1>1, <1>2, <1>4 DEF Calls, EnvPlaced
<1>6. ASSUME NEW i \in 1..n, NEW j \in stack[i].first..stack[i].at - 1
      PROVE  order[j] \notin DOMAIN env'
  <2>1. order[j] \notin DOMAIN env
    BY <1>1 DEF Calls, EnvPlaced
  <2>2. j \in 1..Len(order) /\ j # stack[n].at
    BY <1>3, <1>4
  <2> QED
    BY <1>2, <1>3, <1>4, <2>1, <2>2
<1> HIDE DEF n, x
<1>7. \A i \in DOMAIN stack' : \A j \in stack'[i].first..stack'[i].at - 1 :
        order'[j] \notin DOMAIN env'
  BY <1>1, <1>6
<1> QED
  BY <1>1, <1>2, <1>5, <1>7 DEF EnvPlaced

(* The branch that a call takes becomes the one its callee starts in: a    *)
(* target that lies there is now at its entry, the others stay ahead of    *)
(* the call.                                                               *)
LEMMA NextValueKeepsComing ==
  ASSUME Calls, NextValue, lib \in Libs, NEW b, NEW d, IsTarget(b, d), Coming(b, d)
  PROVE  Coming(b, d)'
<1>a. PICK n : n = Len(stack)
  OBVIOUS
<1>b. PICK x : x = order[stack[n].at]
  OBVIOUS
<1>c. PICK y : y = Head(stack[n].left)
  OBVIOUS
<1>1. /\ n \in Nat \ {0} /\ DOMAIN stack = 1..n
      /\ DOMAIN stack' = 1..n /\ Len(stack') = n
      /\ Here' = stack[n].at
      /\ \A i \in 1..n : i # n => stack'[i] = stack[i]
      /\ \A i \in 1..n : /\ stack'[i].first = stack[i].first
                         /\ stack'[i].at = stack[i].at
                         /\ stack'[i].pruned = stack[i].pruned
      /\ IsSeq(stack[n].left) /\ stack[n].left # <<>>
      /\ stack'[n].left = Tail(stack[n].left)
      /\ stack[n].first <= stack[n].at
      /\ env' = Branched(env, x, y)
      /\ entering' = TRUE /\ order' = order
  BY <1>a, <1>b, <1>c, NextValueFacts
<1>2. /\ n \in Nat /\ Len(order) \in Nat
      /\ \A i \in 1..n :
           /\ stack[i].first \in Nat /\ stack[i].at \in Nat
           /\ 1 <= stack[i].first /\ stack[i].first <= Len(order)
           /\ stack[i].first <= stack[i].at + 1 /\ stack[i].at <= Len(order)
           /\ i # n => stack[i].first <= stack[i].at
           /\ i # n => stack[i].at < stack[n].first
           /\ stack[i].at <= stack[n].at
      /\ \A j, k \in 1..Len(order) : order[j] = order[k] => j = k
  BY <1>a, FrameFacts
<1>3. /\ DOMAIN env' = DOMAIN env \cup {x} /\ env'[x] = y
      /\ \A v \in DOMAIN env : v # x => env'[v] = env[v]
  <2>1. env' = Branched(env, x, y)
    BY <1>1
  <2> QED
    BY <2>1 DEF Branched, Update
<1>4. ASSUME NEW v, v # x, Same(env, b, v) PROVE Same(env', b, v)
  BY <1>3, <1>4 DEF Same
<1>5. ASSUME NEW j \in 1..Len(order), j # stack[n].at, Same(env, b, order[j])
      PROVE  Same(env', b, order[j])
  BY <1>1, <1>2, <1>b, <1>4, <1>5
<1>6. \A k : Untouched(d, k) /\ k \in 1..n => Untouched(d, k)'
  BY <1>1 DEF Untouched
<1>7. PICK i \in 1..n : Ahead(i, b, d)
  BY <1>1 DEF Coming, AtEntry, NextValue
<1>8. n \in 1..n
  BY <1>1
<1>9. ASSUME NEW j \in 1..stack[i].first - 1 PROVE Same(env', b, order[j])
  <2>1. Same(env, b, order[j])
    BY <1>7 DEF Ahead
  <2>2. /\ stack[i].first \in Nat /\ stack[i].first <= Len(order)
        /\ stack[n].at \in Nat /\ stack[i].first <= stack[n].at
    <3>1. CASE i = n
      BY <1>1, <1>2, <3>1
    <3>2. CASE i # n
      BY <1>2, <1>8, <3>2
    <3> QED
      BY <3>1, <3>2
  <2>3. j \in 1..Len(order) /\ j # stack[n].at
    BY <1>2, <2>2
  <2> QED
    BY <1>5, <2>1, <2>3
<1>10. CASE i # n
  <2>1. Ahead(i, b, d)'
    BY <1>1, <1>6, <1>7, <1>9, <1>10 DEF Ahead
  <2> QED
    BY <1>1, <2>1 DEF Coming
<1>11. CASE i = n /\ ~(x \in DOMAIN b /\ b[x] = y)
  <2>1. \A j \in stack[n].first..stack[n].at :
          order[j] \in DOMAIN b => j = stack[n].at /\ b[order[j]] \in Range(Tail(stack[n].left))
    BY <1>1, <1>7, <1>11, <1>b, <1>c, HeadTail DEF Ahead
  <2>2. Untouched(d, n)'
    BY <1>6, <1>7, <1>8, <1>11 DEF Ahead
  <2>3. \E m \in stack[n].first..Len(order) : m >= stack[n].at /\ order[m] \in DOMAIN b
    BY <1>7, <1>11 DEF Ahead
  <2>4. \A j \in 1..stack[n].first - 1 : Same(env', b, order[j])
    BY <1>9, <1>11
  <2>5. /\ stack'[n].first = stack[n].first /\ stack'[n].at = stack[n].at
        /\ stack'[n].left = Tail(stack[n].left) /\ order' = order
    BY <1>1, <1>8
  <2>6. Ahead(n, b, d)'
    BY <2>1, <2>2, <2>3, <2>4, <2>5 DEF Ahead
  <2> QED
    BY <1>1, <1>8, <2>6 DEF Coming
<1>12. CASE i = n /\ x \in DOMAIN b /\ b[x] = y
  <2>1. ASSUME NEW j \in 1..stack[n].at PROVE Same(env', b, order[j])
    <3>1. CASE j = stack[n].at
      BY <1>3, <1>b, <1>12, <3>1 DEF Same
    <3>2. CASE j < stack[n].first
      BY <1>2, <1>8, <1>9, <1>12, <3>2
    <3>3. CASE stack[n].first <= j /\ j < stack[n].at
      <4>1. order[j] \notin DOMAIN b
        BY <1>2, <1>7, <1>8, <1>12, <3>3 DEF Ahead
      <4>2. order[j] \notin DOMAIN env
        <5>1. n \in DOMAIN stack /\ j \in stack[n].first..stack[n].at - 1
          BY <1>1, <1>2, <1>8, <3>3
        <5> QED
          BY <5>1 DEF Calls, EnvPlaced
      <4>3. order[j] # x
        <5>1. j \in 1..Len(order) /\ stack[n].at \in 1..Len(order) /\ j # stack[n].at
          BY <1>1, <1>2, <1>8, <3>3
        <5> QED
          BY <1>2, <1>b, <5>1
      <4> QED
        BY <1>3, <4>1, <4>2, <4>3 DEF Same
    <3> QED
      BY <1>2, <1>8, <3>1, <3>2, <3>3
  <2>2. Untouched(d, Len(stack))'
    BY <1>a, <1>1, <1>6, <1>7, <1>8, <1>12 DEF Ahead
  <2>3. AtEntry(b, d)'
    BY <1>1, <2>1, <2>2 DEF AtEntry
  <2> QED
    BY <2>3 DEF Coming
<1> QED
  BY <1>10, <1>11, <1>12

(* A call goes on with its next variable. *)
UsedIn(ds) == UNION {DOMAIN RulesOf[tree][d].scenarios : d \in ds}

LEMMA NextVariableFacts ==
  ASSUME Calls, NextVariable, NEW n, n = Len(stack), lib \in Libs
  PROVE  \E c \in 1..Len(order) :
             /\ n \in Nat \ {0} /\ DOMAIN stack = 1..n /\ n \in 1..n
             /\ DOMAIN stack' = 1..n /\ Len(stack') = n /\ stack' # <<>>
             /\ Here' = c /\ Here = stack[n].at
             /\ \A i \in 1..n : i # n => stack'[i] = stack[i]
             /\ \A i \in 1..n : /\ stack'[i].first = stack[i].first
                                /\ stack'[i].pruned = stack[i].pruned
                                /\ i # n => stack'[i].at = stack[i].at
             /\ stack'[n].at = c /\ stack'[n].left = ValuesOf(tree, order[c])
             /\ stack[n].at < c /\ order[c] \in UsedIn(dirs)
             /\ \A j \in 1..Len(order) :
                  stack[n].at < j /\ j < c => order[j] \notin UsedIn(dirs)
             /\ stack[n].left = <<>>
             /\ IsAFcn(env')
             /\ \A v : v \in DOMAIN env' <=>
                  v \in DOMAIN env /\ \A j \in stack[n].first..stack[n].at : v # order[j]
             /\ \A v \in DOMAIN env' : env'[v] = env[v]
             /\ ~entering /\ ~entering'
             /\ UNCHANGED <<tree, lib, order, dirs, descriptor>>
<1>1. /\ n \in Nat \ {0} /\ DOMAIN stack = 1..n
      /\ Top = stack[n] /\ Here = stack[n].at
  BY TopFacts DEF Calls, IInv, NextVariable
<1>2. n \in 1..n
  BY <1>1
<1>3. /\ Len(order) \in Nat /\ stack[n].at \in Nat
  BY <1>2, FrameFacts
<1>4. PICK c : c = Min(Candidates)
  OBVIOUS
<1>5. /\ stack' = Resumed(c, ValuesOf(tree, order[c]))
      /\ stack # <<>> /\ IsSeq(stack) /\ Candidates # {}
  BY <1>4 DEF NextVariable, Calls, IInv
<1>6. /\ DOMAIN stack' = DOMAIN stack /\ Len(stack') = n /\ stack' # <<>>
      /\ \A i \in DOMAIN stack : i # n => stack'[i] = stack[i]
      /\ stack'[n].first = stack[n].first
      /\ stack'[n].at = c
      /\ stack'[n].left = ValuesOf(tree, order[c])
      /\ stack'[n].pruned = stack[n].pruned
  BY <1>5, ResumedFacts
<1>7. Here' = c
  BY <1>6 DEF Top, Here
<1>8. Candidates = {j \in stack[n].at + 1..Len(order) : order[j] \in UsedIn(dirs)}
  BY <1>1 DEF Candidates, UsedIn
<1>9. Candidates \subseteq Nat
  BY <1>3, <1>8
<1>10. c \in Candidates /\ \A m \in Candidates : c <= m
  BY <1>4, <1>5, <1>9, MinIn
<1>11. /\ c \in 1..Len(order) /\ stack[n].at < c /\ order[c] \in UsedIn(dirs)
       /\ \A j \in 1..Len(order) :
            stack[n].at < j /\ j < c => order[j] \notin UsedIn(dirs)
  BY <1>3, <1>8, <1>10
<1>12. PICK f : f = env' /\ f = EnvAfterValues
  BY DEF NextVariable
<1>13. /\ IsAFcn(f)
       /\ DOMAIN f = DOMAIN env \ {order[j] : j \in Top.first..Top.at}
       /\ \A v \in DOMAIN f : f[v] = env[v]
  BY <1>12, AfterValuesFacts
<1>14. /\ IsAFcn(env')
       /\ \A v : v \in DOMAIN env' <=>
            v \in DOMAIN env /\ \A j \in stack[n].first..stack[n].at : v # order[j]
       /\ \A v \in DOMAIN env' : env'[v] = env[v]
  BY <1>1, <1>12, <1>13
<1>15. /\ Top.left = <<>> /\ ~entering /\ ~entering'
       /\ UNCHANGED <<tree, lib, order, dirs, descriptor>>
  BY DEF NextVariable
<1>16. \A i \in 1..n : /\ stack'[i].first = stack[i].first
                       /\ stack'[i].pruned = stack[i].pruned
                       /\ i # n => stack'[i].at = stack[i].at
  BY <1>1, <1>6
<1>17. c \in 1..Len(order)
  BY <1>11
<1> USE <1>17
<1> WITNESS c \in 1..Len(order)
<1> QED
  BY <1>1, <1>2, <1>6, <1>7, <1>11, <1>14, <1>15, <1>16

LEMMA NextVariableKeepsNested ==
  ASSUME Calls, NextVariable, lib \in Libs
  PROVE  Nested'
<1>a. PICK n : n = Len(stack)
  OBVIOUS
<1>1. PICK c \in 1..Len(order) :
        /\ n \in Nat \ {0} /\ DOMAIN stack = 1..n /\ n \in 1..n
        /\ DOMAIN stack' = 1..n /\ Len(stack') = n
        /\ \A i \in 1..n : i # n => stack'[i] = stack[i]
        /\ \A i \in 1..n : /\ stack'[i].first = stack[i].first
                           /\ i # n => stack'[i].at = stack[i].at
        /\ stack'[n].at = c /\ stack'[n].left = ValuesOf(tree, order[c])
        /\ stack[n].at < c /\ order[c] \in UsedIn(dirs)
        /\ ~entering' /\ order' = order
  BY <1>a, NextVariableFacts
<1>2. /\ Len(order) \in Nat
      /\ \A i \in 1..n :
           /\ stack[i].first \in Nat /\ stack[i].at \in Nat
           /\ 1 <= stack[i].first /\ stack[i].first <= Len(order)
           /\ stack[i].first <= stack[i].at + 1 /\ stack[i].at <= Len(order)
           /\ IsSeq(stack[i].left)
           /\ i # n => stack[i].first <= stack[i].at
      /\ \A i, k \in 1..n : i < k => stack[i].at < stack[k].first
  BY <1>a, FrameFacts
<1>3. \A i \in 1..n : stack[i].first = (IF i = 1 THEN 0 ELSE stack[i - 1].at) + 1
  BY <1>1 DEF Calls, Nested
<1>4. IsSeq(stack'[n].left)
  <2>1. order[c] \in Variables(tree, lib) /\ tree \in Trees
    BY OrderFacts DEF Calls, Ordered
  <2>2. order[c] \in DOMAIN Scenarios
    BY <2>1, RuleFacts DEF Variables, DirsOf, DirsIn
  <2> QED
    BY <1>1, <2>2, ValuesAreListed
<1>5. ASSUME NEW i \in 1..n
      PROVE  /\ stack'[i].first \in Nat \ {0} /\ stack'[i].at \in Nat
             /\ stack'[i].first = (IF i = 1 THEN 0 ELSE stack'[i - 1].at) + 1
             /\ stack'[i].first <= stack'[i].at + 1 /\ stack'[i].first <= Len(order)
             /\ stack'[i].at <= Len(order)
             /\ IsSeq(stack'[i].left)
             /\ (stack'[i].left # <<>> \/ i # n) => stack'[i].first <= stack'[i].at
             /\ \A k \in 1..n : i < k => stack'[i].at < stack'[k].first
  <2>1. i # 1 => i - 1 \in 1..n /\ i - 1 # n
    BY <1>1
  <2>2. i # 1 => stack'[i - 1].at = stack[i - 1].at
    BY <1>1, <2>1
  <2>3. stack'[i].first = (IF i = 1 THEN 0 ELSE stack'[i - 1].at) + 1
    BY <1>1, <1>3, <2>2
  <2>4. \A k \in 1..n : i < k => stack'[i].at < stack'[k].first
    BY <1>1, <1>2
  <2>5. CASE i = n
    BY <1>1, <1>2, <1>4, <2>3, <2>4, <2>5
  <2>6. CASE i # n
    BY <1>1, <1>2, <2>3, <2>4, <2>6
  <2> QED
    BY <2>5, <2>6
<1> QED
  BY <1>1, <1>5 DEF Nested

LEMMA NextVariableKeepsEnv ==
  ASSUME Calls, NextVariable, lib \in Libs
  PROVE  EnvPlaced'
<1>a. PICK n : n = Len(stack)
  OBVIOUS
<1>1. PICK c \in 1..Len(order) :
        /\ n \in Nat \ {0} /\ DOMAIN stack = 1..n /\ n \in 1..n
        /\ DOMAIN stack' = 1..n
        /\ Here' = c /\ Here = stack[n].at
        /\ \A i \in 1..n : /\ stack'[i].first = stack[i].first
                           /\ i # n => stack'[i].at = stack[i].at
        /\ stack'[n].at = c
        /\ stack[n].at < c
        /\ IsAFcn(env')
        /\ \A v : v \in DOMAIN env' <=>
             v \in DOMAIN env /\ \A j \in stack[n].first..stack[n].at : v # order[j]
        /\ order' = order
  BY <1>a, NextVariableFacts
<1>2. /\ Len(order) \in Nat
      /\ \A i \in 1..n :
           /\ stack[i].first \in Nat /\ stack[i].at \in Nat
           /\ 1 <= stack[i].first /\ stack[i].at <= Len(order)
      /\ \A j, k \in 1..Len(order) : order[j] = order[k] => j = k
  BY <1>a, FrameFacts
<1>3. /\ \A v \in DOMAIN env : \E j \in 1..stack[n].at : v = order[j]
      /\ \A i \in 1..n : \A j \in stack[i].first..stack[i].at - 1 :
           order[j] \notin DOMAIN env
  BY <1>1 DEF Calls, EnvPlaced
<1>4. \A v \in DOMAIN env' : \E j \in 1..c : v = order[j]
  <2> SUFFICES ASSUME NEW v \in DOMAIN env' PROVE \E j \in 1..c : v = order[j]
    OBVIOUS
  <2>1. PICK j \in 1..stack[n].at : v = order[j]
    BY <1>1, <1>3
  <2>2. j \in 1..c
    BY <1>1, <1>2
  <2> QED
    BY <2>1, <2>2
<1>5. ASSUME NEW i \in 1..n, NEW j \in stack'[i].first..stack'[i].at - 1
      PROVE  order[j] \notin DOMAIN env'
  <2>1. CASE i # n
    BY <1>1, <1>3, <2>1
  <2>2. CASE i = n /\ j <= stack[n].at
    <3>1. j \in stack[n].first..stack[n].at
      BY <1>1, <1>2, <2>2
    <3> QED
      BY <1>1, <3>1
  <2>3. CASE i = n /\ j > stack[n].at
    <3>1. j \in 1..Len(order) /\ j > stack[n].at
      BY <1>1, <1>2, <2>3
    <3>2. ASSUME order[j] \in DOMAIN env PROVE FALSE
      <4>1. PICK k \in 1..stack[n].at : order[j] = order[k]
        BY <1>3, <3>2
      <4>2. k \in 1..Len(order) /\ k # j
        BY <1>1, <1>2, <3>1
      <4> QED
        BY <1>2, <3>1, <4>1, <4>2
    <3> QED
      BY <1>1, <3>2
  <2>4. j \in Int /\ stack[n].at \in Int
    BY <1>1, <1>2
  <2> QED
    BY <2>1, <2>2, <2>3, <2>4
<1> QED
  BY <1>1, <1>4, <1>5 DEF EnvPlaced

(* A directory that no call has removed is in dirs.                        *)
LEMMA UntouchedInDirs ==
  ASSUME Calls, lib \in Libs, NEW b, NEW d, IsTarget(b, d), Untouched(d, Len(stack))
  PROVE  d \in dirs /\ \A v \in DOMAIN b : v \in UsedIn(dirs)
<1>1. DOMAIN stack = 1..Len(stack)
  BY Push DEF Calls, IInv
<1>2. d \notin Pruned(stack)
  BY <1>1 DEF Untouched, Pruned
<1>3. d \in dirs
  BY <1>2 DEF Calls, IInv, IsTarget
<1> QED
  BY <1>3 DEF IsTarget, UsedIn

(* The variables that a call skips are used by no directory that is left,  *)
(* so no target needs them.                                                *)
LEMMA NextVariableKeepsComing ==
  ASSUME Calls, NextVariable, lib \in Libs, NEW b, NEW d, IsTarget(b, d), Coming(b, d)
  PROVE  Coming(b, d)'
<1>a. PICK n : n = Len(stack)
  OBVIOUS
<1>1. PICK c \in 1..Len(order) :
        /\ n \in Nat \ {0} /\ DOMAIN stack = 1..n /\ n \in 1..n
        /\ DOMAIN stack' = 1..n
        /\ Here' = c /\ Here = stack[n].at
        /\ \A i \in 1..n : i # n => stack'[i] = stack[i]
        /\ \A i \in 1..n : /\ stack'[i].first = stack[i].first
                           /\ stack'[i].pruned = stack[i].pruned
                           /\ i # n => stack'[i].at = stack[i].at
        /\ stack'[n].at = c /\ stack'[n].left = ValuesOf(tree, order[c])
        /\ stack[n].at < c
        /\ \A j \in 1..Len(order) :
             stack[n].at < j /\ j < c => order[j] \notin UsedIn(dirs)
        /\ order[c] \in UsedIn(dirs)
        /\ stack[n].left = <<>>
        /\ \A v : v \in DOMAIN env' <=>
             v \in DOMAIN env /\ \A j \in stack[n].first..stack[n].at : v # order[j]
        /\ \A v \in DOMAIN env' : env'[v] = env[v]
        /\ ~entering /\ order' = order
  BY <1>a, NextVariableFacts
<1>2. /\ Len(order) \in Nat
      /\ \A i \in 1..n :
           /\ stack[i].first \in Nat /\ stack[i].at \in Nat
           /\ 1 <= stack[i].first /\ stack[i].first <= Len(order)
           /\ stack[i].at <= Len(order)
           /\ i # n => stack[i].first <= stack[i].at
           /\ i # n => stack[i].at < stack[n].first
      /\ \A j, k \in 1..Len(order) : order[j] = order[k] => j = k
  BY <1>a, FrameFacts
<1>3. \A k : Untouched(d, k) /\ k \in 1..n => Untouched(d, k)'
  BY <1>1 DEF Untouched
<1>4. PICK i \in 1..n : Ahead(i, b, d)
  BY <1>1 DEF Coming, AtEntry
<1>5. stack[i].first \in Nat /\ stack[i].first <= stack[n].first /\ stack[i].first <= Len(order)
  BY <1>1, <1>2
<1>6. ASSUME NEW j \in 1..stack[i].first - 1 PROVE Same(env', b, order[j])
  <2>1. Same(env, b, order[j])
    BY <1>4 DEF Ahead
  <2>2. j \in 1..Len(order) /\ j < stack[n].first
    BY <1>1, <1>2, <1>5
  <2>3. \A k \in stack[n].first..stack[n].at : order[j] # order[k]
    BY <1>1, <1>2, <2>2
  <2>4. order[j] \in DOMAIN env' <=> order[j] \in DOMAIN env
    BY <1>1, <2>3
  <2> QED
    BY <1>1, <2>1, <2>4 DEF Same
<1>7. CASE i # n
  <2>1. Untouched(d, i)'
    BY <1>3, <1>4 DEF Ahead
  <2>2. Ahead(i, b, d)'
    BY <1>1, <1>4, <1>6, <1>7, <2>1 DEF Ahead
  <2> QED
    BY <1>1, <2>2 DEF Coming
<1>8. CASE i = n
  <2>1. Untouched(d, n) /\ Untouched(d, n)'
    BY <1>1, <1>3, <1>4, <1>8 DEF Ahead
  <2>2. d \in dirs /\ \A v \in DOMAIN b : v \in UsedIn(dirs)
    BY <1>a, <2>1, UntouchedInDirs
  <2>3. \A j \in stack[n].first..stack[n].at : order[j] \notin DOMAIN b
    BY <1>1, <1>4, <1>8 DEF Ahead, Range
  <2>4. PICK m \in stack[n].first..Len(order) : m >= stack[n].at /\ order[m] \in DOMAIN b
    BY <1>4, <1>8 DEF Ahead
  <2>5. m \in 1..Len(order) /\ stack[n].at < m
    BY <1>1, <1>2, <2>3, <2>4
  <2>6. c <= m /\ m \in stack[n].first..Len(order)
    BY <1>1, <1>2, <2>2, <2>4, <2>5
  <2>7. ASSUME NEW j \in stack[n].first..c, order[j] \in DOMAIN b
        PROVE  j = c /\ b[order[j]] \in Range(ValuesOf(tree, order[c]))
    <3>1. j \in 1..Len(order) /\ stack[n].at < j
      BY <1>1, <1>2, <2>3, <2>7
    <3>2. j = c
      BY <1>1, <1>2, <2>2, <2>7, <3>1
    <3>3. b[order[c]] \in RulesOf[tree][d].scenarios[order[c]]
      BY <2>7, <3>2 DEF IsTarget
    <3>4. tree \in Trees /\ d \in DOMAIN RulesOf[tree]
      BY DEF Calls, Ordered, IsTarget, DirsOf, DirsIn
    <3>5. RulesOf[tree][d].scenarios[order[c]] \subseteq Range(ValuesOf(tree, order[c]))
      BY <2>7, <3>2, <3>4, RuleFacts DEF IsTarget
    <3> QED
      BY <3>2, <3>3, <3>5
  <2>8. Ahead(n, b, d)'
    <3>1. /\ stack'[n].first = stack[n].first /\ stack'[n].at = c
          /\ stack'[n].left = ValuesOf(tree, order[c]) /\ order' = order
      BY <1>1
    <3>2. \A j \in 1..stack[n].first - 1 : Same(env', b, order[j])
      BY <1>6, <1>8
    <3>3. \E k \in stack[n].first..Len(order) : k >= c /\ order[k] \in DOMAIN b
      BY <1>2, <2>4, <2>6
    <3> QED
      BY <2>1, <2>7, <3>1, <3>2, <3>3 DEF Ahead
  <2> QED
    BY <1>1, <2>8 DEF Coming
<1> QED
  BY <1>7, <1>8

(* A call returns. *)
LEMMA LeaveFacts ==
  ASSUME Calls, Leave, NEW n, n = Len(stack), lib \in Libs
  PROVE  /\ n \in Nat \ {0} /\ DOMAIN stack = 1..n /\ n \in 1..n
         /\ DOMAIN stack' = 1..n - 1 /\ Len(stack') = n - 1
         /\ Here' = stack[n].first - 1 /\ Here = stack[n].at
         /\ \A i \in 1..n - 1 : stack'[i] = stack[i]
         /\ \A j \in 1..Len(order) : stack[n].at < j => order[j] \notin UsedIn(dirs)
         /\ stack[n].left = <<>>
         /\ IsAFcn(env')
         /\ \A v : v \in DOMAIN env' <=>
              v \in DOMAIN env /\ \A j \in stack[n].first..stack[n].at : v # order[j]
         /\ \A v \in DOMAIN env' : env'[v] = env[v]
         /\ ~entering /\ ~entering'
         /\ UNCHANGED <<tree, lib, order, descriptor>>
<1>1. /\ n \in Nat \ {0} /\ DOMAIN stack = 1..n
      /\ Top = stack[n] /\ Here = stack[n].at
  BY TopFacts DEF Calls, IInv, Leave
<1>2. n \in 1..n
  BY <1>1
<1>3. /\ Len(order) \in Nat /\ stack[n].at \in Nat
  BY <1>2, FrameFacts
<1>4. stack' = Below /\ stack # <<>> /\ IsSeq(stack) /\ Candidates = {}
  BY DEF Leave, Calls, IInv
<1>5. /\ IsSeq(stack') /\ Len(stack') = n - 1 /\ DOMAIN stack' = 1..n - 1
      /\ \A i \in 1..n - 1 : stack'[i] = stack[i]
  BY <1>4, Pop DEF Below
<1>6. stack[n].first = (IF n = 1 THEN 0 ELSE stack[n - 1].at) + 1
      /\ stack[n].first \in Nat \ {0}
  BY <1>1, <1>2 DEF Calls, Nested
<1>7. Here' = stack[n].first - 1
  <2>1. CASE n = 1
    <3>1. stack' = <<>>
      BY <1>5, <2>1 DEF IsSeq
    <3>2. Here' = 0
      BY <3>1 DEF Here
    <3> QED
      BY <1>6, <2>1, <3>2
  <2>2. CASE n # 1
    <3>1. stack' # <<>> /\ n - 1 \in 1..n - 1
      BY <1>1, <1>5, <2>2
    <3>2. Here' = stack'[n - 1].at
      BY <1>5, <3>1 DEF Here, Top
    <3>3. Here' = stack[n - 1].at
      BY <1>5, <3>1, <3>2
    <3>4. n - 1 \in 1..n /\ stack[n].first = stack[n - 1].at + 1
      BY <1>1, <1>6, <2>2
    <3>5. stack[n - 1].at \in Nat
      BY <3>4, FrameFacts
    <3> QED
      BY <3>3, <3>4, <3>5
  <2> QED
    BY <2>1, <2>2
<1>8. \A j \in 1..Len(order) : stack[n].at < j => order[j] \notin UsedIn(dirs)
  <2>1. Candidates = {j \in stack[n].at + 1..Len(order) : order[j] \in UsedIn(dirs)}
    BY <1>1 DEF Candidates, UsedIn
  <2> QED
    BY <1>3, <1>4, <2>1
<1>9. PICK f : f = env' /\ f = EnvAfterValues
  BY DEF Leave
<1>10. /\ IsAFcn(f)
       /\ DOMAIN f = DOMAIN env \ {order[j] : j \in Top.first..Top.at}
       /\ \A v \in DOMAIN f : f[v] = env[v]
  BY <1>9, AfterValuesFacts
<1>11. /\ IsAFcn(env')
       /\ \A v : v \in DOMAIN env' <=>
            v \in DOMAIN env /\ \A j \in stack[n].first..stack[n].at : v # order[j]
       /\ \A v \in DOMAIN env' : env'[v] = env[v]
  BY <1>1, <1>9, <1>10
<1>12. Top.left = <<>> /\ ~entering /\ ~entering' /\ UNCHANGED <<tree, lib, order, descriptor>>
  BY DEF Leave
<1> QED
  BY <1>1, <1>2, <1>5, <1>7, <1>8, <1>11, <1>12

LEMMA LeaveKeepsNested ==
  ASSUME Calls, Leave, lib \in Libs
  PROVE  Nested'
<1>a. PICK n : n = Len(stack)
  OBVIOUS
<1>1. /\ n \in Nat \ {0} /\ DOMAIN stack = 1..n
      /\ DOMAIN stack' = 1..n - 1 /\ Len(stack') = n - 1
      /\ \A i \in 1..n - 1 : stack'[i] = stack[i]
      /\ ~entering' /\ order' = order
  BY <1>a, LeaveFacts
<1>2. /\ Len(order) \in Nat
      /\ \A i \in 1..n :
           /\ stack[i].first \in Nat /\ stack[i].at \in Nat
           /\ 1 <= stack[i].first /\ stack[i].first <= Len(order)
           /\ stack[i].first <= stack[i].at + 1 /\ stack[i].at <= Len(order)
           /\ IsSeq(stack[i].left)
           /\ i # n => stack[i].first <= stack[i].at
      /\ \A i, k \in 1..n : i < k => stack[i].at < stack[k].first
  BY <1>a, FrameFacts
<1>3. \A i \in 1..n : stack[i].first = (IF i = 1 THEN 0 ELSE stack[i - 1].at) + 1
  BY <1>1 DEF Calls, Nested
<1>5. ASSUME NEW i \in 1..n - 1
      PROVE  /\ stack'[i].first \in Nat \ {0} /\ stack'[i].at \in Nat
             /\ stack'[i].first = (IF i = 1 THEN 0 ELSE stack'[i - 1].at) + 1
             /\ stack'[i].first <= stack'[i].at + 1 /\ stack'[i].first <= Len(order)
             /\ stack'[i].at <= Len(order)
             /\ IsSeq(stack'[i].left)
             /\ stack'[i].first <= stack'[i].at
             /\ \A k \in 1..n - 1 : i < k => stack'[i].at < stack'[k].first
  <2>1. i \in 1..n /\ i # n /\ (i # 1 => i - 1 \in 1..n - 1)
    BY <1>1
  <2>2. stack'[i] = stack[i] /\ (i # 1 => stack'[i - 1] = stack[i - 1])
    BY <1>1, <2>1
  <2>3. \A k \in 1..n - 1 : k \in 1..n /\ stack'[k] = stack[k]
    BY <1>1
  <2>4. \A k \in 1..n - 1 : i < k => stack'[i].at < stack'[k].first
    BY <1>2, <2>1, <2>2, <2>3
  <2> QED
    BY <1>2, <1>3, <2>1, <2>2, <2>4
<1> QED
  BY <1>1, <1>5 DEF Nested

LEMMA LeaveKeepsEnv ==
  ASSUME Calls, Leave, lib \in Libs
  PROVE  EnvPlaced'
<1>a. PICK n : n = Len(stack)
  OBVIOUS
<1>1. /\ n \in Nat \ {0} /\ DOMAIN stack = 1..n /\ n \in 1..n
      /\ DOMAIN stack' = 1..n - 1
      /\ Here' = stack[n].first - 1 /\ Here = stack[n].at
      /\ \A i \in 1..n - 1 : stack'[i] = stack[i]
      /\ IsAFcn(env')
      /\ \A v : v \in DOMAIN env' <=>
           v \in DOMAIN env /\ \A j \in stack[n].first..stack[n].at : v # order[j]
      /\ order' = order
  BY <1>a, LeaveFacts
<1>2. stack[n].first \in Nat /\ 1 <= stack[n].first /\ stack[n].at \in Nat
  BY <1>a, <1>1, FrameFacts
<1>3. /\ \A v \in DOMAIN env : \E j \in 1..stack[n].at : v = order[j]
      /\ \A i \in 1..n : \A j \in stack[i].first..stack[i].at - 1 :
           order[j] \notin DOMAIN env
  BY <1>1 DEF Calls, EnvPlaced
<1>4. \A v \in DOMAIN env' : \E j \in 1..stack[n].first - 1 : v = order[j]
  <2> SUFFICES ASSUME NEW v \in DOMAIN env'
               PROVE  \E j \in 1..stack[n].first - 1 : v = order[j]
    OBVIOUS
  <2>1. PICK j \in 1..stack[n].at : v = order[j]
    BY <1>1, <1>3
  <2>2. j \notin stack[n].first..stack[n].at
    BY <1>1, <2>1
  <2>3. j \in 1..stack[n].first - 1
    BY <1>2, <2>2
  <2> QED
    BY <2>1, <2>3
<1>5. ASSUME NEW i \in 1..n - 1, NEW j \in stack'[i].first..stack'[i].at - 1
      PROVE  order[j] \notin DOMAIN env'
  <2>1. i \in 1..n /\ stack'[i] = stack[i]
    BY <1>1
  <2> QED
    BY <1>1, <1>3, <2>1
<1> QED
  BY <1>1, <1>4, <1>5 DEF EnvPlaced

(* A call that returns has no target ahead: a directory that is left would *)
(* use a variable that is still to come.                                   *)
LEMMA LeaveKeepsComing ==
  ASSUME Calls, Leave, lib \in Libs, NEW b, NEW d, IsTarget(b, d), Coming(b, d)
  PROVE  Coming(b, d)'
<1>a. PICK n : n = Len(stack)
  OBVIOUS
<1>1. /\ n \in Nat \ {0} /\ DOMAIN stack = 1..n /\ n \in 1..n
      /\ DOMAIN stack' = 1..n - 1
      /\ \A i \in 1..n - 1 : stack'[i] = stack[i]
      /\ \A j \in 1..Len(order) : stack[n].at < j => order[j] \notin UsedIn(dirs)
      /\ stack[n].left = <<>>
      /\ \A v : v \in DOMAIN env' <=>
           v \in DOMAIN env /\ \A j \in stack[n].first..stack[n].at : v # order[j]
      /\ \A v \in DOMAIN env' : env'[v] = env[v]
      /\ ~entering /\ order' = order
  BY <1>a, LeaveFacts
<1>2. /\ Len(order) \in Nat
      /\ \A i \in 1..n :
           /\ stack[i].first \in Nat /\ stack[i].at \in Nat
           /\ 1 <= stack[i].first /\ stack[i].first <= Len(order)
           /\ stack[i].at <= Len(order)
           /\ i # n => stack[i].first <= stack[i].at
           /\ i # n => stack[i].at < stack[n].first
      /\ \A j, k \in 1..Len(order) : order[j] = order[k] => j = k
  BY <1>a, FrameFacts
<1>4. PICK i \in 1..n : Ahead(i, b, d)
  BY <1>1 DEF Coming, AtEntry
<1>5. ASSUME i = n PROVE FALSE
  <2>1. Untouched(d, n)
    BY <1>4, <1>5 DEF Ahead
  <2>2. d \in dirs /\ \A v \in DOMAIN b : v \in UsedIn(dirs)
    BY <1>a, <2>1, UntouchedInDirs
  <2>3. \A j \in stack[n].first..stack[n].at : order[j] \notin DOMAIN b
    BY <1>1, <1>4, <1>5 DEF Ahead, Range
  <2>4. PICK m \in stack[n].first..Len(order) : m >= stack[n].at /\ order[m] \in DOMAIN b
    BY <1>4, <1>5 DEF Ahead
  <2>5. m \in 1..Len(order) /\ stack[n].at < m
    BY <1>1, <1>2, <2>3, <2>4
  <2> QED
    BY <1>1, <2>2, <2>4, <2>5
<1>6. i \in 1..n - 1 /\ stack'[i] = stack[i] /\ i # n
  BY <1>1, <1>5
<1>7. ASSUME NEW j \in 1..stack[i].first - 1 PROVE Same(env', b, order[j])
  <2>1. Same(env, b, order[j])
    BY <1>4 DEF Ahead
  <2>2. j \in 1..Len(order) /\ j < stack[n].first
    BY <1>1, <1>2, <1>6
  <2>3. \A k \in stack[n].first..stack[n].at : order[j] # order[k]
    BY <1>1, <1>2, <2>2
  <2>4. order[j] \in DOMAIN env' <=> order[j] \in DOMAIN env
    BY <1>1, <2>3
  <2> QED
    BY <1>1, <2>1, <2>4 DEF Same
<1>8. Untouched(d, i)'
  <2>1. \A k \in 1..i : k \in 1..n - 1
    BY <1>1, <1>6
  <2> QED
    BY <1>1, <1>4, <2>1 DEF Ahead, Untouched
<1>9. Ahead(i, b, d)'
  BY <1>1, <1>4, <1>6, <1>7, <1>8 DEF Ahead
<1> QED
  BY <1>1, <1>6, <1>9 DEF Coming

(* A call starts: it loops over variables if it is put on the stack.       *)
MatchedNow == {d \in dirs : MatchesExactly(RulesOf[tree][d])}

PrunedNow == MatchedNow \cup {d \in dirs : ~CanStillMatch(RulesOf[tree][d])}

LEMMA EnterFacts ==
  ASSUME Calls, Enter, NEW n, n = Len(stack)
  PROVE  /\ n \in Nat /\ DOMAIN stack = 1..n
         /\ lib \in Libs
         /\ entering /\ ~entering'
         /\ UNCHANGED <<tree, lib, order, env>>
         /\ descriptor' = [descriptor EXCEPT ![lib] = @ \cup {<<env, d>> : d \in MatchedNow}]
         /\ \/ UNCHANGED <<dirs, stack>> /\ (Here + 1 > Len(order) \/ dirs = PrunedNow)
            \/ /\ Here + 1 <= Len(order)
               /\ IsSeq(stack') /\ Len(stack') = n + 1 /\ DOMAIN stack' = 1..n + 1
               /\ stack' # <<>>
               /\ \A i \in 1..n : stack'[i] = stack[i]
               /\ stack'[n + 1].first = Here + 1
               /\ stack'[n + 1].at = Here
               /\ stack'[n + 1].left = <<>>
               /\ stack'[n + 1].pruned = PrunedNow
<1>1. n \in Nat /\ DOMAIN stack = 1..n /\ IsSeq(stack)
  BY Push DEF Calls, IInv
<1>2. Here \in Nat
  <2>1. CASE stack = <<>>
    BY <2>1 DEF Here
  <2>2. CASE stack # <<>>
    <3>1. Here = stack[n].at /\ n \in DOMAIN stack
      BY <1>1, <2>2, TopFacts
    <3> QED
      BY <3>1 DEF Calls, Nested
  <2> QED
    BY <2>1, <2>2
<1>3. /\ lib \in Libs /\ entering /\ ~entering'
      /\ UNCHANGED <<tree, lib, order, env>>
      /\ descriptor' = [descriptor EXCEPT ![lib] = @ \cup {<<env, d>> : d \in MatchedNow}]
  BY DEF Enter, Calls, Ordered, MatchedNow
<1> DEFINE first == IF stack = <<>> THEN 1 ELSE Top.at + 1
           frame == [first |-> first, at |-> first - 1, left |-> <<>>,
                     pruned |-> PrunedNow]
<1>4. first = Here + 1
  BY DEF Here
<1>5. IF first > Len(order) \/ dirs = PrunedNow
      THEN UNCHANGED <<dirs, stack>>
      ELSE stack' = Append(stack, frame)
  BY DEF Enter, MatchedNow, PrunedNow
<1>6. /\ frame.first = Here + 1 /\ frame.at = Here /\ frame.left = <<>>
      /\ frame.pruned = PrunedNow
  BY <1>2, <1>4
<1>7. Len(order) \in Nat
  BY <1>3, OrderFacts DEF Calls, Ordered
<1> HIDE DEF frame, first
<1>8. CASE first > Len(order) \/ dirs = PrunedNow
  BY <1>1, <1>3, <1>4, <1>5, <1>8
<1>9. CASE ~(first > Len(order) \/ dirs = PrunedNow)
  <2>1. stack' = Append(stack, frame)
    BY <1>5, <1>9
  <2>2. /\ IsSeq(stack') /\ DOMAIN stack' = 1..n + 1
        /\ \A i \in 1..n : stack'[i] = stack[i]
        /\ stack'[n + 1] = frame
    BY <1>1, <2>1, Push
  <2>3. Len(stack') = n + 1 /\ stack' # <<>>
    BY <1>1, <2>2 DEF IsSeq
  <2>4. Here + 1 <= Len(order)
    BY <1>2, <1>4, <1>7, <1>9
  <2> QED
    BY <1>1, <1>3, <1>6, <2>2, <2>3, <2>4
<1> QED
  BY <1>8, <1>9

(* The new call is at no variable yet, after the one of its caller.        *)
LEMMA EnterKeepsNested ==
  ASSUME Calls, Enter
  PROVE  Nested'
<1>a. PICK n : n = Len(stack)
  OBVIOUS
<1>1. /\ n \in Nat /\ DOMAIN stack = 1..n /\ lib \in Libs /\ order' = order
      /\ entering /\ ~entering' /\ IsSeq(stack)
  BY <1>a, EnterFacts DEF Calls, IInv
<1>2. /\ Len(order) \in Nat
      /\ \A i \in 1..n :
           /\ stack[i].first \in Nat /\ stack[i].at \in Nat
           /\ 1 <= stack[i].first /\ stack[i].first <= Len(order)
           /\ stack[i].first <= stack[i].at + 1 /\ stack[i].at <= Len(order)
           /\ IsSeq(stack[i].left)
           /\ i # n => stack[i].first <= stack[i].at
           /\ stack[i].at <= stack[n].at
      /\ \A i, k \in 1..n : i < k => stack[i].at < stack[k].first
  BY <1>a, <1>1, FrameFacts
<1>3. \A i \in 1..n : stack[i].first = (IF i = 1 THEN 0 ELSE stack[i - 1].at) + 1
  BY <1>1 DEF Calls, Nested
<1>4. CASE stack' = stack
  BY <1>1, <1>4 DEF Calls, Nested
<1>5. CASE /\ Here + 1 <= Len(order)
           /\ Len(stack') = n + 1 /\ DOMAIN stack' = 1..n + 1
           /\ \A i \in 1..n : stack'[i] = stack[i]
           /\ stack'[n + 1].first = Here + 1
           /\ stack'[n + 1].at = Here
           /\ stack'[n + 1].left = <<>>
  <2>1. n = 0 => Here = 0
    BY <1>a, <1>1 DEF Here, IsSeq
  <2>2. n # 0 => Here = stack[n].at /\ stack[n].first <= stack[n].at
    <3> SUFFICES ASSUME n # 0 PROVE Here = stack[n].at /\ stack[n].first <= stack[n].at
      OBVIOUS
    <3>1. stack # <<>>
      BY <1>1
    <3>2. Here = stack[n].at /\ Top = stack[n]
      BY <1>a, <1>1, <3>1, TopFacts
    <3> QED
      BY <1>1, <3>1, <3>2 DEF Calls, Nested
  <2>3. Here \in Nat /\ IsSeq(stack'[n + 1].left)
    <3>1. n # 0 => n \in 1..n
      BY <1>1
    <3>2. <<>> \in Seq({})
      OBVIOUS
    <3> QED
      BY <1>2, <1>5, <2>1, <2>2, <3>1, <3>2 DEF IsSeq
  <2>4. \A i \in 1..n : stack[i].first <= stack[i].at /\ stack[i].at < Here + 1
    BY <1>1, <1>2, <2>2, <2>3
  <2>5. ASSUME NEW i \in 1..n + 1
        PROVE  /\ stack'[i].first \in Nat \ {0} /\ stack'[i].at \in Nat
               /\ stack'[i].first = (IF i = 1 THEN 0 ELSE stack'[i - 1].at) + 1
               /\ stack'[i].first <= stack'[i].at + 1 /\ stack'[i].first <= Len(order)
               /\ stack'[i].at <= Len(order)
               /\ IsSeq(stack'[i].left)
               /\ (stack'[i].left # <<>> \/ i # n + 1) => stack'[i].first <= stack'[i].at
               /\ \A k \in 1..n + 1 : i < k => stack'[i].at < stack'[k].first
    <3>1. CASE i = n + 1
      <4>1. stack'[i].first = (IF i = 1 THEN 0 ELSE stack'[i - 1].at) + 1
        <5>1. CASE n = 0
          BY <1>5, <2>1, <3>1, <5>1
        <5>2. CASE n # 0
          <6>1. i - 1 = n /\ n \in 1..n /\ i # 1
            BY <1>1, <3>1, <5>2
          <6> QED
            BY <1>5, <2>2, <3>1, <5>2, <6>1
        <5> QED
          BY <5>1, <5>2
      <4>2. \A k \in 1..n + 1 : ~(i < k)
        BY <1>1, <3>1
      <4> QED
        BY <1>2, <1>5, <2>3, <3>1, <4>1, <4>2
    <3>2. CASE i # n + 1
      <4>1. i \in 1..n /\ (i # 1 => i - 1 \in 1..n)
        BY <1>1, <3>2
      <4>2. stack'[i] = stack[i] /\ (i # 1 => stack'[i - 1] = stack[i - 1])
        BY <1>5, <4>1
      <4>3. \A k \in 1..n : i < k => stack'[i].at < stack'[k].first
        BY <1>2, <1>5, <4>1
      <4>4. stack'[i].at < stack'[n + 1].first
        BY <1>5, <2>4, <4>1, <4>2
      <4>5. \A k \in 1..n + 1 : k \in 1..n \/ k = n + 1
        BY <1>1
      <4>6. \A k \in 1..n + 1 : i < k => stack'[i].at < stack'[k].first
        BY <4>3, <4>4, <4>5
      <4> QED
        BY <1>2, <1>3, <2>4, <4>1, <4>2, <4>6
    <3> QED
      BY <3>1, <3>2
  <2> QED
    BY <1>1, <1>5, <2>5 DEF Nested
<1> QED
  BY <1>a, <1>4, <1>5, EnterFacts

LEMMA EnterKeepsEnv ==
  ASSUME Calls, Enter
  PROVE  EnvPlaced'
<1>a. PICK n : n = Len(stack)
  OBVIOUS
<1>1. /\ n \in Nat /\ DOMAIN stack = 1..n /\ order' = order /\ env' = env /\ IsSeq(stack)
      /\ Here \in Int
  <2>1. Here \in Int
    <3>1. CASE stack = <<>>
      BY <3>1 DEF Here
    <3>2. CASE stack # <<>>
      <4>1. Here = stack[Len(stack)].at /\ Len(stack) \in DOMAIN stack
        BY <3>2, TopFacts DEF Calls, IInv
      <4> QED
        BY <4>1 DEF Calls, Nested
    <3> QED
      BY <3>1, <3>2
  <2> QED
    BY <1>a, <2>1, EnterFacts DEF Calls, IInv
<1>2. CASE stack' = stack
  BY <1>1, <1>2 DEF Calls, EnvPlaced, Here, Top
<1>3. CASE /\ Len(stack') = n + 1 /\ DOMAIN stack' = 1..n + 1 /\ stack' # <<>>
           /\ \A i \in 1..n : stack'[i] = stack[i]
           /\ stack'[n + 1].first = Here + 1
           /\ stack'[n + 1].at = Here
  <2>1. Here' = stack'[n + 1].at
    BY <1>3 DEF Here, Top
  <2>2. Here' = Here
    BY <1>3, <2>1
  <2>3. ASSUME NEW i \in 1..n + 1, NEW j \in stack'[i].first..stack'[i].at - 1
        PROVE  order[j] \notin DOMAIN env
    <3>1. CASE i \in 1..n
      BY <1>1, <1>3, <3>1 DEF Calls, EnvPlaced
    <3>2. CASE i = n + 1
      BY <1>1, <1>3, <3>2
    <3> QED
      BY <1>1, <3>1, <3>2
  <2> QED
    BY <1>1, <1>3, <2>2, <2>3 DEF Calls, EnvPlaced
<1> QED
  BY <1>a, <1>2, <1>3, EnterFacts

(* The branch matches the rule of a directory exactly if it is the target, *)
(* and can match it as long as it agrees with the target up to here.       *)
LEMMA AgreesSoFar ==
  ASSUME Calls, lib \in Libs, NEW b, NEW d, IsTarget(b, d),
         \A j \in 1..Here : Same(env, b, order[j])
  PROVE  /\ CanStillMatch(RulesOf[tree][d])
         /\ \A v \in DOMAIN env : v \in DOMAIN b /\ b[v] = env[v]
<1>1. ASSUME NEW v \in DOMAIN env
      PROVE  v \in DOMAIN b /\ b[v] = env[v] /\ v \in DOMAIN RulesOf[tree][d].scenarios
             /\ env[v] \in RulesOf[tree][d].scenarios[v]
  <2>1. PICK j \in 1..Here : v = order[j]
    BY DEF Calls, EnvPlaced
  <2>2. v \in DOMAIN b /\ b[v] = env[v]
    BY <2>1 DEF Same
  <2> QED
    BY <2>2 DEF IsTarget
<1> QED
  BY <1>1 DEF CanStillMatch, PartialMatch

(* When no variable of the target is left, the branch is the target.       *)
LEMMA MatchesItsTarget ==
  ASSUME Calls, lib \in Libs, NEW b, NEW d, IsTarget(b, d),
         \A j \in 1..Here : Same(env, b, order[j]),
         \A v \in DOMAIN b : \E j \in 1..Here : v = order[j]
  PROVE  env = b /\ MatchesExactly(RulesOf[tree][d])
<1>1. \A v \in DOMAIN b : v \in DOMAIN env
  BY DEF Same
<1>2. CanStillMatch(RulesOf[tree][d]) /\ \A v \in DOMAIN env : v \in DOMAIN b /\ b[v] = env[v]
  BY AgreesSoFar
<1>3. DOMAIN b = DOMAIN env /\ \A v \in DOMAIN env : b[v] = env[v]
  BY <1>1, <1>2
<1>4. IsAFcn(b) /\ IsAFcn(env)
  BY DEF IsTarget, Calls, EnvPlaced
<1>5. env = b
  BY <1>3, <1>4 DEF IsAFcn
<1>6. Matches(RulesOf[tree][d].scenarios, env)
  BY <1>5 DEF Matches, IsTarget
<1> QED
  BY <1>2, <1>5, <1>6 DEF MatchesExactly, ExactMatch, CanStillMatch, IsTarget

(* A target that is due when a call starts is written by it, when its      *)
(* branch is complete, or is ahead of it: the call does not remove its     *)
(* directory.                                                              *)
LEMMA EnterKeepsComing ==
  ASSUME Calls, Enter, lib \in DOMAIN descriptor, NEW b, NEW d, IsTarget(b, d),
         Coming(b, d)
  PROVE  Coming(b, d)' \/ Written(b, d)'
<1>a. PICK n : n = Len(stack)
  OBVIOUS
<1>1. /\ n \in Nat /\ DOMAIN stack = 1..n /\ lib \in Libs
      /\ UNCHANGED <<tree, lib, order, env>>
      /\ descriptor' = [descriptor EXCEPT ![lib] = @ \cup {<<env, x>> : x \in MatchedNow}]
  BY <1>a, EnterFacts
<1>2. CASE \E i \in 1..n : Ahead(i, b, d)
  <2>1. PICK i \in 1..n : Ahead(i, b, d)
    BY <1>2
  <2>2. /\ \A k \in 1..n : stack'[k] = stack[k]
        /\ i \in DOMAIN stack'
    <3>1. CASE stack' = stack
      BY <1>1, <3>1
    <3>2. CASE DOMAIN stack' = 1..n + 1 /\ \A k \in 1..n : stack'[k] = stack[k]
      BY <1>1, <3>2
    <3> QED
      BY <1>a, <3>1, <3>2, EnterFacts
  <2>3. \A k \in 1..i : k \in 1..n
    BY <1>1
  <2>4. Ahead(i, b, d)'
    BY <1>1, <2>1, <2>2, <2>3 DEF Ahead, Untouched
  <2> QED
    BY <2>2, <2>4 DEF Coming
<1>3. CASE AtEntry(b, d)
  <2>1. Untouched(d, n) /\ \A j \in 1..Here : Same(env, b, order[j])
    BY <1>a, <1>3 DEF AtEntry
  <2>2. d \in dirs
    BY <1>1, <1>a, <2>1, UntouchedInDirs
  <2>3. CanStillMatch(RulesOf[tree][d]) /\ \A v \in DOMAIN env : v \in DOMAIN b
    BY <1>1, <2>1, AgreesSoFar
  <2>4. /\ Len(order) \in Nat
        /\ \A j, k \in 1..Len(order) : order[j] = order[k] => j = k
        /\ \A v \in DOMAIN b : \E j \in 1..Len(order) : order[j] = v
    <3>1. DOMAIN b \subseteq Variables(tree, lib)
      BY DEF IsTarget, Variables
    <3> QED
      BY <1>1, <3>1, OrderFacts DEF Calls, Ordered
  <2>5. Here \in Nat /\ Here <= Len(order)
    <3>1. CASE stack = <<>>
      BY <2>4, <3>1 DEF Here
    <3>2. CASE stack # <<>>
      <4>1. Here = stack[Len(stack)].at /\ Len(stack) \in DOMAIN stack
        BY <3>2, TopFacts DEF Calls, IInv
      <4> QED
        BY <4>1 DEF Calls, Nested
    <3> QED
      BY <3>1, <3>2
  <2>6. CASE \A v \in DOMAIN b : \E j \in 1..Here : v = order[j]
    <3>1. env = b /\ d \in MatchedNow
      BY <1>1, <2>1, <2>2, <2>6, MatchesItsTarget DEF MatchedNow
    <3>2. <<b, d>> \in descriptor'[lib]
      BY <1>1, <3>1
    <3> QED
      BY <1>1, <3>2 DEF Written
  <2>7. CASE \E v \in DOMAIN b : \A j \in 1..Here : v # order[j]
    <3>1. PICK v \in DOMAIN b : \A j \in 1..Here : v # order[j]
      BY <2>7
    <3>2. PICK m \in 1..Len(order) : order[m] = v
      BY <2>4
    <3>3. Here < m
      BY <2>5, <3>1, <3>2
    <3>4. v \notin DOMAIN env
      BY <3>1 DEF Calls, EnvPlaced
    <3>5. ~MatchesExactly(RulesOf[tree][d])
      BY <3>4 DEF MatchesExactly, ExactMatch, Matches, IsTarget
    <3>6. d \notin PrunedNow
      BY <2>3, <3>5 DEF PrunedNow, MatchedNow
    <3>7. /\ DOMAIN stack' = 1..n + 1 /\ stack' # <<>>
          /\ \A i \in 1..n : stack'[i] = stack[i]
          /\ stack'[n + 1].first = Here + 1
          /\ stack'[n + 1].at = Here
          /\ stack'[n + 1].pruned = PrunedNow
      <4>1. dirs # PrunedNow /\ ~(Here + 1 > Len(order))
        BY <2>2, <2>4, <2>5, <3>3, <3>6
      <4> QED
        BY <1>a, <4>1, EnterFacts
    <3>8. Untouched(d, n + 1)'
      <4>1. ASSUME NEW k \in 1..n + 1 PROVE d \notin stack'[k].pruned
        <5>1. CASE k \in 1..n
          BY <2>1, <3>7, <5>1 DEF Untouched
        <5>2. CASE k = n + 1
          BY <3>6, <3>7, <5>2
        <5> QED
          BY <1>1, <5>1, <5>2
      <4> QED
        BY <4>1 DEF Untouched
    <3>9. \A j \in 1..(Here + 1) - 1 : Same(env, b, order[j])
      BY <2>1, <2>5
    <3>10. m \in Here + 1..Len(order) /\ m >= Here /\ order[m] \in DOMAIN b
      BY <2>4, <2>5, <3>1, <3>2, <3>3
    <3>11. (Here + 1)..Here = {}
      BY <2>5
    <3>12. Ahead(n + 1, b, d)'
      BY <1>1, <3>7, <3>8, <3>9, <3>10, <3>11 DEF Ahead
    <3>13. n + 1 \in DOMAIN stack'
      BY <1>1, <3>7
    <3> QED
      BY <3>12, <3>13 DEF Coming
  <2> QED
    BY <2>6, <2>7
<1> QED
  BY <1>1, <1>2, <1>3 DEF Coming

----------------------------------------------------------------------------
(* What the descriptor of a library must hold, and what the descriptor     *)
(* holds between the two libraries.                                        *)
Asked(l) ==
  UNION {{<<branch, d>> : branch \in Branches(RulesOf[tree][d].scenarios)} :
            d \in {d \in DirsOf(tree, l) : RulesOf[tree][d].valid}}

Files ==
  /\ IsAFcn(descriptor)
  /\ DOMAIN descriptor =
       {"gnat"} \cup {l \in {"gnarl"} : lib # "gnat" /\ DirsOf(tree, l) # {}}
  /\ entering \/ stack # <<>> => lib \in DOMAIN descriptor
  /\ \A l \in DOMAIN descriptor :
       descriptor[l] \subseteq Asked(l) /\ (l # lib => descriptor[l] = Asked(l))

Exact == Calls /\ Files /\ EachComing

(* The entries that are asked for are the targets.                         *)
LEMMA BranchesAreTargets ==
  ASSUME NEW rule, NEW b
  PROVE  b \in Branches(rule) <=>
           IsAFcn(b) /\ DOMAIN b = DOMAIN rule /\ \A v \in DOMAIN b : b[v] \in rule[v]
<1>1. ASSUME b \in Branches(rule)
      PROVE  IsAFcn(b) /\ DOMAIN b = DOMAIN rule /\ \A v \in DOMAIN b : b[v] \in rule[v]
  BY <1>1 DEF Branches, Matches, IsAFcn
<1>2. ASSUME IsAFcn(b), DOMAIN b = DOMAIN rule, \A v \in DOMAIN b : b[v] \in rule[v]
      PROVE  b \in Branches(rule)
  <2>1. \A v \in DOMAIN rule : b[v] \in UNION {rule[w] : w \in DOMAIN rule}
    BY <1>2
  <2>2. b \in [DOMAIN rule -> UNION {rule[w] : w \in DOMAIN rule}]
    BY <1>2, <2>1 DEF IsAFcn
  <2> QED
    BY <1>2, <2>2 DEF Branches, Matches
<1> QED
  BY <1>1, <1>2

(* What is asked of the library at work, in terms of targets.              *)
LEMMA AskedAreTargets ==
  /\ \A b, d : IsTarget(b, d) => <<b, d>> \in Asked(lib)
  /\ \A x \in Asked(lib) : \E b, d : IsTarget(b, d) /\ x = <<b, d>>
<1>1. ASSUME NEW b, NEW d, IsTarget(b, d) PROVE <<b, d>> \in Asked(lib)
  <2>1. b \in Branches(RulesOf[tree][d].scenarios)
    BY <1>1, BranchesAreTargets DEF IsTarget
  <2>2. d \in {e \in DirsOf(tree, lib) : RulesOf[tree][e].valid}
    BY <1>1 DEF IsTarget
  <2> QED
    BY <2>1, <2>2 DEF Asked
<1>2. ASSUME NEW x \in Asked(lib) PROVE \E b, d : IsTarget(b, d) /\ x = <<b, d>>
  <2>1. PICK d \in {e \in DirsOf(tree, lib) : RulesOf[tree][e].valid} :
          x \in {<<branch, d>> : branch \in Branches(RulesOf[tree][d].scenarios)}
    BY <1>2 DEF Asked
  <2>2. PICK b \in Branches(RulesOf[tree][d].scenarios) : x = <<b, d>>
    BY <2>1
  <2>3. IsTarget(b, d)
    BY <2>1, <2>2, BranchesAreTargets DEF IsTarget
  <2> QED
    BY <2>2, <2>3
<1> QED
  BY <1>1, <1>2

(* An entry that Enter writes is asked for.                                *)
LEMMA MatchIsAsked ==
  ASSUME Calls, lib \in Libs, NEW d \in MatchedNow
  PROVE  <<env, d>> \in Asked(lib)
<1>1. d \in DirsOf(tree, lib) /\ MatchesExactly(RulesOf[tree][d])
  BY DEF Calls, IInv, MatchedNow
<1>2. IsTarget(env, d)
  BY <1>1 DEF IsTarget, MatchesExactly, ExactMatch, Matches, PartialMatch, Calls, EnvPlaced
<1> QED
  BY <1>2, AskedAreTargets

(* Between two libraries everything that was asked for is written.         *)
LEMMA WrittenWhenIdle ==
  ASSUME Exact, lib \in Libs, ~entering, stack = <<>>
  PROVE  \A l \in DOMAIN descriptor : descriptor[l] = Asked(l)
<1> SUFFICES ASSUME lib \in DOMAIN descriptor PROVE Asked(lib) \subseteq descriptor[lib]
  BY DEF Exact, Files
<1>1. DOMAIN stack = {}
  OBVIOUS
<1>2. \A b, d : ~Coming(b, d)
  BY <1>1 DEF Coming, AtEntry
<1>3. \A b, d : IsTarget(b, d) => <<b, d>> \in descriptor[lib]
  BY <1>2 DEF Exact, EachComing, Written
<1> QED
  BY <1>3, AskedAreTargets

(* Enter is the only step that writes, and what it writes is asked for.    *)
LEMMA EnterKeepsExact ==
  ASSUME Exact, Enter
  PROVE  Files' /\ EachComing'
<1>1. Calls /\ Files /\ EachComing
  BY DEF Exact
<1>2. /\ lib \in Libs /\ entering /\ ~entering'
      /\ UNCHANGED <<tree, lib, order, env>>
      /\ descriptor' = [descriptor EXCEPT ![lib] = @ \cup {<<env, d>> : d \in MatchedNow}]
  BY <1>1, EnterFacts
<1>3. lib \in DOMAIN descriptor /\ IsAFcn(descriptor)
  BY <1>1, <1>2 DEF Files
<1>4. /\ DOMAIN descriptor' = DOMAIN descriptor
      /\ \A l \in DOMAIN descriptor : l # lib => descriptor'[l] = descriptor[l]
      /\ descriptor'[lib] = descriptor[lib] \cup {<<env, d>> : d \in MatchedNow}
      /\ IsAFcn(descriptor')
  BY <1>2, <1>3 DEF IsAFcn
<1>5. {<<env, d>> : d \in MatchedNow} \subseteq Asked(lib)
  BY <1>1, <1>2, MatchIsAsked
<1>6. \A l : DirsOf(tree, l)' = DirsOf(tree, l) /\ Asked(l)' = Asked(l)
  BY <1>2 DEF DirsOf, Asked
<1>7. Files'
  BY <1>1, <1>2, <1>3, <1>4, <1>5, <1>6 DEF Files
<1>8. ASSUME NEW b, NEW d, IsTarget(b, d)' PROVE Written(b, d)' \/ Coming(b, d)'
  <2>1. IsTarget(b, d)
    BY <1>2, <1>8 DEF IsTarget, DirsOf
  <2>2. CASE Written(b, d)
    BY <1>2, <1>4, <2>2 DEF Written
  <2>3. CASE Coming(b, d)
    BY <1>1, <1>3, <2>1, <2>3, EnterKeepsComing
  <2> QED
    BY <1>1, <1>2, <2>1, <2>2, <2>3 DEF EachComing
<1> QED
  BY <1>7, <1>8 DEF EachComing

(* The other steps of the recursion write nothing. *)
LEMMA LoopKeepsExact ==
  ASSUME Exact, UNCHANGED <<tree, lib, descriptor>>, lib \in Libs, stack # <<>>,
         \A b, d : IsTarget(b, d) /\ Coming(b, d) => Coming(b, d)'
  PROVE  Files' /\ EachComing'
<1>1. Files /\ EachComing
  BY DEF Exact
<1>2. \A l : DirsOf(tree, l)' = DirsOf(tree, l) /\ Asked(l)' = Asked(l)
  BY DEF DirsOf, Asked
<1>3. Files'
  BY <1>1, <1>2 DEF Files
<1>4. ASSUME NEW b, NEW d, IsTarget(b, d)' PROVE Written(b, d)' \/ Coming(b, d)'
  <2>1. IsTarget(b, d)
    BY <1>4 DEF IsTarget, DirsOf
  <2> QED
    BY <1>1, <2>1 DEF EachComing, Written
<1> QED
  BY <1>3, <1>4 DEF EachComing

(* When the second library begins, the first one is complete, and all of   *)
(* the second is due in the empty branch.                                  *)
LEMMA NextLibKeepsExact ==
  ASSUME Exact, NextLib
  PROVE  Ordered' /\ Nested' /\ EnvPlaced' /\ Files' /\ EachComing'
<1>1. /\ ~entering /\ stack = <<>> /\ lib = "gnat" /\ lib' = "gnarl"
      /\ order' = OrderOf[tree]["gnarl"]
      /\ UNCHANGED <<tree, env, stack>>
  BY DEF NextLib
<1>2. IF DirsOf(tree, "gnarl") = {}
      THEN UNCHANGED <<entering, descriptor>>
      ELSE entering' = TRUE /\ descriptor' = Update(descriptor, [l \in {"gnarl"} |-> {}])
  BY DEF NextLib
<1>3. Calls /\ Files /\ EachComing /\ tree \in Trees /\ lib \in Libs
  BY <1>1 DEF Exact, Calls, Ordered, Libs
<1>4. DOMAIN stack = {} /\ DOMAIN stack' = {} /\ Here = 0 /\ Here' = 0 /\ Len(stack) = 0
  BY <1>1 DEF Here
<1>5. Ordered'
  <2>1. ListsOnce(order', Variables(tree, "gnarl"))
    BY <1>1, <1>3, OrderListsVariables DEF Libs
  <2>2. Variables(tree, lib)' = Variables(tree, "gnarl")
    BY <1>1 DEF Variables, DirsOf
  <2> QED
    BY <1>1, <1>3, <2>1, <2>2 DEF Ordered, Libs
<1>6. Nested'
  BY <1>1, <1>4 DEF Nested
<1>7. EnvPlaced'
  <2>1. IsAFcn(env) /\ DOMAIN env = {}
    BY <1>3, <1>4 DEF Calls, EnvPlaced
  <2> QED
    BY <1>1, <1>4, <2>1 DEF EnvPlaced, IsAFcn
<1>8. \A l \in DOMAIN descriptor : descriptor[l] = Asked(l)
  BY <1>1, <1>3, WrittenWhenIdle
<1>9. DOMAIN descriptor = {"gnat"} /\ IsAFcn(descriptor)
  BY <1>1, <1>3 DEF Files
<1>10. \A l : DirsOf(tree, l)' = DirsOf(tree, l) /\ Asked(l)' = Asked(l)
  BY <1>1 DEF DirsOf, Asked
<1>11. CASE DirsOf(tree, "gnarl") = {}
  <2>1. ~entering' /\ descriptor' = descriptor
    BY <1>1, <1>2, <1>11
  <2>2. Files'
    BY <1>1, <1>8, <1>9, <1>10, <1>11, <2>1 DEF Files
  <2>3. EachComing'
    BY <1>1, <1>10, <1>11 DEF EachComing, IsTarget
  <2> QED
    BY <1>5, <1>6, <1>7, <2>2, <2>3
<1>12. CASE DirsOf(tree, "gnarl") # {}
  <2>1. entering' = TRUE /\ descriptor' = Update(descriptor, [l \in {"gnarl"} |-> {}])
    BY <1>2, <1>12
  <2>2. /\ DOMAIN descriptor' = {"gnat", "gnarl"} /\ IsAFcn(descriptor')
        /\ descriptor'["gnarl"] = {} /\ descriptor'["gnat"] = descriptor["gnat"]
    BY <1>9, <2>1 DEF Update, IsAFcn
  <2>3. Files'
    BY <1>1, <1>8, <1>9, <1>10, <1>12, <2>1, <2>2 DEF Files
  <2>4. ASSUME NEW b, NEW d PROVE AtEntry(b, d)'
    BY <1>1, <1>4, <2>1 DEF AtEntry, Untouched
  <2>5. EachComing'
    BY <2>4 DEF EachComing, Coming
  <2> QED
    BY <1>5, <1>6, <1>7, <2>3, <2>5
<1> QED
  BY <1>11, <1>12

(* When the sources are installed, both libraries are complete.            *)
LEMMA InstallTreeKeepsExact ==
  ASSUME Exact, InstallTree
  PROVE  Ordered' /\ Nested' /\ EnvPlaced' /\ Files' /\ EachComing'
<1>1. /\ ~entering /\ stack = <<>> /\ lib = "gnarl" /\ lib' = "installed"
      /\ UNCHANGED <<tree, order, entering, env, stack, descriptor>>
  BY DEF InstallTree
<1>2. Calls /\ Files /\ lib \in Libs
  BY <1>1 DEF Exact, Libs
<1>3. \A l \in DOMAIN descriptor : descriptor[l] = Asked(l)
  BY <1>1, <1>2, WrittenWhenIdle
<1>4. \A l : DirsOf(tree, l)' = DirsOf(tree, l) /\ Asked(l)' = Asked(l)
  BY <1>1 DEF DirsOf, Asked
<1>5. Files'
  BY <1>1, <1>2, <1>3, <1>4 DEF Files
<1>6. Ordered' /\ EachComing'
  BY <1>1, <1>2 DEF Calls, Ordered, EachComing, Libs
<1>7. Nested'
  BY <1>1, <1>2 DEF Calls, Nested
<1>8. EnvPlaced'
  BY <1>1, <1>2 DEF Calls, EnvPlaced, Here, Top
<1> QED
  BY <1>5, <1>6, <1>7, <1>8

LEMMA StutterKeepsExact ==
  ASSUME Exact, UNCHANGED genVars
  PROVE  Ordered' /\ Nested' /\ EnvPlaced' /\ Files' /\ EachComing'
<1>1. UNCHANGED <<tree, lib, order, entering, env, dirs, stack, descriptor>>
  BY DEF genVars
<1>2. \A l : DirsOf(tree, l)' = DirsOf(tree, l) /\ Asked(l)' = Asked(l)
  BY <1>1 DEF DirsOf, Asked
<1>3. Here' = Here
  BY <1>1 DEF Here, Top
<1>4. Ordered' /\ Nested' /\ EnvPlaced'
  <2>1. Variables(tree, lib)' = Variables(tree, lib)
    BY <1>1 DEF Variables, DirsOf
  <2>2. Ordered'
    BY <1>1, <2>1 DEF Exact, Calls, Ordered
  <2>3. Nested'
    BY <1>1 DEF Exact, Calls, Nested, Top
  <2>4. EnvPlaced'
    BY <1>1, <1>3 DEF Exact, Calls, EnvPlaced
  <2> QED
    BY <2>2, <2>3, <2>4
<1>5. Files'
  BY <1>1, <1>2 DEF Exact, Files
<1>6. ASSUME NEW b, NEW d, lib \in Libs, IsTarget(b, d)'
      PROVE  Written(b, d)' \/ Coming(b, d)'
  <2>1. IsTarget(b, d)
    BY <1>1, <1>6 DEF IsTarget, DirsOf
  <2>2. Written(b, d) => Written(b, d)'
    BY <1>1 DEF Written
  <2>3. AtEntry(b, d) => AtEntry(b, d)'
    BY <1>1, <1>3 DEF AtEntry, Untouched
  <2>4. \A i : Ahead(i, b, d) => Ahead(i, b, d)'
    BY <1>1 DEF Ahead, Untouched
  <2>5. Coming(b, d) => Coming(b, d)'
    BY <1>1, <2>3, <2>4 DEF Coming
  <2> QED
    BY <1>6, <2>1, <2>2, <2>5 DEF Exact, EachComing
<1>7. EachComing'
  BY <1>1, <1>6 DEF EachComing
<1> QED
  BY <1>4, <1>5, <1>7

LEMMA StepKeepsExact ==
  ASSUME Exact, [Generate]_genVars
  PROVE  Exact'
<1>1. Calls /\ IInv'
  BY StepKeepsIInv DEF Exact, Calls
<1>2. CASE UNCHANGED genVars
  BY <1>1, <1>2, StutterKeepsExact DEF Exact, Calls
<1>3. CASE Enter
  <2>1. Ordered'
    <3>1. lib \in Libs /\ UNCHANGED <<tree, lib, order>>
      BY <1>1, <1>3, EnterFacts
    <3>2. Variables(tree, lib)' = Variables(tree, lib)
      BY <3>1 DEF Variables, DirsOf
    <3> QED
      BY <1>1, <3>1, <3>2 DEF Calls, Ordered
  <2> QED
    BY <1>1, <1>3, <2>1, EnterKeepsExact, EnterKeepsNested, EnterKeepsEnv
       DEF Exact, Calls
<1>4. ASSUME stack # <<>>, UNCHANGED <<tree, lib, order, descriptor>>
      PROVE  lib \in Libs /\ Ordered'
  <2>1. lib \in Libs
    BY <1>1, <1>4 DEF Calls, Ordered
  <2>2. Variables(tree, lib)' = Variables(tree, lib)
    BY <1>4 DEF Variables, DirsOf
  <2> QED
    BY <1>1, <1>4, <2>1, <2>2 DEF Calls, Ordered
<1>5. CASE NextValue
  <2>1. stack # <<>> /\ UNCHANGED <<tree, lib, order, descriptor>>
    BY <1>5 DEF NextValue
  <2>2. Files' /\ EachComing'
    BY <1>1, <1>4, <1>5, <2>1, LoopKeepsExact, NextValueKeepsComing
  <2> QED
    BY <1>1, <1>4, <1>5, <2>1, <2>2, NextValueKeepsNested, NextValueKeepsEnv
       DEF Exact, Calls
<1>6. CASE NextVariable
  <2>1. stack # <<>> /\ UNCHANGED <<tree, lib, order, descriptor>>
    BY <1>6 DEF NextVariable
  <2>2. Files' /\ EachComing'
    BY <1>1, <1>4, <1>6, <2>1, LoopKeepsExact, NextVariableKeepsComing
  <2> QED
    BY <1>1, <1>4, <1>6, <2>1, <2>2, NextVariableKeepsNested, NextVariableKeepsEnv
       DEF Exact, Calls
<1>7. CASE Leave
  <2>1. stack # <<>> /\ UNCHANGED <<tree, lib, order, descriptor>>
    BY <1>7 DEF Leave
  <2>2. Files' /\ EachComing'
    BY <1>1, <1>4, <1>7, <2>1, LoopKeepsExact, LeaveKeepsComing
  <2> QED
    BY <1>1, <1>4, <1>7, <2>1, <2>2, LeaveKeepsNested, LeaveKeepsEnv
       DEF Exact, Calls
<1>8. CASE NextLib
  BY <1>1, <1>8, NextLibKeepsExact DEF Exact, Calls
<1>9. CASE InstallTree
  BY <1>1, <1>9, InstallTreeKeepsExact DEF Exact, Calls
<1> QED
  BY <1>2, <1>3, <1>5, <1>6, <1>7, <1>8, <1>9 DEF Generate

LEMMA InitExact ==
  ASSUME GenInit
  PROVE  Exact
<1>1. /\ tree \in Trees /\ lib = "gnat" /\ order = OrderOf[tree]["gnat"] /\ entering = TRUE
      /\ env = Always /\ stack = <<>> /\ descriptor = [l \in {"gnat"} |-> {}]
  BY DEF GenInit
<1>2. DOMAIN stack = {} /\ Here = 0 /\ Len(stack) = 0
  BY <1>1 DEF Here
<1>3. IInv
  BY InitIInv
<1>4. Ordered
  BY <1>1, OrderListsVariables DEF Ordered, Libs
<1>5. Nested
  BY <1>1, <1>2 DEF Nested
<1>6. EnvPlaced
  BY <1>1, <1>2 DEF EnvPlaced, IsAFcn, Always
<1>7. Files
  BY <1>1 DEF Files, IsAFcn
<1>8. \A b, d : AtEntry(b, d)
  BY <1>1, <1>2 DEF AtEntry, Untouched
<1>9. EachComing
  BY <1>8 DEF EachComing, Coming
<1> QED
  BY <1>3, <1>4, <1>5, <1>6, <1>7, <1>9 DEF Exact, Calls

LEMMA GenExact == GenSpec => []Exact
  BY InitExact, StepKeepsExact, PTL DEF GenSpec

(* Every tree has sources for libgnat: the directory common at least.      *)
LEMMA GnatHasSources ==
  ASSUME NEW t \in Trees
  PROVE  DirsOf(t, "gnat") # {}
<1>1. PICK d \in DOMAIN SharedDirs :
        SharedDirs[d].path = <<"common">> /\ SharedDirs[d].of = SourceProfiles
  BY TableAssumption
<1>2. t[1] \in SourceProfiles
  BY TreesAssumption
<1>3. SharedDirs[d].path[1] = "common" /\ DOMAIN SharedDirs[d].path = {1}
  BY <1>1
<1>4. "common" # "gnarl" /\ "common" # "full" /\ "common" # "containers"
  OBVIOUS
<1>5. <<"common">> # <<"containers">>
  <2>1. <<"common">>[1] # <<"containers">>[1]
    BY <1>4
  <2> QED
    BY <2>1
<1>6. Selected(t, SharedDirs[d])
  BY <1>1, <1>2, <1>3, <1>4, <1>5 DEF Selected, InPath
<1>7. RulesOf[t] = RulesFor(t, SharedDirs)
  BY DEF RulesOf
<1>8. d \in DOMAIN RulesOf[t] /\ RulesOf[t][d] = RuleIn(t, SharedDirs[d])
  BY <1>6, <1>7 DEF RulesFor
<1>9. RulesOf[t][d].lib = "gnat"
  BY <1>3, <1>4, <1>8 DEF RuleIn
<1> QED
  BY <1>8, <1>9 DEF DirsOf, DirsIn

(* The descriptor that is installed has each directory of the tree at the  *)
(* branches its rule admits, all of them and no other, whatever the tree   *)
(* and whatever the table of directories and rules.                        *)
THEOREM DescriptorIsExact == GenSpec => []DescriptorExact
<1>1. Exact => DescriptorExact
  <2> SUFFICES ASSUME Exact, lib = "installed"
               PROVE  descriptor = [l \in {l \in Libs : DirsOf(tree, l) # {}} |-> Asked(l)]
    BY DEF DescriptorExact, Asked
  <2>1. Files /\ tree \in Trees
    BY DEF Exact, Calls, Ordered
  <2>2. DirsOf(tree, "gnat") # {}
    BY <2>1, GnatHasSources
  <2>3. DOMAIN descriptor = {l \in Libs : DirsOf(tree, l) # {}}
    BY <2>1, <2>2 DEF Files, Libs
  <2>4. \A l \in DOMAIN descriptor : descriptor[l] = Asked(l)
    BY <2>1 DEF Files, Libs
  <2> QED
    BY <2>1, <2>3, <2>4 DEF Files, IsAFcn
<1> QED
  BY <1>1, GenExact, PTL
=============================================================================
