------------------------- MODULE ThreadMemory_proofs -------------------------
(***************************************************************************)
(* Proofs about modules Heap and ThreadMemory, for heaps of any size and   *)
(* any number of threads.                                                  *)
(***************************************************************************)
EXTENDS ThreadMemory, FiniteSetTheorems, WellFoundedInduction, TLAPS

\* The order of the numbers, as a set of pairs.
Below == {p \in Nat \X Nat : p[1] < p[2]}

\* It has no endless descent.
LEMMA BelowWellFounded == IsWellFoundedOn(Below, Nat)
<1>1. OpToRel(<, Nat) = Below
  BY DEF OpToRel, Below
<1> QED BY <1>1, NatLessThanWellFounded

\* A set of numbers that is not empty has a least element, and Min is it.
LEMMA LeastOne ==
    ASSUME NEW S \in SUBSET Nat, S # {}
    PROVE  Min(S) \in S /\ \A n \in S : Min(S) <= n
<1>1. PICK x \in S : \A y \in S : ~(<<y, x>> \in Below)
  BY BelowWellFounded, WFMin
<1>2. ASSUME NEW y \in S PROVE x <= y
  <2>1. x \in Nat /\ y \in Nat
    OBVIOUS
  <2>2. ~(y < x)
    BY <1>1, <2>1 DEF Below
  <2> QED BY <2>1, <2>2
<1>3. \E y \in S : \A n \in S : y <= n
  BY <1>2
<1>4. LET y == CHOOSE y \in S : \A n \in S : y <= n
      IN  y \in S /\ \A n \in S : y <= n
  BY <1>3, Zenon
<1> QED BY <1>4, Zenon DEF Min

\* Induction, for a set.
LEMMA SetInduction ==
    ASSUME NEW S, 0 \in S, \A n \in Nat : n \in S => n + 1 \in S
    PROVE  Nat \subseteq S
<1> SUFFICES ASSUME Nat \ S # {} PROVE FALSE
  OBVIOUS
<1>1. PICK x \in Nat \ S : \A n \in Nat \ S : x <= n
  BY LeastOne
<1>2. x # 0 /\ x - 1 \in Nat
  BY <1>1
<1> QED BY <1>1, <1>2

\* A set of numbers with a bound that is not empty has a greatest element.
LEMMA GreatestOne ==
    ASSUME NEW S \in SUBSET Nat, S # {}, NEW b \in Nat, \A n \in S : n <= b
    PROVE  \E m \in S : \A n \in S : n <= m
<1> DEFINE D == {b - n : n \in S}
<1>1. D \in SUBSET Nat /\ D # {}
  <2>1. \A n \in S : n \in Nat /\ b - n \in Nat
    OBVIOUS
  <2> QED BY <2>1
<1>2. \E d \in D : \A e \in D : d <= e
  <2> HIDE DEF D
  <2> QED BY <1>1, LeastOne
<1>3. PICK m \in S : \A n \in S : b - m <= b - n
  BY <1>2
<1> QED BY <1>3

-------------------------------------------------------------------------------
\* w follows the links of the nodes from a for k steps.
Steps(w, a, nodes, k) ==
    w = [i \in 0 .. k |-> IF i = 0 THEN a ELSE nodes[w[i - 1]].next]

\* A walk of any length exists.
LEMMA WalkExists ==
    ASSUME NEW a, NEW nodes, NEW k \in Nat
    PROVE  \E w : Steps(w, a, nodes, k)
<1> DEFINE S == {n \in Nat : \E w : Steps(w, a, nodes, n)}
<1>1. 0 \in S
  <2>1. Steps([i \in 0 .. 0 |-> a], a, nodes, 0)
    BY DEF Steps
  <2> QED BY <2>1
<1>2. ASSUME NEW n \in Nat, n \in S PROVE n + 1 \in S
  <2>1. PICK w : Steps(w, a, nodes, n)
    BY <1>2
  <2> DEFINE v == [i \in 0 .. n + 1 |-> IF i = n + 1 THEN nodes[w[n]].next ELSE w[i]]
  <2>2. ASSUME NEW i \in 0 .. n + 1
        PROVE  v[i] = IF i = 0 THEN a ELSE nodes[v[i - 1]].next
    <3>1. CASE i = n + 1
      <4>1. v[i] = nodes[w[n]].next /\ v[i - 1] = w[n]
        BY <3>1
      <4> QED BY <4>1, <3>1
    <3>2. CASE i \in 0 .. n
      <4>1. v[i] = w[i] /\ (i # 0 => v[i - 1] = w[i - 1])
        BY <3>2
      <4> QED BY <4>1, <3>2, <2>1 DEF Steps
    <3> QED BY <3>1, <3>2
  <2>3. Steps(v, a, nodes, n + 1)
    BY <2>2 DEF Steps
  <2> QED BY <2>3
<1>3. Nat \subseteq S
  <2> HIDE DEF S
  <2> QED BY <1>1, <1>2, SetInduction
<1> QED BY <1>3

\* The walk of the code's loops is such a walk.
LEMMA WalkSteps ==
    ASSUME NEW h \in HeapId
    PROVE  Steps(Walk(h), available[h], node[h], Units[h] + 1)
<1>1. Units[h] + 1 \in Nat
  BY HeapAssumption
<1>2. \E w : Steps(w, available[h], node[h], Units[h] + 1)
  BY <1>1, WalkExists
<1> QED BY <1>2 DEF Steps, Walk

-------------------------------------------------------------------------------
\* The nodes of one heap: the free ones, and the next free one behind each.
FreeIn(nodes) == {a \in DOMAIN nodes : nodes[a].next # InUse}

FollowedBy(nodes, a, q) ==
    /\ q \in FreeIn(nodes)
    /\ \/ a < q /\ \A b \in FreeIn(nodes) : ~(a < b /\ b < q)
       \/ q = 0 /\ \A b \in FreeIn(nodes) : ~(a < b)

\* The free nodes are a circle in order of address around the base.
Circle(nodes, units) ==
    /\ DOMAIN nodes \subseteq 0 .. units
    /\ 0 \in FreeIn(nodes)
    /\ \A a \in FreeIn(nodes) : FollowedBy(nodes, a, nodes[a].next)

\* Two nodes have different successors.
LEMMA OnePredecessor ==
    ASSUME NEW units \in Nat, NEW nodes, Circle(nodes, units),
           NEW a \in FreeIn(nodes), NEW b \in FreeIn(nodes), nodes[a].next = nodes[b].next
    PROVE  a = b
<1>1. a \in Nat /\ b \in Nat /\ nodes[a].next \in Nat
  BY DEF Circle, FollowedBy, FreeIn
<1>2. FollowedBy(nodes, a, nodes[a].next) /\ FollowedBy(nodes, b, nodes[a].next)
  BY DEF Circle
<1> QED BY <1>1, <1>2 DEF FollowedBy

\* A walk that begins at a free node meets free nodes only.
LEMMA WalkIsFree ==
    ASSUME NEW units \in Nat, NEW nodes, Circle(nodes, units), NEW a \in FreeIn(nodes),
           NEW w, NEW k \in Nat, Steps(w, a, nodes, k)
    PROVE  /\ w \in [0 .. k -> FreeIn(nodes)]
           /\ w[0] = a
           /\ \A i \in 0 .. k : i > 0 => w[i] = nodes[w[i - 1]].next
<1>1. /\ w[0] = a
      /\ \A i \in 0 .. k : i > 0 => w[i] = nodes[w[i - 1]].next
      /\ DOMAIN w = 0 .. k
  BY DEF Steps
<1> DEFINE S == {i \in Nat : i <= k => w[i] \in FreeIn(nodes)}
<1>2. 0 \in S
  BY <1>1
<1>3. ASSUME NEW i \in Nat, i \in S PROVE i + 1 \in S
  <2> SUFFICES ASSUME i + 1 <= k PROVE w[i + 1] \in FreeIn(nodes)
    OBVIOUS
  <2>1. w[i] \in FreeIn(nodes)
    BY <1>3
  <2>2. w[i + 1] = nodes[w[i]].next
    <3>1. i + 1 \in 0 .. k /\ i + 1 > 0 /\ (i + 1) - 1 = i
      OBVIOUS
    <3> QED BY <3>1, <1>1
  <2> QED BY <2>1, <2>2 DEF Circle, FollowedBy
<1>4. Nat \subseteq S
  <2> HIDE DEF S
  <2> QED BY <1>2, <1>3, SetInduction
<1>5. \A i \in 0 .. k : w[i] \in FreeIn(nodes)
  BY <1>4
<1>6. w = [i \in 0 .. k |-> w[i]]
  BY <1>1 DEF Steps
<1> QED BY <1>1, <1>5, <1>6

\* There are fewer nodes than steps, so the walk comes back to where it began.
LEMMA WalkComesBack ==
    ASSUME NEW units \in Nat, NEW nodes, Circle(nodes, units), NEW a \in FreeIn(nodes),
           NEW w, Steps(w, a, nodes, units + 1)
    PROVE  \E i \in 1 .. units + 1 : w[i] = w[0]
<1> DEFINE k == units + 1
           Again == {i \in 0 .. k : \E j \in 0 .. k : i < j /\ w[i] = w[j]}
<1>1. /\ w \in [0 .. k -> FreeIn(nodes)]
      /\ \A i \in 0 .. k : i > 0 => w[i] = nodes[w[i - 1]].next
  BY WalkIsFree
<1>2. FreeIn(nodes) \subseteq 0 .. units
  BY DEF Circle, FreeIn
<1>3. \E i, j \in 0 .. k : i # j /\ w[i] = w[j]
  <2>1. IsFiniteSet(0 .. k) /\ Cardinality(0 .. k) = k + 1
    BY FS_Interval
  <2>2. IsFiniteSet(0 .. units) /\ Cardinality(0 .. units) = units + 1
    BY FS_Interval
  <2>3. w \in [0 .. k -> 0 .. units]
    BY <1>1, <1>2
  <2>4. Cardinality(0 .. units) < Cardinality(0 .. k)
    BY <2>1, <2>2
  <2> QED BY <2>1, <2>2, <2>3, <2>4, FS_PigeonHole
<1>4. Again # {} /\ Again \in SUBSET Nat
  BY <1>3
<1>5. PICK i \in Again : \A n \in Again : i <= n
  <2> HIDE DEF Again
  <2> QED BY <1>4, LeastOne
<1>6. PICK j \in 0 .. k : i < j /\ w[i] = w[j]
  OBVIOUS
<1>7. i = 0
  <2> SUFFICES ASSUME i # 0 PROVE FALSE
    OBVIOUS
  <2>1. i \in 1 .. k /\ i - 1 \in 0 .. k /\ j - 1 \in 0 .. k /\ i - 1 < j - 1
    BY <1>6
  <2>2. nodes[w[i - 1]].next = nodes[w[j - 1]].next
    BY <1>1, <1>6, <2>1
  <2>3. w[i - 1] = w[j - 1]
    BY <1>1, <2>1, <2>2, OnePredecessor
  <2>4. i - 1 \in Again
    BY <2>1, <2>3
  <2> QED BY <2>1, <2>4, <1>5
<1> QED BY <1>6, <1>7

\* A set of free nodes that holds the successor of each of its nodes holds all.
LEMMA ClosedIsAll ==
    ASSUME NEW units \in Nat, NEW nodes, Circle(nodes, units),
           NEW S \in SUBSET FreeIn(nodes), S # {},
           \A a \in S : nodes[a].next \in S
    PROVE  S = FreeIn(nodes)
<1>1. FreeIn(nodes) \subseteq 0 .. units /\ FreeIn(nodes) \in SUBSET Nat
  BY DEF Circle, FreeIn
<1>2. 0 \in S
  <2>1. PICK m \in S : \A n \in S : n <= m
    <3>1. S \in SUBSET Nat /\ \A n \in S : n <= units
      BY <1>1
    <3> QED BY <3>1, GreatestOne
  <2>2. FollowedBy(nodes, m, nodes[m].next) /\ nodes[m].next \in S
    BY DEF Circle
  <2> QED BY <2>1, <2>2, <1>1 DEF FollowedBy
<1> SUFFICES ASSUME FreeIn(nodes) \ S # {} PROVE FALSE
  OBVIOUS
<1>3. PICK b \in FreeIn(nodes) \ S : \A n \in FreeIn(nodes) \ S : b <= n
  BY <1>1, LeastOne
<1> DEFINE P == {a \in FreeIn(nodes) : a < b}
<1>4. PICK p \in P : \A n \in P : n <= p
  <2>1. P \in SUBSET Nat /\ 0 \in P /\ units \in Nat /\ \A n \in P : n <= units
    BY <1>1, <1>2, <1>3
  <2> HIDE DEF P
  <2> QED BY <2>1, GreatestOne
<1>5. p \in S
  BY <1>3, <1>4, <1>1
<1>6. FollowedBy(nodes, p, nodes[p].next) /\ nodes[p].next \in S
  BY <1>5 DEF Circle
<1>7. nodes[p].next = b
  BY <1>6, <1>4, <1>3, <1>1 DEF FollowedBy
<1> QED BY <1>6, <1>7, <1>3

\* The walk meets every free node in the first turn.
LEMMA WalkMeetsAll ==
    ASSUME NEW h \in HeapId, NEW nodes, Circle(nodes, Units[h]), NEW a \in FreeIn(nodes),
           NEW w, Steps(w, a, nodes, Units[h] + 1)
    PROVE  /\ Turn(h, w) \in 1 .. Units[h] + 1
           /\ w[Turn(h, w)] = w[0]
           /\ FreeIn(nodes) = {w[i] : i \in 0 .. Turn(h, w) - 1}
<1> DEFINE k == Units[h] + 1
           T == {i \in 1 .. k : w[i] = w[0]}
           t == Turn(h, w)
           S == {w[i] : i \in 0 .. t - 1}
<1>1. Units[h] \in Nat
  BY HeapAssumption
<1>2. T # {} /\ T \in SUBSET Nat
  BY <1>1, WalkComesBack
<1>3. t \in T
  <2>1. Min(T) \in T
    <3> HIDE DEF T
    <3> QED BY <1>2, LeastOne
  <2> QED BY <2>1 DEF Turn
<1>4. t \in 1 .. k /\ w[t] = w[0]
  BY <1>3
<1> HIDE DEF T, t
<1>5. /\ w \in [0 .. k -> FreeIn(nodes)]
      /\ \A i \in 0 .. k : i > 0 => w[i] = nodes[w[i - 1]].next
  BY <1>1, WalkIsFree
<1>6. S \in SUBSET FreeIn(nodes) /\ S # {}
  BY <1>1, <1>4, <1>5
<1>7. ASSUME NEW x \in S PROVE nodes[x].next \in S
  <2>1. PICK i \in 0 .. t - 1 : x = w[i]
    BY <1>7
  <2>2. nodes[x].next = w[i + 1]
    <3>1. i + 1 \in 0 .. k /\ i + 1 > 0 /\ (i + 1) - 1 = i
      BY <1>1, <1>4
    <3> QED BY <3>1, <2>1, <1>5
  <2>3. CASE i + 1 \in 0 .. t - 1
    BY <2>2, <2>3
  <2>4. CASE i + 1 = t
    <3>1. 0 \in 0 .. t - 1
      BY <1>1, <1>4
    <3> QED BY <2>2, <2>4, <1>4, <3>1
  <2> QED BY <2>3, <2>4, <1>1, <1>4
<1>8. S = FreeIn(nodes)
  <2> HIDE DEF S
  <2> QED BY <1>1, <1>6, <1>7, ClosedIsAll
<1> QED BY <1>4, <1>8 DEF t

-------------------------------------------------------------------------------
TakenIn(nodes) == {a \in DOMAIN nodes : nodes[a].next = InUse}
End(nodes, a) == a + nodes[a].size

\* Every unit of a heap belongs to one node.
Tiled(nodes, units) ==
    /\ nodes \in [DOMAIN nodes -> [next : Nat \cup {InUse}, size : Nat]]
    /\ \A a \in DOMAIN nodes :
          /\ nodes[a].size = 0 <=> a = 0
          /\ End(nodes, a) <= units + 1
          /\ \A b \in DOMAIN nodes : a < b => End(nodes, a) <= b
    /\ \A u \in 1 .. units : \E a \in DOMAIN nodes : a <= u /\ u < End(nodes, a)

\* A heap between two calls: no two free nodes meet.
Sound(nodes, units) ==
    /\ Circle(nodes, units)
    /\ Tiled(nodes, units)
    /\ \A a, b \in FreeIn(nodes) \ {0} : End(nodes, a) # b

\* What the proofs below know of a sound heap's nodes.
LEMMA SoundFacts ==
    ASSUME NEW units \in Nat, NEW nodes, Sound(nodes, units)
    PROVE  /\ DOMAIN nodes \subseteq Nat
           /\ FreeIn(nodes) \subseteq Nat /\ TakenIn(nodes) \subseteq Nat
           /\ FreeIn(nodes) \cap TakenIn(nodes) = {}
           /\ FreeIn(nodes) \cup TakenIn(nodes) = DOMAIN nodes
           /\ 0 \in FreeIn(nodes) /\ 0 \notin TakenIn(nodes)
           /\ \A a \in DOMAIN nodes : nodes[a].size \in Nat
           /\ \A a \in FreeIn(nodes) : nodes[a].next \in FreeIn(nodes) /\ nodes[a].next \in Nat
BY DEF Sound, Tiled, Circle, FollowedBy, FreeIn, TakenIn

\* A search takes a block that fits from the circle, or its tail from the block.
LEMMA TakenFromSound ==
    ASSUME NEW units \in Nat, NEW nodes, Sound(nodes, units),
           NEW p \in FreeIn(nodes), NEW at, at = nodes[p].next,
           NEW n \in Nat \ {0}, n <= nodes[at].size,
           NEW new, new = TakenFrom(nodes, p, at, n),
           NEW got, got = at + nodes[at].size - n
    PROVE  /\ Sound(new, units)
           /\ p \in FreeIn(new)
           /\ got \in Nat /\ got \notin TakenIn(nodes)
           /\ TakenIn(new) = TakenIn(nodes) \cup {got}
<1>1. /\ at \in FreeIn(nodes) /\ at \in DOMAIN nodes /\ p \in DOMAIN nodes
      /\ at \in Nat /\ p \in Nat /\ nodes[at].size \in Nat
  BY SoundFacts DEF FreeIn
<1>2. at # 0
  BY <1>1 DEF Sound, Tiled
<1>3. p # at
  BY <1>1, <1>2 DEF Sound, Tiled, Circle, FollowedBy
<1>4. got \in Nat /\ got >= at
  BY <1>1
<1>5. CASE nodes[at].size = n
  <2>1. got = at
    BY <1>1, <1>5
  <2>2. new = [nodes EXCEPT ![p].next = nodes[at].next, ![at].next = InUse]
    BY <1>5 DEF TakenFrom
  <2>3. /\ DOMAIN new = DOMAIN nodes
        /\ new[p].next = nodes[at].next
        /\ new[at].next = InUse
        /\ \A a \in DOMAIN nodes : a # p /\ a # at => new[a].next = nodes[a].next
        /\ \A a \in DOMAIN nodes : new[a].size = nodes[a].size
    BY <2>2, <1>1, <1>3 DEF Sound, Tiled
  <2>4. nodes[at].next \in FreeIn(nodes) /\ nodes[at].next # InUse
    BY <1>1, SoundFacts, HeapAssumption DEF FreeIn
  <2>5. FreeIn(new) = FreeIn(nodes) \ {at}
    BY <2>3, <2>4, <1>1, <1>3 DEF FreeIn
  <2>6. TakenIn(new) = TakenIn(nodes) \cup {at}
    BY <2>3, <2>4, <1>1, <1>3 DEF FreeIn, TakenIn
  <2>7. Circle(new, units)
    <3>1. ASSUME NEW a \in FreeIn(new) PROVE FollowedBy(new, a, new[a].next)
      <4>1. a \in FreeIn(nodes) /\ a # at /\ a \in Nat /\ a \in DOMAIN nodes
        BY <2>5, SoundFacts DEF FreeIn
      <4>2. FollowedBy(nodes, a, nodes[a].next)
        BY <4>1 DEF Sound, Tiled, Circle
      <4>3. CASE a = p
        <5>1. FollowedBy(nodes, p, at) /\ FollowedBy(nodes, at, nodes[at].next)
          BY <1>1 DEF Sound, Tiled, Circle
        <5>2. nodes[at].next # at
          BY <5>1, <1>1, <1>2 DEF FollowedBy
        <5>3. nodes[at].next \in FreeIn(new) /\ nodes[at].next \in Nat
          BY <2>4, <2>5, <5>2, SoundFacts
        <5>4. \A b \in FreeIn(new) : b \in FreeIn(nodes) /\ b # at /\ b \in Nat
          BY <2>5, SoundFacts
        <5>5. /\ p < at /\ \A b \in FreeIn(nodes) : ~(p < b /\ b < at)
          BY <5>1, <1>2 DEF FollowedBy
        <5>6. \/ p < nodes[at].next /\ \A b \in FreeIn(new) : ~(p < b /\ b < nodes[at].next)
              \/ nodes[at].next = 0 /\ \A b \in FreeIn(new) : ~(p < b)
          BY <5>1, <5>3, <5>4, <5>5, <1>1 DEF FollowedBy
        <5> QED BY <5>3, <5>6, <4>3, <2>3 DEF FollowedBy
      <4>4. CASE a # p
        <5>1. nodes[a].next # at
          BY <4>1, <4>4, OnePredecessor DEF Sound, Tiled
        <5>2. new[a].next = nodes[a].next
          BY <2>3, <4>1, <4>4
        <5> QED BY <5>1, <5>2, <4>2, <2>5 DEF FollowedBy
      <4> QED BY <4>3, <4>4
    <3>2. 0 \in FreeIn(new)
      BY <2>5, <1>2 DEF Sound, Tiled, Circle
    <3> QED BY <3>1, <3>2, <2>3 DEF Circle, Sound, Tiled
  <2>8. new \in [DOMAIN new -> [next : Nat \cup {InUse}, size : Nat]]
    <3>1. nodes[at].next \in Nat
      BY <1>1, SoundFacts
    <3> QED BY <2>2, <3>1, <1>1 DEF Sound, Tiled
  <2>9. \A a \in DOMAIN nodes : End(new, a) = End(nodes, a)
    BY <2>3 DEF End
  <2>10. Sound(new, units)
    <3>1. \A a \in DOMAIN new :
             /\ new[a].size = 0 <=> a = 0
             /\ End(new, a) <= units + 1
             /\ \A b \in DOMAIN new : a < b => End(new, a) <= b
      BY <2>3, <2>9 DEF Sound, Tiled
    <3>2. \A u \in 1 .. units : \E a \in DOMAIN new : a <= u /\ u < End(new, a)
      BY <2>3, <2>9 DEF Sound, Tiled
    <3>3. \A a, b \in FreeIn(new) \ {0} : End(new, a) # b
      <4>1. \A a \in FreeIn(nodes) : a \in DOMAIN nodes
        BY DEF FreeIn
      <4> QED BY <4>1, <2>5, <2>9 DEF Sound, Tiled
    <3> QED BY <2>7, <2>8, <3>1, <3>2, <3>3 DEF Sound, Tiled
  <2> QED BY <2>10, <2>1, <2>5, <2>6, <1>1, <1>3, <1>4, SoundFacts
<1>6. CASE nodes[at].size # n
  <2>1. got > at /\ got < End(nodes, at) /\ End(nodes, at) = got + n
    BY <1>1, <1>6 DEF End
  <2>2. got \notin DOMAIN nodes
    BY <2>1, <1>1, <1>4 DEF Sound, Tiled
  <2>3. new = [a \in DOMAIN nodes \cup {got} |->
                  IF a = at THEN [nodes[a] EXCEPT !.size = @ - n]
                  ELSE IF a = got THEN [next |-> InUse, size |-> n]
                  ELSE nodes[a]]
    BY <1>6 DEF TakenFrom
  <2>4. /\ DOMAIN new = DOMAIN nodes \cup {got}
        /\ new[at].next = nodes[at].next /\ new[at].size = nodes[at].size - n
        /\ new[got].next = InUse /\ new[got].size = n
        /\ \A a \in DOMAIN nodes \ {at} : new[a] = nodes[a]
    <3>1. nodes[at] \in [next : Nat \cup {InUse}, size : Nat]
      BY <1>1 DEF Sound, Tiled
    <3> QED BY <2>3, <2>2, <1>1, <3>1
  <2>5. FreeIn(new) = FreeIn(nodes) /\ TakenIn(new) = TakenIn(nodes) \cup {got}
    BY <2>4, <2>2, <1>1 DEF FreeIn, TakenIn
  <2>6. \A a \in DOMAIN nodes : new[a].next = nodes[a].next
    BY <2>4
  <2>7. Circle(new, units)
    <3>1. \A a \in FreeIn(nodes) : a \in DOMAIN nodes
      BY DEF FreeIn
    <3>2. got \in 0 .. units
      BY <2>1, <1>1, <1>4 DEF Sound, Tiled
    <3> QED BY <3>1, <3>2, <2>4, <2>5, <2>6 DEF Circle, FollowedBy, Sound, Tiled
  <2>8. new \in [DOMAIN new -> [next : Nat \cup {InUse}, size : Nat]]
    <3>1. ASSUME NEW a \in DOMAIN nodes \cup {got}
          PROVE  new[a] \in [next : Nat \cup {InUse}, size : Nat]
      <4>1. CASE a = got
        BY <4>1, <2>3, <2>1, <1>1, <1>4
      <4>2. CASE a = at
        <5>1. nodes[at] \in [next : Nat \cup {InUse}, size : Nat] /\ nodes[at].size - n \in Nat
          BY <1>1 DEF Sound, Tiled
        <5> QED BY <4>2, <5>1, <2>3
      <4>3. CASE a \in DOMAIN nodes \ {at}
        BY <4>3, <2>4 DEF Sound, Tiled
      <4> QED BY <4>1, <4>2, <4>3
    <3> QED BY <3>1, <2>3, <2>4
  <2>9. /\ End(new, at) = got /\ End(new, got) = End(nodes, at)
        /\ \A a \in DOMAIN nodes \ {at} : End(new, a) = End(nodes, a)
    BY <2>4, <2>1, <1>1 DEF End
  <2>10. Sound(new, units)
    <3>1. ASSUME NEW a \in DOMAIN new
          PROVE  /\ new[a].size = 0 <=> a = 0
                 /\ End(new, a) <= units + 1
                 /\ \A b \in DOMAIN new : a < b => End(new, a) <= b
      <4>1. ASSUME NEW b \in DOMAIN nodes
            PROVE  b \in Nat /\ End(nodes, b) \in Nat /\ b <= End(nodes, b)
        <5>1. b \in Nat /\ nodes[b].size \in Nat
          BY SoundFacts
        <5> QED BY <5>1 DEF End
      <4> QED BY <4>1, <2>1, <2>2, <2>4, <2>9, <1>1, <1>6 DEF Sound, Tiled
    <3>2. ASSUME NEW u \in 1 .. units
          PROVE  \E a \in DOMAIN new : a <= u /\ u < End(new, a)
      <4>1. PICK a \in DOMAIN nodes : a <= u /\ u < End(nodes, a)
        BY DEF Sound, Tiled
      <4> QED BY <4>1, <2>1, <2>4, <2>9, <1>4, <1>1
    <3>3. \A a, b \in FreeIn(new) \ {0} : End(new, a) # b
      <4>1. \A a \in FreeIn(nodes) : a \in DOMAIN nodes
        BY DEF FreeIn
      <4> QED BY <4>1, <2>2, <2>5, <2>9 DEF Sound, Tiled
    <3> QED BY <3>1, <3>2, <3>3, <2>7, <2>8 DEF Sound, Tiled
  <2> QED BY <2>10, <2>5, <2>2, <1>4 DEF TakenIn
<1> QED BY <1>5, <1>6

\* The search for the place of a block ends at the last free node in front of it.
LEMMA BeforeIs ==
    ASSUME NEW h \in HeapId, NEW nodes, Sound(nodes, Units[h]), NEW a \in FreeIn(nodes),
           NEW w, Steps(w, a, nodes, Units[h] + 1), NEW bp \in TakenIn(nodes),
           NEW p, p = Before(nodes, w, bp)
    PROVE  /\ p \in FreeIn(nodes)
           /\ p < bp
           /\ \A b \in FreeIn(nodes) : b < bp => b <= p
<1> DEFINE Here(x) == LET q == nodes[x].next
                      IN  (x < bp /\ bp < q) \/ (x >= q /\ (bp > x \/ bp < q))
           I == {i \in DOMAIN w : Here(w[i])}
<1>1. Units[h] \in Nat /\ Circle(nodes, Units[h])
  BY HeapAssumption DEF Sound, Tiled
<1>2. /\ FreeIn(nodes) \subseteq Nat /\ bp \in Nat /\ bp \notin FreeIn(nodes)
      /\ 0 \in FreeIn(nodes) /\ bp # 0
      /\ \A x \in FreeIn(nodes) : nodes[x].next \in FreeIn(nodes) /\ nodes[x].next \in Nat
  BY <1>1, SoundFacts
<1>3. /\ w \in [0 .. Units[h] + 1 -> FreeIn(nodes)]
      /\ FreeIn(nodes) = {w[i] : i \in 0 .. Turn(h, w) - 1}
      /\ Turn(h, w) \in 1 .. Units[h] + 1
  BY <1>1, WalkIsFree, WalkMeetsAll
<1>4. I # {}
  <2> DEFINE P == {x \in FreeIn(nodes) : x < bp}
  <2>1. PICK x \in P : \A n \in P : n <= x
    <3>1. P \in SUBSET Nat /\ 0 \in P /\ \A n \in P : n <= bp
      BY <1>2
    <3> HIDE DEF P
    <3> QED BY <3>1, <1>2, GreatestOne
  <2>2. Here(x)
    <3>1. FollowedBy(nodes, x, nodes[x].next)
      BY <1>1 DEF Circle
    <3> QED BY <3>1, <2>1, <1>2 DEF FollowedBy
  <2>3. PICK i \in 0 .. Turn(h, w) - 1 : x = w[i]
    BY <1>3
  <2>4. i \in DOMAIN w
    BY <1>1, <1>3
  <2> QED BY <2>2, <2>3, <2>4
<1>5. I \in SUBSET Nat
  BY <1>1, <1>3
<1>6. Min(I) \in I
  <2> HIDE DEF I
  <2> QED BY <1>4, <1>5, LeastOne
<1>7. p = w[Min(I)]
  BY DEF Before
<1>8. p \in FreeIn(nodes) /\ Here(p)
  <2>1. Min(I) \in DOMAIN w /\ Here(w[Min(I)])
    BY <1>6
  <2> HIDE DEF I, Here
  <2> QED BY <2>1, <1>7, <1>3
<1>9. FollowedBy(nodes, p, nodes[p].next)
  BY <1>1, <1>8 DEF Circle
<1> QED BY <1>8, <1>9, <1>2 DEF FollowedBy

\* A block that comes back is linked behind that node and joined with its neighbours.
JoinedInto(nodes, p, bp) == JoinLower(JoinUpper(nodes, p, bp), p, bp)

\* Halfway, bp has its successor and p is yet to be linked to it.
HalfLinked(nodes, units, p, bp) ==
    /\ DOMAIN nodes \subseteq 0 .. units
    /\ Tiled(nodes, units)
    /\ {0, p, bp} \subseteq FreeIn(nodes)
    /\ p < bp /\ \A b \in FreeIn(nodes) : ~(p < b /\ b < bp)
    /\ \A a \in FreeIn(nodes) \ {p} : FollowedBy(nodes, a, nodes[a].next)
    /\ \A a, b \in FreeIn(nodes) \ {0} : End(nodes, a) = b => a = p /\ b = bp

\* The block is joined with the free one behind it, or linked to it.
LEMMA JoinUpperLinks ==
    ASSUME NEW units \in Nat, NEW nodes, Sound(nodes, units), NEW bp \in TakenIn(nodes),
           NEW p \in FreeIn(nodes), p < bp, \A b \in FreeIn(nodes) : b < bp => b <= p,
           NEW mid, mid = JoinUpper(nodes, p, bp)
    PROVE  HalfLinked(mid, units, p, bp) /\ TakenIn(mid) = TakenIn(nodes) \ {bp}
<1> DEFINE q == nodes[p].next
<1>1. /\ DOMAIN nodes \subseteq Nat
      /\ FreeIn(nodes) \cap TakenIn(nodes) = {}
      /\ FreeIn(nodes) \cup TakenIn(nodes) = DOMAIN nodes
      /\ 0 \in FreeIn(nodes)
      /\ \A a \in DOMAIN nodes : nodes[a].size \in Nat
      /\ \A a \in FreeIn(nodes) : nodes[a].next \in FreeIn(nodes) /\ nodes[a].next \in Nat
  BY SoundFacts
<1>2. /\ p \in Nat /\ bp \in Nat /\ q \in Nat /\ q \in FreeIn(nodes)
      /\ p \in DOMAIN nodes /\ bp \in DOMAIN nodes /\ q \in DOMAIN nodes
      /\ bp \notin FreeIn(nodes) /\ q # bp
  BY <1>1
<1>3. \/ q > bp /\ \A b \in FreeIn(nodes) : ~(p < b /\ b < q)
      \/ q = 0 /\ \A b \in FreeIn(nodes) : ~(p < b)
  <2>1. FollowedBy(nodes, p, q)
    BY DEF Sound, Circle
  <2> QED BY <2>1, <1>1, <1>2 DEF FollowedBy
<1>4. ASSUME NEW a \in FreeIn(nodes) \ {p}
      PROVE  /\ FollowedBy(nodes, a, nodes[a].next)
             /\ nodes[a].next # q
             /\ a < p \/ a > bp
             /\ a < p => nodes[a].next <= p /\ nodes[a].next # 0
  <2>1. FollowedBy(nodes, a, nodes[a].next)
    BY DEF Sound, Circle
  <2>2. nodes[a].next # q
    BY OnePredecessor DEF Sound
  <2>3. a < p \/ a > bp
    BY <1>1, <1>2
  <2>4. a < p => nodes[a].next <= p /\ nodes[a].next # 0
    BY <2>1, <1>1, <1>2 DEF FollowedBy
  <2> QED BY <2>1, <2>2, <2>3, <2>4
<1>5. \A a \in DOMAIN nodes : a \in Nat /\ nodes[a].size \in Nat /\ End(nodes, a) \in Nat /\ a <= End(nodes, a)
  <2> SUFFICES ASSUME NEW a \in DOMAIN nodes
               PROVE  a \in Nat /\ nodes[a].size \in Nat /\ End(nodes, a) \in Nat /\ a <= End(nodes, a)
    OBVIOUS
  <2>1. a \in Nat /\ nodes[a].size \in Nat
    BY <1>1
  <2> QED BY <2>1 DEF End
<1> HIDE DEF q
<1>6. CASE End(nodes, bp) # q
  <2>1. mid = [nodes EXCEPT ![bp].next = q]
    BY <1>6 DEF JoinUpper, q, End
  <2>2. /\ DOMAIN mid = DOMAIN nodes
        /\ mid[bp].next = q
        /\ \A a \in DOMAIN nodes : a # bp => mid[a].next = nodes[a].next
        /\ \A a \in DOMAIN nodes : mid[a].size = nodes[a].size /\ End(mid, a) = End(nodes, a)
    BY <2>1, <1>2 DEF Sound, Tiled, End
  <2>3. FreeIn(mid) = FreeIn(nodes) \cup {bp} /\ TakenIn(mid) = TakenIn(nodes) \ {bp}
    BY <2>2, <1>1, <1>2, HeapAssumption DEF FreeIn, TakenIn
  <2>4. Tiled(mid, units)
    <3>1. mid \in [DOMAIN mid -> [next : Nat \cup {InUse}, size : Nat]]
      BY <2>1, <1>2 DEF Sound, Tiled
    <3> QED BY <3>1, <2>2 DEF Sound, Tiled
  <2>5. ASSUME NEW a \in FreeIn(mid) \ {p} PROVE FollowedBy(mid, a, mid[a].next)
    <3>1. CASE a = bp
      BY <3>1, <2>2, <2>3, <1>1, <1>2, <1>3 DEF FollowedBy
    <3>2. CASE a # bp
      <4>1. a \in FreeIn(nodes) \ {p} /\ mid[a].next = nodes[a].next
        BY <3>2, <2>2, <2>3, <1>1
      <4> QED BY <4>1, <1>4, <2>3, <1>1, <1>2 DEF FollowedBy
    <3> QED BY <3>1, <3>2
  <2>6. ASSUME NEW a \in FreeIn(mid) \ {0}, NEW b \in FreeIn(mid) \ {0}, End(mid, a) = b
        PROVE  a = p /\ b = bp
    <3>1. /\ a \in DOMAIN nodes /\ b \in DOMAIN nodes /\ End(nodes, a) = b
          /\ a \in Nat /\ b \in Nat
      BY <2>2, <2>3, <2>6, <1>1, <1>2
    <3>2. a # b
      BY <3>1, <1>1 DEF Sound, Tiled, End
    <3>3. a < b
      BY <3>1, <3>2, <1>5
    <3>4. CASE b = bp
      BY <3>4, <3>1, <3>3, <1>2, <2>3 DEF Sound, Tiled
    <3>5. CASE a = bp
      <4>1. b \in FreeIn(nodes) /\ q # 0 /\ q < b
        BY <3>5, <3>1, <3>3, <2>3, <1>2, <1>3, <1>6
      <4> QED BY <4>1, <3>5, <3>1, <1>2, <1>3, <1>5 DEF Sound, Tiled
    <3>6. CASE a # bp /\ b # bp
      BY <3>6, <3>1, <2>3 DEF Sound
    <3> QED BY <3>4, <3>5, <3>6
  <2> QED BY <2>2, <2>3, <2>4, <2>5, <2>6, <1>1, <1>2 DEF HalfLinked, Sound, Circle
<1>7. CASE End(nodes, bp) = q
  <2>1. mid = [[a \in DOMAIN nodes \ {q} |-> nodes[a]] EXCEPT
                  ![bp] = [next |-> nodes[q].next, size |-> @.size + nodes[q].size]]
    BY <1>7 DEF JoinUpper, q, End, Restrict
  <2>2. q # 0 /\ q > bp /\ q # p
    BY <1>7, <1>2, <1>3, <1>5
  <2>3. /\ DOMAIN mid = DOMAIN nodes \ {q}
        /\ mid[bp].next = nodes[q].next /\ mid[bp].size = nodes[bp].size + nodes[q].size
        /\ \A a \in DOMAIN nodes \ {q, bp} : mid[a] = nodes[a]
    BY <2>1, <2>2, <1>2
  <2>4. /\ End(mid, bp) = End(nodes, q)
        /\ \A a \in DOMAIN nodes \ {q, bp} : End(mid, a) = End(nodes, a)
    BY <2>3, <1>7, <1>1, <1>2 DEF End
  <2>5. nodes[q].next \in FreeIn(nodes) /\ nodes[q].next \in Nat /\ nodes[q].next # q
    <3>1. FollowedBy(nodes, q, nodes[q].next)
      BY <1>2 DEF Sound, Circle
    <3> QED BY <3>1, <1>1, <1>2, <2>2 DEF FollowedBy
  <2>6. /\ FreeIn(mid) = (FreeIn(nodes) \ {q}) \cup {bp}
        /\ TakenIn(mid) = TakenIn(nodes) \ {bp}
    BY <2>2, <2>3, <2>5, <1>1, <1>2, HeapAssumption DEF FreeIn, TakenIn
  <2>7. Tiled(mid, units)
    <3>1. mid \in [DOMAIN mid -> [next : Nat \cup {InUse}, size : Nat]]
      <4>1. nodes[q].next \in Nat /\ nodes[bp].size + nodes[q].size \in Nat
        BY <2>5, <1>1, <1>2
      <4>2. \A a \in DOMAIN nodes : nodes[a] \in [next : Nat \cup {InUse}, size : Nat]
        BY DEF Sound, Tiled
      <4>3. \A a \in DOMAIN mid : mid[a] \in [next : Nat \cup {InUse}, size : Nat]
        BY <4>1, <4>2, <2>1, <2>3
      <4> QED BY <4>3, <2>1
    <3>2. ASSUME NEW a \in DOMAIN mid
          PROVE  /\ mid[a].size = 0 <=> a = 0
                 /\ End(mid, a) <= units + 1
                 /\ \A b \in DOMAIN mid : a < b => End(mid, a) <= b
      <4>1. CASE a = bp
        <5>1. nodes[bp].size # 0 /\ bp # 0
          BY <1>1, <1>2 DEF Sound, Tiled
        <5>2. mid[a].size # 0
          BY <4>1, <5>1, <2>3, <1>1, <1>2
        <5>3. ASSUME NEW b \in DOMAIN mid, bp < b PROVE End(nodes, q) <= b
          <6>1. b \in DOMAIN nodes /\ b # q /\ b \in Nat
            BY <2>3, <1>1
          <6>2. q <= b
            BY <6>1, <5>3, <1>7, <1>2 DEF Sound, Tiled
          <6> QED BY <6>1, <6>2, <1>2 DEF Sound, Tiled
        <5> QED BY <4>1, <5>1, <5>2, <5>3, <2>4, <1>2 DEF Sound, Tiled
      <4>2. CASE a # bp
        <5>1. a \in DOMAIN nodes \ {q, bp}
          BY <4>2, <2>3
        <5> QED BY <5>1, <2>3, <2>4 DEF Sound, Tiled
      <4> QED BY <4>1, <4>2
    <3>3. ASSUME NEW u \in 1 .. units
          PROVE  \E a \in DOMAIN mid : a <= u /\ u < End(mid, a)
      <4>1. PICK a \in DOMAIN nodes : a <= u /\ u < End(nodes, a)
        BY DEF Sound, Tiled
      <4>2. CASE a \in {q, bp}
        <5>1. bp \in DOMAIN mid /\ bp <= u /\ u < End(mid, bp)
          BY <4>1, <4>2, <2>2, <2>3, <2>4, <1>2, <1>5, <1>7
        <5> QED BY <5>1
      <4>3. CASE a \notin {q, bp}
        BY <4>1, <4>3, <2>3, <2>4
      <4> QED BY <4>2, <4>3
    <3> QED BY <3>1, <3>2, <3>3 DEF Tiled
  <2>8. ASSUME NEW a \in FreeIn(mid) \ {p} PROVE FollowedBy(mid, a, mid[a].next)
    <3>1. CASE a = bp
      <4>1. FollowedBy(nodes, q, nodes[q].next)
        BY <1>2 DEF Sound, Circle
      <4> QED BY <3>1, <4>1, <2>2, <2>3, <2>5, <2>6, <1>1, <1>2, <1>3 DEF FollowedBy
    <3>2. CASE a # bp
      <4>1. a \in FreeIn(nodes) \ {p} /\ a # q /\ mid[a].next = nodes[a].next
        BY <3>2, <2>3, <2>6, <1>1
      <4> QED BY <4>1, <1>4, <2>6, <1>1, <1>2 DEF FollowedBy
    <3> QED BY <3>1, <3>2
  <2>9. ASSUME NEW a \in FreeIn(mid) \ {0}, NEW b \in FreeIn(mid) \ {0}, End(mid, a) = b
        PROVE  a = p /\ b = bp
    <3>1. /\ a \in DOMAIN nodes \ {q} /\ b \in DOMAIN nodes \ {q}
          /\ a \in Nat /\ b \in Nat
      BY <2>6, <1>1, <1>2, <2>2
    <3>2. CASE a = bp
      <4>1. End(nodes, q) = b
        BY <3>2, <2>9, <2>4
      <4>2. b # bp
        BY <4>1, <2>2, <1>2, <1>5
      <4> QED BY <4>1, <4>2, <3>1, <2>2, <2>6, <1>2 DEF Sound
    <3>3. CASE a # bp /\ b = bp
      <4>1. a \in FreeIn(nodes) /\ End(nodes, a) = bp
        BY <3>1, <3>3, <2>4, <2>6, <2>9
      <4>2. a # bp /\ a <= bp
        BY <4>1, <3>3, <3>1, <1>5
      <4>3. a <= p
        BY <4>1, <4>2, <3>1, <1>2
      <4>4. ~(a < p)
        BY <4>1, <3>1, <1>2 DEF Sound, Tiled
      <4> QED BY <3>3, <4>3, <4>4, <3>1, <1>2
    <3>4. CASE a # bp /\ b # bp
      BY <3>4, <3>1, <2>4, <2>6, <2>9 DEF Sound
    <3> QED BY <3>2, <3>3, <3>4
  <2> QED BY <2>2, <2>3, <2>6, <2>7, <2>8, <2>9, <1>1, <1>2 DEF HalfLinked, Sound, Circle
<1> QED BY <1>6, <1>7

\* The block is joined with the free one in front of it, or linked behind it.
LEMMA JoinLowerSound ==
    ASSUME NEW units \in Nat, NEW mid, NEW p, NEW bp, HalfLinked(mid, units, p, bp),
           NEW new, new = JoinLower(mid, p, bp)
    PROVE  Sound(new, units) /\ p \in FreeIn(new) /\ TakenIn(new) = TakenIn(mid)
<1> DEFINE r == mid[bp].next
<1>1. /\ FreeIn(mid) \subseteq DOMAIN mid /\ p \in DOMAIN mid /\ bp \in DOMAIN mid
      /\ p \in FreeIn(mid) /\ bp \in FreeIn(mid) /\ p < bp
      /\ p \in Nat /\ bp \in Nat /\ DOMAIN mid \subseteq Nat
  BY DEF HalfLinked, FreeIn
<1>2. FollowedBy(mid, bp, r)
  BY <1>1 DEF HalfLinked
<1>3. r \in FreeIn(mid) /\ r \in Nat /\ (r > bp \/ r = 0)
  BY <1>1, <1>2 DEF FollowedBy
<1>4. \A a \in DOMAIN mid : a \in Nat /\ mid[a].size \in Nat /\ End(mid, a) \in Nat /\ a <= End(mid, a)
  <2> SUFFICES ASSUME NEW a \in DOMAIN mid
               PROVE  a \in Nat /\ mid[a].size \in Nat /\ End(mid, a) \in Nat /\ a <= End(mid, a)
    OBVIOUS
  <2>1. a \in Nat /\ mid[a].size \in Nat
    BY <1>1 DEF HalfLinked, Tiled
  <2> QED BY <2>1 DEF End
\* Who comes after whom, and that no other node leads to bp.
<1>5. ASSUME NEW a \in FreeIn(mid) \ {p}
      PROVE  FollowedBy(mid, a, mid[a].next) /\ mid[a].next # bp /\ mid[a].next \in Nat
  <2>1. FollowedBy(mid, a, mid[a].next)
    BY DEF HalfLinked
  <2>2. a < p \/ a >= bp
    BY <1>1 DEF HalfLinked
  <2> QED BY <2>1, <2>2, <1>1 DEF FollowedBy
<1> HIDE DEF r
<1>6. CASE End(mid, p) # bp
  <2>1. new = [mid EXCEPT ![p].next = bp]
    BY <1>6 DEF JoinLower, End
  <2>2. /\ DOMAIN new = DOMAIN mid
        /\ new[p].next = bp
        /\ \A a \in DOMAIN mid : a # p => new[a].next = mid[a].next
        /\ \A a \in DOMAIN mid : new[a].size = mid[a].size /\ End(new, a) = End(mid, a)
    BY <2>1, <1>1 DEF HalfLinked, Tiled, End
  <2>3. FreeIn(new) = FreeIn(mid) /\ TakenIn(new) = TakenIn(mid)
    BY <2>2, <1>1, HeapAssumption DEF FreeIn, TakenIn
  <2>4. Tiled(new, units)
    <3>1. new \in [DOMAIN new -> [next : Nat \cup {InUse}, size : Nat]]
      BY <2>1, <1>1 DEF HalfLinked, Tiled
    <3> QED BY <3>1, <2>2 DEF HalfLinked, Tiled
  <2>5. ASSUME NEW a \in FreeIn(new) PROVE FollowedBy(new, a, new[a].next)
    <3>1. CASE a = p
      BY <3>1, <2>2, <2>3, <1>1 DEF FollowedBy, HalfLinked
    <3>2. CASE a # p
      BY <3>2, <2>2, <2>3, <1>1, <1>5 DEF FollowedBy
    <3> QED BY <3>1, <3>2
  <2>6. \A a, b \in FreeIn(new) \ {0} : End(new, a) # b
    BY <2>2, <2>3, <1>1, <1>6 DEF HalfLinked
  <2> QED BY <2>2, <2>3, <2>4, <2>5, <2>6, <1>1 DEF Sound, Circle, HalfLinked
<1>7. CASE End(mid, p) = bp
  <2>1. new = [[a \in DOMAIN mid \ {bp} |-> mid[a]] EXCEPT
                  ![p] = [next |-> r, size |-> @.size + mid[bp].size]]
    BY <1>7 DEF JoinLower, End, Restrict, r
  <2>2. /\ DOMAIN new = DOMAIN mid \ {bp}
        /\ new[p].next = r /\ new[p].size = mid[p].size + mid[bp].size
        /\ \A a \in DOMAIN mid \ {p, bp} : new[a] = mid[a]
    BY <2>1, <1>1
  <2>3. /\ End(new, p) = End(mid, bp)
        /\ \A a \in DOMAIN mid \ {p, bp} : End(new, a) = End(mid, a)
    BY <2>2, <1>7, <1>1, <1>4 DEF End
  <2>4. p # 0
    BY <1>7, <1>1 DEF HalfLinked, Tiled, End
  <2>5. FreeIn(new) = FreeIn(mid) \ {bp} /\ TakenIn(new) = TakenIn(mid)
    BY <2>2, <1>1, <1>3, HeapAssumption DEF FreeIn, TakenIn
  <2>6. Tiled(new, units)
    <3>1. new \in [DOMAIN new -> [next : Nat \cup {InUse}, size : Nat]]
      <4>1. r \in Nat /\ mid[p].size + mid[bp].size \in Nat
        BY <1>1, <1>3, <1>4
      <4>2. \A a \in DOMAIN mid : mid[a] \in [next : Nat \cup {InUse}, size : Nat]
        BY DEF HalfLinked, Tiled
      <4>3. \A a \in DOMAIN new : new[a] \in [next : Nat \cup {InUse}, size : Nat]
        BY <4>1, <4>2, <2>1, <2>2
      <4> QED BY <4>3, <2>1
    <3>2. ASSUME NEW a \in DOMAIN new
          PROVE  /\ new[a].size = 0 <=> a = 0
                 /\ End(new, a) <= units + 1
                 /\ \A b \in DOMAIN new : a < b => End(new, a) <= b
      <4>1. CASE a = p
        <5>1. mid[p].size # 0
          BY <1>1, <2>4 DEF HalfLinked, Tiled
        <5>2. new[a].size # 0
          BY <4>1, <5>1, <2>2, <1>1, <1>4
        <5>3. ASSUME NEW b \in DOMAIN new, p < b PROVE End(mid, bp) <= b
          <6>1. b \in DOMAIN mid /\ b # bp /\ b \in Nat
            BY <2>2, <1>1
          <6>2. bp <= b
            BY <6>1, <5>3, <1>7, <1>1 DEF HalfLinked, Tiled
          <6> QED BY <6>1, <6>2, <1>1 DEF HalfLinked, Tiled
        <5> QED BY <4>1, <5>2, <5>3, <2>3, <2>4, <1>1 DEF HalfLinked, Tiled
      <4>2. CASE a # p
        <5>1. a \in DOMAIN mid \ {p, bp}
          BY <4>2, <2>2
        <5> QED BY <5>1, <2>2, <2>3 DEF HalfLinked, Tiled
      <4> QED BY <4>1, <4>2
    <3>3. ASSUME NEW u \in 1 .. units
          PROVE  \E a \in DOMAIN new : a <= u /\ u < End(new, a)
      <4>1. PICK a \in DOMAIN mid : a <= u /\ u < End(mid, a)
        BY DEF HalfLinked, Tiled
      <4>2. CASE a \in {p, bp}
        <5>1. p \in DOMAIN new /\ p <= u /\ u < End(new, p)
          BY <4>1, <4>2, <2>2, <2>3, <1>1, <1>4, <1>7
        <5> QED BY <5>1
      <4>3. CASE a \notin {p, bp}
        BY <4>1, <4>3, <2>2, <2>3
      <4> QED BY <4>2, <4>3
    <3> QED BY <3>1, <3>2, <3>3 DEF Tiled
  <2>7. ASSUME NEW a \in FreeIn(new) PROVE FollowedBy(new, a, new[a].next)
    <3>1. CASE a = p
      <4>1. r # bp
        BY <1>1, <1>3
      <4> QED BY <3>1, <4>1, <2>2, <2>5, <1>1, <1>2, <1>3 DEF FollowedBy, HalfLinked
    <3>2. CASE a # p
      <4>1. a \in FreeIn(mid) \ {p} /\ a # bp /\ new[a].next = mid[a].next
        BY <3>2, <2>2, <2>5, <1>1
      <4> QED BY <4>1, <2>5, <1>1, <1>5 DEF FollowedBy
    <3> QED BY <3>1, <3>2
  <2>8. ASSUME NEW a \in FreeIn(new) \ {0}, NEW b \in FreeIn(new) \ {0}, End(new, a) = b
        PROVE  FALSE
    <3>1. CASE a = p
      <4>1. End(mid, bp) = b
        BY <3>1, <2>8, <2>3
      <4> QED BY <4>1, <2>5, <1>1 DEF HalfLinked
    <3>2. CASE a # p
      BY <3>2, <2>3, <2>5, <2>8, <1>1 DEF HalfLinked
    <3> QED BY <3>1, <3>2
  <2> QED BY <2>2, <2>4, <2>5, <2>6, <2>7, <2>8, <1>1 DEF Sound, Circle, HalfLinked
<1> QED BY <1>6, <1>7

-------------------------------------------------------------------------------
\* The invariant of the heaps.
HeapInv ==
    /\ DOMAIN node = HeapId /\ node = [h \in HeapId |-> node[h]]
    /\ available \in [HeapId -> Nat]
    /\ count \in [HeapId -> Int]
    /\ \A h \in HeapId :
          /\ Sound(node[h], Units[h])
          /\ available[h] \in FreeIn(node[h])
          /\ count[h] = Cardinality(TakenIn(node[h]))

\* Every block that is taken, by heap and address, before a step and after it.
LEMMA WhatIsTaken ==
    /\ \A h \in HeapId : Taken(h) = TakenIn(node[h])
    /\ \A b : b \in TakenBlocks <=> \E h \in HeapId : \E a \in TakenIn(node[h]) : b = <<h, a>>
    /\ \A b : b \in TakenBlocks' <=> \E h \in HeapId : \E a \in TakenIn(node'[h]) : b = <<h, a>>
<1>1. \A h \in HeapId : Taken(h) = TakenIn(node[h])
  BY DEF Taken, TakenIn
<1>2. TakenBlocks' = UNION {{<<h, a>> : a \in TakenIn(node'[h])} : h \in HeapId}
  BY DEF TakenBlocks, Taken, TakenIn
<1> QED BY <1>1, <1>2 DEF TakenBlocks

\* A heap has finitely many blocks.
LEMMA TakenFinite ==
    ASSUME NEW units \in Nat, NEW nodes, Sound(nodes, units)
    PROVE  IsFiniteSet(DOMAIN nodes) /\ IsFiniteSet(TakenIn(nodes))
<1>1. IsFiniteSet(0 .. units)
  BY FS_Interval
<1>2. DOMAIN nodes \in SUBSET (0 .. units) /\ TakenIn(nodes) \in SUBSET (DOMAIN nodes)
  BY DEF Sound, Circle, TakenIn
<1> QED BY <1>1, <1>2, FS_Subset

\* A new heap is one free block.
LEMMA HeapCreateInv == OS_HeapCreate => HeapInv /\ TakenBlocks = {}
<1> SUFFICES ASSUME OS_HeapCreate PROVE HeapInv /\ TakenBlocks = {}
  OBVIOUS
<1>1. ASSUME NEW h \in HeapId
      PROVE  /\ Sound(node[h], Units[h])
             /\ available[h] \in FreeIn(node[h]) /\ available[h] \in Nat
             /\ TakenIn(node[h]) = {}
             /\ count[h] = 0
  <2>1. Units[h] \in Nat /\ Units[h] >= 1
    BY HeapAssumption
  <2>2. node[h] = [a \in {0, 1} |-> IF a = 0 THEN [next |-> 1, size |-> 0]
                                             ELSE [next |-> 0, size |-> Units[h]]]
    BY DEF OS_HeapCreate
  <2>3. /\ DOMAIN node[h] = {0, 1}
        /\ node[h][0].next = 1 /\ node[h][0].size = 0
        /\ node[h][1].next = 0 /\ node[h][1].size = Units[h]
    BY <2>2
  <2>4. FreeIn(node[h]) = {0, 1} /\ TakenIn(node[h]) = {}
    BY <2>3, HeapAssumption DEF FreeIn, TakenIn
  <2>5. Circle(node[h], Units[h])
    BY <2>1, <2>3, <2>4 DEF Circle, FollowedBy
  <2>6. End(node[h], 0) = 0 /\ End(node[h], 1) = Units[h] + 1
    BY <2>1, <2>3 DEF End
  <2>7. Tiled(node[h], Units[h])
    <3>1. node[h] \in [DOMAIN node[h] -> [next : Nat \cup {InUse}, size : Nat]]
      BY <2>1, <2>2
    <3>2. \A u \in 1 .. Units[h] : \E a \in DOMAIN node[h] : a <= u /\ u < End(node[h], a)
      BY <2>1, <2>3, <2>6
    <3> QED BY <3>1, <3>2, <2>1, <2>3, <2>6 DEF Tiled
  <2>8. Sound(node[h], Units[h])
    BY <2>1, <2>4, <2>5, <2>6, <2>7 DEF Sound
  <2> QED BY <2>4, <2>8 DEF OS_HeapCreate
<1>2. TakenBlocks = {}
  BY <1>1, WhatIsTaken
<1>3. DOMAIN node = HeapId /\ node = [h \in HeapId |-> node[h]]
  BY DEF OS_HeapCreate
<1>4. available \in [HeapId -> Nat] /\ count \in [HeapId -> Int]
  BY DEF OS_HeapCreate
<1> QED BY <1>1, <1>2, <1>3, <1>4, FS_EmptySet DEF HeapInv

\* A search that finds a block takes one that was free.
LEMMA TakeInv ==
    ASSUME HeapInv, NEW h \in HeapId, NEW n \in Nat \ {0},
           NEW i, i = FirstFit(h, Walk(h), n), i # 0, Take(h, Walk(h), i, n),
           NEW b, b = <<h, Address(h, Walk(h), i, n)>>
    PROVE  /\ HeapInv'
           /\ b \in HeapId \X Nat
           /\ b \notin TakenBlocks
           /\ TakenBlocks' = TakenBlocks \cup {b}
<1> DEFINE w == Walk(h)
           at == w[i]
           p == w[i - 1]
           got == at + node[h][at].size - n
           new == TakenFrom(node[h], p, at, n)
<1>1. /\ Units[h] \in Nat /\ Sound(node[h], Units[h]) /\ Circle(node[h], Units[h])
      /\ available[h] \in FreeIn(node[h]) /\ Steps(w, available[h], node[h], Units[h] + 1)
  BY HeapAssumption, WalkSteps DEF HeapInv, Sound
<1>2. /\ Turn(h, w) \in 1 .. Units[h] + 1
      /\ w \in [0 .. Units[h] + 1 -> FreeIn(node[h])]
      /\ \A j \in 0 .. Units[h] + 1 : j > 0 => w[j] = node[h][w[j - 1]].next
  BY SMTT(60), <1>1, WalkIsFree, WalkMeetsAll
<1>3. i \in 1 .. Turn(h, w) /\ node[h][w[i]].size >= n
  <2> DEFINE fits == {j \in 1 .. Turn(h, w) : node[h][w[j]].size >= n}
  <2>1. i = Min(fits) /\ fits # {}
    BY DEF FirstFit
  <2>2. fits \in SUBSET Nat
    OBVIOUS
  <2>3. Min(fits) \in fits
    <3> HIDE DEF fits
    <3> QED BY <2>1, <2>2, LeastOne
  <2> QED BY <2>1, <2>3
<1>4. p \in FreeIn(node[h]) /\ at = node[h][p].next
  BY <1>1, <1>2, <1>3
<1>5. n <= node[h][at].size
  <2>1. at \in FreeIn(node[h])
    BY <1>1, <1>2, <1>3
  <2>2. node[h][at].size \in Nat
    BY <2>1, <1>1, SoundFacts DEF FreeIn
  <2> QED BY <2>2, <1>3
<1> HIDE DEF w, at, p
<1>6. /\ Sound(new, Units[h])
      /\ p \in FreeIn(new)
      /\ got \in Nat /\ got \notin TakenIn(node[h])
      /\ TakenIn(new) = TakenIn(node[h]) \cup {got}
  <2> HIDE DEF got, new
  <2>1. got = at + node[h][at].size - n /\ new = TakenFrom(node[h], p, at, n)
    BY DEF got, new
  <2> QED BY <2>1, <1>1, <1>4, <1>5, TakenFromSound
<1> HIDE DEF new, got
<1>7. /\ node' = [node EXCEPT ![h] = new]
      /\ available' = [available EXCEPT ![h] = p]
      /\ count' = [count EXCEPT ![h] = @ + 1]
  BY DEF Take, w, p, at, new
<1>8. b = <<h, got>>
  BY DEF Address, got, at, w
<1>9. p \in Nat
  BY <1>1, <1>4, SoundFacts
<1>10. Cardinality(TakenIn(new)) = Cardinality(TakenIn(node[h])) + 1
  BY <1>1, <1>6, TakenFinite, FS_AddElement
<1>11. HeapInv'
  <2>1. /\ DOMAIN node' = HeapId /\ node' = [g \in HeapId |-> node'[g]]
        /\ available' \in [HeapId -> Nat] /\ count' \in [HeapId -> Int]
    BY <1>7, <1>9 DEF HeapInv
  <2>2. ASSUME NEW g \in HeapId
        PROVE  /\ Sound(node'[g], Units[g])
               /\ available'[g] \in FreeIn(node'[g])
               /\ count'[g] = Cardinality(TakenIn(node'[g]))
    <3>1. CASE g = h
      <4>1. node'[g] = new /\ available'[g] = p
        BY <3>1, <1>7 DEF HeapInv
      <4>2. count'[g] = Cardinality(TakenIn(new))
        BY <3>1, <1>7, <1>10 DEF HeapInv
      <4> QED BY <4>1, <4>2, <3>1, <1>6
    <3>2. CASE g # h
      BY <3>2, <1>7 DEF HeapInv
    <3> QED BY <3>1, <3>2
  <2> QED BY <2>1, <2>2 DEF HeapInv
<1>12. /\ \A c : c \in TakenBlocks <=> \E g \in HeapId : \E a \in TakenIn(node[g]) : c = <<g, a>>
       /\ \A c : c \in TakenBlocks' <=> \E g \in HeapId : \E a \in TakenIn(node'[g]) : c = <<g, a>>
  BY WhatIsTaken
<1>13. /\ TakenIn(node'[h]) = TakenIn(node[h]) \cup {got}
       /\ \A g \in HeapId \ {h} : node'[g] = node[g]
  BY <1>6, <1>7 DEF HeapInv
<1>14. b \notin TakenBlocks
  BY <1>6, <1>8, <1>12
<1>15. TakenBlocks' = TakenBlocks \cup {b}
  BY <1>8, <1>12, <1>13
<1> QED BY <1>6, <1>8, <1>11, <1>14, <1>15

\* A release gives back one block, and joins it with what is free around it.
LEMMA FreeInv ==
    ASSUME HeapInv, NEW b \in TakenBlocks, rtos__heap_free(b)
    PROVE  HeapInv' /\ TakenBlocks' = TakenBlocks \ {b}
<1>1. PICK h \in HeapId : \E a \in TakenIn(node[h]) : b = <<h, a>>
  BY WhatIsTaken
<1> PICK bp \in TakenIn(node[h]) : b = <<h, bp>>
  BY <1>1
<1> DEFINE w == Walk(h)
           p == Before(node[h], w, bp)
           mid == JoinUpper(node[h], p, bp)
           new == JoinLower(mid, p, bp)
<1>2. /\ Units[h] \in Nat /\ Sound(node[h], Units[h])
      /\ available[h] \in FreeIn(node[h]) /\ Steps(w, available[h], node[h], Units[h] + 1)
  BY HeapAssumption, WalkSteps DEF HeapInv
<1>3. /\ node' = [node EXCEPT ![h] = new]
      /\ available' = [available EXCEPT ![h] = p]
      /\ count' = [count EXCEPT ![h] = @ - 1]
  BY <1>1 DEF rtos__heap_free
<1> HIDE DEF w
<1>4. p \in FreeIn(node[h]) /\ p < bp /\ \A c \in FreeIn(node[h]) : c < bp => c <= p
  <2> HIDE DEF p
  <2>1. p = Before(node[h], w, bp)
    BY DEF p
  <2> QED BY <2>1, <1>2, BeforeIs
<1> HIDE DEF p
<1>5. HalfLinked(mid, Units[h], p, bp) /\ TakenIn(mid) = TakenIn(node[h]) \ {bp}
  <2> HIDE DEF mid
  <2>1. mid = JoinUpper(node[h], p, bp)
    BY DEF mid
  <2> QED BY <2>1, <1>2, <1>4, JoinUpperLinks
<1> HIDE DEF mid
<1>6. Sound(new, Units[h]) /\ p \in FreeIn(new) /\ TakenIn(new) = TakenIn(node[h]) \ {bp}
  <2> HIDE DEF new
  <2>1. new = JoinLower(mid, p, bp)
    BY DEF new
  <2> QED BY <2>1, <1>2, <1>5, JoinLowerSound
<1> HIDE DEF new
<1>7. p \in Nat
  BY <1>2, <1>4, SoundFacts
<1>8. Cardinality(TakenIn(new)) = Cardinality(TakenIn(node[h])) - 1
  BY <1>2, <1>6, TakenFinite, FS_RemoveElement
<1>9. HeapInv'
  <2>1. /\ DOMAIN node' = HeapId /\ node' = [g \in HeapId |-> node'[g]]
        /\ available' \in [HeapId -> Nat] /\ count' \in [HeapId -> Int]
    BY <1>3, <1>7 DEF HeapInv
  <2>2. ASSUME NEW g \in HeapId
        PROVE  /\ Sound(node'[g], Units[g])
               /\ available'[g] \in FreeIn(node'[g])
               /\ count'[g] = Cardinality(TakenIn(node'[g]))
    <3>1. CASE g = h
      <4>1. node'[g] = new /\ available'[g] = p
        BY <3>1, <1>3 DEF HeapInv
      <4>2. count'[g] = Cardinality(TakenIn(new))
        BY <3>1, <1>3, <1>8 DEF HeapInv
      <4> QED BY <4>1, <4>2, <3>1, <1>6
    <3>2. CASE g # h
      BY <3>2, <1>3 DEF HeapInv
    <3> QED BY <3>1, <3>2
  <2> QED BY <2>1, <2>2 DEF HeapInv
<1>10. /\ \A c : c \in TakenBlocks <=> \E g \in HeapId : \E a \in TakenIn(node[g]) : c = <<g, a>>
       /\ \A c : c \in TakenBlocks' <=> \E g \in HeapId : \E a \in TakenIn(node'[g]) : c = <<g, a>>
  BY WhatIsTaken
<1>11. /\ TakenIn(node'[h]) = TakenIn(node[h]) \ {bp}
       /\ \A g \in HeapId \ {h} : node'[g] = node[g]
  BY <1>3, <1>6 DEF HeapInv
<1>12. TakenBlocks' = TakenBlocks \ {b}
  BY <1>1, <1>10, <1>11
<1> QED BY <1>9, <1>12

-------------------------------------------------------------------------------
\* The invariant says what HeapSound says, whose loop sees the whole circle.
LEMMA HeapInvSound == HeapInv => HeapSound
<1> SUFFICES ASSUME HeapInv, NEW h \in HeapId
             PROVE  LET walk == Walk(h)
                        free == {walk[i] : i \in 0 .. Turn(h, walk) - 1}
                    IN  /\ free \cap Taken(h) = {} /\ free \cup Taken(h) = DOMAIN node[h]
                        /\ \A u \in 1 .. Units[h] :
                              Cardinality({a \in DOMAIN node[h] : u \in Block(h, a)}) = 1
                        /\ \A a, b \in free \ {0} : a + node[h][a].size # b
                        /\ count[h] = Cardinality(Taken(h))
  BY DEF HeapSound
<1> DEFINE w == Walk(h)
           free == {w[i] : i \in 0 .. Turn(h, w) - 1}
<1>1. /\ Units[h] \in Nat /\ Sound(node[h], Units[h]) /\ Circle(node[h], Units[h])
      /\ available[h] \in FreeIn(node[h]) /\ Steps(w, available[h], node[h], Units[h] + 1)
      /\ count[h] = Cardinality(TakenIn(node[h]))
  BY HeapAssumption, WalkSteps DEF HeapInv, Sound
<1>2. free = FreeIn(node[h])
  <2> HIDE DEF w
  <2> QED BY <1>1, WalkMeetsAll
<1>3. Taken(h) = TakenIn(node[h])
  BY WhatIsTaken
<1>4. free \cap Taken(h) = {} /\ free \cup Taken(h) = DOMAIN node[h]
  BY <1>1, <1>2, <1>3, SoundFacts
<1>5. ASSUME NEW u \in 1 .. Units[h]
      PROVE  Cardinality({a \in DOMAIN node[h] : u \in Block(h, a)}) = 1
  <2>1. PICK a \in DOMAIN node[h] : a <= u /\ u < End(node[h], a)
    BY <1>1 DEF Sound, Tiled
  <2>2. \A b \in DOMAIN node[h] : b \in Nat /\ node[h][b].size \in Nat
    BY <1>1, SoundFacts
  <2>3. \A b \in DOMAIN node[h] : u \in Block(h, b) <=> b <= u /\ u < End(node[h], b)
    BY <2>2 DEF Block, End
  <2>4. ASSUME NEW b \in DOMAIN node[h], b <= u, u < End(node[h], b) PROVE b = a
    <3>1. ~(a < b) /\ ~(b < a)
      BY <2>1, <2>2, <2>4, <1>1 DEF Sound, Tiled, End
    <3> QED BY <3>1, <2>2
  <2>5. {b \in DOMAIN node[h] : u \in Block(h, b)} = {a}
    BY <2>1, <2>3, <2>4
  <2> QED BY <2>5, FS_Singleton
<1>6. \A a, b \in free \ {0} : a + node[h][a].size # b
  BY <1>1, <1>2 DEF Sound, End
<1> QED BY <1>1, <1>3, <1>4, <1>5, <1>6

\* A search that finds nothing has met every free block, and units side by side that
\* no taken block covers are within one.
LEMMA NothingFits ==
    ASSUME HeapInv, NEW h \in HeapId, NEW n \in Nat \ {0}, FirstFit(h, Walk(h), n) = 0
    PROVE  ~HasRoom(h, n)
<1> DEFINE w == Walk(h)
           t == Turn(h, w)
<1>1. /\ Units[h] \in Nat /\ Sound(node[h], Units[h]) /\ Circle(node[h], Units[h])
      /\ available[h] \in FreeIn(node[h]) /\ Steps(w, available[h], node[h], Units[h] + 1)
  BY HeapAssumption, WalkSteps DEF HeapInv, Sound
<1>2. t \in 1 .. Units[h] + 1 /\ w[t] = w[0] /\ FreeIn(node[h]) = {w[i] : i \in 0 .. t - 1}
  <2> HIDE DEF w
  <2> QED BY <1>1, WalkMeetsAll
<1>3. \A i \in 1 .. t : ~(node[h][w[i]].size >= n)
  <2> DEFINE fits == {i \in 1 .. t : node[h][w[i]].size >= n}
  <2> SUFFICES ASSUME fits # {} PROVE FALSE
    OBVIOUS
  <2>1. Min(fits) = 0
    BY DEF FirstFit
  <2>2. fits \in SUBSET Nat
    BY <1>1, <1>2
  <2>3. Min(fits) \in fits
    <3> HIDE DEF fits
    <3> QED BY <2>2, LeastOne
  <2> QED BY <2>1, <2>3
<1> HIDE DEF w, t
<1>4. ASSUME NEW a \in FreeIn(node[h]) PROVE node[h][a].size < n
  <2>1. PICK i \in 0 .. t - 1 : a = w[i]
    BY <1>2
  <2>2. a = w[IF i = 0 THEN t ELSE i] /\ (IF i = 0 THEN t ELSE i) \in 1 .. t
    BY <2>1, <1>1, <1>2
  <2>3. node[h][a].size \in Nat
    BY <1>1, SoundFacts DEF FreeIn
  <2> QED BY <2>2, <2>3, <1>3
<1> SUFFICES ASSUME HasRoom(h, n) PROVE FALSE
  OBVIOUS
<1>5. PICK a \in 1 .. Units[h] + 1 - n :
          \A b \in TakenIn(node[h]) : Block(h, b) \cap (a .. a + n - 1) = {}
  BY WhatIsTaken DEF HasRoom
<1>6. \A b \in DOMAIN node[h] : b \in Nat /\ node[h][b].size \in Nat
  BY <1>1, SoundFacts
\* A block that covers one of these units is free.
<1>7. ASSUME NEW u \in a .. a + n - 1
      PROVE  \E b \in FreeIn(node[h]) : b <= u /\ u < End(node[h], b)
  <2>1. u \in 1 .. Units[h]
    BY <1>1
  <2>2. PICK b \in DOMAIN node[h] : b <= u /\ u < End(node[h], b)
    BY <2>1, <1>1 DEF Sound, Tiled
  <2>3. u \in Block(h, b)
    BY <2>2, <1>6 DEF Block, End
  <2>4. b \notin TakenIn(node[h])
    BY <2>3, <1>5
  <2>5. b \in FreeIn(node[h])
    BY <2>2, <2>4 DEF FreeIn, TakenIn
  <2> QED BY <2>2, <2>5
<1>8. PICK b \in FreeIn(node[h]) : b <= a /\ a < End(node[h], b)
  <2>1. a \in a .. a + n - 1
    BY <1>1
  <2> QED BY <2>1, <1>7
<1>9. /\ b \in Nat /\ node[h][b].size \in Nat /\ b \in DOMAIN node[h] /\ node[h][b].size < n
      /\ End(node[h], b) = b + node[h][b].size
  BY <1>4, <1>6 DEF FreeIn, End
<1>10. End(node[h], b) \in a .. a + n - 1
  BY <1>1, <1>8, <1>9
<1>11. PICK c \in FreeIn(node[h]) : c <= End(node[h], b) /\ End(node[h], b) < End(node[h], c)
  BY <1>7, <1>10
<1>12. /\ c \in DOMAIN node[h] /\ c \in Nat
       /\ End(node[h], c) \in Nat /\ End(node[h], b) \in Nat
  <2>1. c \in DOMAIN node[h] /\ c \in Nat /\ node[h][c].size \in Nat
    BY <1>6 DEF FreeIn
  <2> QED BY <2>1, <1>9 DEF End
<1>13. c > b
  <2>1. ~(c < b)
    <3>1. c < b => End(node[h], c) <= b
      BY <1>1, <1>9, <1>12 DEF Sound, Tiled
    <3> QED BY <3>1, <1>1, <1>8, <1>9, <1>11, <1>12
  <2> QED BY <2>1, <1>9, <1>11, <1>12
<1>14. c = End(node[h], b)
  <2>1. End(node[h], b) <= c
    BY <1>1, <1>9, <1>12, <1>13 DEF Sound, Tiled
  <2> QED BY <2>1, <1>9, <1>11, <1>12
<1>15. b # 0 /\ c # 0
  BY <1>1, <1>8, <1>9, <1>13 DEF Sound, Tiled
<1> QED BY <1>1, <1>14, <1>15 DEF Sound

-------------------------------------------------------------------------------
Location == HeapId \X Nat
Phase == {"none", "live", "dead", "pend", "free", "clear", "alloc", "exit"}

ThreadsTyped ==
    /\ pc \in [Thread -> Phase]
    /\ then \in [Thread -> {"exit", "alloc"}]
    /\ want \in [Thread -> Nat]
    /\ heap \in [Thread -> HeapId]
    /\ block \in [Thread -> Location \cup {None}]
    /\ SemaphoreRelease \in Thread \cup {None}
    /\ NeedToFree \in Location \cup {None}

\* One thread at a time looks at NeedToFree with the semaphore; a creation knows how
\* much it wants; a name that is not used has no block.
CallsOrdered ==
    \A t \in Thread :
        /\ pc[t] \in {"free", "clear"} <=> SemaphoreRelease = t
        /\ pc[t] = "none" => block[t] = None
        /\ pc[t] \in {"pend", "free", "clear"} /\ then[t] = "alloc" => want[t] \in Size
        /\ pc[t] = "alloc" => want[t] \in Size
        /\ pc[t] = "exit" => then[t] = "exit"

\* The inductive invariant.
MemoryInv == HeapInv /\ ThreadsTyped /\ CallsOrdered /\ BlocksOwned

\* At the start nothing is taken.
LEMMA MemoryInvInit == Init => MemoryInv
<1> SUFFICES ASSUME Init PROVE MemoryInv
  OBVIOUS
<1>1. HeapInv /\ TakenBlocks = {}
  BY HeapCreateInv DEF Init
<1>2. ThreadsTyped
  <2>1. want \in [Thread -> Nat] /\ heap \in [Thread -> HeapId]
    BY ThreadMemoryAssumption DEF Init
  <2> QED BY <2>1 DEF Init, ThreadsTyped, Phase
<1>3. CallsOrdered
  BY ThreadMemoryAssumption DEF Init, CallsOrdered
<1>4. BlocksOwned
  BY <1>1 DEF Init, BlocksOwned
<1> QED BY <1>1, <1>2, <1>3, <1>4 DEF MemoryInv

\* What is out depends on the nodes only.
LEMMA HeapsAlone == UNCHANGED heapVars => (HeapInv => HeapInv') /\ TakenBlocks' = TakenBlocks
BY DEF heapVars, HeapInv, TakenBlocks, Taken

\* The release semaphore makes the block in NeedToFree one that is still taken.
LEMMA FreeDeadInv ==
    ASSUME MemoryInv, NEW t \in Thread, FreeDead(t)
    PROVE  MemoryInv'
<1>1. /\ pc[t] = "free" /\ SemaphoreRelease = t
      /\ \A u \in Thread : pc[u] # "clear"
      /\ UNCHANGED <<then, want, heap, SemaphoreRelease, NeedToFree>>
  BY ThreadMemoryAssumption DEF FreeDead, MemoryInv, CallsOrdered
<1>2. CASE NeedToFree = None
  <2>1. UNCHANGED <<heapVars, block>> /\ pc' = [pc EXCEPT ![t] = "clear"]
    BY <1>2 DEF FreeDead, Goto
  <2>2. ThreadsTyped' /\ CallsOrdered'
    BY <1>1, <2>1 DEF MemoryInv, ThreadsTyped, CallsOrdered, Phase
  <2>3. BlocksOwned'
    BY <1>1, <1>2, <2>1, HeapsAlone DEF MemoryInv, BlocksOwned, ThreadsTyped
  <2> QED BY <2>1, <2>2, <2>3, HeapsAlone DEF MemoryInv
<1>3. CASE NeedToFree # None
  <2> DEFINE dead == {u \in Thread : block[u] = NeedToFree}
  <2>1. PICK d \in Thread : block[d] = NeedToFree /\ pc[d] = "dead"
    BY <1>1, <1>3 DEF MemoryInv, BlocksOwned
  <2>2. dead = {d}
    BY <1>3, <2>1 DEF MemoryInv, BlocksOwned
  <2>3. NeedToFree \in TakenBlocks
    BY <1>3, <2>1 DEF MemoryInv, BlocksOwned
  <2>4. /\ rtos__heap_free(NeedToFree)
        /\ pc' = [u \in Thread |-> IF u = t THEN "clear" ELSE IF u = d THEN "none" ELSE pc[u]]
        /\ block' = [u \in Thread |-> IF u = d THEN None ELSE block[u]]
    BY <1>3, <2>2 DEF FreeDead
  <2>5. HeapInv' /\ TakenBlocks' = TakenBlocks \ {NeedToFree}
    BY <2>3, <2>4, FreeInv DEF MemoryInv
  <2>6. t # d
    BY <1>1, <2>1
  <2>7. ThreadsTyped'
    BY <1>1, <2>4 DEF MemoryInv, ThreadsTyped, Phase
  <2>8. CallsOrdered'
    BY <1>1, <2>1, <2>4, <2>6 DEF MemoryInv, CallsOrdered, ThreadsTyped
  <2>9. BlocksOwned'
    <3>1. TakenBlocks' = {block'[u] : u \in {v \in Thread : block'[v] # None}}
      <4>1. TakenBlocks = {block[u] : u \in {v \in Thread : block[v] # None}}
        BY DEF MemoryInv, BlocksOwned
      <4>2. \A u \in Thread : block[u] # None /\ u # d => block[u] # NeedToFree
        BY <2>2
      <4> QED BY <4>1, <4>2, <2>1, <2>4, <2>5
    <3>2. \A u, v \in Thread : block'[u] # None /\ block'[v] # None /\ u # v => block'[u] # block'[v]
      BY <2>4 DEF MemoryInv, BlocksOwned
    <3>3. pc'[t] = "clear"
      BY <2>4
    <3> QED BY <3>1, <3>2, <3>3 DEF BlocksOwned
  <2> QED BY <2>5, <2>7, <2>8, <2>9 DEF MemoryInv
<1> QED BY <1>2, <1>3

\* A creation takes a block nobody has, for a thread that has none.
LEMMA HeapAllocInv ==
    ASSUME MemoryInv, NEW t \in Thread, rtos__heap_alloc(t)
    PROVE  MemoryInv'
<1> DEFINE h == heap[t]
           n == want[t]
           i == FirstFit(h, Walk(h), n)
           b == <<h, Address(h, Walk(h), i, n)>>
<1>1. /\ pc[t] = "alloc" /\ h \in HeapId /\ n \in Nat \ {0} /\ n \in Size
      /\ SemaphoreRelease # t
  BY ThreadMemoryAssumption DEF rtos__heap_alloc, MemoryInv, ThreadsTyped, CallsOrdered
<1>2. CASE i = 0
  <2>1. NotCreated(t)
    BY <1>2 DEF rtos__heap_alloc
  <2> DEFINE next == Alternate[heap[t]]
  <2>2. /\ pc' = [pc EXCEPT ![t] = IF next = None THEN "live" ELSE "alloc"]
        /\ heap' = [heap EXCEPT ![t] = IF next = None THEN FirstHeap ELSE next]
        /\ UNCHANGED <<heapVars, block, SemaphoreRelease, NeedToFree>>
    BY <2>1 DEF NotCreated, Goto, Returns
  <2>3. \/ /\ next = None
           /\ want' = [want EXCEPT ![t] = 0] /\ then' = [then EXCEPT ![t] = "exit"]
        \/ next # None /\ UNCHANGED <<want, then>>
    BY <2>1 DEF NotCreated, Returns
  <2>4. (IF next = None THEN FirstHeap ELSE next) \in HeapId
    BY <1>1, HeapAssumption, ThreadMemoryAssumption
  <2> HIDE DEF next
  <2>5. ThreadsTyped'
    BY <1>1, <2>2, <2>3, <2>4 DEF MemoryInv, ThreadsTyped, Phase
  <2>6. CallsOrdered'
    BY <1>1, <2>2, <2>3 DEF MemoryInv, ThreadsTyped, CallsOrdered
  <2>7. BlocksOwned'
    <3>1. \A u \in Thread : /\ pc[u] = "dead" => pc'[u] = "dead"
                            /\ pc'[u] = "clear" <=> pc[u] = "clear"
      BY <1>1, <2>2 DEF MemoryInv, ThreadsTyped
    <3> QED BY <3>1, <2>2, HeapsAlone DEF MemoryInv, BlocksOwned
  <2> QED BY <2>2, <2>5, <2>6, <2>7, HeapsAlone DEF MemoryInv
<1>3. CASE i # 0
  <2>1. Take(h, Walk(h), i, n) /\ Created(t, b)
    BY <1>3 DEF rtos__heap_alloc
  <2>2. HeapInv' /\ b \in Location /\ b \notin TakenBlocks /\ TakenBlocks' = TakenBlocks \cup {b}
    <3> HIDE DEF i, h, n, b
    <3>1. i = FirstFit(h, Walk(h), n) /\ b = <<h, Address(h, Walk(h), i, n)>>
      BY DEF i, b
    <3> QED BY <3>1, <2>1, <1>1, <1>3, TakeInv DEF MemoryInv, Location
  <2> HIDE DEF b, i, n, h
  <2>3. PICK u \in Thread :
            /\ pc[u] = "none"
            /\ pc' = [pc EXCEPT ![t] = "live", ![u] = "live"]
            /\ block' = [block EXCEPT ![u] = b]
            /\ heap' = [heap EXCEPT ![t] = FirstHeap]
            /\ want' = [want EXCEPT ![t] = 0]
            /\ then' = [then EXCEPT ![t] = "exit"]
            /\ UNCHANGED <<SemaphoreRelease, NeedToFree>>
    BY <2>1 DEF Created, Returns
  <2>4. /\ t # u /\ block[u] = None /\ b # None
        /\ block'[u] = b /\ \A v \in Thread \ {u} : block'[v] = block[v]
    BY <1>1, <2>2, <2>3, HeapAssumption DEF MemoryInv, ThreadsTyped, CallsOrdered, Location
  <2>5. ThreadsTyped'
    BY <1>1, <2>2, <2>3, ThreadMemoryAssumption DEF MemoryInv, ThreadsTyped, Phase
  <2>6. CallsOrdered'
    BY <1>1, <2>3, <2>4 DEF MemoryInv, ThreadsTyped, CallsOrdered
  <2>7. BlocksOwned'
    <3>1. TakenBlocks = {block[v] : v \in {x \in Thread : block[x] # None}}
      BY DEF MemoryInv, BlocksOwned
    <3>2. TakenBlocks' = {block'[v] : v \in {x \in Thread : block'[x] # None}}
      BY <2>2, <2>4, <3>1
    <3>3. \A v, x \in Thread : block'[v] # None /\ block'[x] # None /\ v # x => block'[v] # block'[x]
      BY <2>2, <2>4, <3>1 DEF MemoryInv, BlocksOwned
    <3>4. \A v \in Thread : /\ pc[v] = "dead" => pc'[v] = "dead"
                            /\ pc'[v] = "clear" <=> pc[v] = "clear"
      BY <1>1, <2>3 DEF MemoryInv, ThreadsTyped
    <3> QED BY <3>2, <3>3, <3>4, <2>3, <2>4 DEF MemoryInv, BlocksOwned
  <2> QED BY <2>2, <2>5, <2>6, <2>7 DEF MemoryInv
<1> QED BY <1>2, <1>3

\* Every step keeps the invariant.
LEMMA MemoryInvNext == MemoryInv /\ [Next]_vars => MemoryInv'
<1> SUFFICES ASSUME MemoryInv, [Next]_vars PROVE MemoryInv'
  OBVIOUS
<1> USE DEF MemoryInv
<1>1. ASSUME UNCHANGED heapVars, ThreadsTyped', CallsOrdered', UNCHANGED block,
             NeedToFree' \in {NeedToFree, None},
             \A u \in Thread : /\ pc[u] = "dead" => pc'[u] = "dead"
                               /\ pc[u] = "clear" /\ NeedToFree' # None => pc'[u] = "clear"
      PROVE  MemoryInv'
  BY <1>1, HeapsAlone DEF BlocksOwned
<1>2. ASSUME NEW t \in Thread, CallCreate(t) PROVE MemoryInv'
  <2>1. PICK n \in Size : want' = [want EXCEPT ![t] = n]
    BY <1>2 DEF CallCreate
  <2>2. /\ pc[t] = "live" /\ pc' = [pc EXCEPT ![t] = "pend"]
        /\ then' = [then EXCEPT ![t] = "alloc"] /\ heap' = [heap EXCEPT ![t] = FirstHeap]
        /\ UNCHANGED <<heapVars, block, SemaphoreRelease, NeedToFree>>
    BY <1>2 DEF CallCreate, Call, Goto
  <2>3. ThreadsTyped'
    BY <2>1, <2>2, ThreadMemoryAssumption DEF ThreadsTyped, Phase
  <2>4. CallsOrdered'
    BY <2>1, <2>2 DEF ThreadsTyped, CallsOrdered
  <2> QED BY <1>1, <2>2, <2>3, <2>4 DEF ThreadsTyped
<1>3. ASSUME NEW t \in Thread, CallExit(t) PROVE MemoryInv'
  <2>1. /\ pc[t] = "live" /\ pc' = [pc EXCEPT ![t] = "pend"]
        /\ then' = [then EXCEPT ![t] = "exit"]
        /\ UNCHANGED <<heapVars, block, SemaphoreRelease, NeedToFree, want, heap>>
    BY <1>3 DEF CallExit, Call, Goto
  <2>2. ThreadsTyped'
    BY <2>1 DEF ThreadsTyped, Phase
  <2>3. CallsOrdered'
    BY <2>1 DEF ThreadsTyped, CallsOrdered
  <2> QED BY <1>1, <2>1, <2>2, <2>3 DEF ThreadsTyped
<1>4. ASSUME NEW t \in Thread, PendRelease(t) PROVE MemoryInv'
  <2>1. /\ pc[t] = "pend" /\ SemaphoreRelease = None /\ SemaphoreRelease' = t
        /\ pc' = [pc EXCEPT ![t] = "free"]
        /\ UNCHANGED <<heapVars, then, want, heap, block, NeedToFree>>
    BY <1>4 DEF PendRelease, Goto
  <2>2. ThreadsTyped'
    BY <2>1 DEF ThreadsTyped, Phase
  <2>3. CallsOrdered'
    BY <2>1, ThreadMemoryAssumption DEF ThreadsTyped, CallsOrdered
  <2> QED BY <1>1, <2>1, <2>2, <2>3 DEF ThreadsTyped
<1>5. ASSUME NEW t \in Thread, FreeDead(t) PROVE MemoryInv'
  BY <1>5, FreeDeadInv
<1>6. ASSUME NEW t \in Thread, ClearAndPost(t) PROVE MemoryInv'
  <2>1. /\ pc[t] = "clear" /\ SemaphoreRelease' = None /\ NeedToFree' = None
        /\ pc' = [pc EXCEPT ![t] = then[t]]
        /\ UNCHANGED <<heapVars, then, want, heap, block>>
    BY <1>6 DEF ClearAndPost, Goto
  <2>2. ThreadsTyped'
    BY <2>1 DEF ThreadsTyped, Phase
  <2>3. CallsOrdered'
    BY <2>1, ThreadMemoryAssumption DEF ThreadsTyped, CallsOrdered
  <2> QED BY <1>1, <2>1, <2>2, <2>3 DEF ThreadsTyped
<1>7. ASSUME NEW t \in Thread, rtos__heap_alloc(t) PROVE MemoryInv'
  BY <1>7, HeapAllocInv
<1>8. ASSUME NEW t \in Thread, ExitCheck(t) PROVE MemoryInv'
  <2>1. pc[t] = "exit" /\ UNCHANGED <<heapVars, then, want, heap, block, SemaphoreRelease>>
    BY <1>8 DEF ExitCheck
  <2>2. \/ pc' = [pc EXCEPT ![t] = "pend"] /\ NeedToFree' = NeedToFree
        \/ pc' = [pc EXCEPT ![t] = "dead"] /\ NeedToFree' = block[t]
    BY <1>8 DEF ExitCheck, Goto
  <2>3. ThreadsTyped'
    BY <2>1, <2>2 DEF ThreadsTyped, Phase
  <2>4. CallsOrdered'
    BY <2>1, <2>2 DEF ThreadsTyped, CallsOrdered
  <2>5. BlocksOwned'
    BY <2>1, <2>2, HeapsAlone DEF ThreadsTyped, BlocksOwned
  <2> QED BY <2>1, <2>3, <2>4, <2>5, HeapsAlone
<1>9. CASE UNCHANGED vars
  <2>1. UNCHANGED heapVars /\ ThreadsTyped' /\ CallsOrdered' /\ UNCHANGED <<block, NeedToFree, pc>>
    BY <1>9 DEF vars, heapVars, ThreadsTyped, CallsOrdered
  <2> QED BY <1>1, <2>1
<1> QED
  BY <1>2, <1>3, <1>4, <1>5, <1>6, <1>7, <1>8, <1>9 DEF Next, Step

\* The free list and the blocks that are taken share every unit of every heap, free
\* neighbours are joined and the count is right, whatever is created and exits.
THEOREM HeapStaysSound == Spec => []HeapSound
<1>1. MemoryInv => HeapSound
  BY HeapInvSound DEF MemoryInv
<1> QED BY <1>1, MemoryInvInit, MemoryInvNext, PTL DEF Spec

\* No block is freed under a thread that runs on it, none twice and none that is not
\* out: each one has a single owner until its owner is dead and it is freed.
THEOREM EveryBlockOwned == Spec => []BlocksOwned
<1>1. MemoryInv => BlocksOwned
  BY DEF MemoryInv
<1> QED BY <1>1, MemoryInvInit, MemoryInvNext, PTL DEF Spec

\* What a step must do with a creation: the body of ServesWhatFits.
Serves ==
    \A t \in Thread :
        /\ pc[t] = "alloc" /\ TakenBlocks' = TakenBlocks
        /\ pc'[t] # "alloc" \/ heap'[t] # heap[t]
        => ~HasRoom(heap[t], want[t])

\* A creation leaves a heap without a block only after a search that found nothing.
LEMMA NextServes == MemoryInv /\ [Next]_vars => [Serves]_vars
<1> SUFFICES ASSUME MemoryInv, Next, NEW t \in Thread,
                    pc[t] = "alloc", TakenBlocks' = TakenBlocks,
                    pc'[t] # "alloc" \/ heap'[t] # heap[t]
             PROVE  ~HasRoom(heap[t], want[t])
  BY DEF Serves
<1>1. rtos__heap_alloc(t)
  <2>1. ASSUME NEW u \in Thread,
               CallCreate(u) \/ CallExit(u) \/ PendRelease(u) \/ FreeDead(u)
                 \/ ClearAndPost(u) \/ ExitCheck(u)
        PROVE  pc'[t] = "alloc" /\ heap'[t] = heap[t]
    <3>1. CASE FreeDead(u)
      <4>1. \A v \in Thread : NeedToFree # None /\ block[v] = NeedToFree => pc[v] = "dead"
        <5> SUFFICES ASSUME NEW v \in Thread, NeedToFree # None, block[v] = NeedToFree
                     PROVE  pc[v] = "dead"
          OBVIOUS
        <5>1. \A x \in Thread : pc[x] # "clear"
          BY <3>1, ThreadMemoryAssumption DEF FreeDead, MemoryInv, CallsOrdered
        <5> QED BY <5>1 DEF MemoryInv, BlocksOwned
      <4> QED BY <4>1, <3>1 DEF FreeDead, Goto, MemoryInv, ThreadsTyped
    <3>2. CASE ~FreeDead(u)
      <4>1. u # t
        BY <2>1, <3>2 DEF CallCreate, CallExit, Call, PendRelease, ClearAndPost, ExitCheck
      <4> QED BY <4>1, <2>1, <3>2 DEF CallCreate, CallExit, Call, PendRelease, ClearAndPost,
                                      ExitCheck, Goto, MemoryInv, ThreadsTyped
    <3> QED BY <3>1, <3>2
  <2>2. PICK u \in Thread : rtos__heap_alloc(u)
    BY <2>1 DEF Next, Step
  <2>3. CASE u # t
    <3>1. CASE NotCreated(u)
      BY <2>3, <3>1 DEF NotCreated, Goto, MemoryInv, ThreadsTyped
    <3>2. ASSUME NEW b, Created(u, b) PROVE pc'[t] = "alloc" /\ heap'[t] = heap[t]
      BY <2>3, <3>2 DEF Created, MemoryInv, ThreadsTyped
    <3> QED BY <3>1, <3>2, <2>2 DEF rtos__heap_alloc
  <2> QED BY <2>2, <2>3
<1>2. heap[t] \in HeapId /\ want[t] \in Nat \ {0}
  BY ThreadMemoryAssumption DEF MemoryInv, ThreadsTyped, CallsOrdered
<1>3. FirstFit(heap[t], Walk(heap[t]), want[t]) = 0
  <2> DEFINE h == heap[t]
             n == want[t]
             i == FirstFit(h, Walk(h), n)
             b == <<h, Address(h, Walk(h), i, n)>>
  <2> SUFFICES ASSUME i # 0 PROVE FALSE
    OBVIOUS
  <2>1. Take(h, Walk(h), i, n)
    BY <1>1 DEF rtos__heap_alloc
  <2>2. b \notin TakenBlocks /\ TakenBlocks' = TakenBlocks \cup {b}
    <3> HIDE DEF i, h, n, b
    <3>1. i = FirstFit(h, Walk(h), n) /\ b = <<h, Address(h, Walk(h), i, n)>>
      BY DEF i, b
    <3>2. h \in HeapId /\ n \in Nat \ {0}
      BY <1>2 DEF h, n
    <3> QED BY <3>1, <3>2, <2>1, TakeInv DEF MemoryInv
  <2> HIDE DEF b
  <2> QED BY <2>2
<1> QED BY <1>2, <1>3, NothingFits DEF MemoryInv

\* A creation goes on or fails only when the heap it searched has no room, however
\* its free units came together.
THEOREM ServedIfItFits == Spec => ServesWhatFits
<1>1. MemoryInv /\ [Next]_vars => [Serves]_vars
  BY NextServes
<1> QED BY <1>1, MemoryInvInit, MemoryInvNext, PTL DEF Spec, ServesWhatFits, Serves

=============================================================================
