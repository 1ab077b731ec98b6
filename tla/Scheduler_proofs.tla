--------------------------- MODULE Scheduler_proofs ---------------------------
(***************************************************************************)
(* Safety of the scheduler (Kernel) for every number of threads and        *)
(* semaphores, all priorities, timeouts and counter widths, of the length  *)
(* of sleeps (KernelClock), and of the mutexes (Mutex) whose calls are     *)
(* made of its steps.                                                      *)
(*                                                                         *)
(* The invariant of the scheduler is TypeOK and the placement of every     *)
(* control block, strengthened by two facts: the idle thread never sleeps, *)
(* and swaps are on once a thread runs.  It is kept by mutex calls,        *)
(* because every step of one is an action of the scheduler; what is added  *)
(* for them says where a thread is in its call when it sleeps on a mutex,  *)
(* and where the one token of each mutex is.                               *)
(***************************************************************************)
EXTENDS Mutex, KernelClock, TLAPS, WellFoundedInduction

\* First the lists: an insertion adds one node and a removal takes one away, and
\* both keep the others and their order.

\* r is l with t linked in at position k.
LinkedAt(r, l, t, k) ==
    /\ Len(r) = Len(l) + 1
    /\ \A j \in 1 .. Len(r) :
          r[j] = IF j < k THEN l[j] ELSE IF j = k THEN t ELSE l[j - 1]

\* r is l without its position k.
RemovedAt(r, l, k) ==
    /\ Len(r) = Len(l) - 1
    /\ \A j \in 1 .. Len(r) : r[j] = IF j < k THEN l[j] ELSE l[j + 1]

\* The minimum SelectInSeq picks exists: every non-empty set of naturals has one.
LEMMA MinOfNats ==
    ASSUME NEW I \in SUBSET Nat, I # {}
    PROVE  Min(I) \in I /\ \A y \in I : Min(I) <= y
<1>1. \E x \in I : \A y \in I : x <= y
  <2> DEFINE R == {ss \in Nat \X Nat : ss[1] < ss[2]}
  <2>1. OpToRel(<, Nat) = R
    BY Zenon DEF OpToRel
  <2>2. IsWellFoundedOn(R, Nat)
    BY <2>1, NatLessThanWellFounded, Zenon
  <2>3. PICK x \in I : \A y \in I : ~ (<<y, x>> \in R)
    <3> HIDE DEF R
    <3> QED BY <2>2, WFMin, Zenon
  <2>4. ASSUME NEW y \in I PROVE x <= y
    <3>1. <<y, x>> \notin R
      BY <2>3
    <3>2. <<y, x>> \in Nat \X Nat
      OBVIOUS
    <3>3. ~ (<<y, x>>[1] < <<y, x>>[2])
      BY <3>1, <3>2
    <3> QED BY <3>3
  <2> QED BY <2>4
<1> QED BY <1>1 DEF Min

\* Both branches of LinkBefore link the node in at one position.
LEMMA LinkBeforeLinks ==
    ASSUME NEW T, NEW l \in Seq(T), NEW t \in T, NEW i \in 0 .. Len(l)
    PROVE  /\ LinkBefore(l, i, t) \in Seq(T)
           /\ LinkedAt(LinkBefore(l, i, t), l, t, IF i = 0 THEN Len(l) + 1 ELSE i)
<1>1. CASE i = 0
  BY <1>1 DEF LinkBefore, LinkedAt
<1>2. CASE i # 0
  <2> DEFINE a == SubSeq(l, 1, i - 1)
             b == SubSeq(l, i, Len(l))
  <2>1. a \in Seq(T) /\ Len(a) = i - 1 /\ \A j \in 1 .. i - 1 : a[j] = l[j]
    BY <1>2
  <2>2. b \in Seq(T) /\ Len(b) = Len(l) - i + 1
        /\ \A j \in 1 .. Len(l) - i + 1 : b[j] = l[i + j - 1]
    BY <1>2
  <2>3. LinkBefore(l, i, t) = a \o <<t>> \o b
    BY <1>2 DEF LinkBefore, InsertAt
  <2> HIDE DEF a, b
  <2> DEFINE c == a \o <<t>>
  <2>4. c \in Seq(T) /\ Len(c) = i
        /\ \A j \in 1 .. i : c[j] = IF j < i THEN l[j] ELSE t
    BY <1>2, <2>1
  <2>5. LinkBefore(l, i, t) = c \o b
    BY <2>3
  <2> HIDE DEF c
  <2>6. c \o b \in Seq(T)
    BY <2>2, <2>4
  <2>7. Len(c \o b) = Len(l) + 1
    BY <1>2, <2>2, <2>4
  <2>8. ASSUME NEW j \in 1 .. Len(l) + 1
        PROVE  (c \o b)[j] = IF j < i THEN l[j] ELSE IF j = i THEN t ELSE l[j - 1]
    BY <1>2, <2>2, <2>4
  <2> QED BY <1>2, <2>5, <2>6, <2>7, <2>8 DEF LinkedAt
<1> QED BY <1>1, <1>2

\* The position the loop of OS_ThreadPriorityInsert stops at: 0 or the first node
\* of a lower priority.
LEMMA PriorityInsertPosition ==
    ASSUME NEW T, NEW l \in Seq(T), NEW t \in T, NEW prio \in [T -> Nat]
    PROVE  \E i \in 0 .. Len(l) :
              /\ PriorityInsert(l, t, prio) = LinkBefore(l, i, t)
              /\ i = 0 => \A j \in 1 .. Len(l) : prio[l[j]] >= prio[t]
              /\ i # 0 => /\ prio[l[i]] < prio[t]
                          /\ \A j \in 1 .. i - 1 : prio[l[j]] >= prio[t]
<1> DEFINE I == {j \in 1 .. Len(l) : prio[l[j]] < prio[t]}
           i == IF I # {} THEN Min(I) ELSE 0
<1>1. PriorityInsert(l, t, prio) = LinkBefore(l, i, t)
  BY DEF PriorityInsert, SelectInSeq
<1>2. I \in SUBSET Nat
  OBVIOUS
<1> SUFFICES /\ i \in 0 .. Len(l)
             /\ i = 0 => \A j \in 1 .. Len(l) : prio[l[j]] >= prio[t]
             /\ i # 0 => /\ prio[l[i]] < prio[t]
                         /\ \A j \in 1 .. i - 1 : prio[l[j]] >= prio[t]
  BY <1>1
<1>3. CASE I = {}
  BY <1>3
<1>4. CASE I # {}
  <2>1. i \in I /\ \A j \in I : i <= j
    <3> HIDE DEF I
    <3> QED BY <1>2, <1>4, MinOfNats
  <2>2. i \in 1 .. Len(l) /\ prio[l[i]] < prio[t]
    BY <2>1
  <2>3. ASSUME NEW j \in 1 .. i - 1 PROVE prio[l[j]] >= prio[t]
    <3>1. j \in 1 .. Len(l) /\ j < i
      BY SMTT(60), <2>2
    <3>2. j \notin I
      <4> HIDE DEF I
      <4> QED BY <2>1, <2>2, <3>1
    <3>3. prio[l[j]] \in Nat /\ prio[t] \in Nat
      BY <3>1
    <3> QED BY <3>1, <3>2, <3>3
  <2> HIDE DEF i
  <2> QED BY <2>2, <2>3
<1> QED BY <1>3, <1>4

\* The position the loop of OS_ThreadTimeoutInsert stops at: 0 or the first node
\* that is not due before the new one.
LEMMA TimeoutInsertPosition ==
    ASSUME NEW T, NEW l \in Seq(T), NEW t \in T, NEW due \in [T -> Tick]
    PROVE  \E i \in 0 .. Len(l) :
              /\ TimeoutInsert(l, t, due) = LinkBefore(l, i, t)
              /\ i = 0 => \A j \in 1 .. Len(l) : ~(SignedDiff(due[t], due[l[j]]) <= 0)
              /\ i # 0 => /\ SignedDiff(due[t], due[l[i]]) <= 0
                          /\ \A j \in 1 .. i - 1 : ~(SignedDiff(due[t], due[l[j]]) <= 0)
<1> DEFINE late(j) == SignedDiff(due[t], due[l[j]]) <= 0
           I == {j \in 1 .. Len(l) : late(j)}
           i == IF I # {} THEN Min(I) ELSE 0
<1>1. TimeoutInsert(l, t, due) = LinkBefore(l, i, t)
  BY DEF TimeoutInsert, SelectInSeq
<1> HIDE DEF late
<1>2. I \in SUBSET Nat
  OBVIOUS
<1>3. CASE I = {}
  <2>1. i = 0 /\ 0 \in 0 .. Len(l) /\ \A j \in 1 .. Len(l) : ~late(j)
    BY <1>3
  <2> QED BY <1>1, <2>1 DEF late
<1>4. CASE I # {}
  <2>1. i \in I /\ \A j \in I : i <= j
    <3> HIDE DEF I
    <3> QED BY <1>2, <1>4, MinOfNats
  <2>2. i \in 1 .. Len(l) /\ i \in 0 .. Len(l) /\ i # 0 /\ late(i)
    BY <2>1
  <2>3. ASSUME NEW j \in 1 .. i - 1 PROVE ~late(j)
    <3>1. j \in 1 .. Len(l) /\ j < i
      BY <2>2
    <3>2. j \notin I
      <4> HIDE DEF I
      <4> QED BY <2>1, <2>2, <3>1
    <3> QED BY <3>1, <3>2
  <2> HIDE DEF i
  <2> QED BY <1>1, <2>2, <2>3 DEF late
<1> QED BY <1>3, <1>4

\* Linking a node in adds it to the set of nodes, and twice only if it was there.
LEMMA LinkedSet ==
    ASSUME NEW T, NEW l \in Seq(T), NEW r \in Seq(T), NEW t \in T,
           NEW k \in 1 .. Len(l) + 1, LinkedAt(r, l, t, k)
    PROVE  /\ ToSet(r) = ToSet(l) \cup {t}
           /\ IsInjective(l) /\ t \notin ToSet(l) => IsInjective(r)
<1>1. ToSet(r) \subseteq ToSet(l) \cup {t}
  BY DEF ToSet, LinkedAt
<1>2. t \in ToSet(r)
  <2>1. r[k] = t /\ k \in DOMAIN r
    BY DEF LinkedAt
  <2> QED BY <2>1 DEF ToSet
<1>3. ASSUME NEW j \in 1 .. Len(l) PROVE l[j] \in ToSet(r)
  <2>1. CASE j < k
    <3>1. r[j] = l[j] /\ j \in DOMAIN r
      BY <2>1 DEF LinkedAt
    <3> QED BY <3>1 DEF ToSet
  <2>2. CASE j >= k
    <3>1. r[j + 1] = l[j] /\ j + 1 \in DOMAIN r
      BY <2>2 DEF LinkedAt
    <3> QED BY <3>1 DEF ToSet
  <2> QED BY <2>1, <2>2
<1>4. ASSUME IsInjective(l), t \notin ToSet(l) PROVE IsInjective(r)
  <2>1. \A j \in 1 .. Len(l) : l[j] # t
    BY <1>4 DEF ToSet
  <2>2. \A i, j \in 1 .. Len(l) : l[i] = l[j] => i = j
    BY <1>4 DEF IsInjective
  <2> DEFINE from(x) == IF x < k THEN x ELSE x - 1
  <2>3. ASSUME NEW x \in 1 .. Len(r), x # k
        PROVE  from(x) \in 1 .. Len(l) /\ r[x] = l[from(x)]
    BY <2>3 DEF LinkedAt
  <2>4. r[k] = t
    BY DEF LinkedAt
  <2>5. ASSUME NEW i \in 1 .. Len(r), NEW j \in 1 .. Len(r), r[i] = r[j] PROVE i = j
    <3>1. CASE i = k /\ j = k
      BY <3>1
    <3>2. CASE i # k /\ j = k
      BY <2>1, <2>3, <2>4, <2>5, <3>2
    <3>3. CASE i = k /\ j # k
      BY <2>1, <2>3, <2>4, <2>5, <3>3
    <3>4. CASE i # k /\ j # k
      <4>1. from(i) = from(j)
        BY <2>2, <2>3, <2>5, <3>4
      <4> QED BY <3>4, <4>1
    <3> QED BY <3>1, <3>2, <3>3, <3>4
  <2> QED BY <2>5 DEF IsInjective
<1>5. ToSet(l) \subseteq ToSet(r)
  BY <1>3 DEF ToSet
<1> QED BY <1>1, <1>2, <1>4, <1>5

\* Unlinking a node that is there once takes it, and only it, away.
LEMMA RemovedSet ==
    ASSUME NEW T, NEW l \in Seq(T), NEW r \in Seq(T), NEW k \in 1 .. Len(l),
           RemovedAt(r, l, k), IsInjective(l)
    PROVE  ToSet(r) = ToSet(l) \ {l[k]} /\ IsInjective(r)
<1>1. \A i, j \in 1 .. Len(l) : l[i] = l[j] => i = j
  BY DEF IsInjective
<1>2. ASSUME NEW j \in 1 .. Len(r) PROVE r[j] \in ToSet(l) \ {l[k]}
  <2>1. CASE j < k
    <3>1. r[j] = l[j] /\ j \in 1 .. Len(l) /\ j # k
      BY <2>1 DEF RemovedAt
    <3> QED BY <1>1, <3>1 DEF ToSet
  <2>2. CASE j >= k
    <3>1. r[j] = l[j + 1] /\ j + 1 \in 1 .. Len(l) /\ j + 1 # k
      BY <2>2 DEF RemovedAt
    <3> QED BY <1>1, <3>1 DEF ToSet
  <2> QED BY <2>1, <2>2
<1>3. ASSUME NEW j \in 1 .. Len(l), j # k PROVE l[j] \in ToSet(r)
  <2>1. CASE j < k
    <3>1. r[j] = l[j] /\ j \in DOMAIN r
      BY <2>1 DEF RemovedAt
    <3> QED BY <3>1 DEF ToSet
  <2>2. CASE j > k
    <3>1. r[j - 1] = l[j] /\ j - 1 \in DOMAIN r
      BY <2>2 DEF RemovedAt
    <3> QED BY <3>1 DEF ToSet
  <2> QED BY <1>3, <2>1, <2>2
<1>4. ToSet(r) = ToSet(l) \ {l[k]}
  <2>1. ToSet(r) \subseteq ToSet(l) \ {l[k]}
    BY <1>2 DEF ToSet
  <2>2. ToSet(l) \ {l[k]} \subseteq ToSet(r)
    BY <1>3 DEF ToSet
  <2> QED BY <2>1, <2>2
<1>5. ASSUME NEW i \in 1 .. Len(r), NEW j \in 1 .. Len(r), r[i] = r[j] PROVE i = j
  BY <1>1, <1>5 DEF RemovedAt
<1> QED BY <1>4, <1>5 DEF IsInjective

\* RemoveFirst removes one position of a list that holds the node ...
LEMMA RemoveFirstPosition ==
    ASSUME NEW T, NEW l \in Seq(T), NEW t \in ToSet(l)
    PROVE  \E k \in 1 .. Len(l) :
              l[k] = t /\ RemoveFirst(l, t) \in Seq(T) /\ RemovedAt(RemoveFirst(l, t), l, k)
<1> DEFINE I == {j \in 1 .. Len(l) : l[j] = t}
           k == Min(I)
<1>1. I # {} /\ I \in SUBSET Nat
  BY DEF ToSet
<1>2. k \in I
  <2> HIDE DEF I
  <2> QED BY <1>1, MinOfNats
<1>3. k \in 1 .. Len(l) /\ l[k] = t
  BY <1>2
<1>4. RemoveFirst(l, t) = RemoveAt(l, k)
  BY <1>1 DEF RemoveFirst, SelectInSeq
<1> HIDE DEF k, I
<1> DEFINE a == SubSeq(l, 1, k - 1)
           b == SubSeq(l, k + 1, Len(l))
<1>5. a \in Seq(T) /\ Len(a) = k - 1 /\ \A j \in 1 .. k - 1 : a[j] = l[j]
  BY <1>3
<1>6. b \in Seq(T) /\ Len(b) = Len(l) - k
      /\ \A j \in 1 .. Len(l) - k : b[j] = l[k + j]
  BY <1>3
<1>7. RemoveFirst(l, t) = a \o b
  BY <1>4 DEF RemoveAt
<1> HIDE DEF a, b
<1>8. a \o b \in Seq(T) /\ Len(a \o b) = Len(l) - 1
  BY <1>3, <1>5, <1>6
<1>9. ASSUME NEW j \in 1 .. Len(l) - 1
      PROVE  (a \o b)[j] = IF j < k THEN l[j] ELSE l[j + 1]
  BY ONLY l \in Seq(T), j \in 1 .. Len(l) - 1, <1>3, <1>5, <1>6
<1> QED BY <1>3, <1>7, <1>8, <1>9 DEF RemovedAt

\* ... and leaves any other list alone.
LEMMA RemoveFirstAbsent ==
    ASSUME NEW T, NEW l \in Seq(T), NEW t, t \notin ToSet(l)
    PROVE  RemoveFirst(l, t) = l
  BY DEF RemoveFirst, ToSet

\* OS_ThreadPriorityInsert adds one node.
LEMMA PriorityInsertSet ==
    ASSUME NEW T, NEW l \in Seq(T), NEW t \in T, NEW prio \in [T -> Nat]
    PROVE  /\ PriorityInsert(l, t, prio) \in Seq(T)
           /\ Len(PriorityInsert(l, t, prio)) = Len(l) + 1
           /\ ToSet(PriorityInsert(l, t, prio)) = ToSet(l) \cup {t}
           /\ IsInjective(l) /\ t \notin ToSet(l) => IsInjective(PriorityInsert(l, t, prio))
<1> DEFINE r == PriorityInsert(l, t, prio)
<1>1. PICK i \in 0 .. Len(l) : r = LinkBefore(l, i, t)
  BY PriorityInsertPosition
<1> DEFINE k == IF i = 0 THEN Len(l) + 1 ELSE i
<1>2. k \in 1 .. Len(l) + 1
  OBVIOUS
<1>3. r \in Seq(T) /\ LinkedAt(r, l, t, k)
  BY <1>1, LinkBeforeLinks
<1> HIDE DEF r, k
<1>4. Len(r) = Len(l) + 1
  BY <1>3 DEF LinkedAt
<1>5. QED BY <1>2, <1>3, <1>4, LinkedSet DEF r

\* OS_ThreadTimeoutInsert adds one node.
LEMMA TimeoutInsertSet ==
    ASSUME NEW T, NEW l \in Seq(T), NEW t \in T, NEW due \in [T -> Tick]
    PROVE  /\ TimeoutInsert(l, t, due) \in Seq(T)
           /\ ToSet(TimeoutInsert(l, t, due)) = ToSet(l) \cup {t}
           /\ IsInjective(l) /\ t \notin ToSet(l) => IsInjective(TimeoutInsert(l, t, due))
<1> DEFINE r == TimeoutInsert(l, t, due)
<1>1. PICK i \in 0 .. Len(l) : r = LinkBefore(l, i, t)
  BY TimeoutInsertPosition
<1> DEFINE k == IF i = 0 THEN Len(l) + 1 ELSE i
<1>2. k \in 1 .. Len(l) + 1
  OBVIOUS
<1>3. r \in Seq(T) /\ LinkedAt(r, l, t, k)
  BY <1>1, LinkBeforeLinks
<1> HIDE DEF r, k
<1>4. QED BY <1>2, <1>3, LinkedSet DEF r

\* OS_ThreadPriorityRemove takes its node away.
LEMMA PriorityRemoveSet ==
    ASSUME NEW T, NEW l \in Seq(T), NEW t \in ToSet(l), IsInjective(l)
    PROVE  /\ PriorityRemove(l, t) \in Seq(T)
           /\ Len(PriorityRemove(l, t)) = Len(l) - 1
           /\ ToSet(PriorityRemove(l, t)) = ToSet(l) \ {t}
           /\ IsInjective(PriorityRemove(l, t))
<1> DEFINE r == PriorityRemove(l, t)
<1>1. PICK k \in 1 .. Len(l) : l[k] = t /\ r \in Seq(T) /\ RemovedAt(r, l, k)
  BY RemoveFirstPosition DEF PriorityRemove
<1> HIDE DEF r
<1>2. Len(r) = Len(l) - 1
  BY <1>1 DEF RemovedAt
<1>3. QED BY <1>1, <1>2, RemovedSet DEF r

\* OS_ThreadTimeoutRemove takes its node away if it is there.
LEMMA TimeoutRemoveSet ==
    ASSUME NEW T, NEW l \in Seq(T), NEW t, IsInjective(l)
    PROVE  /\ TimeoutRemove(l, t) \in Seq(T)
           /\ ToSet(TimeoutRemove(l, t)) = ToSet(l) \ {t}
           /\ IsInjective(TimeoutRemove(l, t))
<1>1. CASE t \in ToSet(l)
  BY <1>1, PriorityRemoveSet DEF PriorityRemove, TimeoutRemove
<1>2. CASE t \notin ToSet(l)
  BY <1>2, RemoveFirstAbsent DEF TimeoutRemove
<1> QED BY <1>1, <1>2

\* OS_ThreadPrioritySet on a ready thread keeps the set of nodes.
LEMMA ResortSet ==
    ASSUME NEW T, NEW l \in Seq(T), IsInjective(l), NEW t \in ToSet(l),
           NEW prio \in [T -> Nat]
    PROVE  /\ PriorityInsert(PriorityRemove(l, t), t, prio) \in Seq(T)
           /\ IsInjective(PriorityInsert(PriorityRemove(l, t), t, prio))
           /\ ToSet(PriorityInsert(PriorityRemove(l, t), t, prio)) = ToSet(l)
<1>1. t \in T
  BY DEF ToSet
<1>2. PICK m \in Seq(T) : m = PriorityRemove(l, t)
  BY PriorityRemoveSet
<1>3. ToSet(m) = ToSet(l) \ {t}
  BY <1>2, PriorityRemoveSet
<1>4. IsInjective(m) /\ t \notin ToSet(m)
  BY <1>2, PriorityRemoveSet
<1>5. /\ PriorityInsert(m, t, prio) \in Seq(T)
      /\ IsInjective(PriorityInsert(m, t, prio))
      /\ ToSet(PriorityInsert(m, t, prio)) = ToSet(m) \cup {t}
  BY <1>1, <1>4, PriorityInsertSet
<1> QED BY <1>2, <1>3, <1>5

\* No node is behind one of a smaller key.
SortedBy(l, key) ==
    \A i, j \in 1 .. Len(l) : i < j => key[l[i]] >= key[l[j]]

\* A node linked in behind keys that are not smaller and in front of keys that are
\* not larger keeps a list sorted.
LEMMA LinkedSorted ==
    ASSUME NEW T, NEW l \in Seq(T), NEW t \in T, NEW key \in [T -> Int], SortedBy(l, key),
           NEW r \in Seq(T), NEW k \in 1 .. Len(l) + 1, LinkedAt(r, l, t, k),
           \A j \in 1 .. k - 1 : key[l[j]] >= key[t],
           k <= Len(l) => key[l[k]] <= key[t]
    PROVE  SortedBy(r, key)
<1>1. \A j \in 1 .. Len(l) : key[l[j]] \in Int
  OBVIOUS
<1>2. \A a, b \in 1 .. Len(l) : a < b => key[l[a]] >= key[l[b]]
  BY DEF SortedBy
<1>3. \A j \in 1 .. k - 1 : j \in 1 .. Len(l) /\ key[l[j]] >= key[t]
  OBVIOUS
<1>4. \A j \in k .. Len(l) : j \in 1 .. Len(l) /\ key[l[j]] <= key[t]
  <2> SUFFICES ASSUME NEW j \in k .. Len(l) PROVE j \in 1 .. Len(l) /\ key[l[j]] <= key[t]
    OBVIOUS
  <2>1. k \in 1 .. Len(l) /\ j \in 1 .. Len(l)
    OBVIOUS
  <2>2. key[l[k]] >= key[l[j]]
    BY <1>1, <1>2, <2>1
  <2> QED BY <1>1, <2>1, <2>2
<1>5. ASSUME NEW x \in 1 .. Len(r)
      PROVE  /\ x < k => x \in 1 .. k - 1 /\ r[x] = l[x]
             /\ x = k => r[x] = t
             /\ x > k => x - 1 \in k .. Len(l) /\ x - 1 \in 1 .. Len(l) /\ r[x] = l[x - 1]
  BY DEF LinkedAt
<1>6. ASSUME NEW x \in 1 .. Len(r), NEW y \in 1 .. Len(r), x < y
      PROVE  key[r[x]] >= key[r[y]]
  <2>1. CASE y < k
    <3>1. x \in 1 .. Len(l) /\ y \in 1 .. Len(l) /\ r[x] = l[x] /\ r[y] = l[y]
      BY <1>3, <1>5, <1>6, <2>1
    <3> QED BY <1>2, <1>6, <3>1
  <2>2. CASE y = k
    <3>1. x \in 1 .. k - 1 /\ r[x] = l[x] /\ r[y] = t
      BY <1>5, <1>6, <2>2
    <3> QED BY <1>3, <3>1
  <2>3. CASE y > k /\ x < k
    <3>1. x \in 1 .. k - 1 /\ r[x] = l[x] /\ y - 1 \in k .. Len(l) /\ r[y] = l[y - 1]
      BY <1>5, <2>3
    <3>2. key[l[x]] >= key[t] /\ key[t] >= key[l[y - 1]]
      BY <1>3, <1>4, <3>1
    <3>3. key[l[x]] \in Int /\ key[t] \in Int /\ key[l[y - 1]] \in Int
      BY <1>1, <1>3, <1>4, <3>1
    <3> QED BY <3>1, <3>2, <3>3
  <2>4. CASE y > k /\ x = k
    <3>1. r[x] = t /\ y - 1 \in k .. Len(l) /\ r[y] = l[y - 1]
      BY <1>5, <2>4
    <3> QED BY <1>1, <1>4, <3>1
  <2>5. CASE x > k
    <3>1. x - 1 \in 1 .. Len(l) /\ y - 1 \in 1 .. Len(l) /\ r[x] = l[x - 1] /\ r[y] = l[y - 1]
      BY <1>5, <1>6, <2>5
    <3>2. x - 1 < y - 1
      BY <1>6
    <3>3. key[l[x - 1]] >= key[l[y - 1]]
      BY <1>2, <3>1, <3>2, Zenon
    <3> QED BY <3>1, <3>3, Zenon
  <2> QED BY <1>6, <2>1, <2>2, <2>3, <2>4, <2>5
<1> QED BY <1>6 DEF SortedBy

\* A list without one of its nodes is sorted as before.
LEMMA RemovedSorted ==
    ASSUME NEW T, NEW l \in Seq(T), NEW t \in ToSet(l), NEW key, SortedBy(l, key)
    PROVE  SortedBy(RemoveFirst(l, t), key)
<1> DEFINE r == RemoveFirst(l, t)
<1>1. PICK k \in 1 .. Len(l) : r \in Seq(T) /\ RemovedAt(r, l, k)
  BY RemoveFirstPosition
<1> HIDE DEF r
<1> DEFINE from(x) == IF x < k THEN x ELSE x + 1
<1>2. ASSUME NEW x \in 1 .. Len(r) PROVE from(x) \in 1 .. Len(l) /\ r[x] = l[from(x)]
  BY <1>1 DEF RemovedAt
<1>3. ASSUME NEW x \in 1 .. Len(r), NEW y \in 1 .. Len(r), x < y
      PROVE  key[r[x]] >= key[r[y]]
  <2>1. from(x) < from(y)
    BY <1>3
  <2> HIDE DEF from
  <2> QED BY <1>2, <2>1 DEF SortedBy
<1> QED BY <1>3 DEF r, SortedBy

\* An insertion by priority keeps a list sorted by priority.
LEMMA PriorityInsertSorted ==
    ASSUME NEW T, NEW l \in Seq(T), NEW t \in T, NEW prio \in [T -> Nat],
           SortedBy(l, prio)
    PROVE  SortedBy(PriorityInsert(l, t, prio), prio)
<1> DEFINE r == PriorityInsert(l, t, prio)
<1>1. PICK i \in 0 .. Len(l) :
          /\ r = LinkBefore(l, i, t)
          /\ i = 0 => \A j \in 1 .. Len(l) : prio[l[j]] >= prio[t]
          /\ i # 0 => /\ prio[l[i]] < prio[t]
                      /\ \A j \in 1 .. i - 1 : prio[l[j]] >= prio[t]
  BY PriorityInsertPosition
<1> DEFINE k == IF i = 0 THEN Len(l) + 1 ELSE i
<1>2. k \in 1 .. Len(l) + 1 /\ r \in Seq(T) /\ LinkedAt(r, l, t, k)
  BY <1>1, LinkBeforeLinks
<1>3. prio \in [T -> Int]
  OBVIOUS
<1>4. \A j \in 1 .. Len(l) : prio[l[j]] \in Nat
  OBVIOUS
<1>5. /\ \A j \in 1 .. k - 1 : prio[l[j]] >= prio[t]
      /\ k <= Len(l) => prio[l[k]] <= prio[t]
  BY <1>1, <1>4
<1> HIDE DEF k, r
<1>6. SortedBy(r, prio)
  BY <1>2, <1>3, <1>5, LinkedSorted
<1> QED BY <1>6 DEF r

\* A removal keeps a list sorted by priority.
LEMMA PriorityRemoveSorted ==
    ASSUME NEW T, NEW l \in Seq(T), NEW t \in ToSet(l), NEW prio \in [T -> Nat],
           SortedBy(l, prio)
    PROVE  SortedBy(PriorityRemove(l, t), prio)
  BY RemovedSorted DEF PriorityRemove

\* An insertion by due time keeps a list in order of due time, if the due times of
\* the list and the new one are in the order of a key: if none is half the range of
\* the counter away from another.  (The key falls as time goes on.)
LEMMA TimeoutInsertSorted ==
    ASSUME NEW T, NEW l \in Seq(T), NEW t \in T, NEW due \in [T -> Tick],
           NEW key \in [T -> Int], SortedBy(l, key),
           \A j \in 1 .. Len(l) : SignedDiff(due[t], due[l[j]]) <= 0 <=> key[t] >= key[l[j]]
    PROVE  SortedBy(TimeoutInsert(l, t, due), key)
<1> DEFINE r == TimeoutInsert(l, t, due)
           late(j) == SignedDiff(due[t], due[l[j]]) <= 0
<1>1. PICK i \in 0 .. Len(l) :
          /\ r = LinkBefore(l, i, t)
          /\ i = 0 => \A j \in 1 .. Len(l) : ~late(j)
          /\ i # 0 => late(i) /\ \A j \in 1 .. i - 1 : ~late(j)
  BY TimeoutInsertPosition
<1>2. \A j \in 1 .. Len(l) : late(j) <=> key[t] >= key[l[j]]
  OBVIOUS
<1> HIDE DEF late
<1> DEFINE k == IF i = 0 THEN Len(l) + 1 ELSE i
<1>3. k \in 1 .. Len(l) + 1 /\ r \in Seq(T) /\ LinkedAt(r, l, t, k)
  BY <1>1, LinkBeforeLinks
<1>4. key[t] \in Int /\ \A j \in 1 .. Len(l) : key[l[j]] \in Int
  OBVIOUS
<1> HIDE DEF r
<1>5. /\ \A j \in 1 .. k - 1 : key[l[j]] >= key[t]
      /\ k <= Len(l) => key[l[k]] <= key[t]
  <2>1. \A j \in 1 .. k - 1 : j \in 1 .. Len(l) /\ ~late(j)
    BY <1>1
  <2>2. k <= Len(l) => k \in 1 .. Len(l) /\ late(k)
    BY <1>1
  <2> HIDE DEF k
  <2> QED BY <1>2, <1>4, <2>1, <2>2
<1> HIDE DEF k
<1>6. SortedBy(r, key)
  BY <1>3, <1>5, LinkedSorted
<1> QED BY <1>6 DEF r

\* A removal keeps a list in order of due time.
LEMMA TimeoutRemoveSorted ==
    ASSUME NEW T, NEW l \in Seq(T), NEW t, NEW key, SortedBy(l, key)
    PROVE  SortedBy(TimeoutRemove(l, t), key)
<1>1. CASE t \in ToSet(l)
  BY <1>1, RemovedSorted DEF TimeoutRemove
<1>2. CASE t \notin ToSet(l)
  BY <1>2, RemoveFirstAbsent DEF TimeoutRemove
<1> QED BY <1>1, <1>2

-------------------------------------------------------------------------------
\* The idle thread makes no kernel call, so there is always one to switch to.
IdleAwake == state[Idle] \in {"READY", "RUNNING"}

SwapsOn == ThreadCurrent # None => ThreadSwapEnabled

\* No interrupt ever finds the first switch half done.
Undisturbed == QuietStart /\ switching = "no"

\* The inductive invariant.
IInv ==
    /\ TypeOK
    /\ Undisturbed
    /\ RunnablePlaced
    /\ SleepersPlaced
    /\ TimeoutsPending
    /\ CountMatchesWaiters
    /\ IdleAwake
    /\ SwapsOn

In(st, s) == {t \in Thread : st[t] = s}

\* What OS_ThreadReschedule leaves, given the states st its caller has written:
\* the runnable threads are placed, and nobody was put to sleep or woken up.
Rescheduled(st) ==
    /\ ThreadHead' \in Seq(Thread)
    /\ ThreadCurrent' \in Thread \cup {None}
    /\ ThreadNeedReschedule' \in {0, 2, 3}
    /\ state' \in [Thread -> ThreadState]
    /\ RunnablePlaced'
    /\ In(state', "PEND") = In(st, "PEND")
    /\ In(state', "none") = In(st, "none")
    /\ ThreadCurrent' # None => ThreadCurrent # None \/ ThreadSwapEnabled'

-------------------------------------------------------------------------------
\* Arithmetic: a counter is reduced modulo its width.
LEMMA ModuloTick ==
    ASSUME NEW a \in Int
    PROVE  a % TickModulus \in Tick
  BY TickModulusAssumption DEF Tick

\* A swap puts the threads it moves where their new states say.
LEMMA SwapPlaces ==
    ASSUME TypeOK,
           NEW ready \in Seq(Thread), NEW st \in [Thread -> ThreadState],
           NEW prio \in [Thread -> Nat], NEW next \in Thread,
           Lists(ready, In(st, "READY")), st[next] = "READY",
           \/ In(st, "RUNNING") = {ThreadCurrent} \ {None}
           \/ In(st, "RUNNING") = {},
           Swap(next, ready, st, prio)
    PROVE  /\ ThreadHead' \in Seq(Thread)
           /\ ThreadCurrent' = next
           /\ state' \in [Thread -> ThreadState]
           /\ RunnablePlaced'
           /\ In(state', "PEND") = In(st, "PEND")
           /\ In(state', "none") = In(st, "none")
<1> DEFINE preempted == ThreadCurrent # None /\ st[ThreadCurrent] = "RUNNING"
           list == IF preempted THEN PriorityInsert(ready, ThreadCurrent, prio) ELSE ready
           back == IF preempted THEN {ThreadCurrent} ELSE {}
<1>1. /\ ThreadCurrent' = next
      /\ ThreadHead' = PriorityRemove(list, next)
      /\ state' = [t \in Thread |-> IF t = next THEN "RUNNING"
                                    ELSE IF t \in back THEN "READY" ELSE st[t]]
  BY Zenon DEF Swap
<1>2. back \subseteq Thread /\ back = In(st, "RUNNING")
  BY KernelAssumption DEF TypeOK, In
<1>3. list \in Seq(Thread) /\ IsInjective(list) /\ ToSet(list) = In(st, "READY") \cup back
  <2>1. CASE preempted
    <3>1. ThreadCurrent \in Thread /\ ThreadCurrent \notin ToSet(ready)
      BY <2>1 DEF TypeOK, Lists, In
    <3> QED BY <2>1, <3>1, PriorityInsertSet DEF Lists
  <2>2. CASE ~preempted
    BY <2>2 DEF Lists
  <2> QED BY <2>1, <2>2
<1> HIDE DEF list
<1>4. next \in ToSet(list) /\ next \notin back
  BY <1>3 DEF In
<1>5. /\ ThreadHead' \in Seq(Thread)
      /\ IsInjective(ThreadHead')
      /\ ToSet(ThreadHead') = (In(st, "READY") \cup back) \ {next}
  BY <1>1, <1>3, <1>4, PriorityRemoveSet
<1> HIDE DEF preempted
<1>6. state' \in [Thread -> ThreadState]
  BY <1>1 DEF ThreadState
<1>7. {t \in Thread : state'[t] = "READY"} = (In(st, "READY") \cup back) \ {next}
  BY <1>1, <1>2 DEF In
<1>8. {t \in Thread : state'[t] = "RUNNING"} = {next}
  BY <1>1, <1>2 DEF In
<1>9. In(state', "PEND") = In(st, "PEND") /\ In(state', "none") = In(st, "none")
  BY <1>1, <1>2 DEF In
<1>10. next # None
  BY KernelAssumption
<1> QED BY <1>1, <1>5, <1>6, <1>7, <1>8, <1>9, <1>10 DEF RunnablePlaced, Lists

\* The states the callers of OS_ThreadReschedule hand it: either the running
\* thread is untouched, or it has just been marked PEND and another one is ready.
Handed(ready, st) ==
    /\ ready \in Seq(Thread)
    /\ st \in [Thread -> ThreadState]
    /\ Lists(ready, In(st, "READY"))
    /\ \/ In(st, "RUNNING") = {ThreadCurrent} \ {None}
       \/ /\ In(st, "RUNNING") = {}
          /\ ThreadCurrent # None /\ st[ThreadCurrent] = "PEND"
          /\ ready # <<>>
          /\ ~InterruptInside /\ ThreadSwapEnabled

\* The part of OS_ThreadReschedule behind its early return.
LEMMA ReschedulePlaces ==
    ASSUME TypeOK, NEW ready, NEW st, Handed(ready, st),
           NEW prio \in [Thread -> Nat], NEW rr \in BOOLEAN,
           Reschedule(rr, ready, st, prio), ThreadSwapEnabled'
    PROVE  Rescheduled(st)
<1>1. ThreadNeedReschedule' \in {0, 2, 3}
  BY DEF Reschedule
<1>2. ready \in Seq(Thread) /\ st \in [Thread -> ThreadState] /\ Lists(ready, In(st, "READY"))
  BY DEF Handed
<1>3. CASE ready # <<>> /\ MustSwap(rr, Head(ready), st, prio)
  <2>1. Head(ready) \in Thread /\ Head(ready) \in ToSet(ready)
    BY <1>2, <1>3 DEF ToSet
  <2>2. st[Head(ready)] = "READY"
    BY <1>2, <2>1 DEF Lists, In
  <2>3. Swap(Head(ready), ready, st, prio)
    BY <1>3 DEF Reschedule
  <2>4. \/ In(st, "RUNNING") = {ThreadCurrent} \ {None}
        \/ In(st, "RUNNING") = {}
    BY DEF Handed
  <2> HIDE DEF Handed
  <2> QED BY <1>1, <1>2, <2>1, <2>2, <2>3, <2>4, SwapPlaces DEF Rescheduled
<1>4. CASE ~(ready # <<>> /\ MustSwap(rr, Head(ready), st, prio))
  <2>1. ThreadHead' = ready /\ state' = st /\ ThreadCurrent' = ThreadCurrent
    BY <1>4 DEF Reschedule
  <2>2. In(st, "RUNNING") = {ThreadCurrent} \ {None}
    BY <1>4 DEF Handed, MustSwap
  <2> QED BY <1>1, <1>2, <2>1, <2>2 DEF Rescheduled, RunnablePlaced, In, TypeOK
<1> QED BY <1>3, <1>4

\* The early return: nothing moves.
LEMMA DeferPlaces ==
    ASSUME TypeOK, NEW ready, NEW st, Handed(ready, st), NEW rr \in BOOLEAN,
           InterruptInside \/ ~ThreadSwapEnabled,
           DeferReschedule(rr, ready, st)
    PROVE  Rescheduled(st)
<1>1. ThreadHead' = ready /\ state' = st /\ ThreadCurrent' = ThreadCurrent
      /\ ThreadNeedReschedule' \in {0, 2, 3}
  BY DEF DeferReschedule
<1>2. In(st, "RUNNING") = {ThreadCurrent} \ {None}
  BY DEF Handed
<1> QED BY <1>1, <1>2 DEF Rescheduled, RunnablePlaced, In, TypeOK, Handed

\* OS_ThreadReschedule as a whole.
LEMMA OS_ThreadReschedulePlaces ==
    ASSUME TypeOK, NEW ready, NEW st, Handed(ready, st),
           NEW prio \in [Thread -> Nat], NEW rr \in BOOLEAN,
           OS_ThreadReschedule(rr, ready, st, prio),
           UNCHANGED ThreadSwapEnabled
    PROVE  Rescheduled(st)
<1>1. CASE InterruptInside \/ ~ThreadSwapEnabled
  <2>1. DeferReschedule(rr, ready, st)
    BY <1>1 DEF OS_ThreadReschedule
  <2> QED BY <1>1, <2>1, DeferPlaces
<1>2. CASE ~(InterruptInside \/ ~ThreadSwapEnabled)
  <2>1. Reschedule(rr, ready, st, prio) /\ ThreadSwapEnabled'
    BY <1>2 DEF OS_ThreadReschedule
  <2> QED BY <2>1, ReschedulePlaces
<1> QED BY <1>1, <1>2

-------------------------------------------------------------------------------
\* Semaphores and timeouts are left alone, and so are the sleeping threads.
LEMMA SleepersUnchanged ==
    ASSUME IInv, UNCHANGED <<semVars, TimeoutHead>>,
           In(state', "PEND") = In(state, "PEND")
    PROVE  SleepersPlaced' /\ TimeoutsPending' /\ CountMatchesWaiters'
<1>1. \A t \in Thread : state'[t] = "PEND" <=> state[t] = "PEND"
  BY DEF In
<1>2. SleepersPlaced'
  BY <1>1 DEF IInv, SleepersPlaced, semVars
<1>3. TimeoutsPending'
  <2>1. ToSet(TimeoutHead) \subseteq Thread
    BY DEF IInv, TypeOK, ToSet
  <2> QED BY <1>1, <2>1 DEF IInv, TimeoutsPending, semVars
<1>4. CountMatchesWaiters'
  BY DEF IInv, CountMatchesWaiters, semVars
<1> QED BY <1>2, <1>3, <1>4

\* The idle thread stays awake and swaps stay on.
LEMMA IdleStaysAwake ==
    ASSUME IInv, NEW st \in [Thread -> ThreadState], st[Idle] = state[Idle],
           Rescheduled(st), ThreadSwapEnabled => ThreadSwapEnabled'
    PROVE  IdleAwake' /\ SwapsOn'
<1>1. Idle \in Thread
  BY KernelAssumption
<1>2. state'[Idle] \notin {"PEND", "none"}
  BY <1>1 DEF IInv, IdleAwake, Rescheduled, In
<1>3. state'[Idle] \in ThreadState
  BY <1>1 DEF Rescheduled
<1> QED BY <1>2, <1>3 DEF IInv, IdleAwake, SwapsOn, Rescheduled, ThreadState

\* The calls that only reschedule: every other variable keeps its type.
LEMMA RescheduleOnly ==
    ASSUME IInv, NEW st \in [Thread -> ThreadState], st[Idle] = state[Idle],
           In(st, "PEND") = In(state, "PEND"), Rescheduled(st),
           ThreadSwapEnabled => ThreadSwapEnabled',
           ThreadSwapEnabled' \in BOOLEAN, InterruptInside' \in BOOLEAN,
           inTick' \in BOOLEAN, priority' \in [Thread -> Nat],
           UNCHANGED <<semVars, timeVars, status, switching, threadNext>>
    PROVE  IInv'
<1>1. TypeOK'
  BY DEF IInv, TypeOK, Rescheduled, semVars, timeVars
<1>2. SleepersPlaced' /\ TimeoutsPending' /\ CountMatchesWaiters'
  BY SleepersUnchanged DEF Rescheduled, timeVars
<1>3. IdleAwake' /\ SwapsOn'
  BY IdleStaysAwake
<1> QED BY <1>1, <1>2, <1>3 DEF IInv, Undisturbed, Rescheduled

\* The states as they are can be handed to OS_ThreadReschedule.
LEMMA StateHanded ==
    ASSUME IInv
    PROVE  Handed(ThreadHead, state)
  BY DEF IInv, Handed, RunnablePlaced, TypeOK, In

\* ... so can they with a thread that is woken or created put into the ready list ...
LEMMA WokenHanded ==
    ASSUME IInv, NEW t \in Thread, state[t] \in {"PEND", "none"}
    PROVE  /\ Handed(PriorityInsert(ThreadHead, t, priority), [state EXCEPT ![t] = "READY"])
           /\ [state EXCEPT ![t] = "READY"] \in [Thread -> ThreadState]
           /\ In([state EXCEPT ![t] = "READY"], "PEND") = In(state, "PEND") \ {t}
           /\ [state EXCEPT ![t] = "READY"][Idle] = state[Idle]
<1> DEFINE ready == PriorityInsert(ThreadHead, t, priority)
           st == [state EXCEPT ![t] = "READY"]
<1>1. /\ ThreadHead \in Seq(Thread) /\ priority \in [Thread -> Nat]
      /\ IsInjective(ThreadHead)
      /\ state \in [Thread -> ThreadState]
      /\ In(state, "RUNNING") = {ThreadCurrent} \ {None}
  BY DEF IInv, TypeOK, RunnablePlaced, Lists, In
<1>2. ToSet(ThreadHead) = In(state, "READY")
  BY DEF IInv, RunnablePlaced, Lists, In
<1>3. t \notin ToSet(ThreadHead)
  BY <1>2 DEF In
<1>4. ready \in Seq(Thread) /\ IsInjective(ready) /\ ToSet(ready) = ToSet(ThreadHead) \cup {t}
  BY <1>1, <1>3, PriorityInsertSet
<1>5. /\ st \in [Thread -> ThreadState]
      /\ In(st, "READY") = In(state, "READY") \cup {t}
      /\ In(st, "RUNNING") = In(state, "RUNNING")
      /\ In(st, "PEND") = In(state, "PEND") \ {t}
  BY <1>1 DEF In, ThreadState
<1>6. st[Idle] = state[Idle]
  BY <1>1, KernelAssumption DEF IInv, IdleAwake
<1> HIDE DEF ready, st
<1>7. Handed(ready, st)
  BY <1>1, <1>2, <1>4, <1>5 DEF Handed, Lists
<1> QED BY <1>5, <1>6, <1>7 DEF ready, st

\* ... with a ready thread moved to its place by a new priority ...
LEMMA ResortHanded ==
    ASSUME IInv, NEW t \in Thread, state[t] = "READY", NEW prio \in [Thread -> Nat]
    PROVE  /\ t \in ToSet(ThreadHead)
           /\ Handed(PriorityInsert(PriorityRemove(ThreadHead, t), t, prio), state)
<1> DEFINE ready == PriorityInsert(PriorityRemove(ThreadHead, t), t, prio)
<1>1. ThreadHead \in Seq(Thread) /\ state \in [Thread -> ThreadState]
      /\ IsInjective(ThreadHead) /\ ToSet(ThreadHead) = In(state, "READY")
  BY DEF IInv, TypeOK, RunnablePlaced, Lists, In
<1>2. t \in ToSet(ThreadHead)
  BY <1>1 DEF In
<1>3. ready \in Seq(Thread) /\ IsInjective(ready) /\ ToSet(ready) = ToSet(ThreadHead)
  BY <1>1, <1>2, ResortSet
<1> HIDE DEF ready
<1>4. Handed(ready, state)
  BY <1>1, <1>3 DEF Handed, Lists, IInv, RunnablePlaced, In
<1> QED BY <1>2, <1>4 DEF ready

\* The idle thread waits in the ready list while another one runs.
LEMMA AnotherReady ==
    ASSUME IInv, ThreadCurrent \notin {Idle, None}
    PROVE  ThreadHead # <<>>
<1>1. state[Idle] # "RUNNING"
  BY KernelAssumption DEF IInv, RunnablePlaced
<1>2. Idle \in ToSet(ThreadHead)
  BY <1>1, KernelAssumption DEF IInv, IdleAwake, RunnablePlaced, Lists
<1> QED BY <1>2 DEF ToSet

\* ... and with the running thread put to sleep.
LEMMA SleeperHanded ==
    ASSUME IInv, NEW t \in Thread, Running(t), t # Idle
    PROVE  /\ Handed(ThreadHead, [state EXCEPT ![t] = "PEND"])
           /\ [state EXCEPT ![t] = "PEND"] \in [Thread -> ThreadState]
           /\ In(state, "RUNNING") = {t}
<1> DEFINE st == [state EXCEPT ![t] = "PEND"]
<1>1. state \in [Thread -> ThreadState] /\ ThreadHead \in Seq(Thread)
      /\ Lists(ThreadHead, In(state, "READY"))
      /\ In(state, "RUNNING") = {t} /\ None \notin Thread
  BY KernelAssumption DEF IInv, TypeOK, RunnablePlaced, In, Running
<1>2. st \in [Thread -> ThreadState]
  BY <1>1 DEF ThreadState
<1>3. In(st, "READY") = In(state, "READY") /\ In(st, "RUNNING") = {}
  BY <1>1 DEF In
<1>4. ThreadHead # <<>>
  BY <1>1, AnotherReady DEF Running
<1>5. Handed(ThreadHead, st)
  BY <1>1, <1>2, <1>3, <1>4 DEF Handed, Running, IInv, SwapsOn
<1> QED BY <1>1, <1>2, <1>5

-------------------------------------------------------------------------------
\* The initial states satisfy the invariant.
LEMMA InitIInv == QuietStart /\ Init => IInv
<1> SUFFICES ASSUME QuietStart, Init PROVE IInv
  OBVIOUS
<1> USE DEF Init
<1>1. TypeOK
  <2>1. <<>> \in Seq(Thread) /\ <<Idle>> \in Seq(Thread)
    BY KernelAssumption
  <2>2. 0 \in Tick
    BY TickModulusAssumption DEF Tick
  <2>3. priority \in [Thread -> Nat] /\ count \in [Semaphore -> Int]
    BY KernelAssumption
  <2>4. state \in [Thread -> ThreadState]
    BY DEF ThreadState
  <2> QED BY <2>1, <2>2, <2>3, <2>4 DEF TypeOK
<1>2. RunnablePlaced
  <2>1. ToSet(<<Idle>>) = {Idle} /\ IsInjective(<<Idle>>)
    BY DEF ToSet, IsInjective
  <2> QED BY <2>1, KernelAssumption DEF RunnablePlaced, Lists
<1>3. ToSet(<<>>) = {} /\ IsInjective(<<>>) /\ Len(<<>>) = 0
  BY DEF ToSet, IsInjective
<1>4. SleepersPlaced
  BY <1>3, KernelAssumption DEF SleepersPlaced, Lists
<1>5. TimeoutsPending
  BY <1>3 DEF TimeoutsPending
<1>6. CountMatchesWaiters
  BY <1>3, KernelAssumption DEF CountMatchesWaiters
<1> QED BY <1>1, <1>2, <1>4, <1>5, <1>6, KernelAssumption
        DEF IInv, IdleAwake, SwapsOn, Undisturbed

\* rtos__thread_create keeps the invariant.
LEMMA CreateIInv ==
    ASSUME IInv, NEW t \in Thread, rtos__thread_create(t)
    PROVE  IInv'
<1> DEFINE ready == PriorityInsert(ThreadHead, t, priority)
           st == [state EXCEPT ![t] = "READY"]
<1>1. state[t] = "none" /\ OS_ThreadReschedule(FALSE, ready, st, priority)
      /\ UNCHANGED <<semVars, timeVars, isrVars, bootVars, priority>>
  BY DEF rtos__thread_create
<1>2. TypeOK /\ priority \in [Thread -> Nat]
  BY DEF IInv, TypeOK
<1>3. Handed(ready, st) /\ st \in [Thread -> ThreadState] /\ st[Idle] = state[Idle]
      /\ In(st, "PEND") = In(state, "PEND") \ {t}
  BY <1>1, WokenHanded
<1>4. In(st, "PEND") = In(state, "PEND")
  BY <1>1, <1>3 DEF In
<1> HIDE DEF ready, st
<1>5. Rescheduled(st)
  BY <1>1, <1>2, <1>3, OS_ThreadReschedulePlaces DEF bootVars
<1> QED BY <1>1, <1>2, <1>3, <1>4, <1>5, RescheduleOnly DEF TypeOK, isrVars, bootVars

\* Undisturbed, rtos__start allows swaps and switches to the first thread.
LEMMA StartInTwo ==
    ASSUME IInv, rtos__start
    PROVE  StartEnable \/ FirstSwitch
  BY DEF IInv, Undisturbed, rtos__start, FirstPick, FirstUnlink, FirstJump, BootAt

\* However far it gets, rtos__start touches neither semaphores nor time.
LEMMA StartKeeps ==
    ASSUME rtos__start
    PROVE  UNCHANGED <<semVars, timeVars, isrVars, priority>>
  BY DEF rtos__start, StartEnable, FirstSwitch, FirstPick, FirstUnlink, FirstJump

\* rtos__start keeps the invariant.
LEMMA StartIInv ==
    ASSUME IInv, rtos__start
    PROVE  IInv'
<1>1. Rescheduled(state)
  <2>1. CASE StartEnable
    BY <2>1 DEF StartEnable, schedVars, Rescheduled, RunnablePlaced, IInv, TypeOK, In
  <2>2. CASE FirstSwitch
    BY <2>2, StateHanded, ReschedulePlaces
       DEF FirstSwitch, BeforeFirstSwitch, bootVars, IInv, TypeOK
  <2> QED BY <2>1, <2>2, StartInTwo
<1>2. CASE StartEnable
  BY <1>1, <1>2, RescheduleOnly DEF StartEnable, IInv, TypeOK, isrVars
<1>3. CASE FirstSwitch
  BY <1>1, <1>3, RescheduleOnly DEF FirstSwitch, bootVars, IInv, TypeOK, isrVars
<1> QED BY <1>2, <1>3, StartInTwo

\* OS_ThreadPrioritySet keeps the invariant.
LEMMA PrioritySetIInv ==
    ASSUME IInv, NEW t \in Thread, NEW p \in Nat, OS_ThreadPrioritySet(t, p)
    PROVE  IInv'
<1>1. /\ priority' = [priority EXCEPT ![t] = p]
      /\ UNCHANGED <<semVars, timeVars, isrVars, bootVars>>
  BY DEF OS_ThreadPrioritySet
<1>2. TypeOK /\ ThreadHead \in Seq(Thread) /\ state \in [Thread -> ThreadState]
      /\ IsInjective(ThreadHead) /\ ToSet(ThreadHead) = In(state, "READY")
  BY DEF IInv, TypeOK, RunnablePlaced, Lists, In
<1>3. priority' \in [Thread -> Nat]
  BY <1>1, <1>2 DEF TypeOK
<1>4. Rescheduled(state)
  <2>1. CASE state[t] = "READY"
    <3>0. PICK prio \in [Thread -> Nat] : prio = priority'
      BY <1>3
    <3>1. OS_ThreadReschedule(FALSE,
              PriorityInsert(PriorityRemove(ThreadHead, t), t, prio), state, prio)
      BY <2>1, <3>0 DEF OS_ThreadPrioritySet
    <3> QED BY <1>1, <1>2, <2>1, <3>1, ResortHanded, OS_ThreadReschedulePlaces
       DEF bootVars
  <2>2. CASE state[t] # "READY"
    <3>1. UNCHANGED schedVars
      BY <2>2 DEF OS_ThreadPrioritySet
    <3> QED BY <1>2, <3>1 DEF schedVars, Rescheduled, RunnablePlaced, IInv, TypeOK, In
  <2> QED BY <2>1, <2>2
<1> QED BY <1>1, <1>2, <1>3, <1>4, RescheduleOnly DEF isrVars, TypeOK, bootVars

-------------------------------------------------------------------------------
\* OS_SemaphorePend with a token keeps the invariant.
LEMMA TakeTokenIInv ==
    ASSUME IInv, NEW s \in Semaphore, count[s] > 0, TakeToken(s)
    PROVE  IInv'
<1>1. /\ count' = [count EXCEPT ![s] = @ - 1]
      /\ UNCHANGED <<schedVars, timeVars, isrVars, threadHead, semaphorePending,
                     returnCode, bootVars, priority>>
  BY DEF TakeToken
<1>2. count \in [Semaphore -> Int]
  BY DEF IInv, TypeOK
<1>3. CountMatchesWaiters'
  BY <1>1, <1>2 DEF IInv, CountMatchesWaiters
<1>4. TypeOK'
  BY <1>1, <1>2 DEF IInv, TypeOK, schedVars, timeVars, isrVars, bootVars
<1>5. Undisturbed' /\ RunnablePlaced' /\ SleepersPlaced' /\ TimeoutsPending' /\ IdleAwake' /\ SwapsOn'
  BY <1>1 DEF IInv, RunnablePlaced, SleepersPlaced, TimeoutsPending, IdleAwake, SwapsOn,
              schedVars, timeVars, isrVars, bootVars, Undisturbed
<1> QED BY <1>3, <1>4, <1>5 DEF IInv

\* OS_SemaphorePend that sleeps keeps the invariant.
LEMMA SleepOnIInv ==
    ASSUME IInv, NEW t \in Thread, Running(t), t # Idle,
           NEW s \in Semaphore, count[s] <= 0, NEW ticks \in Int, SleepOn(t, s, ticks)
    PROVE  IInv'
<1> DEFINE st == [state EXCEPT ![t] = "PEND"]
<1>1. /\ count' = [count EXCEPT ![s] = @ - 1]
      /\ semaphorePending' = [semaphorePending EXCEPT ![t] = s]
      /\ ticksTimeout' = [ticksTimeout EXCEPT ![t] = (ThreadTime + ticks) % TickModulus]
      /\ threadHead' = [threadHead EXCEPT ![s] = PriorityInsert(@, t, priority)]
      /\ TimeoutHead' = IF ticks = WAIT_FOREVER
                        THEN TimeoutHead
                        ELSE TimeoutInsert(TimeoutHead, t, ticksTimeout')
      /\ OS_ThreadReschedule(FALSE, ThreadHead, st, priority)
      /\ UNCHANGED <<isrVars, ThreadTime, returnCode, bootVars, priority>>
  BY DEF SleepOn
<1>2. TypeOK /\ state \in [Thread -> ThreadState] /\ priority \in [Thread -> Nat]
      /\ ThreadHead \in Seq(Thread) /\ Lists(ThreadHead, In(state, "READY"))
      /\ In(state, "RUNNING") = {t} /\ None \notin Thread
  BY KernelAssumption DEF IInv, TypeOK, RunnablePlaced, In, Running
<1>3. state[t] = "RUNNING" /\ semaphorePending[t] = None /\ t \notin ToSet(TimeoutHead)
  BY <1>2 DEF In, IInv, SleepersPlaced, TimeoutsPending
<1>4. Rescheduled(st) /\ st \in [Thread -> ThreadState]
  BY <1>1, <1>2, SleeperHanded, OS_ThreadReschedulePlaces DEF bootVars
<1>5. In(state', "PEND") = In(state, "PEND") \cup {t}
  BY <1>2, <1>4 DEF Rescheduled, In
<1>6. ticksTimeout' \in [Thread -> Tick]
  BY <1>1, <1>2, ModuloTick DEF TypeOK, Tick
<1>7. /\ TimeoutHead' \in Seq(Thread)
      /\ IsInjective(TimeoutHead')
      /\ ToSet(TimeoutHead') \subseteq ToSet(TimeoutHead) \cup {t}
  <2>1. TimeoutHead \in Seq(Thread) /\ IsInjective(TimeoutHead)
    BY DEF IInv, TypeOK, TimeoutsPending
  <2>2. CASE ticks = WAIT_FOREVER
    BY <1>1, <2>1, <2>2
  <2>3. CASE ticks # WAIT_FOREVER
    <3>1. PICK due \in [Thread -> Tick] : due = ticksTimeout'
      BY <1>6
    <3>2. TimeoutHead' = TimeoutInsert(TimeoutHead, t, due)
      BY <1>1, <2>3, <3>1
    <3> QED BY <1>3, <2>1, <3>2, TimeoutInsertSet
  <2> QED BY <2>2, <2>3
<1>8. threadHead \in [Semaphore -> Seq(Thread)]
      /\ \A r \in Semaphore : IsInjective(threadHead[r])
                              /\ ToSet(threadHead[r]) = {u \in Thread : semaphorePending[u] = r}
  BY DEF IInv, TypeOK, SleepersPlaced, Lists
<1>9. /\ threadHead'[s] \in Seq(Thread)
      /\ IsInjective(threadHead'[s])
      /\ ToSet(threadHead'[s]) = ToSet(threadHead[s]) \cup {t}
      /\ Len(threadHead'[s]) = Len(threadHead[s]) + 1
  <2>1. threadHead'[s] = PriorityInsert(threadHead[s], t, priority)
    BY <1>1, <1>8
  <2>2. t \notin ToSet(threadHead[s])
    BY <1>3, <1>8, KernelAssumption
  <2> QED BY <1>2, <1>8, <2>1, <2>2, PriorityInsertSet
<1>10. \A r \in Semaphore \ {s} : threadHead'[r] = threadHead[r] /\ count'[r] = count[r]
  BY <1>1, <1>2, <1>8 DEF TypeOK
<1>11. semaphorePending \in [Thread -> Semaphore \cup {None}] /\ None \notin Semaphore
       /\ \A u \in Thread : state[u] = "PEND" <=> semaphorePending[u] # None
  BY KernelAssumption DEF IInv, TypeOK, SleepersPlaced
<1>12. SleepersPlaced'
  <2>1. ASSUME NEW r \in Semaphore
        PROVE  Lists(threadHead[r], {u \in Thread : semaphorePending[u] = r})'
    <3>1. CASE r = s
      BY <1>1, <1>8, <1>9, <1>11, <3>1 DEF Lists
    <3>2. CASE r # s
      BY <1>1, <1>3, <1>8, <1>10, <1>11, <3>2 DEF Lists
    <3> QED BY <3>1, <3>2
  <2>2. \A u \in Thread : state'[u] = "PEND" <=> semaphorePending'[u] # None
    BY <1>1, <1>5, <1>11 DEF In
  <2> QED BY <2>1, <2>2 DEF SleepersPlaced
<1>13. TimeoutsPending'
  <2>1. \A u \in ToSet(TimeoutHead) : u \in In(state, "PEND")
    BY DEF IInv, TypeOK, TimeoutsPending, ToSet, In
  <2> QED BY <1>5, <1>7, <2>1 DEF TimeoutsPending, In
<1>14. CountMatchesWaiters'
  <2>1. count \in [Semaphore -> Int]
    BY <1>2 DEF TypeOK
  <2>2. \A r \in Semaphore : Len(threadHead[r]) = IF count[r] < 0 THEN -count[r] ELSE 0
    BY DEF IInv, CountMatchesWaiters
  <2>3. count'[s] = count[s] - 1 /\ Len(threadHead'[s]) = 1 - count[s]
    BY <1>1, <1>9, <2>1, <2>2
  <2> QED BY <1>10, <2>1, <2>2, <2>3 DEF CountMatchesWaiters
<1>15. TypeOK'
  <2>1. threadHead' \in [Semaphore -> Seq(Thread)]
    BY <1>1, <1>8, <1>9
  <2>2. count' \in [Semaphore -> Int] /\ semaphorePending' \in [Thread -> Semaphore \cup {None}]
    BY <1>1, <1>2, <1>11 DEF TypeOK
  <2> QED BY <1>1, <1>2, <1>4, <1>6, <1>7, <2>1, <2>2
       DEF TypeOK, Rescheduled, isrVars, bootVars
<1>16. IdleAwake' /\ SwapsOn'
  BY <1>1, <1>2, <1>4, IdleStaysAwake, KernelAssumption
     DEF bootVars
<1>17. Undisturbed'
  BY <1>1 DEF IInv, Undisturbed, bootVars
<1> QED BY <1>4, <1>12, <1>13, <1>14, <1>15, <1>16, <1>17 DEF IInv, Rescheduled

-------------------------------------------------------------------------------
\* What a post and a timeout have in common: t leaves its semaphore's list and
\* the timeout list, and gives back what it took from the count.
LEMMA SleeperWoken ==
    ASSUME IInv, NEW t \in Thread, NEW s \in Semaphore, semaphorePending[t] = s,
           NEW rc \in {0, -1},
           TimeoutHead' = TimeoutRemove(TimeoutHead, t),
           count' = [count EXCEPT ![s] = @ + 1],
           threadHead' = [threadHead EXCEPT ![s] = PriorityRemove(@, t)],
           semaphorePending' = [semaphorePending EXCEPT ![t] = None],
           returnCode' = [returnCode EXCEPT ![t] = rc],
           In(state', "PEND") = In(state, "PEND") \ {t}
    PROVE  /\ SleepersPlaced' /\ TimeoutsPending' /\ CountMatchesWaiters'
           /\ TimeoutHead' \in Seq(Thread)
           /\ semaphorePending' \in [Thread -> Semaphore \cup {None}]
           /\ returnCode' \in [Thread -> {0, -1}]
           /\ count' \in [Semaphore -> Int]
           /\ threadHead' \in [Semaphore -> Seq(Thread)]
<1>1. /\ semaphorePending \in [Thread -> Semaphore \cup {None}] /\ None \notin Semaphore
      /\ \A u \in Thread : state[u] = "PEND" <=> semaphorePending[u] # None
      /\ count \in [Semaphore -> Int]
      /\ returnCode \in [Thread -> {0, -1}]
  BY KernelAssumption DEF IInv, TypeOK, SleepersPlaced
<1>2. threadHead \in [Semaphore -> Seq(Thread)]
      /\ \A r \in Semaphore : IsInjective(threadHead[r])
                              /\ ToSet(threadHead[r]) = {u \in Thread : semaphorePending[u] = r}
  BY DEF IInv, TypeOK, SleepersPlaced, Lists
<1>3. /\ threadHead'[s] \in Seq(Thread)
      /\ IsInjective(threadHead'[s])
      /\ ToSet(threadHead'[s]) = ToSet(threadHead[s]) \ {t}
      /\ Len(threadHead'[s]) = Len(threadHead[s]) - 1
  <2>1. threadHead'[s] = PriorityRemove(threadHead[s], t)
    BY <1>2
  <2>2. t \in ToSet(threadHead[s])
    BY <1>2
  <2>3. threadHead[s] \in Seq(Thread) /\ IsInjective(threadHead[s])
    BY <1>2
  <2> QED BY <2>1, <2>2, <2>3, PriorityRemoveSet
<1>4. \A r \in Semaphore \ {s} : threadHead'[r] = threadHead[r] /\ count'[r] = count[r]
  BY <1>1, <1>2
<1>5. SleepersPlaced'
  <2>1. ASSUME NEW r \in Semaphore
        PROVE  Lists(threadHead[r], {u \in Thread : semaphorePending[u] = r})'
    <3>1. CASE r = s
      BY <1>1, <1>2, <1>3, <3>1 DEF Lists
    <3>2. CASE r # s
      BY <1>1, <1>2, <1>4, <3>2 DEF Lists
    <3> QED BY <3>1, <3>2
  <2>2. \A u \in Thread : state'[u] = "PEND" <=> semaphorePending'[u] # None
    BY <1>1 DEF In
  <2> QED BY <2>1, <2>2 DEF SleepersPlaced
<1>6. /\ TimeoutHead' \in Seq(Thread)
      /\ IsInjective(TimeoutHead')
      /\ ToSet(TimeoutHead') = ToSet(TimeoutHead) \ {t}
  <2>1. TimeoutHead \in Seq(Thread) /\ IsInjective(TimeoutHead)
    BY DEF IInv, TypeOK, TimeoutsPending
  <2> QED BY <2>1, TimeoutRemoveSet
<1>7. TimeoutsPending'
  <2>1. \A u \in ToSet(TimeoutHead) : u \in In(state, "PEND")
    BY DEF IInv, TypeOK, TimeoutsPending, ToSet, In
  <2> QED BY <1>6, <2>1 DEF TimeoutsPending, In
<1>8. CountMatchesWaiters'
  <2>1. \A r \in Semaphore : Len(threadHead[r]) = IF count[r] < 0 THEN -count[r] ELSE 0
    BY DEF IInv, CountMatchesWaiters
  <2>2. Len(threadHead[s]) # 0
    BY <1>2 DEF ToSet
  <2>3. count'[s] = count[s] + 1 /\ Len(threadHead'[s]) = -count[s] - 1 /\ count[s] < 0
    BY <1>1, <1>3, <2>1, <2>2
  <2> QED BY <1>1, <1>4, <2>1, <2>3 DEF CountMatchesWaiters
<1>9. threadHead' \in [Semaphore -> Seq(Thread)] /\ count' \in [Semaphore -> Int]
  BY <1>1, <1>2, <1>3
<1>10. semaphorePending' \in [Thread -> Semaphore \cup {None}]
       /\ returnCode' \in [Thread -> {0, -1}]
  BY <1>1
<1> QED BY <1>5, <1>6, <1>7, <1>8, <1>9, <1>10

\* Waking the first sleeper of a semaphore whose count is negative keeps the
\* invariant.
LEMMA WakeFirstIInv ==
    ASSUME IInv, NEW s \in Semaphore, count[s] < 0,
           count' = [count EXCEPT ![s] = @ + 1], WakeFirst(s),
           UNCHANGED <<bootVars, priority, InterruptInside, inTick>>,
           status' \in SUBSET {"tick", "device"}
    PROVE  IInv'
<1> DEFINE t == Head(threadHead[s])
           st == [state EXCEPT ![t] = "READY"]
           ready == PriorityInsert(ThreadHead, t, priority)
<1>1. /\ TimeoutHead' = TimeoutRemove(TimeoutHead, t)
      /\ threadHead' = [threadHead EXCEPT ![s] = PriorityRemove(@, t)]
      /\ semaphorePending' = [semaphorePending EXCEPT ![t] = None]
      /\ returnCode' = [returnCode EXCEPT ![t] = 0]
      /\ OS_ThreadReschedule(FALSE, ready, st, priority)
      /\ UNCHANGED <<ThreadTime, ticksTimeout>>
  BY DEF WakeFirst
<1>2. t \in Thread /\ semaphorePending[t] = s
  <2>1. /\ threadHead[s] \in Seq(Thread)
        /\ ToSet(threadHead[s]) = {u \in Thread : semaphorePending[u] = s}
    BY DEF IInv, TypeOK, SleepersPlaced, Lists
  <2>2. count[s] \in Int /\ Len(threadHead[s]) = -count[s]
    BY DEF IInv, TypeOK, CountMatchesWaiters
  <2>3. t \in ToSet(threadHead[s])
    BY <2>1, <2>2 DEF ToSet
  <2> HIDE DEF t
  <2> QED BY <2>1, <2>3
<1> HIDE DEF t
<1>3. state[t] = "PEND"
  BY <1>2, KernelAssumption DEF IInv, SleepersPlaced
<1>4. Handed(ready, st) /\ st \in [Thread -> ThreadState]
      /\ In(st, "PEND") = In(state, "PEND") \ {t} /\ st[Idle] = state[Idle]
  BY <1>2, <1>3, WokenHanded
<1> HIDE DEF st, ready
<1>5. TypeOK /\ priority \in [Thread -> Nat]
  BY DEF IInv, TypeOK
<1>6. Rescheduled(st)
  BY <1>1, <1>4, <1>5, OS_ThreadReschedulePlaces DEF bootVars
<1>7. In(state', "PEND") = In(state, "PEND") \ {t}
  BY <1>4, <1>6 DEF Rescheduled
<1>8. /\ SleepersPlaced' /\ TimeoutsPending' /\ CountMatchesWaiters'
      /\ TimeoutHead' \in Seq(Thread)
      /\ semaphorePending' \in [Thread -> Semaphore \cup {None}]
      /\ returnCode' \in [Thread -> {0, -1}]
      /\ count' \in [Semaphore -> Int]
      /\ threadHead' \in [Semaphore -> Seq(Thread)]
  BY <1>1, <1>2, <1>7, SleeperWoken
<1>9. IdleAwake' /\ SwapsOn'
  BY <1>4, <1>6, IdleStaysAwake DEF bootVars
<1>10. TypeOK'
  BY <1>1, <1>5, <1>6, <1>8 DEF TypeOK, Rescheduled, bootVars
<1> QED BY <1>6, <1>8, <1>9, <1>10 DEF IInv, Rescheduled, Undisturbed, bootVars

\* The rest of an interrupt changes nothing but its own progress.
LEMMA InterruptOnly ==
    ASSUME IInv, UNCHANGED <<schedVars, semVars, TimeoutHead, ticksTimeout,
                             bootVars, priority>>,
           ThreadTime' \in Tick, InterruptInside' \in BOOLEAN,
           status' \in SUBSET {"tick", "device"}, inTick' \in BOOLEAN
    PROVE  IInv'
<1>1. TypeOK'
  BY DEF IInv, TypeOK, schedVars, semVars, bootVars
<1>2. SleepersPlaced' /\ TimeoutsPending' /\ CountMatchesWaiters'
  BY SleepersUnchanged DEF schedVars
<1>3. RunnablePlaced' /\ IdleAwake' /\ SwapsOn'
  BY DEF IInv, RunnablePlaced, IdleAwake, SwapsOn, schedVars, bootVars
<1> QED BY <1>1, <1>2, <1>3 DEF IInv, Undisturbed, bootVars

\* Post, from a thread or a handler, keeps the invariant.
LEMMA PostIInv ==
    ASSUME IInv, NEW s \in Semaphore, Post(s),
           UNCHANGED <<InterruptInside, inTick>>,
           status' \in SUBSET {"tick", "device"}
    PROVE  IInv'
<1>1. count' = [count EXCEPT ![s] = @ + 1] /\ UNCHANGED <<bootVars, priority>>
  BY DEF Post
<1>2. CASE count[s] < 0
  BY <1>1, <1>2, WakeFirstIInv DEF Post
<1>3. CASE ~(count[s] < 0)
  <2>1. UNCHANGED <<schedVars, timeVars, threadHead, semaphorePending, returnCode>>
    BY <1>3 DEF Post
  <2>2. count \in [Semaphore -> Int]
    BY DEF IInv, TypeOK
  <2>3. CountMatchesWaiters'
    BY <1>1, <1>3, <2>1, <2>2 DEF IInv, CountMatchesWaiters
  <2>4. TypeOK'
    BY <1>1, <2>1, <2>2 DEF IInv, TypeOK, schedVars, timeVars, bootVars
  <2>5. Undisturbed' /\ RunnablePlaced' /\ SleepersPlaced' /\ TimeoutsPending' /\ IdleAwake' /\ SwapsOn'
    BY <1>1, <2>1 DEF IInv, RunnablePlaced, SleepersPlaced, TimeoutsPending, IdleAwake,
                      SwapsOn, schedVars, timeVars, bootVars, Undisturbed
  <2> QED BY <2>3, <2>4, <2>5 DEF IInv
<1> QED BY <1>2, <1>3

\* A timeout keeps the invariant.
LEMMA TickWakeIInv ==
    ASSUME IInv, TickWake
    PROVE  IInv'
<1> DEFINE t == Head(TimeoutHead)
           s == semaphorePending[t]
           st == [state EXCEPT ![t] = "READY"]
           ready == PriorityInsert(ThreadHead, t, priority)
<1>1. /\ TimeoutHead # <<>>
      /\ TimeoutHead' = TimeoutRemove(TimeoutHead, t)
      /\ count' = [count EXCEPT ![s] = @ + 1]
      /\ semaphorePending' = [semaphorePending EXCEPT ![t] = None]
      /\ returnCode' = [returnCode EXCEPT ![t] = -1]
      /\ threadHead' = [threadHead EXCEPT ![s] = PriorityRemove(@, t)]
      /\ ThreadHead' = ready
      /\ state' = st
      /\ UNCHANGED <<ThreadCurrent, ThreadNeedReschedule, ThreadTime, ticksTimeout,
                     isrVars, bootVars, priority>>
  BY DEF TickWake
<1>2. t \in Thread /\ state[t] = "PEND"
  <2>1. TimeoutHead \in Seq(Thread)
    BY DEF IInv, TypeOK
  <2>2. t \in Thread /\ t \in ToSet(TimeoutHead)
    BY <1>1, <2>1 DEF ToSet
  <2> QED BY <2>2 DEF IInv, TimeoutsPending
<1> HIDE DEF t
<1>3. s \in Semaphore
  BY <1>2 DEF IInv, SleepersPlaced, TypeOK
<1>4. Handed(ready, st) /\ st \in [Thread -> ThreadState]
      /\ In(st, "PEND") = In(state, "PEND") \ {t} /\ st[Idle] = state[Idle]
  BY <1>2, WokenHanded
<1> HIDE DEF st, ready
<1>5. In(state', "PEND") = In(state, "PEND") \ {t}
  BY <1>1, <1>4
<1>6. PICK r \in Semaphore : r = s
  BY <1>3
<1>7. /\ SleepersPlaced' /\ TimeoutsPending' /\ CountMatchesWaiters'
      /\ TimeoutHead' \in Seq(Thread)
      /\ semaphorePending' \in [Thread -> Semaphore \cup {None}]
      /\ returnCode' \in [Thread -> {0, -1}]
      /\ count' \in [Semaphore -> Int]
      /\ threadHead' \in [Semaphore -> Seq(Thread)]
  BY <1>1, <1>2, <1>5, <1>6, SleeperWoken
<1>8. RunnablePlaced' /\ ThreadHead' \in Seq(Thread)
  <2>1. In(st, "RUNNING") = {ThreadCurrent} \ {None}
    <3>1. st[ThreadCurrent] # "PEND" \/ ThreadCurrent = None \/ In(st, "RUNNING") # {}
      BY <1>1, <1>2, <1>4 DEF Handed, IInv, RunnablePlaced, In, st
    <3> QED BY <3>1, <1>4 DEF Handed
  <2> QED BY <1>1, <1>4, <2>1 DEF Handed, RunnablePlaced, In
<1>9. IdleAwake' /\ SwapsOn'
  BY <1>1, <1>4 DEF IInv, IdleAwake, SwapsOn, bootVars
<1>10. TypeOK'
  BY <1>1, <1>4, <1>7, <1>8 DEF IInv, TypeOK, isrVars, bootVars
<1> QED BY <1>1, <1>7, <1>8, <1>9, <1>10 DEF IInv, Undisturbed, bootVars

\* The end of the tick's loop keeps the invariant.
LEMMA TickDoneIInv ==
    ASSUME IInv, TickDone
    PROVE  IInv'
<1>1. /\ inTick' = FALSE
      /\ OS_ThreadReschedule(TRUE, ThreadHead, state, priority)
      /\ UNCHANGED <<semVars, timeVars, InterruptInside, status, bootVars, priority>>
  BY DEF TickDone
<1>2. TypeOK /\ priority \in [Thread -> Nat] /\ state \in [Thread -> ThreadState]
      /\ ThreadSwapEnabled \in BOOLEAN /\ InterruptInside \in BOOLEAN
  BY DEF IInv, TypeOK
<1>3. Rescheduled(state)
  BY <1>1, <1>2, StateHanded, OS_ThreadReschedulePlaces DEF bootVars
<1> QED BY <1>1, <1>2, <1>3, RescheduleOnly DEF bootVars

\* The end of the service routine keeps the invariant.
LEMMA InterruptExitIInv ==
    ASSUME IInv, InterruptExit
    PROVE  IInv'
<1>1. /\ InterruptInside' = FALSE
      /\ UNCHANGED <<semVars, timeVars, status, inTick, bootVars, priority>>
  BY DEF InterruptExit
<1>2. TypeOK /\ priority \in [Thread -> Nat] /\ state \in [Thread -> ThreadState]
      /\ ThreadSwapEnabled \in BOOLEAN /\ inTick \in BOOLEAN
  BY DEF IInv, TypeOK
<1>3. Rescheduled(state)
  <2>1. CASE ThreadNeedReschedule = 0 \/ ~ThreadSwapEnabled
    <3>1. UNCHANGED schedVars
      BY <2>1 DEF InterruptExit
    <3> QED BY <1>2, <3>1 DEF schedVars, Rescheduled, RunnablePlaced, IInv, TypeOK, In
  <2>2. CASE ~(ThreadNeedReschedule = 0 \/ ~ThreadSwapEnabled)
    <3>1. Reschedule(ThreadNeedReschedule = 3, ThreadHead, state, priority) /\ ThreadSwapEnabled'
      BY <1>1, <2>2 DEF InterruptExit, bootVars
    <3>2. (ThreadNeedReschedule = 3) \in BOOLEAN
      OBVIOUS
    <3> QED BY <1>2, <3>1, <3>2, StateHanded, ReschedulePlaces
  <2> QED BY <2>1, <2>2
<1> QED BY <1>1, <1>2, <1>3, RescheduleOnly DEF bootVars

\* Every step keeps the invariant.
LEMMA NextIInv ==
    ASSUME IInv, [Next]_vars
    PROVE  IInv'
<1>1. TypeOK
  BY DEF IInv
<1>2. CASE \E t \in Thread : rtos__thread_create(t)
  BY <1>2, CreateIInv
<1>3. CASE rtos__start
  BY <1>3, StartIInv
<1>4. ASSUME NEW t \in Thread, ThreadCall(t)
      PROVE  IInv'
  <2>1. Running(t) /\ t # Idle
    BY <1>4 DEF ThreadCall
  <2>2. ASSUME NEW s \in Semaphore, NEW ticks \in Ticks, OS_SemaphorePend(t, s, ticks)
        PROVE  IInv'
    <3>1. ticks \in Int
      BY KernelAssumption
    <3> QED BY <2>1, <2>2, <3>1, TakeTokenIInv, SleepOnIInv DEF OS_SemaphorePend
  <2>3. CASE \E s \in UserSemaphore, ticks \in Ticks : OS_SemaphorePend(t, s, ticks)
    BY <2>2, <2>3, KernelAssumption
  <2>4. CASE \E ticks \in Ticks : rtos__thread_sleep(t, ticks)
    BY <2>2, <2>4, KernelAssumption DEF rtos__thread_sleep
  <2>5. CASE \E s \in UserSemaphore : count[s] < MaxCount /\ OS_SemaphorePost(s)
    <3>1. PICK s \in Semaphore : OS_SemaphorePost(s)
      BY <2>5, KernelAssumption
    <3> QED BY <1>1, <3>1, PostIInv DEF OS_SemaphorePost, isrVars, TypeOK
  <2>6. CASE \E u \in Thread \ {Idle}, p \in NewPriority :
                state[u] # "none" /\ OS_ThreadPrioritySet(u, p)
    BY <2>6, PrioritySetIInv, KernelAssumption
  <2> QED BY <1>4, <2>3, <2>4, <2>5, <2>6 DEF ThreadCall
<1>5. CASE \E lines \in {{"tick"}, {"device"}, {"tick", "device"}} : InterruptEnter(lines)
  BY <1>1, <1>5, InterruptOnly DEF InterruptEnter, timeVars, TypeOK
<1>6. CASE DeviceHandler
  <2>1. status' \in SUBSET {"tick", "device"} /\ UNCHANGED <<InterruptInside, inTick>>
    BY <1>1, <1>6 DEF DeviceHandler, Serve, TypeOK
  <2>2. CASE UNCHANGED <<schedVars, semVars, timeVars, bootVars, priority>>
    BY <1>1, <2>1, <2>2, InterruptOnly DEF timeVars, TypeOK
  <2>3. CASE \E s \in UserSemaphore : count[s] < MaxCount /\ Post(s)
    BY <2>1, <2>3, PostIInv, KernelAssumption
  <2> QED BY <1>6, <2>2, <2>3 DEF DeviceHandler
<1>7. CASE OS_ThreadTick
  <2>1. ThreadTime + 1 \in Int
    BY <1>1 DEF TypeOK, Tick
  <2>2. ThreadTime' \in Tick
    BY <1>7, <2>1, ModuloTick DEF OS_ThreadTick
  <2>3. status' \in SUBSET {"tick", "device"} /\ InterruptInside' \in BOOLEAN
        /\ inTick' \in BOOLEAN
    BY <1>1, <1>7 DEF OS_ThreadTick, Serve, TypeOK
  <2> QED BY <1>7, <2>2, <2>3, InterruptOnly DEF OS_ThreadTick
<1>8. CASE TickWake
  BY <1>8, TickWakeIInv
<1>9. CASE TickDone
  BY <1>9, TickDoneIInv
<1>10. CASE InterruptExit
  BY <1>10, InterruptExitIInv
<1>11. CASE UNCHANGED vars
  BY <1>1, <1>11, InterruptOnly DEF vars, isrVars, timeVars, TypeOK
<1> QED BY <1>2, <1>3, <1>4, <1>5, <1>6, <1>7, <1>8, <1>9, <1>10, <1>11
        DEF Next, rtos__interrupt_service_routine

-------------------------------------------------------------------------------
\* The invariant holds in every reachable state, if no interrupt falls into the first
\* switch of rtos__start (QuietStart, here and in the theorems below; the interrupts
\* before and after it are all there).  One that does may unlink the thread twice.
THEOREM Invariant == QuietStart => (Spec => []IInv)
<1> SUFFICES ASSUME QuietStart PROVE Spec => []IInv
  OBVIOUS
<1> QED BY InitIInv, NextIInv, PTL DEF Spec

\* Every variable of the scheduler keeps its type.
THEOREM TypeCorrect == QuietStart => (Spec => []TypeOK)
<1> SUFFICES ASSUME QuietStart PROVE Spec => []TypeOK
  OBVIOUS
<1>1. IInv => TypeOK
  BY DEF IInv
<1> QED BY <1>1, Invariant, PTL

\* Every control block is in the one list its state names: OS_ThreadPriorityInsert
\* and OS_ThreadPriorityRemove never see a block that another list holds.
THEOREM BlocksPlaced == QuietStart => (Spec => []ThreadsPlaced)
<1> SUFFICES ASSUME QuietStart PROVE Spec => []ThreadsPlaced
  OBVIOUS
<1>1. IInv => ThreadsPlaced
  BY DEF IInv, ThreadsPlaced, Undisturbed
<1> QED BY <1>1, Invariant, PTL

\* The tick never wakes a thread that a post has woken before.
THEOREM TimeoutsOnlyPending == QuietStart => (Spec => []TimeoutsPending)
<1> SUFFICES ASSUME QuietStart PROVE Spec => []TimeoutsPending
  OBVIOUS
<1>1. IInv => TimeoutsPending
  BY DEF IInv
<1> QED BY <1>1, Invariant, PTL

\* A negative count is always the number of sleepers.
THEOREM CountsMatch == QuietStart => (Spec => []CountMatchesWaiters)
<1> SUFFICES ASSUME QuietStart PROVE Spec => []CountMatchesWaiters
  OBVIOUS
<1>1. IInv => CountMatchesWaiters
  BY DEF IInv
<1> QED BY <1>1, Invariant, PTL

\* The assertion of OS_SemaphorePend before it gives up the CPU never fails.
THEOREM AssertThreadHead == QuietStart => (Spec => []AnotherThreadReady)
<1> SUFFICES ASSUME QuietStart PROVE Spec => []AnotherThreadReady
  OBVIOUS
<1>1. IInv => AnotherThreadReady
  BY AnotherReady DEF AnotherThreadReady
<1> QED BY <1>1, Invariant, PTL

-------------------------------------------------------------------------------
(***************************************************************************)
(* What the scheduler promises its callers: the ready list is sorted, a    *)
(* switch goes to the most urgent thread, posts wake the most urgent       *)
(* sleeper, and its semaphores are counting semaphores.  All of it stands  *)
(* on IInv: a list that is sorted is of no use unless it holds the threads *)
(* it should.                                                              *)
(***************************************************************************)
\* The tick's loop and the handlers run inside an interrupt only.
ServedInside == inTick \/ status # {} => InterruptInside

\* The inductive invariant of the ready list.
ReadyInv == IInv /\ ServedInside /\ ReadySorted

\* What a step must do with the running thread: the body of SwitchesToHighest.
Switch ==
    /\ ThreadCurrent' # ThreadCurrent => NoneMoreUrgent(state, priority)'
    /\ \A t \in Thread :
          /\ state[t] \in {"PEND", "none"}
          /\ state'[t] = "READY"
          /\ ~InterruptInside /\ ThreadSwapEnabled
          => priority'[t] <= priority'[ThreadCurrent']

\* No thread that is READY in st is more urgent than t.
MostUrgent(t, st, prio) == \A u \in Thread : st[u] = "READY" => prio[u] <= prio[t]

-------------------------------------------------------------------------------
\* In a sorted list no node is more urgent than the first.
LEMMA HeadMostUrgent ==
    ASSUME NEW l \in Seq(Thread), NEW prio \in [Thread -> Nat], SortedBy(l, prio), l # <<>>
    PROVE  \A t \in ToSet(l) : prio[t] <= prio[Head(l)]
<1>1. ASSUME NEW i \in 1 .. Len(l) PROVE prio[l[i]] <= prio[l[1]]
  <2>1. CASE i = 1
    BY <2>1
  <2>2. CASE i # 1
    <3>1. 1 \in 1 .. Len(l) /\ 1 < i
      BY <2>2
    <3>2. prio[l[1]] >= prio[l[i]]
      BY <3>1 DEF SortedBy
    <3> QED BY <3>1, <3>2
  <2> QED BY <2>1, <2>2
<1> QED BY <1>1 DEF ToSet

\* A list stays sorted when the priority of a thread that is not in it changes.
LEMMA SortedByOthers ==
    ASSUME NEW l \in Seq(Thread), NEW t \in Thread, t \notin ToSet(l),
           NEW prio \in [Thread -> Nat], NEW p \in Nat, SortedBy(l, prio)
    PROVE  SortedBy(l, [prio EXCEPT ![t] = p])
<1>1. \A i \in 1 .. Len(l) : l[i] # t /\ l[i] \in Thread
  BY DEF ToSet
<1>2. \A i \in 1 .. Len(l) : [prio EXCEPT ![t] = p][l[i]] = prio[l[i]]
  BY <1>1
<1> QED BY <1>2 DEF SortedBy

\* OS_ThreadPrioritySet on a ready thread: the list is sorted by the new priority.
LEMMA ResortSorted ==
    ASSUME NEW l \in Seq(Thread), IsInjective(l), NEW t \in ToSet(l), t \in Thread,
           NEW prio \in [Thread -> Nat], NEW p \in Nat, SortedBy(l, prio)
    PROVE  SortedBy(PriorityInsert(PriorityRemove(l, t), t, [prio EXCEPT ![t] = p]),
                    [prio EXCEPT ![t] = p])
<1>1. PICK m \in Seq(Thread) : m = PriorityRemove(l, t)
  BY PriorityRemoveSet
<1>2. t \notin ToSet(m)
  BY <1>1, PriorityRemoveSet
<1>3. SortedBy(m, prio)
  BY <1>1, PriorityRemoveSorted
<1>4. SortedBy(m, [prio EXCEPT ![t] = p]) /\ [prio EXCEPT ![t] = p] \in [Thread -> Nat]
  BY <1>2, <1>3, SortedByOthers
<1> QED BY <1>1, <1>4, PriorityInsertSorted

-------------------------------------------------------------------------------
\* The part of OS_ThreadReschedule behind its early return leaves the list sorted
\* and nobody ready who is more urgent than the thread it runs.
LEMMA RescheduleUrgent ==
    ASSUME TypeOK, NEW ready, NEW st, Handed(ready, st),
           NEW prio \in [Thread -> Nat], SortedBy(ready, prio), NEW rr \in BOOLEAN,
           Reschedule(rr, ready, st, prio)
    PROVE  SortedBy(ThreadHead', prio) /\ MostUrgent(ThreadCurrent', state', prio)
<1>1. ready \in Seq(Thread) /\ st \in [Thread -> ThreadState]
      /\ IsInjective(ready) /\ ToSet(ready) = In(st, "READY")
  BY DEF Handed, Lists
<1>2. CASE ready # <<>> /\ MustSwap(rr, Head(ready), st, prio)
  <2> DEFINE next == Head(ready)
             preempted == ThreadCurrent # None /\ st[ThreadCurrent] = "RUNNING"
             list == IF preempted THEN PriorityInsert(ready, ThreadCurrent, prio) ELSE ready
  <2>1. next \in Thread /\ next \in ToSet(ready)
    BY <1>1, <1>2 DEF ToSet
  <2>2. /\ ThreadCurrent' = next
        /\ ThreadHead' = PriorityRemove(list, next)
        /\ state' = [t \in Thread |-> IF t = next THEN "RUNNING"
                                      ELSE IF preempted /\ t = ThreadCurrent THEN "READY"
                                      ELSE st[t]]
    BY <1>2 DEF Reschedule, Swap
  <2>3. preempted => ThreadCurrent \in Thread
    BY DEF TypeOK
  <2>4. list \in Seq(Thread) /\ ToSet(ready) \subseteq ToSet(list)
    BY <1>1, <2>3, PriorityInsertSet
  <2>5. SortedBy(list, prio)
    BY <1>1, <2>3, PriorityInsertSorted
  <2>6. SortedBy(ThreadHead', prio)
    <3> HIDE DEF list
    <3> QED BY <2>1, <2>2, <2>4, <2>5, PriorityRemoveSorted
  <2>7. \A t \in In(st, "READY") : prio[t] <= prio[next]
    BY <1>1, <1>2, HeadMostUrgent
  <2>8. preempted => prio[ThreadCurrent] <= prio[next]
    BY <1>2, <2>1, <2>3 DEF MustSwap
  <2> HIDE DEF next, preempted
  <2>9. MostUrgent(next, state', prio)
    BY <2>1, <2>2, <2>7, <2>8 DEF MostUrgent, In
  <2> QED BY <2>2, <2>6, <2>9
<1>3. CASE ready = <<>>
  <2>1. ThreadHead' = ready /\ state' = st
    BY <1>3 DEF Reschedule
  <2>2. In(st, "READY") = {}
    BY <1>1, <1>3 DEF ToSet
  <2> QED BY <2>1, <2>2 DEF MostUrgent, In
<1>4. CASE ready # <<>> /\ ~MustSwap(rr, Head(ready), st, prio)
  <2>1. ThreadHead' = ready /\ state' = st /\ ThreadCurrent' = ThreadCurrent
    BY <1>4 DEF Reschedule
  <2>2. Head(ready) \in Thread
    BY <1>1, <1>4
  <2>3. ThreadCurrent \in Thread /\ prio[ThreadCurrent] >= prio[Head(ready)]
    BY <1>4, <2>2 DEF MustSwap, TypeOK
  <2>4. \A t \in In(st, "READY") : prio[t] <= prio[Head(ready)]
    BY <1>1, <1>4, HeadMostUrgent
  <2>5. \A t \in Thread : prio[t] \in Nat
    OBVIOUS
  <2>6. MostUrgent(ThreadCurrent, st, prio)
    BY <2>2, <2>3, <2>4, <2>5 DEF MostUrgent, In
  <2> QED BY <2>1, <2>6
<1> QED BY <1>2, <1>3, <1>4

\* OS_ThreadReschedule as a whole: when it returns early nothing is switched.
LEMMA OS_ThreadRescheduleUrgent ==
    ASSUME TypeOK, NEW ready, NEW st, Handed(ready, st),
           NEW prio \in [Thread -> Nat], SortedBy(ready, prio), NEW rr \in BOOLEAN,
           OS_ThreadReschedule(rr, ready, st, prio)
    PROVE  /\ SortedBy(ThreadHead', prio)
           /\ ThreadCurrent' # ThreadCurrent => MostUrgent(ThreadCurrent', state', prio)
           /\ ~InterruptInside /\ ThreadSwapEnabled =>
                 MostUrgent(ThreadCurrent', state', prio)
           /\ InterruptInside => ThreadNeedReschedule' # 0
           /\ ~ThreadSwapEnabled => UNCHANGED ThreadCurrent
<1>1. CASE InterruptInside \/ ~ThreadSwapEnabled
  BY <1>1 DEF OS_ThreadReschedule, DeferReschedule
<1>2. CASE ~(InterruptInside \/ ~ThreadSwapEnabled)
  BY <1>2, RescheduleUrgent DEF OS_ThreadReschedule
<1> QED BY <1>1, <1>2

\* So a call that ends with it keeps the list sorted and switches as it should.
LEMMA ReschedulingSwitches ==
    ASSUME IInv, NEW ready, NEW st, Handed(ready, st), priority' \in [Thread -> Nat],
           SortedBy(ready, priority'), NEW rr \in BOOLEAN,
           OS_ThreadReschedule(rr, ready, st, priority')
    PROVE  ReadySorted' /\ Switch
<1>1. PICK prio \in [Thread -> Nat] : prio = priority'
  OBVIOUS
<1>2. TypeOK /\ SortedBy(ready, prio) /\ OS_ThreadReschedule(rr, ready, st, prio)
  BY <1>1 DEF IInv
<1>3. /\ SortedBy(ThreadHead', prio)
      /\ ThreadCurrent' # ThreadCurrent => MostUrgent(ThreadCurrent', state', prio)
      /\ ~InterruptInside /\ ThreadSwapEnabled => MostUrgent(ThreadCurrent', state', prio)
  BY <1>2, OS_ThreadRescheduleUrgent
<1> QED BY <1>1, <1>3 DEF ReadySorted, SortedByPriority, SortedBy, Switch, NoneMoreUrgent,
                          MostUrgent

\* A step that leaves the runnable threads alone changes nothing here.
LEMMA NothingSwitches ==
    ASSUME ReadyInv, UNCHANGED <<ThreadHead, ThreadCurrent, state, priority>>
    PROVE  ReadySorted' /\ Switch
  BY DEF ReadyInv, ReadySorted, SortedByPriority, Switch

\* In terms of SortedBy.
LEMMA ReadyIsSorted ==
    ASSUME ReadyInv
    PROVE  /\ IInv /\ ServedInside
           /\ TypeOK /\ priority \in [Thread -> Nat]
           /\ ThreadHead \in Seq(Thread) /\ SortedBy(ThreadHead, priority)
           /\ IsInjective(ThreadHead) /\ ToSet(ThreadHead) = In(state, "READY")
  BY DEF ReadyInv, ReadySorted, SortedByPriority, SortedBy, IInv, TypeOK, RunnablePlaced,
         Lists, In

\* A creation, or a thread woken by a post, enters the sorted list.
LEMMA EnterReady ==
    ASSUME ReadyInv, NEW t \in Thread, state[t] \in {"PEND", "none"}, UNCHANGED priority,
           OS_ThreadReschedule(FALSE, PriorityInsert(ThreadHead, t, priority),
                               [state EXCEPT ![t] = "READY"], priority)
    PROVE  ReadySorted' /\ Switch
<1> DEFINE ready == PriorityInsert(ThreadHead, t, priority)
           st == [state EXCEPT ![t] = "READY"]
<1>1. Handed(ready, st)
  BY ReadyIsSorted, WokenHanded
<1>2. SortedBy(ready, priority)
  BY ReadyIsSorted, PriorityInsertSorted
<1>3. OS_ThreadReschedule(FALSE, ready, st, priority)
  OBVIOUS
<1> HIDE DEF ready, st
<1> QED BY <1>1, <1>2, <1>3, ReadyIsSorted, ReschedulingSwitches

\* OS_ThreadPrioritySet.
LEMMA PrioritySetSwitches ==
    ASSUME ReadyInv, NEW t \in Thread, NEW p \in Nat, OS_ThreadPrioritySet(t, p)
    PROVE  ReadySorted' /\ Switch
<1>1. priority' = [priority EXCEPT ![t] = p]
  BY DEF OS_ThreadPrioritySet
<1>2. PICK prio \in [Thread -> Nat] : prio = priority'
  BY <1>1, ReadyIsSorted
<1>3. CASE state[t] = "READY"
  <2> DEFINE ready == PriorityInsert(PriorityRemove(ThreadHead, t), t, prio)
  <2>1. OS_ThreadReschedule(FALSE, ready, state, prio)
    BY <1>2, <1>3 DEF OS_ThreadPrioritySet
  <2>2. t \in ToSet(ThreadHead) /\ Handed(ready, state)
    BY <1>3, ReadyIsSorted, ResortHanded
  <2>3. SortedBy(ready, prio)
    BY <1>1, <1>2, <2>2, ReadyIsSorted, ResortSorted
  <2> HIDE DEF ready
  <2> QED BY <1>2, <2>1, <2>2, <2>3, ReadyIsSorted, ReschedulingSwitches
<1>4. CASE state[t] # "READY"
  <2>1. UNCHANGED <<ThreadHead, ThreadCurrent, state>>
    BY <1>4 DEF OS_ThreadPrioritySet, schedVars
  <2>2. t \notin ToSet(ThreadHead)
    BY <1>4, ReadyIsSorted DEF In
  <2>3. SortedBy(ThreadHead, priority')
    BY <1>1, <2>2, ReadyIsSorted, SortedByOthers
  <2> QED BY <2>1, <2>3 DEF ReadySorted, SortedByPriority, SortedBy, Switch
<1> QED BY <1>3, <1>4

\* OS_SemaphorePend that sleeps.
LEMMA SleepOnSwitches ==
    ASSUME ReadyInv, NEW t \in Thread, Running(t), t # Idle, NEW s, NEW ticks,
           SleepOn(t, s, ticks)
    PROVE  ReadySorted' /\ Switch
<1>1. OS_ThreadReschedule(FALSE, ThreadHead, [state EXCEPT ![t] = "PEND"], priority)
      /\ UNCHANGED priority
  BY DEF SleepOn
<1>2. Handed(ThreadHead, [state EXCEPT ![t] = "PEND"])
  BY ReadyIsSorted, SleeperHanded
<1> QED BY <1>1, <1>2, ReadyIsSorted, ReschedulingSwitches

\* The first sleeper of a semaphore with a negative count sleeps.
LEMMA FirstSleeper ==
    ASSUME IInv, NEW s \in Semaphore, count[s] < 0
    PROVE  /\ Head(threadHead[s]) \in Thread
           /\ Head(threadHead[s]) \in ToSet(threadHead[s])
           /\ state[Head(threadHead[s])] = "PEND"
           /\ semaphorePending[Head(threadHead[s])] = s
<1>1. threadHead[s] \in Seq(Thread) /\ count[s] \in Int
      /\ ToSet(threadHead[s]) = {u \in Thread : semaphorePending[u] = s}
      /\ Len(threadHead[s]) = -count[s]
  BY DEF IInv, TypeOK, SleepersPlaced, Lists, CountMatchesWaiters
<1>2. Head(threadHead[s]) \in ToSet(threadHead[s])
  BY <1>1 DEF ToSet
<1> QED BY <1>1, <1>2, KernelAssumption DEF IInv, SleepersPlaced

\* A post, from a thread or a handler.
LEMMA PostSwitches ==
    ASSUME ReadyInv, NEW s \in Semaphore, Post(s)
    PROVE  ReadySorted' /\ Switch
<1>1. CASE count[s] < 0
  <2>1. WakeFirst(s) /\ UNCHANGED priority
    BY <1>1 DEF Post
  <2>2. PICK t \in Thread : t = Head(threadHead[s]) /\ state[t] = "PEND"
    BY <1>1, ReadyIsSorted, FirstSleeper
  <2>3. OS_ThreadReschedule(FALSE, PriorityInsert(ThreadHead, t, priority),
                            [state EXCEPT ![t] = "READY"], priority)
    BY <2>1, <2>2 DEF WakeFirst
  <2> QED BY <2>1, <2>2, <2>3, EnterReady
<1>2. CASE ~(count[s] < 0)
  BY <1>2, NothingSwitches DEF Post, schedVars
<1> QED BY <1>1, <1>2

\* A timeout: the reschedule comes at the end of the interrupt.
LEMMA TickWakeSwitches ==
    ASSUME ReadyInv, TickWake
    PROVE  ReadySorted' /\ Switch
<1>1. PICK t : t = Head(TimeoutHead)
  OBVIOUS
<1>2. /\ inTick /\ TimeoutHead # <<>>
      /\ ThreadHead' = PriorityInsert(ThreadHead, t, priority)
      /\ UNCHANGED <<ThreadCurrent, priority>>
  BY <1>1 DEF TickWake
<1>3. t \in Thread
  BY <1>1, <1>2, ReadyIsSorted DEF TypeOK
<1>4. SortedBy(ThreadHead', priority)
  BY <1>2, <1>3, ReadyIsSorted, PriorityInsertSorted
<1>5. InterruptInside
  BY <1>2, ReadyIsSorted DEF ServedInside
<1> QED BY <1>2, <1>4, <1>5 DEF ReadySorted, SortedByPriority, SortedBy, Switch

\* rtos__start and the end of an interrupt, which reschedule unconditionally.
LEMMA RescheduleSwitches ==
    ASSUME ReadyInv, NEW rr \in BOOLEAN, UNCHANGED priority,
           Reschedule(rr, ThreadHead, state, priority)
    PROVE  ReadySorted' /\ Switch
<1>1. SortedBy(ThreadHead', priority) /\ MostUrgent(ThreadCurrent', state', priority)
  BY ReadyIsSorted, StateHanded, RescheduleUrgent
<1> QED BY <1>1 DEF ReadySorted, SortedByPriority, SortedBy, Switch, NoneMoreUrgent, MostUrgent

-------------------------------------------------------------------------------
\* Every step keeps the ready list sorted and switches to the most urgent thread.
LEMMA NextSwitches ==
    ASSUME ReadyInv, [Next]_vars
    PROVE  ReadySorted' /\ Switch
<1>1. CASE \E t \in Thread : rtos__thread_create(t)
  BY <1>1, EnterReady DEF rtos__thread_create
<1>2. CASE rtos__start
  BY <1>2, StartInTwo, NothingSwitches, RescheduleSwitches
     DEF ReadyInv, StartEnable, FirstSwitch, schedVars
<1>3. ASSUME NEW t \in Thread, ThreadCall(t)
      PROVE  ReadySorted' /\ Switch
  <2>1. Running(t) /\ t # Idle
    BY <1>3 DEF ThreadCall
  <2>2. ASSUME NEW s, NEW ticks, OS_SemaphorePend(t, s, ticks)
        PROVE  ReadySorted' /\ Switch
    <3>1. CASE TakeToken(s)
      BY <3>1, NothingSwitches DEF TakeToken, schedVars
    <3> QED BY <2>1, <2>2, <3>1, SleepOnSwitches DEF OS_SemaphorePend
  <2>3. CASE \E s \in UserSemaphore, ticks \in Ticks : OS_SemaphorePend(t, s, ticks)
    BY <2>2, <2>3
  <2>4. CASE \E ticks \in Ticks : rtos__thread_sleep(t, ticks)
    BY <2>2, <2>4 DEF rtos__thread_sleep
  <2>5. CASE \E s \in UserSemaphore : count[s] < MaxCount /\ OS_SemaphorePost(s)
    BY <2>5, PostSwitches, KernelAssumption DEF OS_SemaphorePost
  <2>6. CASE \E u \in Thread \ {Idle}, p \in NewPriority :
                state[u] # "none" /\ OS_ThreadPrioritySet(u, p)
    BY <2>6, PrioritySetSwitches, KernelAssumption
  <2> QED BY <1>3, <2>3, <2>4, <2>5, <2>6 DEF ThreadCall
<1>4. CASE \E lines \in {{"tick"}, {"device"}, {"tick", "device"}} : InterruptEnter(lines)
  BY <1>4, NothingSwitches DEF InterruptEnter, schedVars
<1>5. CASE DeviceHandler
  <2>1. CASE UNCHANGED <<schedVars, semVars, timeVars, bootVars, priority>>
    BY <2>1, NothingSwitches DEF schedVars
  <2>2. CASE \E s \in UserSemaphore : count[s] < MaxCount /\ Post(s)
    BY <2>2, PostSwitches, KernelAssumption
  <2> QED BY <1>5, <2>1, <2>2 DEF DeviceHandler
<1>6. CASE OS_ThreadTick
  BY <1>6, NothingSwitches DEF OS_ThreadTick, schedVars
<1>7. CASE TickWake
  BY <1>7, TickWakeSwitches
<1>8. CASE TickDone
  BY <1>8, ReadyIsSorted, StateHanded, ReschedulingSwitches DEF TickDone
<1>9. CASE InterruptExit
  <2>1. CASE ThreadNeedReschedule = 0 \/ ~ThreadSwapEnabled
    BY <1>9, <2>1, NothingSwitches DEF InterruptExit, schedVars
  <2>2. CASE ~(ThreadNeedReschedule = 0 \/ ~ThreadSwapEnabled)
    <3>1. (ThreadNeedReschedule = 3) \in BOOLEAN
      OBVIOUS
    <3> QED BY <1>9, <2>2, <3>1, RescheduleSwitches DEF InterruptExit
  <2> QED BY <2>1, <2>2
<1>10. CASE UNCHANGED vars
  BY <1>10, NothingSwitches DEF vars, schedVars
<1> QED BY <1>1, <1>2, <1>3, <1>4, <1>5, <1>6, <1>7, <1>8, <1>9, <1>10
        DEF Next, rtos__interrupt_service_routine

\* Interrupts are served inside the service routine.
LEMMA NextServedInside ==
    ASSUME ServedInside, [Next]_vars
    PROVE  ServedInside'
  BY StartKeeps
     DEF ServedInside, Next, vars, isrVars, rtos__thread_create, ThreadCall,
         OS_SemaphorePend, TakeToken, SleepOn, rtos__thread_sleep, OS_SemaphorePost,
         OS_ThreadPrioritySet, rtos__interrupt_service_routine, InterruptEnter, Serve,
         DeviceHandler, OS_ThreadTick, TickWake, TickDone, InterruptExit

\* Every step keeps the ready list sorted.
LEMMA NextReadyInv == ReadyInv /\ [Next]_vars => ReadyInv'
  BY NextIInv, NextSwitches, NextServedInside DEF ReadyInv

\* At the start the idle thread is the only one that is ready.
LEMMA InitReadyInv == QuietStart /\ Init => ReadyInv
<1> SUFFICES ASSUME QuietStart, Init PROVE ReadyInv
  OBVIOUS
<1>1. ServedInside
  BY DEF Init, ServedInside
<1>2. ReadySorted
  BY DEF Init, ReadySorted, SortedByPriority
<1> QED BY <1>1, <1>2, InitIInv DEF ReadyInv

\* ThreadHead is sorted by priority, whatever priorities change: the first thread,
\* the only one Reschedule looks at, is the most urgent.
THEOREM ThreadHeadSorted == QuietStart => (Spec => []ReadySorted)
<1> SUFFICES ASSUME QuietStart PROVE Spec => []ReadySorted
  OBVIOUS
<1>1. ReadyInv => ReadySorted
  BY DEF ReadyInv
<1> QED BY <1>1, InitReadyInv, NextReadyInv, PTL DEF Spec

\* No switch picks a thread while a more urgent one is ready, and a thread woken or
\* created outside an interrupt preempts a less urgent caller at once.
THEOREM SwitchesRight == QuietStart => (Spec => SwitchesToHighest)
<1> SUFFICES ASSUME QuietStart PROVE Spec => SwitchesToHighest
  OBVIOUS
<1>1. ReadyInv /\ [Next]_vars => [Switch]_vars
  BY NextSwitches
<1> QED BY <1>1, InitReadyInv, NextReadyInv, PTL DEF Spec, SwitchesToHighest, Switch

-------------------------------------------------------------------------------
(***************************************************************************)
(* While no call changes priorities.  (A thread that lowers its own keeps  *)
(* running beside a more urgent one, and a sleeper keeps its place.)       *)
(***************************************************************************)

\* Nobody more urgent is ready, unless a reschedule is due at the end of the
\* interrupt.
UrgentUnlessAsked ==
    ThreadCurrent # None /\ (InterruptInside => ThreadNeedReschedule = 0 /\ ~inTick)
        => MostUrgent(ThreadCurrent, state, priority)

\* The inductive invariant of the running thread and of the sleepers.
UrgentInv == ReadyInv /\ UrgentUnlessAsked /\ WaitersSorted

\* No step changes a priority if nothing can be asked for.
LEMMA PrioritiesStay == NewPriority = {} /\ [Next]_vars => UNCHANGED priority
  BY StartKeeps
     DEF Next, vars, rtos__thread_create, ThreadCall,
         OS_SemaphorePend, TakeToken, SleepOn, rtos__thread_sleep, OS_SemaphorePost, Post,
         rtos__interrupt_service_routine, InterruptEnter, DeviceHandler,
         OS_ThreadTick, TickWake, TickDone, InterruptExit

\* A call that ends with OS_ThreadReschedule, in a thread or in an interrupt.
LEMMA ReschedulingUrgent ==
    ASSUME ReadyInv, NEW ready, NEW st, Handed(ready, st), SortedBy(ready, priority),
           NEW rr \in BOOLEAN, OS_ThreadReschedule(rr, ready, st, priority),
           UNCHANGED <<priority, InterruptInside>>
    PROVE  UrgentUnlessAsked'
<1>1. /\ ~InterruptInside /\ ThreadSwapEnabled => MostUrgent(ThreadCurrent', state', priority)
      /\ InterruptInside => ThreadNeedReschedule' # 0
      /\ ~ThreadSwapEnabled => UNCHANGED ThreadCurrent
  BY ReadyIsSorted, OS_ThreadRescheduleUrgent
<1>2. ThreadCurrent # None => ThreadSwapEnabled
  BY DEF ReadyInv, IInv, SwapsOn
<1> QED BY <1>1, <1>2 DEF UrgentUnlessAsked

\* A thread that is created or woken by a post.
LEMMA EnterUrgent ==
    ASSUME ReadyInv, NEW t \in Thread, state[t] \in {"PEND", "none"},
           UNCHANGED <<priority, InterruptInside>>,
           OS_ThreadReschedule(FALSE, PriorityInsert(ThreadHead, t, priority),
                               [state EXCEPT ![t] = "READY"], priority)
    PROVE  UrgentUnlessAsked'
<1> DEFINE ready == PriorityInsert(ThreadHead, t, priority)
           st == [state EXCEPT ![t] = "READY"]
<1>1. Handed(ready, st) /\ SortedBy(ready, priority)
  BY ReadyIsSorted, WokenHanded, PriorityInsertSorted
<1>2. OS_ThreadReschedule(FALSE, ready, st, priority)
  OBVIOUS
<1> HIDE DEF ready, st
<1> QED BY <1>1, <1>2, ReschedulingUrgent

\* A post makes the most urgent thread run, or leaves a reschedule to be asked for.
LEMMA PostUrgent ==
    ASSUME ReadyInv, UrgentUnlessAsked, NEW s \in Semaphore, Post(s),
           UNCHANGED <<priority, InterruptInside, inTick>>
    PROVE  UrgentUnlessAsked'
<1>1. CASE count[s] < 0
  <2>1. PICK t \in Thread : t = Head(threadHead[s]) /\ state[t] = "PEND"
    BY <1>1, ReadyIsSorted, FirstSleeper
  <2>2. OS_ThreadReschedule(FALSE, PriorityInsert(ThreadHead, t, priority),
                            [state EXCEPT ![t] = "READY"], priority)
    BY <1>1, <2>1 DEF Post, WakeFirst
  <2> QED BY <2>1, <2>2, EnterUrgent
<1>2. CASE ~(count[s] < 0)
  BY <1>2 DEF Post, schedVars, UrgentUnlessAsked
<1> QED BY <1>1, <1>2

\* After a reschedule nobody ready is more urgent than the running thread.
LEMMA RescheduleUrgentAll ==
    ASSUME ReadyInv, NEW rr \in BOOLEAN, UNCHANGED priority,
           Reschedule(rr, ThreadHead, state, priority)
    PROVE  UrgentUnlessAsked'
<1>1. MostUrgent(ThreadCurrent', state', priority)
  BY ReadyIsSorted, StateHanded, RescheduleUrgent
<1> QED BY <1>1 DEF UrgentUnlessAsked

\* rtos__start leaves the first thread running, or the boot code.
LEMMA StartUrgent ==
    ASSUME ReadyInv, UrgentUnlessAsked, rtos__start
    PROVE  UrgentUnlessAsked'
<1>1. CASE StartEnable
  BY <1>1 DEF StartEnable, UrgentUnlessAsked, MostUrgent, schedVars, isrVars
<1>2. CASE FirstSwitch
  BY <1>2, RescheduleUrgentAll DEF FirstSwitch
<1> QED BY <1>1, <1>2, StartInTwo DEF ReadyInv

\* Every step keeps the most urgent thread running.
LEMMA NextUrgent ==
    ASSUME NewPriority = {}, ReadyInv, UrgentUnlessAsked, [Next]_vars
    PROVE  UrgentUnlessAsked'
<1>0. UNCHANGED priority
  BY PrioritiesStay
<1>1. CASE \E t \in Thread : rtos__thread_create(t)
  BY <1>1, EnterUrgent DEF rtos__thread_create, isrVars
<1>2. CASE rtos__start
  BY <1>2, StartUrgent
<1>3. ASSUME NEW t \in Thread, ThreadCall(t)
      PROVE  UrgentUnlessAsked'
  <2>1. Running(t) /\ t # Idle
    BY <1>3 DEF ThreadCall
  <2>2. ASSUME NEW s, NEW ticks, OS_SemaphorePend(t, s, ticks)
        PROVE  UrgentUnlessAsked'
    <3>1. CASE TakeToken(s)
      BY <3>1 DEF TakeToken, schedVars, isrVars, UrgentUnlessAsked
    <3>2. CASE SleepOn(t, s, ticks)
      <4>1. OS_ThreadReschedule(FALSE, ThreadHead, [state EXCEPT ![t] = "PEND"], priority)
            /\ UNCHANGED InterruptInside
        BY <3>2 DEF SleepOn, isrVars
      <4>2. Handed(ThreadHead, [state EXCEPT ![t] = "PEND"])
        BY <2>1, ReadyIsSorted, SleeperHanded
      <4> QED BY <1>0, <4>1, <4>2, ReadyIsSorted, ReschedulingUrgent
    <3> QED BY <2>2, <3>1, <3>2 DEF OS_SemaphorePend
  <2>3. CASE \E s \in UserSemaphore : count[s] < MaxCount /\ OS_SemaphorePost(s)
    BY <1>0, <2>3, PostUrgent, KernelAssumption DEF OS_SemaphorePost, isrVars
  <2> QED BY <1>3, <2>2, <2>3 DEF ThreadCall, rtos__thread_sleep
<1>4. CASE \E lines \in {{"tick"}, {"device"}, {"tick", "device"}} : InterruptEnter(lines)
  BY <1>4 DEF InterruptEnter, schedVars, UrgentUnlessAsked
<1>5. CASE DeviceHandler
  <2>1. CASE UNCHANGED <<schedVars, semVars, timeVars, bootVars, priority>>
    BY <1>5, <2>1 DEF DeviceHandler, Serve, schedVars, UrgentUnlessAsked
  <2>2. CASE \E s \in UserSemaphore : count[s] < MaxCount /\ Post(s)
    BY <1>0, <1>5, <2>2, PostUrgent, KernelAssumption DEF DeviceHandler, Serve
  <2> QED BY <1>5, <2>1, <2>2 DEF DeviceHandler
<1>6. CASE OS_ThreadTick
  BY <1>6, ReadyIsSorted DEF OS_ThreadTick, Serve, ServedInside, UrgentUnlessAsked
<1>7. CASE TickWake
  BY <1>7, ReadyIsSorted DEF TickWake, isrVars, ServedInside, UrgentUnlessAsked
<1>8. CASE TickDone
  BY <1>8, ReadyIsSorted, StateHanded, ReschedulingUrgent DEF TickDone
<1>9. CASE InterruptExit
  <2>1. CASE ThreadNeedReschedule = 0 \/ ~ThreadSwapEnabled
    BY <1>9, <2>1, ReadyIsSorted
       DEF InterruptExit, schedVars, UrgentUnlessAsked, IInv, SwapsOn
  <2>2. CASE ~(ThreadNeedReschedule = 0 \/ ~ThreadSwapEnabled)
    <3>1. (ThreadNeedReschedule = 3) \in BOOLEAN
      OBVIOUS
    <3> QED BY <1>0, <1>9, <2>2, <3>1, RescheduleUrgentAll DEF InterruptExit
  <2> QED BY <2>1, <2>2
<1>10. CASE UNCHANGED vars
  BY <1>10 DEF vars, schedVars, isrVars, UrgentUnlessAsked
<1> QED BY <1>1, <1>2, <1>3, <1>4, <1>5, <1>6, <1>7, <1>8, <1>9, <1>10
        DEF Next, rtos__interrupt_service_routine

\* A thread joins the sorted list of its semaphore ...
LEMMA SleepOnSorted ==
    ASSUME IInv, WaitersSorted, NEW t \in Thread, NEW s \in Semaphore,
           UNCHANGED priority, threadHead' = [threadHead EXCEPT ![s] = PriorityInsert(@, t, priority)]
    PROVE  WaitersSorted'
<1>1. threadHead \in [Semaphore -> Seq(Thread)] /\ priority \in [Thread -> Nat]
  BY DEF IInv, TypeOK
<1>2. \A r \in Semaphore : SortedBy(threadHead[r], priority)
  BY DEF WaitersSorted, SortedByPriority, SortedBy
<1>3. SortedBy(threadHead'[s], priority)
  BY <1>1, <1>2, PriorityInsertSorted
<1>4. \A r \in Semaphore : SortedBy(threadHead'[r], priority)
  BY <1>1, <1>2, <1>3
<1> QED BY <1>4 DEF WaitersSorted, SortedByPriority, SortedBy

\* ... and leaves it.
LEMMA WakeSorted ==
    ASSUME IInv, WaitersSorted, NEW s \in Semaphore, NEW t \in ToSet(threadHead[s]),
           UNCHANGED priority, threadHead' = [threadHead EXCEPT ![s] = PriorityRemove(@, t)]
    PROVE  WaitersSorted'
<1>1. threadHead \in [Semaphore -> Seq(Thread)] /\ priority \in [Thread -> Nat]
  BY DEF IInv, TypeOK
<1>2. \A r \in Semaphore : SortedBy(threadHead[r], priority)
  BY DEF WaitersSorted, SortedByPriority, SortedBy
<1>3. SortedBy(threadHead'[s], priority)
  BY <1>1, <1>2, PriorityRemoveSorted
<1>4. \A r \in Semaphore : SortedBy(threadHead'[r], priority)
  BY <1>1, <1>2, <1>3
<1> QED BY <1>4 DEF WaitersSorted, SortedByPriority, SortedBy

\* A post takes the first waiter and leaves the others in order.
LEMMA PostSorted ==
    ASSUME IInv, WaitersSorted, NEW s \in Semaphore, Post(s)
    PROVE  WaitersSorted'
<1>1. CASE count[s] < 0
  BY <1>1, FirstSleeper, WakeSorted DEF Post, WakeFirst
<1>2. CASE ~(count[s] < 0)
  BY <1>2 DEF Post, WaitersSorted, SortedByPriority
<1> QED BY <1>1, <1>2

\* The first thread in TimeoutHead is in the list of the semaphore it records.
LEMMA FirstTimeout ==
    ASSUME IInv, TimeoutHead # <<>>
    PROVE  /\ Head(TimeoutHead) \in Thread
           /\ semaphorePending[Head(TimeoutHead)] \in Semaphore
           /\ Head(TimeoutHead) \in ToSet(threadHead[semaphorePending[Head(TimeoutHead)]])
<1>1. PICK t : t = Head(TimeoutHead)
  OBVIOUS
<1>2. TimeoutHead \in Seq(Thread)
  BY DEF IInv, TypeOK
<1>3. t \in Thread /\ t \in ToSet(TimeoutHead)
  BY <1>1, <1>2 DEF ToSet
<1>4. semaphorePending[t] \in Semaphore
  BY <1>3 DEF IInv, TimeoutsPending, SleepersPlaced, TypeOK
<1>5. t \in ToSet(threadHead[semaphorePending[t]])
  BY <1>3, <1>4 DEF IInv, SleepersPlaced, Lists
<1> QED BY <1>1, <1>3, <1>4, <1>5

\* Every step keeps the waiting lists sorted.
LEMMA NextWaiters ==
    ASSUME NewPriority = {}, IInv, WaitersSorted, [Next]_vars
    PROVE  WaitersSorted'
<1>0. UNCHANGED priority
  BY PrioritiesStay
<1>1. CASE UNCHANGED threadHead
  BY <1>0, <1>1 DEF WaitersSorted, SortedByPriority
<1>2. ASSUME NEW t \in Thread, ThreadCall(t)
      PROVE  WaitersSorted'
  <2>1. ASSUME NEW s \in Semaphore, NEW ticks, OS_SemaphorePend(t, s, ticks)
        PROVE  WaitersSorted'
    BY <1>0, <1>1, <2>1, SleepOnSorted DEF OS_SemaphorePend, SleepOn, TakeToken
  <2>2. CASE \E s \in UserSemaphore : count[s] < MaxCount /\ OS_SemaphorePost(s)
    BY <2>2, PostSorted, KernelAssumption DEF OS_SemaphorePost
  <2> QED BY <1>2, <2>1, <2>2, KernelAssumption DEF ThreadCall, rtos__thread_sleep
<1>3. CASE DeviceHandler
  BY <1>1, <1>3, PostSorted, KernelAssumption DEF DeviceHandler, semVars
<1>4. CASE TickWake
  <2>1. TimeoutHead # <<>>
        /\ threadHead' = [threadHead EXCEPT ![semaphorePending[Head(TimeoutHead)]] =
                                PriorityRemove(@, Head(TimeoutHead))]
    BY <1>4 DEF TickWake
  <2> QED BY <1>0, <2>1, FirstTimeout, WakeSorted
<1> QED BY <1>1, <1>2, <1>3, <1>4, StartKeeps
        DEF Next, vars, semVars, rtos__thread_create,
            rtos__interrupt_service_routine, InterruptEnter, OS_ThreadTick, TickDone,
            InterruptExit

\* Nobody waits and nobody runs at the start.
LEMMA InitUrgentInv == QuietStart /\ Init => UrgentInv
<1> SUFFICES ASSUME QuietStart, Init PROVE UrgentInv
  OBVIOUS
<1>1. UrgentUnlessAsked
  BY DEF Init, UrgentUnlessAsked
<1>2. WaitersSorted
  BY DEF Init, WaitersSorted, SortedByPriority
<1> QED BY <1>1, <1>2, InitReadyInv DEF UrgentInv

\* The two facts about urgency are kept together.
LEMMA NextUrgentInv == NewPriority = {} /\ UrgentInv /\ [Next]_vars => UrgentInv'
  BY NextReadyInv, NextUrgent, NextWaiters DEF UrgentInv, ReadyInv

\* Fully pre-emptive: outside interrupts no ready thread is more urgent than the
\* one that runs.
THEOREM MostUrgentRuns == QuietStart /\ NewPriority = {} => (Spec => []HighestPriorityRuns)
<1> SUFFICES ASSUME QuietStart, NewPriority = {} PROVE Spec => []HighestPriorityRuns
  OBVIOUS
<1>1. UrgentInv => HighestPriorityRuns
  BY DEF UrgentInv, UrgentUnlessAsked, HighestPriorityRuns, NoneMoreUrgent, MostUrgent
<1>2. UrgentInv /\ [Next]_vars => UrgentInv'
  BY NextUrgentInv
<1> QED BY <1>1, <1>2, InitUrgentInv, PTL DEF Spec

\* The waiting lists are sorted, so a post wakes the most urgent sleeper.
THEOREM MostUrgentWoken == QuietStart /\ NewPriority = {} => (Spec => []WaitersSorted)
<1> SUFFICES ASSUME QuietStart, NewPriority = {} PROVE Spec => []WaitersSorted
  OBVIOUS
<1>1. UrgentInv => WaitersSorted
  BY DEF UrgentInv
<1>2. UrgentInv /\ [Next]_vars => UrgentInv'
  BY NextUrgentInv
<1> QED BY <1>1, <1>2, InitUrgentInv, PTL DEF Spec

-------------------------------------------------------------------------------
(***************************************************************************)
(* The refinement: every step of the scheduler is a step of the counting   *)
(* semaphores or leaves them alone.                                        *)
(***************************************************************************)

\* The abstract state: tokens and sleepers of every semaphore.
Value == [s \in Semaphore |-> IF count[s] > 0 THEN count[s] ELSE 0]
Waiting == [s \in Semaphore |-> ToSet(threadHead[s])]

AbstractStep == [Abstract!Next]_(Abstract!vars)

\* The initial states are initial states of the semaphores.
LEMMA InitAbstract == Init => Abstract!Init
<1> SUFFICES ASSUME Init PROVE Abstract!Init
  OBVIOUS
<1>1. Value = InitialCount
  BY KernelAssumption DEF Init, Value
<1>2. ToSet(<<>>) = {}
  BY DEF ToSet
<1>3. Waiting = [s \in Semaphore |-> {}]
  BY <1>2 DEF Init, Waiting
<1> QED BY <1>1, <1>3 DEF Init, Abstract!Init, Value, Waiting

\* What stutters: nothing the abstract semaphores are made of changes.
LEMMA SemaphoresAlone ==
    ASSUME UNCHANGED <<count, threadHead, returnCode>>
    PROVE  AbstractStep
  BY DEF AbstractStep, Abstract!vars

\* A pend that finds a token is Take.
LEMMA TakeTokenTakes ==
    ASSUME IInv, NEW s \in Semaphore, count[s] > 0, TakeToken(s)
    PROVE  AbstractStep
<1>1. count \in [Semaphore -> Int]
  BY DEF IInv, TypeOK
<1>2. Value[s] > 0 /\ Value' = [Value EXCEPT ![s] = @ - 1]
  <2>1. count' = [count EXCEPT ![s] = @ - 1]
    BY DEF TakeToken
  <2>2. \A r \in Semaphore :
           Value'[r] = IF r = s THEN Value[s] - 1 ELSE Value[r]
    BY <1>1, <2>1 DEF Value
  <2> QED BY <1>1, <2>2 DEF Value
<1>3. Abstract!Take(s)
  BY <1>2 DEF TakeToken, Abstract!Take, Value
<1> QED BY <1>3 DEF AbstractStep, Abstract!Next

\* A pend that sleeps is Sleep: there is no token, and the caller sleeps nowhere.
LEMMA SleepOnSleeps ==
    ASSUME IInv, NEW t \in Thread, Running(t), t # Idle,
           NEW s \in Semaphore, count[s] <= 0, NEW ticks, SleepOn(t, s, ticks)
    PROVE  AbstractStep
<1>1. /\ count \in [Semaphore -> Int] /\ threadHead \in [Semaphore -> Seq(Thread)]
      /\ priority \in [Thread -> Nat]
      /\ count' = [count EXCEPT ![s] = @ - 1] /\ UNCHANGED returnCode
      /\ threadHead' = [threadHead EXCEPT ![s] = PriorityInsert(@, t, priority)]
  BY DEF IInv, TypeOK, SleepOn
<1>2. \A r \in Semaphore : t \notin ToSet(threadHead[r])
  <2>1. semaphorePending[t] = None
    BY SleeperHanded, KernelAssumption DEF In, IInv, SleepersPlaced
  <2>2. \A r \in Semaphore : ToSet(threadHead[r]) = {u \in Thread : semaphorePending[u] = r}
    BY DEF IInv, SleepersPlaced, Lists
  <2> QED BY <2>1, <2>2, KernelAssumption
<1>3. Value[s] = 0 /\ Value' = Value
  BY <1>1 DEF Value
<1>4. ToSet(threadHead'[s]) = ToSet(threadHead[s]) \cup {t}
  BY <1>1, PriorityInsertSet
<1>5. Waiting' = [Waiting EXCEPT ![s] = @ \cup {t}]
  BY <1>1, <1>4 DEF Waiting
<1>6. Abstract!Sleep(t, s)
  BY <1>1, <1>2, <1>3, <1>5 DEF Abstract!Sleep, Value, Waiting
<1> QED BY <1>6 DEF AbstractStep, Abstract!Next

\* A sleeper that leaves its list and gives back what it took is a Wake.
LEMMA SleeperWakes ==
    ASSUME IInv, NEW s \in Semaphore, NEW t \in ToSet(threadHead[s]), t \in Thread,
           NEW rc \in {0, -1},
           count' = [count EXCEPT ![s] = @ + 1],
           threadHead' = [threadHead EXCEPT ![s] = PriorityRemove(@, t)],
           returnCode' = [returnCode EXCEPT ![t] = rc]
    PROVE  AbstractStep
<1>1. count \in [Semaphore -> Int] /\ threadHead \in [Semaphore -> Seq(Thread)]
      /\ IsInjective(threadHead[s])
      /\ Len(threadHead[s]) = IF count[s] < 0 THEN -count[s] ELSE 0
  BY DEF IInv, TypeOK, SleepersPlaced, Lists, CountMatchesWaiters
<1>2. count[s] < 0
  BY <1>1 DEF ToSet
<1>3. Value' = Value
  BY <1>1, <1>2 DEF Value
<1>4. ToSet(threadHead'[s]) = ToSet(threadHead[s]) \ {t}
  BY <1>1, PriorityRemoveSet
<1>5. Waiting' = [Waiting EXCEPT ![s] = @ \ {t}]
  BY <1>1, <1>4 DEF Waiting
<1>6. Abstract!Wake(t, s, rc)
  BY <1>3, <1>5 DEF Abstract!Wake, Value, Waiting
<1> QED BY <1>6 DEF AbstractStep, Abstract!Next

\* A post wakes the first sleeper with a token, or is Put.
LEMMA PostPuts ==
    ASSUME IInv, NEW s \in Semaphore, Post(s)
    PROVE  AbstractStep
<1>1. count \in [Semaphore -> Int] /\ threadHead \in [Semaphore -> Seq(Thread)]
      /\ count' = [count EXCEPT ![s] = @ + 1]
      /\ Len(threadHead[s]) = IF count[s] < 0 THEN -count[s] ELSE 0
  BY DEF IInv, TypeOK, CountMatchesWaiters, Post
<1>2. CASE count[s] < 0
  BY <1>1, <1>2, FirstSleeper, SleeperWakes DEF Post, WakeFirst
<1>3. CASE ~(count[s] < 0)
  <2>1. UNCHANGED <<threadHead, returnCode>>
    BY <1>3 DEF Post
  <2>2. ToSet(threadHead[s]) = {}
    BY <1>1, <1>3 DEF ToSet
  <2>3. Value' = [Value EXCEPT ![s] = @ + 1]
    <3>1. \A r \in Semaphore :
             Value'[r] = IF r = s THEN Value[s] + 1 ELSE Value[r]
      BY <1>1, <1>3 DEF Value
    <3> QED BY <3>1 DEF Value
  <2>4. Abstract!Put(s)
    BY <2>1, <2>2, <2>3 DEF Abstract!Put, Value
  <2> QED BY <2>4 DEF AbstractStep, Abstract!Next
<1> QED BY <1>2, <1>3

\* A timeout is a Wake with the result -1.
LEMMA TickWakeWakes ==
    ASSUME IInv, TickWake
    PROVE  AbstractStep
<1>1. PICK t : t = Head(TimeoutHead)
  OBVIOUS
<1>2. PICK s : s = semaphorePending[t]
  OBVIOUS
<1>3. /\ TimeoutHead # <<>>
      /\ count' = [count EXCEPT ![s] = @ + 1]
      /\ threadHead' = [threadHead EXCEPT ![s] = PriorityRemove(@, t)]
      /\ returnCode' = [returnCode EXCEPT ![t] = -1]
  BY <1>1, <1>2 DEF TickWake
<1>4. s \in Semaphore /\ t \in Thread /\ t \in ToSet(threadHead[s])
  BY <1>1, <1>2, <1>3, FirstTimeout
<1> QED BY <1>3, <1>4, SleeperWakes

\* Every step of the scheduler is a step of the semaphores or none.
LEMMA NextAbstract ==
    ASSUME IInv, [Next]_vars
    PROVE  AbstractStep
<1>1. ASSUME NEW t \in Thread, ThreadCall(t)
      PROVE  AbstractStep
  <2>1. Running(t) /\ t # Idle
    BY <1>1 DEF ThreadCall
  <2>2. ASSUME NEW s \in Semaphore, NEW ticks, OS_SemaphorePend(t, s, ticks)
        PROVE  AbstractStep
    BY <2>1, <2>2, TakeTokenTakes, SleepOnSleeps DEF OS_SemaphorePend
  <2>3. CASE \E s \in UserSemaphore : count[s] < MaxCount /\ OS_SemaphorePost(s)
    BY <2>3, PostPuts, KernelAssumption DEF OS_SemaphorePost
  <2>4. CASE \E u \in Thread \ {Idle}, p \in NewPriority :
                state[u] # "none" /\ OS_ThreadPrioritySet(u, p)
    BY <2>4, SemaphoresAlone DEF OS_ThreadPrioritySet, semVars
  <2> QED BY <1>1, <2>2, <2>3, <2>4, KernelAssumption DEF ThreadCall, rtos__thread_sleep
<1>2. CASE DeviceHandler
  BY <1>2, PostPuts, SemaphoresAlone, KernelAssumption DEF DeviceHandler, semVars
<1>3. CASE TickWake
  BY <1>3, TickWakeWakes
<1>4. CASE UNCHANGED semVars
  BY <1>4, SemaphoresAlone DEF semVars
<1> QED BY <1>1, <1>2, <1>3, <1>4, StartKeeps
        DEF Next, vars, rtos__thread_create,
            rtos__interrupt_service_routine, InterruptEnter, OS_ThreadTick, TickDone,
            InterruptExit

\* The semaphores of the scheduler are counting semaphores: whatever lists, order
\* and timeouts do, no token is lost or made, and a sleeper wakes once.
THEOREM SchedulerRefines == QuietStart => (Spec => ImplementsSemaphores)
<1> SUFFICES ASSUME QuietStart PROVE Spec => ImplementsSemaphores
  OBVIOUS
<1>1. IInv /\ [Next]_vars => [Abstract!Next]_(Abstract!vars)
  BY NextAbstract DEF AbstractStep
<1> QED BY <1>1, InitIInv, NextIInv, InitAbstract, PTL
        DEF Spec, ImplementsSemaphores, Abstract!Spec

-------------------------------------------------------------------------------
\* Sleeps last exactly as long as asked (KernelClock).

\* A number that is a signed difference of two tick counts.
Near(n) == -TickModulus <= 2 * n /\ 2 * n < TickModulus

\* A number from one modulus below zero to two above is brought into range.
LEMMA Wraps ==
    ASSUME NEW n \in Int, -TickModulus <= n, n < 2 * TickModulus
    PROVE  n % TickModulus = IF n < 0 THEN n + TickModulus
                             ELSE IF n < TickModulus THEN n ELSE n - TickModulus
  BY TickModulusAssumption

\* The signed difference is the one number in range that is congruent to the
\* difference.
LEMMA SignedDiffIs ==
    ASSUME NEW a \in Tick, NEW b \in Tick, NEW n \in Int, Near(n),
           \/ n = a - b
           \/ n = a - b + TickModulus
           \/ n = a - b - TickModulus
    PROVE  SignedDiff(a, b) = n
<1>1. (a - b) % TickModulus = IF a - b < 0 THEN a - b + TickModulus ELSE a - b
  BY Wraps, TickModulusAssumption DEF Tick
<1> QED BY <1>1, TickModulusAssumption DEF SignedDiff, Near, Tick

\* A signed difference is a number in range.
LEMMA SignedDiffNear ==
    ASSUME NEW a \in Tick, NEW b \in Tick
    PROVE  /\ SignedDiff(a, b) \in Int
           /\ Near(SignedDiff(a, b))
           /\ \/ SignedDiff(a, b) = a - b
              \/ SignedDiff(a, b) = a - b + TickModulus
              \/ SignedDiff(a, b) = a - b - TickModulus
<1>1. (a - b) % TickModulus = IF a - b < 0 THEN a - b + TickModulus ELSE a - b
  BY Wraps, TickModulusAssumption DEF Tick
<1> QED BY <1>1, TickModulusAssumption DEF SignedDiff, Near, Tick

\* Two due times differ by as much as the ticks left until them.
LEMMA DifferenceLeft ==
    ASSUME NEW a \in Tick, NEW b \in Tick, NEW now \in Tick,
           Near(SignedDiff(a, now) - SignedDiff(b, now))
    PROVE  SignedDiff(a, b) = SignedDiff(a, now) - SignedDiff(b, now)
<1> DEFINE x == SignedDiff(a, now)
           y == SignedDiff(b, now)
<1>1. /\ x \in Int /\ (x = a - now \/ x = a - now + TickModulus \/ x = a - now - TickModulus)
      /\ y \in Int /\ (y = b - now \/ y = b - now + TickModulus \/ y = b - now - TickModulus)
  BY SignedDiffNear
<1> HIDE DEF x, y
<1>2. \/ x - y = a - b
      \/ x - y = a - b + TickModulus
      \/ x - y = a - b - TickModulus
  BY <1>1, TickModulusAssumption DEF x, y, Near, Tick
<1> QED BY <1>1, <1>2, SignedDiffIs DEF x, y

\* The ticks since a due time are the ticks left until it, with the other sign.
LEMMA SinceDue ==
    ASSUME NEW a \in Tick, NEW now \in Tick, Near(-SignedDiff(a, now))
    PROVE  SignedDiff(now, a) = -SignedDiff(a, now)
<1> DEFINE x == SignedDiff(a, now)
<1>1. x \in Int /\ (x = a - now \/ x = a - now + TickModulus \/ x = a - now - TickModulus)
  BY SignedDiffNear
<1>2. Near(-x)
  OBVIOUS
<1> HIDE DEF x
<1>3. \/ -x = now - a
      \/ -x = now - a + TickModulus
      \/ -x = now - a - TickModulus
  BY <1>1, TickModulusAssumption DEF Tick
<1>4. SignedDiff(now, a) = -x
  BY <1>1, <1>2, <1>3, SignedDiffIs
<1> QED BY <1>4 DEF x

\* With every tick one tick less is left.
LEMMA TickPasses ==
    ASSUME NEW d \in Tick, NEW now \in Tick, Near(SignedDiff(d, now) - 1)
    PROVE  /\ (now + 1) % TickModulus \in Tick
           /\ SignedDiff(d, (now + 1) % TickModulus) = SignedDiff(d, now) - 1
<1> DEFINE x == SignedDiff(d, now)
           next == (now + 1) % TickModulus
<1>1. x \in Int /\ (x = d - now \/ x = d - now + TickModulus \/ x = d - now - TickModulus)
  BY SignedDiffNear
<1>2. next \in Tick /\ next = IF now + 1 < TickModulus THEN now + 1 ELSE 0
  BY Wraps, TickModulusAssumption DEF Tick
<1>3. Near(x - 1)
  OBVIOUS
<1> HIDE DEF x, next
<1>4. \/ x - 1 = d - next
      \/ x - 1 = d - next + TickModulus
      \/ x - 1 = d - next - TickModulus
  BY <1>1, <1>2, <1>3, TickModulusAssumption DEF Near, Tick
<1>5. SignedDiff(d, next) = x - 1
  BY <1>1, <1>2, <1>3, <1>4, SignedDiffIs
<1> QED BY <1>2, <1>5 DEF next, x

\* As many ticks are left until a due time as it was computed with.
LEMMA DueAhead ==
    ASSUME NEW n \in Int, NEW now \in Tick, Near(n)
    PROVE  /\ (now + n) % TickModulus \in Tick
           /\ SignedDiff((now + n) % TickModulus, now) = n
<1> DEFINE d == (now + n) % TickModulus
<1>1. d = IF now + n < 0 THEN now + n + TickModulus
          ELSE IF now + n < TickModulus THEN now + n ELSE now + n - TickModulus
  BY Wraps, TickModulusAssumption DEF Tick, Near
<1>2. d \in Tick
  BY ModuloTick DEF Tick
<1> HIDE DEF d
<1>3. SignedDiff(d, now) = n
  BY <1>1, <1>2, SignedDiffIs, TickModulusAssumption DEF Tick
<1> QED BY <1>2, <1>3 DEF d

\* The arguments a call may sleep with until a due time.
SleepTicks == Ticks \ {WAIT_FOREVER, NO_WAIT}

\* The arguments fit the counter: due times of sleepers, one tick late ones
\* included, stay less than half its range apart.
TicksFit ==
    \A i \in SleepTicks :
       /\ 2 * i < TickModulus
       /\ 2 * (1 - i) < TickModulus
       /\ \A j \in SleepTicks : 2 * (i - j) < TickModulus

\* The ticks left until a thread's due time, as the counter has it.
TicksLeft == [t \in Thread |-> SignedDiff(ticksTimeout[t], ThreadTime)]

\* ... which grows along the timeout list, so that this falls.
TicksOver == [t \in Thread |-> -TicksLeft[t]]

\* n ticks are left of a sleep: all of it if it began after the last tick.
LeftOfSleep(n) == \E asked \in SleepTicks : n <= asked /\ (n > 0 \/ n = asked)

\* The ticks that were left before the tick that is being handled.
LeftBefore(t) == IF inTick THEN TicksLeft[t] + 1 ELSE TicksLeft[t]

\* Counter and stopwatch agree, but for a sleep that is over when it starts: the
\* stopwatch leaves it as it is until its first tick ends it.
StopwatchAgrees(t) ==
    /\ LeftOfSleep(LeftBefore(t))
    /\ remaining[t] = IF LeftBefore(t) <= 0 THEN LeftBefore(t) ELSE TicksLeft[t]

\* The invariant: the timeout list is in the order of the ticks left.
ClockInv ==
    /\ IInv
    /\ remaining \in [Thread -> Int]
    /\ ServedInside
    /\ SortedBy(TimeoutHead, TicksOver)
    /\ \A t \in ToSet(TimeoutHead) : StopwatchAgrees(t)

\* What the proofs need of the timeout list and the counter.
LEMMA Timeouts ==
    ASSUME IInv
    PROVE  /\ TimeoutHead \in Seq(Thread)
           /\ \A t \in ToSet(TimeoutHead) : t \in Thread
           /\ ticksTimeout \in [Thread -> Tick] /\ ThreadTime \in Tick /\ inTick \in BOOLEAN
           /\ TicksLeft \in [Thread -> Int] /\ TicksOver \in [Thread -> Int]
           /\ \A t \in Thread : TicksLeft[t] = SignedDiff(ticksTimeout[t], ThreadTime)
           /\ \A t \in Thread : TicksOver[t] = -TicksLeft[t]
<1>1. /\ TimeoutHead \in Seq(Thread)
      /\ ticksTimeout \in [Thread -> Tick] /\ ThreadTime \in Tick /\ inTick \in BOOLEAN
  BY DEF IInv, TypeOK
<1>2. \A t \in ToSet(TimeoutHead) : t \in Thread
  BY <1>1 DEF ToSet
<1>3. \A t \in Thread : TicksLeft[t] = SignedDiff(ticksTimeout[t], ThreadTime)
                        /\ TicksLeft[t] \in Int
  BY <1>1, SignedDiffNear DEF TicksLeft
<1>4. TicksLeft \in [Thread -> Int]
  BY <1>3 DEF TicksLeft
<1>5. TicksOver \in [Thread -> Int] /\ \A t \in Thread : TicksOver[t] = -TicksLeft[t]
  BY <1>4 DEF TicksOver
<1> QED BY <1>1, <1>2, <1>3, <1>4, <1>5

\* A step that leaves times alone and at most takes a thread off the timeout list.
LEMMA TimesKept ==
    ASSUME ClockInv, IInv', NEW u,
           TimeoutHead' \in {TimeoutHead, TimeoutRemove(TimeoutHead, u)},
           UNCHANGED <<ThreadTime, ticksTimeout, inTick>>,
           ServedInside',
           remaining' \in [Thread -> Int],
           \A t \in ToSet(TimeoutHead') : remaining'[t] = remaining[t]
    PROVE  ClockInv'
<1>1. TimeoutHead \in Seq(Thread) /\ IsInjective(TimeoutHead)
  BY DEF ClockInv, IInv, TypeOK, TimeoutsPending
<1>2. SortedBy(TimeoutHead', TicksOver)
  BY <1>1, TimeoutRemoveSorted DEF ClockInv
<1>3. ToSet(TimeoutHead') \subseteq ToSet(TimeoutHead)
  BY <1>1, TimeoutRemoveSet
<1>4. TicksLeft' = TicksLeft
  BY DEF TicksLeft
<1>5. TicksOver' = TicksOver
  BY <1>4 DEF TicksOver
<1>6. ASSUME NEW t \in ToSet(TimeoutHead') PROVE StopwatchAgrees(t)'
  <2>1. StopwatchAgrees(t) /\ remaining'[t] = remaining[t]
    BY <1>3 DEF ClockInv
  <2> QED BY <1>4, <2>1 DEF StopwatchAgrees, LeftBefore
<1>7. SortedBy(TimeoutHead, TicksOver)'
  BY <1>2, <1>5
<1> QED BY <1>6, <1>7 DEF ClockInv

\* A sleep begins with all its ticks left, and is linked in where it is due.
LEMMA SleepStarts ==
    ASSUME TicksFit, ClockInv, IInv', ServedInside', NEW t \in Thread, NEW s \in Semaphore,
           NEW ticks \in Ticks, Running(t), ticks # NO_WAIT, SleepOn(t, s, ticks),
           remaining' = IF t \in ToSet(TimeoutHead') THEN [remaining EXCEPT ![t] = ticks]
                        ELSE remaining
    PROVE  ClockInv'
<1>1. /\ ticksTimeout' = [ticksTimeout EXCEPT ![t] = (ThreadTime + ticks) % TickModulus]
      /\ TimeoutHead' = IF ticks = WAIT_FOREVER THEN TimeoutHead
                        ELSE TimeoutInsert(TimeoutHead, t, ticksTimeout')
      /\ ThreadTime' = ThreadTime /\ inTick' = inTick /\ InterruptInside' = InterruptInside
  BY DEF SleepOn, isrVars
<1>2. ~InterruptInside /\ ~inTick /\ ~inTick' /\ remaining \in [Thread -> Int]
  BY <1>1 DEF Running, ClockInv, ServedInside
<1>3. t \notin ToSet(TimeoutHead)
  <2>1. state[t] = "RUNNING"
    BY KernelAssumption DEF ClockInv, IInv, RunnablePlaced, Running
  <2> QED BY <2>1 DEF ClockInv, IInv, TimeoutsPending
<1>4. /\ TimeoutHead \in Seq(Thread)
      /\ \A u \in ToSet(TimeoutHead) : u \in Thread
      /\ ticksTimeout \in [Thread -> Tick] /\ ThreadTime \in Tick
      /\ TicksLeft \in [Thread -> Int] /\ TicksOver \in [Thread -> Int]
      /\ \A u \in Thread : TicksLeft[u] = SignedDiff(ticksTimeout[u], ThreadTime)
      /\ \A u \in Thread : TicksOver[u] = -TicksLeft[u]
  BY Timeouts DEF ClockInv
<1>5. /\ TimeoutHead' \in Seq(Thread)
      /\ \A u \in ToSet(TimeoutHead') : u \in Thread
      /\ ticksTimeout' \in [Thread -> Tick]
      /\ TicksLeft' \in [Thread -> Int] /\ TicksOver' \in [Thread -> Int]
      /\ \A u \in Thread : TicksLeft'[u] = SignedDiff(ticksTimeout'[u], ThreadTime)
      /\ \A u \in Thread : TicksOver'[u] = -TicksLeft'[u]
  <2>1. /\ TimeoutHead' \in Seq(Thread)
        /\ ticksTimeout' \in [Thread -> Tick] /\ ThreadTime' \in Tick
    BY DEF IInv, TypeOK
  <2>2. \A u \in ToSet(TimeoutHead') : u \in Thread
    BY <2>1 DEF ToSet
  <2>3. \A u \in Thread : TicksLeft'[u] = SignedDiff(ticksTimeout'[u], ThreadTime)
                         /\ TicksLeft'[u] \in Int
    BY <1>1, <2>1, SignedDiffNear DEF TicksLeft
  <2>4. TicksLeft' \in [Thread -> Int]
    BY <2>3 DEF TicksLeft
  <2>5. TicksOver' \in [Thread -> Int] /\ \A u \in Thread : TicksOver'[u] = -TicksLeft'[u]
    BY <2>4 DEF TicksOver
  <2> QED BY <2>1, <2>2, <2>3, <2>4, <2>5
<1>6. \A u \in Thread \ {t} : TicksLeft'[u] = TicksLeft[u]
  BY <1>1, <1>4, <1>5
<1>7. \A u \in ToSet(TimeoutHead) :
         /\ u \in Thread \ {t} /\ TicksLeft'[u] = TicksLeft[u] /\ TicksLeft[u] \in Int
         /\ LeftOfSleep(TicksLeft[u]) /\ remaining[u] = TicksLeft[u]
  <2> SUFFICES ASSUME NEW u \in ToSet(TimeoutHead)
               PROVE  /\ u \in Thread \ {t} /\ TicksLeft'[u] = TicksLeft[u]
                      /\ TicksLeft[u] \in Int
                      /\ LeftOfSleep(TicksLeft[u]) /\ remaining[u] = TicksLeft[u]
    OBVIOUS
  <2>1. StopwatchAgrees(u)
    BY DEF ClockInv
  <2> QED BY <1>2, <1>3, <1>4, <1>6, <2>1 DEF StopwatchAgrees, LeftBefore
<1>8. SortedBy(TimeoutHead, TicksOver')
  <2>1. SortedBy(TimeoutHead, TicksOver)
    BY DEF ClockInv
  <2>2. \A i \in 1 .. Len(TimeoutHead) : TimeoutHead[i] \in ToSet(TimeoutHead)
    BY <1>4 DEF ToSet
  <2>3. \A i \in 1 .. Len(TimeoutHead) : TicksOver'[TimeoutHead[i]] = TicksOver[TimeoutHead[i]]
    <3> SUFFICES ASSUME NEW i \in 1 .. Len(TimeoutHead)
                 PROVE  TicksOver'[TimeoutHead[i]] = TicksOver[TimeoutHead[i]]
      OBVIOUS
    <3>1. PICK u \in ToSet(TimeoutHead) : u = TimeoutHead[i]
      BY <2>2
    <3>2. u \in Thread /\ TicksLeft'[u] = TicksLeft[u]
      BY <1>7
    <3>3. TicksOver'[u] = -TicksLeft'[u] /\ TicksOver[u] = -TicksLeft[u]
      BY <1>4, <1>5, <3>2
    <3> QED BY <3>1, <3>2, <3>3
  <2> QED BY <2>1, <2>3 DEF SortedBy
<1>9. CASE ticks = WAIT_FOREVER
  <2>1. TimeoutHead' = TimeoutHead /\ remaining' = remaining
    BY <1>1, <1>3, <1>9
  <2>2. ASSUME NEW u \in ToSet(TimeoutHead') PROVE StopwatchAgrees(u)'
    BY <1>2, <1>7, <2>1 DEF StopwatchAgrees, LeftBefore
  <2>3. SortedBy(TimeoutHead, TicksOver)'
    BY <1>8, <2>1
  <2> QED BY <1>2, <2>1, <2>2, <2>3 DEF ClockInv
<1>10. CASE ticks # WAIT_FOREVER
  <2>1. ticks \in SleepTicks /\ ticks \in Int /\ \A i \in SleepTicks : i \in Int
    BY <1>10, KernelAssumption DEF SleepTicks
  <2>2. Near(ticks)
    BY <2>1, TickModulusAssumption DEF TicksFit, Near
  <2>3. ticksTimeout'[t] = (ThreadTime + ticks) % TickModulus
    BY <1>1, <1>4
  <2>4. TicksLeft'[t] = ticks /\ TicksOver'[t] = -ticks
    BY <1>4, <1>5, <2>1, <2>2, <2>3, DueAhead
  <2>5. ASSUME NEW u \in ToSet(TimeoutHead)
        PROVE  SignedDiff(ticksTimeout'[t], ticksTimeout'[u]) = ticks - TicksLeft[u]
    <3>1. PICK asked \in SleepTicks : TicksLeft[u] <= asked
                                      /\ (TicksLeft[u] > 0 \/ TicksLeft[u] = asked)
      BY <1>7 DEF LeftOfSleep
    <3>2. Near(ticks - TicksLeft[u])
      <4>1. /\ 2 * ticks < TickModulus
            /\ 2 * (ticks - asked) < TickModulus /\ 2 * (asked - ticks) < TickModulus
        BY <2>1 DEF TicksFit
      <4>2. TicksLeft[u] \in Int /\ asked \in Int
        BY <1>7, <2>1
      <4> QED BY <2>1, <3>1, <4>1, <4>2, TickModulusAssumption DEF Near
    <3>3. u \in Thread /\ TicksLeft[u] = SignedDiff(ticksTimeout'[u], ThreadTime)
      BY <1>5, <1>7
    <3>4. ticks = SignedDiff(ticksTimeout'[t], ThreadTime)
      BY <1>5, <2>4
    <3> QED BY <1>4, <1>5, <3>2, <3>3, <3>4, DifferenceLeft
  <2>6. TimeoutHead' = TimeoutInsert(TimeoutHead, t, ticksTimeout')
    BY <1>1, <1>10
  <2>7. SortedBy(TimeoutHead', TicksOver')
    <3>1. \A j \in 1 .. Len(TimeoutHead) :
             SignedDiff(ticksTimeout'[t], ticksTimeout'[TimeoutHead[j]]) <= 0
                <=> TicksOver'[t] >= TicksOver'[TimeoutHead[j]]
      <4> SUFFICES ASSUME NEW j \in 1 .. Len(TimeoutHead)
                   PROVE  SignedDiff(ticksTimeout'[t], ticksTimeout'[TimeoutHead[j]]) <= 0
                             <=> TicksOver'[t] >= TicksOver'[TimeoutHead[j]]
        OBVIOUS
      <4>1. PICK u \in ToSet(TimeoutHead) : u = TimeoutHead[j]
        BY <1>4 DEF ToSet
      <4>2. TicksOver'[u] = -TicksLeft[u] /\ TicksLeft[u] \in Int
        BY <1>5, <1>7
      <4>3. SignedDiff(ticksTimeout'[t], ticksTimeout'[u]) = ticks - TicksLeft[u]
        BY <2>5
      <4> QED BY <2>1, <2>4, <4>1, <4>2, <4>3
    <3> QED BY <1>4, <1>5, <1>8, <2>6, <3>1, TimeoutInsertSorted
  <2>8. ToSet(TimeoutHead') = ToSet(TimeoutHead) \cup {t}
    <3>1. TimeoutHead \in Seq(Thread) /\ IsInjective(TimeoutHead)
      BY DEF ClockInv, IInv, TypeOK, TimeoutsPending
    <3>2. ticksTimeout' \in [Thread -> Tick]
      BY <1>5
    <3> QED BY <1>3, <2>6, <3>1, <3>2, TimeoutInsertSet
  <2>9. remaining' = [remaining EXCEPT ![t] = ticks]
    BY <2>8
  <2>10. ASSUME NEW u \in ToSet(TimeoutHead') PROVE StopwatchAgrees(u)'
    <3>1. CASE u = t
      <4>1. remaining'[t] = ticks /\ LeftOfSleep(ticks)
        BY <1>2, <2>1, <2>9 DEF LeftOfSleep
      <4> QED BY <1>2, <2>4, <3>1, <4>1 DEF StopwatchAgrees, LeftBefore
    <3>2. CASE u # t
      <4>1. u \in ToSet(TimeoutHead) /\ remaining'[u] = remaining[u]
        BY <1>2, <1>5, <2>8, <2>9, <3>2
      <4> QED BY <1>2, <1>7, <4>1 DEF StopwatchAgrees, LeftBefore
    <3> QED BY <3>1, <3>2
  <2>11. remaining' \in [Thread -> Int]
    BY <1>2, <2>1, <2>9
  <2>12. SortedBy(TimeoutHead, TicksOver)'
    BY <2>7
  <2> QED BY <1>2, <2>10, <2>11, <2>12 DEF ClockInv
<1> QED BY <1>9, <1>10

\* A tick takes one from the ticks left of every sleeper, and so does the stopwatch.
LEMMA TickStarts ==
    ASSUME TicksFit, ClockInv, IInv', ServedInside', ClockTick
    PROVE  ClockInv'
<1>1. /\ ThreadTime' = (ThreadTime + 1) % TickModulus
      /\ inTick' = TRUE /\ inTick = FALSE
      /\ TimeoutHead' = TimeoutHead /\ ticksTimeout' = ticksTimeout
  BY Timeouts DEF ClockTick, OS_ThreadTick, Serve, ClockInv
<1>2. remaining' = [t \in Thread |->
           IF t \in ToSet(TimeoutHead) /\ remaining[t] > 0
           THEN remaining[t] - 1
           ELSE remaining[t]]
  BY DEF ClockTick
<1>3. /\ TimeoutHead \in Seq(Thread)
      /\ \A u \in ToSet(TimeoutHead) : u \in Thread
      /\ ticksTimeout \in [Thread -> Tick] /\ ThreadTime \in Tick
      /\ TicksLeft \in [Thread -> Int] /\ TicksOver \in [Thread -> Int]
      /\ \A u \in Thread : TicksLeft[u] = SignedDiff(ticksTimeout[u], ThreadTime)
      /\ \A u \in Thread : TicksOver[u] = -TicksLeft[u]
      /\ remaining \in [Thread -> Int]
  BY Timeouts DEF ClockInv
<1>4. ASSUME NEW u \in ToSet(TimeoutHead)
      PROVE  /\ u \in Thread /\ TicksLeft[u] \in Int
             /\ LeftOfSleep(TicksLeft[u]) /\ remaining[u] = TicksLeft[u]
             /\ TicksLeft'[u] = TicksLeft[u] - 1
  <2>1. StopwatchAgrees(u) /\ u \in Thread
    BY <1>3 DEF ClockInv
  <2>2. LeftOfSleep(TicksLeft[u]) /\ remaining[u] = TicksLeft[u]
    BY <1>1, <2>1 DEF StopwatchAgrees, LeftBefore
  <2>3. PICK asked \in SleepTicks : TicksLeft[u] <= asked
                                    /\ (TicksLeft[u] > 0 \/ TicksLeft[u] = asked)
    BY <2>2 DEF LeftOfSleep
  <2>4. asked \in Int /\ TicksLeft[u] \in Int
    BY <1>3, <2>1, KernelAssumption DEF SleepTicks
  <2>5. Near(TicksLeft[u] - 1)
    <3>1. 2 * asked < TickModulus /\ 2 * (1 - asked) < TickModulus
      BY DEF TicksFit
    <3> QED BY <2>3, <2>4, <3>1, TickModulusAssumption DEF Near
  <2>6. /\ ticksTimeout[u] \in Tick /\ ThreadTime \in Tick
        /\ TicksLeft[u] = SignedDiff(ticksTimeout[u], ThreadTime)
        /\ TicksLeft'[u] = SignedDiff(ticksTimeout[u], (ThreadTime + 1) % TickModulus)
    BY <1>1, <1>3, <2>1 DEF TicksLeft
  <2>7. TicksLeft'[u] = TicksLeft[u] - 1
    BY <2>5, <2>6, TickPasses
  <2> QED BY <2>1, <2>2, <2>4, <2>7
<1>5. ASSUME NEW u \in ToSet(TimeoutHead') PROVE StopwatchAgrees(u)'
  <2>1. PICK n \in Int : n = TicksLeft[u] /\ LeftOfSleep(n) /\ remaining[u] = n
                         /\ TicksLeft'[u] = n - 1 /\ u \in Thread
    BY <1>1, <1>4
  <2>2. LeftBefore(u)' = n
    BY <1>1, <2>1 DEF LeftBefore
  <2>3. remaining'[u] = IF n > 0 THEN n - 1 ELSE n
    BY <1>1, <1>2, <2>1
  <2>4. remaining'[u] = IF n <= 0 THEN n ELSE n - 1
    BY <2>3
  <2> QED BY <2>1, <2>2, <2>4 DEF StopwatchAgrees
<1>6. SortedBy(TimeoutHead, TicksOver')
  <2>1. ASSUME NEW i \in 1 .. Len(TimeoutHead)
        PROVE  /\ TicksOver[TimeoutHead[i]] \in Int
               /\ TicksOver'[TimeoutHead[i]] = TicksOver[TimeoutHead[i]] + 1
    <3>1. PICK u \in ToSet(TimeoutHead) : u = TimeoutHead[i]
      BY <1>3 DEF ToSet
    <3>2. u \in Thread /\ TicksLeft[u] \in Int /\ TicksLeft'[u] = TicksLeft[u] - 1
      BY <1>4
    <3>3. TicksOver'[u] = -TicksLeft'[u] /\ TicksOver[u] = -TicksLeft[u]
      BY <3>2 DEF TicksOver
    <3> QED BY <3>1, <3>2, <3>3
  <2>2. \A i, j \in 1 .. Len(TimeoutHead) :
           i < j => TicksOver[TimeoutHead[i]] >= TicksOver[TimeoutHead[j]]
    BY DEF ClockInv, SortedBy
  <2>3. ASSUME NEW i \in 1 .. Len(TimeoutHead), NEW j \in 1 .. Len(TimeoutHead), i < j
        PROVE  TicksOver'[TimeoutHead[i]] >= TicksOver'[TimeoutHead[j]]
    <3>1. TicksOver[TimeoutHead[i]] >= TicksOver[TimeoutHead[j]]
      BY <2>2, <2>3
    <3>2. /\ TicksOver[TimeoutHead[i]] \in Int /\ TicksOver[TimeoutHead[j]] \in Int
          /\ TicksOver'[TimeoutHead[i]] = TicksOver[TimeoutHead[i]] + 1
          /\ TicksOver'[TimeoutHead[j]] = TicksOver[TimeoutHead[j]] + 1
      BY <2>1
    <3> QED BY <3>1, <3>2
  <2> QED BY <2>3 DEF SortedBy
<1>7. remaining' \in [Thread -> Int]
  BY <1>2, <1>3
<1>8. SortedBy(TimeoutHead, TicksOver)'
  BY <1>1, <1>6
<1> QED BY <1>5, <1>7, <1>8 DEF ClockInv

\* The thread at the head of the timeout list has no more ticks left than another.
LEMMA FewestLeft ==
    ASSUME ClockInv, NEW t \in ToSet(TimeoutHead)
    PROVE  /\ Head(TimeoutHead) \in ToSet(TimeoutHead)
           /\ TicksLeft[Head(TimeoutHead)] <= TicksLeft[t]
<1>1. /\ TimeoutHead \in Seq(Thread)
      /\ \A u \in ToSet(TimeoutHead) : u \in Thread
      /\ TicksLeft \in [Thread -> Int]
      /\ \A u \in Thread : TicksOver[u] = -TicksLeft[u]
  BY Timeouts DEF ClockInv
<1>2. PICK i \in 1 .. Len(TimeoutHead) : t = TimeoutHead[i]
  BY <1>1 DEF ToSet
<1>3. /\ Head(TimeoutHead) = TimeoutHead[1] /\ 1 \in 1 .. Len(TimeoutHead)
      /\ Head(TimeoutHead) \in ToSet(TimeoutHead)
  BY <1>1, <1>2 DEF ToSet
<1>4. CASE i = 1
  <2>1. TicksLeft[t] \in Int
    BY <1>1
  <2> QED BY <1>2, <1>3, <1>4, <2>1
<1>5. CASE i # 1
  <2>1. TicksOver[Head(TimeoutHead)] >= TicksOver[t]
    BY <1>2, <1>3, <1>5 DEF ClockInv, SortedBy
  <2>2. Head(TimeoutHead) \in Thread /\ t \in Thread
    BY <1>1, <1>3
  <2>3. TicksOver[Head(TimeoutHead)] = -TicksLeft[Head(TimeoutHead)] /\ TicksOver[t] = -TicksLeft[t]
        /\ TicksLeft[Head(TimeoutHead)] \in Int /\ TicksLeft[t] \in Int
    BY <1>1, <2>2
  <2> QED BY <1>3, <2>1, <2>3
<1> QED BY <1>4, <1>5

\* The tick handler finds a sleep over when none of its ticks is left.
LEMMA ExpiredWhenOver ==
    ASSUME TicksFit, ClockInv, inTick, NEW t \in ToSet(TimeoutHead)
    PROVE  /\ Expired(t) <=> TicksLeft[t] <= 0
           /\ remaining[t] \in Int /\ TicksLeft[t] \in Int
           /\ remaining[t] > 0 <=> TicksLeft[t] > 0
           /\ TicksLeft[t] > 0 => LeftOfSleep(TicksLeft[t]) /\ remaining[t] = TicksLeft[t]
<1>1. /\ t \in Thread /\ ticksTimeout[t] \in Tick /\ ThreadTime \in Tick
      /\ TicksLeft[t] \in Int /\ TicksLeft[t] = SignedDiff(ticksTimeout[t], ThreadTime)
      /\ remaining[t] \in Int
  BY Timeouts DEF ClockInv
<1>2. /\ LeftOfSleep(TicksLeft[t] + 1)
      /\ remaining[t] = IF TicksLeft[t] + 1 <= 0 THEN TicksLeft[t] + 1 ELSE TicksLeft[t]
  BY DEF ClockInv, StopwatchAgrees, LeftBefore
<1>3. PICK asked \in SleepTicks : TicksLeft[t] + 1 <= asked
                                  /\ (TicksLeft[t] + 1 > 0 \/ TicksLeft[t] + 1 = asked)
  BY <1>2 DEF LeftOfSleep
<1>4. asked \in Int /\ 2 * asked < TickModulus /\ 2 * (1 - asked) < TickModulus
  BY KernelAssumption DEF SleepTicks, TicksFit
<1>5. Near(-TicksLeft[t])
  BY <1>1, <1>3, <1>4, TickModulusAssumption DEF Near
<1>6. SignedDiff(ThreadTime, ticksTimeout[t]) = -TicksLeft[t]
  BY <1>1, <1>5, SinceDue
<1>7. Expired(t) <=> TicksLeft[t] <= 0
  BY <1>1, <1>6 DEF Expired
<1>8. TicksLeft[t] > 0 => LeftOfSleep(TicksLeft[t])
  BY <1>1, <1>3, <1>4 DEF LeftOfSleep
<1>9. /\ remaining[t] > 0 <=> TicksLeft[t] > 0
      /\ TicksLeft[t] > 0 => remaining[t] = TicksLeft[t]
  BY <1>1, <1>2
<1> QED BY <1>1, <1>7, <1>8, <1>9

\* What a sleep must not do: the body of SleepsExactly.
SleepExact ==
    /\ TickWake => remaining[Head(TimeoutHead)] <= 0
    /\ TickDone => \A t \in ToSet(TimeoutHead) : remaining[t] > 0

\* The invariant decides when the handler wakes a sleeper and when it is done.
LEMMA SleepsEnd ==
    ASSUME TicksFit, ClockInv
    PROVE  SleepExact
<1>1. ASSUME TickWake PROVE remaining[Head(TimeoutHead)] <= 0
  <2>1. inTick /\ TimeoutHead # <<>> /\ Expired(Head(TimeoutHead))
    BY <1>1 DEF TickWake
  <2>2. Head(TimeoutHead) \in ToSet(TimeoutHead)
    BY <2>1, Timeouts DEF ClockInv, ToSet
  <2> QED BY <2>1, <2>2, ExpiredWhenOver
<1>2. ASSUME TickDone, NEW t \in ToSet(TimeoutHead) PROVE remaining[t] > 0
  <2>1. inTick /\ (TimeoutHead # <<>> => ~Expired(Head(TimeoutHead)))
    BY <1>2 DEF TickDone
  <2>2. TimeoutHead # <<>>
    BY DEF ToSet
  <2>3. Head(TimeoutHead) \in ToSet(TimeoutHead) /\ TicksLeft[Head(TimeoutHead)] <= TicksLeft[t]
    BY FewestLeft
  <2>4. TicksLeft[Head(TimeoutHead)] > 0 /\ TicksLeft[Head(TimeoutHead)] \in Int
        /\ TicksLeft[t] \in Int
    BY <2>1, <2>2, <2>3, ExpiredWhenOver
  <2>5. TicksLeft[t] > 0
    BY <2>3, <2>4
  <2> QED BY <2>1, <2>5, ExpiredWhenOver
<1> QED BY <1>1, <1>2 DEF SleepExact

\* When the tick handler is done, every sleep that goes on has ticks left.
LEMMA TickEnds ==
    ASSUME TicksFit, ClockInv, IInv', ServedInside', TickDone,
           remaining' \in [Thread -> Int],
           \A t \in ToSet(TimeoutHead') : remaining'[t] = remaining[t]
    PROVE  ClockInv'
<1>1. inTick /\ inTick' = FALSE /\ UNCHANGED timeVars
  BY DEF TickDone
<1>2. TicksLeft' = TicksLeft /\ TicksOver' = TicksOver /\ TimeoutHead' = TimeoutHead
  BY <1>1 DEF timeVars, TicksLeft, TicksOver
<1>3. ASSUME NEW t \in ToSet(TimeoutHead') PROVE StopwatchAgrees(t)'
  <2>1. t \in ToSet(TimeoutHead) /\ remaining'[t] = remaining[t] /\ remaining[t] > 0
    BY <1>2, SleepsEnd DEF SleepExact
  <2>2. TicksLeft[t] \in Int /\ TicksLeft[t] > 0 /\ LeftOfSleep(TicksLeft[t])
        /\ remaining[t] = TicksLeft[t]
    BY <1>1, <2>1, ExpiredWhenOver
  <2>3. LeftBefore(t)' = TicksLeft[t]
    BY <1>1, <1>2 DEF LeftBefore
  <2> QED BY <1>2, <2>1, <2>2, <2>3 DEF StopwatchAgrees
<1>4. SortedBy(TimeoutHead, TicksOver)'
  BY <1>2 DEF ClockInv
<1> QED BY <1>3, <1>4 DEF ClockInv

\* A post takes at most one thread off the timeout list and leaves the times alone.
LEMMA PostKeepsTimes ==
    ASSUME NEW s \in Semaphore, Post(s)
    PROVE  /\ TimeoutHead' \in {TimeoutHead, TimeoutRemove(TimeoutHead, Head(threadHead[s]))}
           /\ UNCHANGED <<ThreadTime, ticksTimeout>>
  BY DEF Post, WakeFirst, timeVars

\* The timeout list of a step that is no sleep and no tick.
LEMMA OtherTimes ==
    ASSUME ClockOther, ~TickDone
    PROVE  /\ \E u : TimeoutHead' \in {TimeoutHead, TimeoutRemove(TimeoutHead, u)}
           /\ UNCHANGED <<ThreadTime, ticksTimeout, inTick>>
<1>1. CASE \E t \in Thread : rtos__thread_create(t)
  BY <1>1 DEF rtos__thread_create, timeVars, isrVars
<1>2. CASE rtos__start
  BY <1>2, StartKeeps DEF timeVars, isrVars
<1>3. CASE \E s \in UserSemaphore : OS_SemaphorePost(s)
  <2>1. PICK s \in Semaphore : Post(s) /\ UNCHANGED isrVars
    BY <1>3, KernelAssumption DEF OS_SemaphorePost
  <2> QED BY <2>1, PostKeepsTimes DEF isrVars
<1>4. CASE \E lines \in {{"tick"}, {"device"}, {"tick", "device"}} : InterruptEnter(lines)
  BY <1>4 DEF InterruptEnter, timeVars
<1>5. CASE DeviceHandler
  <2>1. CASE UNCHANGED timeVars
    BY <1>5, <2>1 DEF DeviceHandler, timeVars
  <2>2. CASE \E s \in UserSemaphore : Post(s)
    <3>1. PICK s \in Semaphore : Post(s)
      BY <2>2, KernelAssumption
    <3> QED BY <1>5, <3>1, PostKeepsTimes DEF DeviceHandler
  <2> QED BY <1>5, <2>1, <2>2 DEF DeviceHandler
<1>6. CASE TickWake
  BY <1>6 DEF TickWake, isrVars
<1>7. CASE InterruptExit
  BY <1>7 DEF InterruptExit, timeVars
<1> QED BY <1>1, <1>2, <1>3, <1>4, <1>5, <1>6, <1>7 DEF ClockOther

\* The stopwatch only observes: every step it sees is a step of the scheduler.
LEMMA ClockStep ==
    ASSUME IInv, [ClockNext]_clockVars
    PROVE  [Next]_vars
<1>1. CASE \E t \in Thread : ClockPend(t)
  <2>1. PICK t \in Thread : ClockPend(t)
    BY <1>1
  <2>2. ThreadCall(t)
    BY <2>1 DEF ClockPend, ThreadCall, rtos__thread_sleep
  <2> QED BY <2>2 DEF Next
<1>2. CASE ClockTick
  BY <1>2 DEF ClockTick, Next, rtos__interrupt_service_routine
<1>3. CASE ClockOther
  <2>1. CASE \E t \in Thread \ {Idle}, s \in UserSemaphore :
                /\ Running(t)
                /\ count[s] < MaxCount
                /\ OS_SemaphorePost(s)
    BY <2>1 DEF ThreadCall, Next
  <2> QED BY <1>3, <2>1 DEF ClockOther, Next, rtos__interrupt_service_routine
<1>4. CASE UNCHANGED clockVars
  BY <1>4 DEF clockVars
<1> QED BY <1>1, <1>2, <1>3, <1>4 DEF ClockNext

\* Every step keeps the invariant.
LEMMA NextClockInv ==
    ASSUME TicksFit, ClockInv, [ClockNext]_clockVars
    PROVE  ClockInv'
<1>1. IInv' /\ ServedInside'
  BY ClockStep, NextIInv, NextServedInside DEF ClockInv
<1>2. remaining \in [Thread -> Int]
  BY DEF ClockInv
<1>3. CASE \E t \in Thread : ClockPend(t)
  <2>1. PICK t \in Thread, s \in UserSemaphore \cup {SemaphoreSleep}, ticks \in Ticks :
           /\ Running(t)
           /\ OS_SemaphorePend(t, s, ticks)
           /\ remaining' = IF t \in ToSet(TimeoutHead')
                           THEN [remaining EXCEPT ![t] = ticks]
                           ELSE remaining
    BY <1>3 DEF ClockPend
  <2>2. s \in Semaphore
    BY KernelAssumption
  <2>3. CASE TakeToken(s)
    <3>1. UNCHANGED <<timeVars, isrVars>>
      BY <2>3 DEF TakeToken
    <3>2. t \notin ToSet(TimeoutHead')
      <4>1. state[t] = "RUNNING"
        BY <2>1, KernelAssumption DEF ClockInv, IInv, RunnablePlaced, Running
      <4> QED BY <3>1, <4>1 DEF ClockInv, IInv, TimeoutsPending, timeVars
    <3>3. remaining' = remaining
      BY <2>1, <3>2
    <3> QED BY <1>1, <1>2, <3>1, <3>3, TimesKept DEF timeVars, isrVars
  <2>4. CASE ticks # NO_WAIT /\ SleepOn(t, s, ticks)
    BY <1>1, <2>1, <2>2, <2>4, SleepStarts
  <2> QED BY <2>1, <2>3, <2>4 DEF OS_SemaphorePend
<1>4. CASE ClockTick
  BY <1>1, <1>4, TickStarts
<1>5. CASE ClockOther
  <2>1. remaining' = [t \in Thread |-> IF t \in ToSet(TimeoutHead') THEN remaining[t] ELSE 0]
    BY <1>5 DEF ClockOther
  <2>2. \A t \in ToSet(TimeoutHead') : t \in Thread
    BY <1>1 DEF IInv, TypeOK, ToSet
  <2>3. remaining' \in [Thread -> Int] /\ \A t \in ToSet(TimeoutHead') : remaining'[t] = remaining[t]
    BY <1>2, <2>1, <2>2
  <2>4. CASE TickDone
    BY <1>1, <2>3, <2>4, TickEnds
  <2>5. CASE ~TickDone
    BY <1>1, <1>5, <2>3, <2>5, OtherTimes, TimesKept
  <2> QED BY <2>4, <2>5
<1>6. CASE UNCHANGED clockVars
  BY <1>1, <1>2, <1>6, TimesKept DEF clockVars, vars, timeVars, isrVars
<1> QED BY <1>3, <1>4, <1>5, <1>6 DEF ClockNext

\* At the start nobody sleeps.
LEMMA InitClockInv == QuietStart /\ ClockInit => ClockInv
<1> SUFFICES ASSUME QuietStart, ClockInit PROVE ClockInv
  OBVIOUS
<1>1. IInv /\ ServedInside
  BY InitReadyInv DEF ClockInit, ReadyInv
<1>2. remaining \in [Thread -> Int] /\ TimeoutHead = <<>>
  BY DEF ClockInit, Init
<1>3. SortedBy(TimeoutHead, TicksOver) /\ ToSet(TimeoutHead) = {}
  BY <1>2 DEF SortedBy, ToSet
<1> QED BY <1>1, <1>2, <1>3 DEF ClockInv

\* A sleep of n ticks ends with its n-th tick, however often the counter wraps: no
\* tick ends it before, and none is left when that tick's handler is done.
THEOREM SleepsLastAsAsked == QuietStart /\ TicksFit => (ClockSpec => SleepsExactly)
<1> SUFFICES ASSUME QuietStart, TicksFit PROVE ClockSpec => SleepsExactly
  OBVIOUS
<1>1. ClockInv /\ [ClockNext]_clockVars => [SleepExact]_clockVars
  BY SleepsEnd
<1>2. ClockInv /\ [ClockNext]_clockVars => ClockInv'
  BY NextClockInv
<1> QED BY <1>1, <1>2, InitClockInv, PTL DEF ClockSpec, SleepsExactly, SleepExact

-------------------------------------------------------------------------------
\* The mutexes.

\* Sleeping on a mutex is one place of the call, without a timeout; a thread that
\* sleeps elsewhere is in no call.
SleepersCall ==
    /\ \A t \in Thread :
          semaphorePending[t] # None =>
             IF pc[t] = "own" THEN semaphorePending[t] = arg[t]
             ELSE pc[t] = "run" /\ semaphorePending[t] \notin Mutex
    /\ \A t \in ToSet(TimeoutHead) : semaphorePending[t] \notin Mutex

\* The mutex of a call is known, and not the caller's: the nesting discipline
\* was checked for it when the call began.
CallersNested ==
    \A t \in Thread :
        pc[t] \in {"pend", "own"} =>
           arg[t] \in Mutex /\ owner[arg[t]] # t /\ Nested(t, arg[t])

\* t was handed the token of m and has yet to record it.
Has(t, m) == pc[t] = "own" /\ arg[t] = m /\ semaphorePending[t] = None

\* Where the token of m is: with its owner, with the one thread it was handed to,
\* or in the semaphore.
TokenPlaced(m) ==
    /\ owner[m] # None =>
          depth[m] > 0 /\ count[m] <= 0 /\ \A t \in Thread : ~Has(t, m)
    /\ owner[m] = None =>
          \/ count[m] = 1 /\ \A t \in Thread : ~Has(t, m)
          \/ count[m] <= 0 /\ \E t \in Thread : \A u \in Thread : Has(u, m) <=> u = t

MutexInv ==
    /\ IInv
    /\ MutexTypeOK
    /\ SleepersCall
    /\ CallersNested
    /\ \A m \in Mutex : TokenPlaced(m)

-------------------------------------------------------------------------------
\* At the start no mutex is held and nobody calls.
LEMMA MutexInvInit == QuietStart /\ MutexInit => MutexInv
<1> SUFFICES ASSUME QuietStart, MutexInit PROVE MutexInv
  OBVIOUS
<1>1. IInv
  BY InitIInv DEF MutexInit
<1>2. MutexTypeOK
  BY <1>1, MutexAssumption DEF MutexInit, MutexTypeOK, IInv
<1>3. SleepersCall /\ CallersNested
  BY DEF MutexInit, Init, SleepersCall, CallersNested, ToSet
<1>4. ASSUME NEW m \in Mutex PROVE TokenPlaced(m)
  BY MutexAssumption, KernelAssumption DEF MutexInit, Init, TokenPlaced, Has
<1> QED BY <1>1, <1>2, <1>3, <1>4 DEF MutexInv

\* A mutex whose token and holder a step leaves alone.
LEMMA TokenStays ==
    ASSUME NEW m \in Mutex, TokenPlaced(m), count'[m] = count[m],
           owner'[m] = owner[m], owner[m] # None => depth'[m] > 0,
           \A t \in Thread : Has(t, m)' <=> Has(t, m)
    PROVE  TokenPlaced(m)'
  BY DEF TokenPlaced

-------------------------------------------------------------------------------
\* What the steps of the kernel outside mutex calls may change: the tokens of
\* mutexes and their sleepers, and the priorities, are not among it.
KernelEffect ==
    /\ IInv'
    /\ UNCHANGED <<mutexVars, callVars, priority>>
    /\ \A m \in Mutex : count'[m] = count[m]
    /\ \A t \in Thread :
          semaphorePending'[t] # semaphorePending[t] =>
             /\ pc[t] = "run"
             /\ semaphorePending[t] \notin Mutex
             /\ semaphorePending'[t] \notin Mutex
    /\ \A t \in ToSet(TimeoutHead') :
          t \in ToSet(TimeoutHead) \/ semaphorePending'[t] \notin Mutex

\* A step that leaves semaphores and timeouts alone.
LEMMA QuietEffect ==
    ASSUME MutexInv, IInv', UNCHANGED <<mutexVars, callVars, priority>>,
           UNCHANGED <<semVars, TimeoutHead>>
    PROVE  KernelEffect
  BY DEF KernelEffect, semVars

\* A thread that wakes up on a semaphore that is no mutex.
LEMMA WakeEffect ==
    ASSUME MutexInv, IInv', UNCHANGED <<mutexVars, callVars, priority>>,
           NEW t \in Thread, NEW s \in Semaphore \ Mutex, semaphorePending[t] = s,
           count' = [count EXCEPT ![s] = @ + 1],
           semaphorePending' = [semaphorePending EXCEPT ![t] = None],
           TimeoutHead' = TimeoutRemove(TimeoutHead, t)
    PROVE  KernelEffect
<1>1. None \notin Mutex /\ s # None /\ Mutex \subseteq Semaphore
  BY KernelAssumption, MutexAssumption
<1>2. pc[t] = "run"
  BY <1>1 DEF MutexInv, SleepersCall, CallersNested, MutexTypeOK
<1>3. TimeoutHead \in Seq(Thread) /\ IsInjective(TimeoutHead)
  BY DEF MutexInv, IInv, TypeOK, TimeoutsPending
<1>4. ToSet(TimeoutHead') = ToSet(TimeoutHead) \ {t}
  BY <1>3, TimeoutRemoveSet
<1>5. \A m \in Mutex : count'[m] = count[m]
  BY <1>1 DEF MutexInv, IInv, TypeOK
<1> QED BY <1>1, <1>2, <1>4, <1>5 DEF KernelEffect, MutexInv, IInv, TypeOK

\* A post of a semaphore that is no mutex.
LEMMA PostEffect ==
    ASSUME MutexInv, IInv', UNCHANGED <<mutexVars, callVars>>,
           NEW s \in Semaphore \ Mutex, Post(s)
    PROVE  KernelEffect
<1>1. UNCHANGED priority /\ count' = [count EXCEPT ![s] = @ + 1]
  BY DEF Post
<1>2. CASE count[s] < 0
  <2>1. PICK t \in Thread : t = Head(threadHead[s]) /\ semaphorePending[t] = s
    BY <1>2, FirstSleeper DEF MutexInv
  <2> QED BY <1>1, <1>2, <2>1, WakeEffect DEF Post, WakeFirst
<1>3. CASE ~(count[s] < 0)
  <2>1. UNCHANGED <<semaphorePending, TimeoutHead>>
    BY <1>3 DEF Post, timeVars
  <2>2. \A m \in Mutex : count'[m] = count[m]
    BY <1>1, MutexAssumption DEF MutexInv, IInv, TypeOK
  <2> QED BY <1>1, <2>1, <2>2 DEF KernelEffect
<1> QED BY <1>2, <1>3

\* A thread that goes to sleep outside the calls.
LEMMA SleepEffect ==
    ASSUME MutexInv, IInv', UNCHANGED <<mutexVars, callVars>>,
           NEW t \in Thread, At(t, "run"), NEW ticks \in Ticks, rtos__thread_sleep(t, ticks)
    PROVE  KernelEffect
<1> DEFINE s == SemaphoreSleep
<1>1. s \in Semaphore \ Mutex /\ None \notin Mutex /\ Mutex \subseteq Semaphore
  BY KernelAssumption, MutexAssumption
<1>2. count \in [Semaphore -> Int] /\ semaphorePending \in [Thread -> Semaphore \cup {None}]
      /\ state[t] = "RUNNING" /\ TimeoutHead \in Seq(Thread)
  BY KernelAssumption DEF MutexInv, IInv, TypeOK, RunnablePlaced, At, Running
<1>3. semaphorePending[t] = None
  BY <1>2 DEF MutexInv, IInv, SleepersPlaced
<1>4. CASE TakeToken(s)
  BY <1>1, <1>2, <1>4 DEF TakeToken, timeVars, KernelEffect
<1>5. CASE SleepOn(t, s, ticks)
  <2>1. /\ count' = [count EXCEPT ![s] = @ - 1]
        /\ semaphorePending' = [semaphorePending EXCEPT ![t] = s]
        /\ UNCHANGED priority
        /\ TimeoutHead' = TimeoutHead \/ TimeoutHead' = TimeoutInsert(TimeoutHead, t, ticksTimeout')
    BY <1>5 DEF SleepOn
  <2>2. ticksTimeout' \in [Thread -> Tick]
    BY DEF IInv, TypeOK
  <2>3. ToSet(TimeoutHead') \subseteq ToSet(TimeoutHead) \cup {t}
    BY <1>2, <2>1, <2>2, TimeoutInsertSet
  <2> QED BY <1>1, <1>2, <1>3, <2>1, <2>3 DEF KernelEffect, At
<1> QED BY <1>4, <1>5 DEF rtos__thread_sleep, OS_SemaphorePend

\* A sleeper woken by the tick: no thread waits for a mutex with a timeout.
LEMMA TickWakeEffect ==
    ASSUME MutexInv, IInv', UNCHANGED <<mutexVars, callVars>>, TickWake
    PROVE  KernelEffect
<1>1. PICK t \in Thread : t = Head(TimeoutHead) /\ semaphorePending[t] \in Semaphore
  BY FirstTimeout DEF MutexInv, TickWake
<1>2. t \in ToSet(TimeoutHead)
  BY <1>1 DEF TickWake, ToSet, MutexInv, IInv, TypeOK
<1>3. semaphorePending[t] \in Semaphore \ Mutex
  BY <1>1, <1>2 DEF MutexInv, SleepersCall
<1> QED BY <1>1, <1>3, WakeEffect DEF TickWake

\* All the scheduler does between the steps of mutex calls.
LEMMA KernelStepEffect ==
    ASSUME MutexInv, KernelStep
    PROVE  KernelEffect
<1>1. UNCHANGED <<mutexVars, callVars>>
  BY DEF KernelStep, InterruptBetweenCalls
<1>2. IInv'
  <2>1. Next
    BY DEF KernelStep, InterruptBetweenCalls, Next, ThreadCall, At
  <2> QED BY <2>1, NextIInv DEF MutexInv
<1>3. CASE \E t \in Thread : rtos__thread_create(t)
  BY <1>1, <1>2, <1>3, QuietEffect DEF rtos__thread_create, timeVars
<1>4. CASE rtos__start
  BY <1>1, <1>2, <1>4, QuietEffect, StartKeeps DEF timeVars
<1>5. CASE \E t \in Thread, ticks \in Ticks : At(t, "run") /\ rtos__thread_sleep(t, ticks)
  BY <1>1, <1>2, <1>5, SleepEffect
<1>6. CASE rtos__interrupt_service_routine
  <2>1. CASE \E lines \in {{"tick"}, {"device"}, {"tick", "device"}} : InterruptEnter(lines)
    BY <1>1, <1>2, <2>1, QuietEffect DEF InterruptEnter, timeVars
  <2>2. CASE DeviceHandler
    BY <1>1, <1>2, <2>2, QuietEffect, PostEffect, MutexAssumption, KernelAssumption
    DEF DeviceHandler, timeVars
  <2>3. CASE OS_ThreadTick \/ TickDone \/ InterruptExit
    BY <1>1, <1>2, <2>3, QuietEffect DEF OS_ThreadTick, TickDone, InterruptExit, timeVars
  <2>4. CASE TickWake
    BY <1>1, <1>2, <2>4, TickWakeEffect
  <2> QED BY <1>6, <2>1, <2>2, <2>3, <2>4 DEF rtos__interrupt_service_routine
<1> QED BY <1>3, <1>4, <1>5, <1>6 DEF KernelStep, InterruptBetweenCalls

\* None of it disturbs a mutex.
LEMMA KernelEffectInv ==
    ASSUME MutexInv, KernelEffect
    PROVE  MutexInv'
<1>1. MutexTypeOK'
  BY DEF MutexInv, KernelEffect, MutexTypeOK, IInv, mutexVars, callVars
<1>2. None \notin Mutex
  BY KernelAssumption, MutexAssumption
<1>3. SleepersCall'
  <2>1. ToSet(TimeoutHead') \subseteq Thread
    BY DEF KernelEffect, IInv, TypeOK, ToSet
  <2> QED BY <2>1 DEF MutexInv, KernelEffect, SleepersCall, callVars
<1>4. CallersNested'
  BY DEF MutexInv, KernelEffect, CallersNested, Nested, mutexVars, callVars
<1>5. ASSUME NEW m \in Mutex PROVE TokenPlaced(m)'
  <2>1. \A t \in Thread : Has(t, m)' <=> Has(t, m)
    BY DEF KernelEffect, Has, callVars
  <2> QED BY <2>1, TokenStays DEF MutexInv, KernelEffect, mutexVars, TokenPlaced
<1> QED BY <1>1, <1>3, <1>4, <1>5 DEF MutexInv, KernelEffect

-------------------------------------------------------------------------------
\* A thread inside a mutex call runs, so it sleeps on nothing.
LEMMA RunnerAwake ==
    ASSUME MutexInv, NEW t \in Thread, Running(t)
    PROVE  semaphorePending[t] = None /\ state[t] = "RUNNING" /\ t \notin ToSet(TimeoutHead)
<1>1. state[t] = "RUNNING"
  BY KernelAssumption DEF MutexInv, IInv, RunnablePlaced, Running
<1> QED BY <1>1 DEF MutexInv, IInv, SleepersPlaced, TimeoutsPending

\* The recursive pend and the inner post only count.
LEMMA RecursionInv ==
    ASSUME MutexInv, NEW t \in Thread, NEW m \in Mutex, PendAgain(t, m) \/ PostInner(t, m)
    PROVE  MutexInv'
<1>1. /\ UNCHANGED <<vars, callVars, owner, priorityRestore>>
      /\ depth'[m] \in 1 .. MaxDepth
      /\ \A n \in Mutex \ {m} : depth'[n] = depth[n]
      /\ depth' \in [Mutex -> 0 .. MaxDepth]
  BY MutexAssumption DEF PendAgain, PostInner, MutexInv, MutexTypeOK
<1>2. IInv'
  BY <1>1, NextIInv DEF MutexInv
<1>3. MutexTypeOK'
  BY <1>1, <1>2 DEF MutexInv, MutexTypeOK, IInv, callVars
<1>4. SleepersCall' /\ CallersNested'
  BY <1>1 DEF MutexInv, SleepersCall, CallersNested, Nested, callVars, vars, semVars, timeVars
<1>5. ASSUME NEW n \in Mutex PROVE TokenPlaced(n)'
  <2>1. depth'[n] = depth[n] \/ depth'[n] > 0
    BY <1>1
  <2>2. \A u \in Thread : Has(u, n)' <=> Has(u, n)
    BY <1>1 DEF Has, callVars, vars, semVars
  <2>3. UNCHANGED <<owner, count>>
    BY <1>1 DEF vars, semVars
  <2> QED BY <2>1, <2>2, <2>3, TokenStays DEF MutexInv, TokenPlaced
<1> QED BY <1>2, <1>3, <1>4, <1>5 DEF MutexInv

\* A change of priority, or none, beside a step of the calling thread's place.
LEMMA PriorityEffect ==
    ASSUME MutexInv, NEW u \in Thread, NEW p \in Nat,
           OS_ThreadPrioritySet(u, p) \/ UNCHANGED vars
    PROVE  IInv' /\ UNCHANGED <<semVars, timeVars, isrVars>>
  BY PrioritySetIInv, NextIInv DEF MutexInv, OS_ThreadPrioritySet, vars

\* The first half of a pend raises the holder and moves no token.
LEMMA PendBoostInv ==
    ASSUME MutexInv, NEW t \in Thread, NEW m \in Mutex, PendBoost(t, m)
    PROVE  MutexInv'
<1>1. /\ At(t, "run") /\ owner[m] # t /\ Nested(t, m)
      /\ pc' = [pc EXCEPT ![t] = "pend"]
      /\ arg' = [arg EXCEPT ![t] = m]
      /\ UNCHANGED <<mutexVars, restore>>
  BY DEF PendBoost, Goto
<1>2. IInv' /\ UNCHANGED <<semVars, timeVars>>
  <2>1. CASE owner[m] # None /\ priority[owner[m]] < priority[t]
    <3>1. owner[m] \in Thread /\ priority[t] \in Nat
      BY <2>1 DEF MutexInv, MutexTypeOK, TypeOK
    <3> QED BY <2>1, <3>1, PriorityEffect DEF PendBoost
  <2>2. CASE UNCHANGED vars
    BY <2>2, NextIInv DEF MutexInv, vars
  <2> QED BY <2>1, <2>2 DEF PendBoost
<1>3. MutexTypeOK'
  BY <1>1, <1>2 DEF MutexInv, MutexTypeOK, IInv, mutexVars
<1>4. semaphorePending[t] = None /\ t \notin ToSet(TimeoutHead)
  BY <1>1, RunnerAwake DEF At
<1>5. SleepersCall'
  BY <1>1, <1>2, <1>4 DEF MutexInv, MutexTypeOK, SleepersCall, semVars, timeVars
<1>6. CallersNested'
  BY <1>1 DEF MutexInv, MutexTypeOK, CallersNested, Nested, mutexVars
<1>7. ASSUME NEW n \in Mutex PROVE TokenPlaced(n)'
  <2>1. \A u \in Thread : Has(u, n)' <=> Has(u, n)
    BY <1>1, <1>2 DEF MutexInv, MutexTypeOK, Has, semVars, At
  <2> QED BY <1>1, <1>2, <2>1, TokenStays DEF MutexInv, mutexVars, semVars, TokenPlaced
<1> QED BY <1>2, <1>3, <1>5, <1>6, <1>7 DEF MutexInv

\* The caller takes the token, which makes it the one thread that has it, or goes
\* to sleep, which leaves the token where it is.
LEMMA PendSemaphoreInv ==
    ASSUME MutexInv, NEW t \in Thread, PendSemaphore(t)
    PROVE  MutexInv'
<1> PICK m \in Mutex : m = arg[t] /\ owner[m] # t
  BY DEF PendSemaphore, At, MutexInv, CallersNested
<1>1. /\ At(t, "pend")
      /\ pc' = [pc EXCEPT ![t] = "own"]
      /\ UNCHANGED <<mutexVars, arg, restore>>
      /\ OS_SemaphorePend(t, m, WAIT_FOREVER)
      /\ Running(t) /\ t # Idle
  BY DEF PendSemaphore, Goto, At
<1>2. m \in Semaphore
  BY MutexAssumption
<1>3. semaphorePending[t] = None /\ t \notin ToSet(TimeoutHead)
  BY <1>1, RunnerAwake
<1>4. CallersNested'
  BY <1>1 DEF MutexInv, MutexTypeOK, CallersNested, Nested, mutexVars, At
<1>5. IInv'
  <2>1. WAIT_FOREVER \in Int
    BY DEF WAIT_FOREVER
  <2> QED BY <1>1, <1>2, <2>1, TakeTokenIInv, SleepOnIInv DEF OS_SemaphorePend, MutexInv
<1>6. MutexTypeOK'
  BY <1>1, <1>5 DEF MutexInv, MutexTypeOK, IInv, mutexVars
<1>7. /\ count' = [count EXCEPT ![m] = @ - 1] /\ count \in [Semaphore -> Int]
      /\ UNCHANGED TimeoutHead
  BY DEF OS_SemaphorePend, TakeToken, SleepOn, PendSemaphore, timeVars, MutexInv, IInv, TypeOK
<1>8. CASE count[m] > 0 /\ TakeToken(m)
  <2>1. UNCHANGED semaphorePending
    BY <1>8 DEF TakeToken
  <2>2. SleepersCall'
    BY <1>1, <1>3, <1>7, <2>1 DEF MutexInv, MutexTypeOK, SleepersCall
  <2>3. ASSUME NEW n \in Mutex PROVE TokenPlaced(n)'
    <3>1. \A u \in Thread : Has(u, n)' <=> Has(u, n) \/ (u = t /\ n = m)
      BY <1>1, <1>3, <2>1 DEF MutexInv, MutexTypeOK, Has, At
    <3>2. CASE n # m
      BY <1>1, <1>7, <3>1, <3>2, TokenStays, MutexAssumption
      DEF MutexInv, mutexVars, TokenPlaced
    <3>3. CASE n = m
      <4>1. owner[m] = None /\ count[m] = 1 /\ \A u \in Thread : ~Has(u, m)
        BY <1>2, <1>7, <1>8 DEF MutexInv, TokenPlaced
      <4>2. owner'[m] = None /\ count'[m] = 0
        BY <1>1, <1>2, <1>7, <4>1 DEF mutexVars
      <4>3. \A u \in Thread : Has(u, m)' <=> u = t
        BY <3>1, <3>3, <4>1
      <4> QED BY <3>3, <4>2, <4>3 DEF TokenPlaced
    <3> QED BY <3>2, <3>3
  <2> QED BY <1>4, <1>5, <1>6, <2>2, <2>3 DEF MutexInv
<1>9. CASE count[m] <= 0 /\ SleepOn(t, m, WAIT_FOREVER)
  <2>1. semaphorePending' = [semaphorePending EXCEPT ![t] = m]
    BY <1>9 DEF SleepOn
  <2>2. SleepersCall'
    BY <1>1, <1>3, <1>7, <2>1 DEF MutexInv, MutexTypeOK, IInv, TypeOK, SleepersCall
  <2>3. ASSUME NEW n \in Mutex PROVE TokenPlaced(n)'
    <3>1. \A u \in Thread : Has(u, n)' <=> Has(u, n)
      BY <1>1, <1>2, <2>1, KernelAssumption DEF MutexInv, MutexTypeOK, IInv, TypeOK, Has, At
    <3>2. CASE n # m
      BY <1>1, <1>7, <3>1, <3>2, TokenStays, MutexAssumption
      DEF MutexInv, mutexVars, TokenPlaced
    <3>3. CASE n = m
      <4>1. count'[m] <= 0 /\ count[m] <= 0 /\ UNCHANGED <<owner, depth>>
        BY <1>1, <1>2, <1>7, <1>9 DEF mutexVars
      <4> QED BY <3>1, <3>3, <4>1 DEF TokenPlaced, MutexInv
    <3> QED BY <3>2, <3>3
  <2> QED BY <1>4, <1>5, <1>6, <2>2, <2>3 DEF MutexInv
<1> QED BY <1>1, <1>8, <1>9 DEF OS_SemaphorePend

\* The thread that has the token becomes the owner.
LEMMA PendOwnInv ==
    ASSUME MutexInv, NEW t \in Thread, PendOwn(t)
    PROVE  MutexInv'
<1> PICK m \in Mutex : m = arg[t]
  BY DEF PendOwn, At, MutexInv, CallersNested
<1>1. /\ At(t, "own")
      /\ owner' = [owner EXCEPT ![m] = t]
      /\ depth' = [depth EXCEPT ![m] = 1]
      /\ priorityRestore' = [priorityRestore EXCEPT ![m] = priority[t]]
      /\ pc' = [pc EXCEPT ![t] = "run"]
      /\ arg' = [arg EXCEPT ![t] = None]
      /\ UNCHANGED <<vars, restore>>
  BY DEF PendOwn, Goto
<1>2. m # None /\ None \notin Thread
  BY MutexAssumption, KernelAssumption
<1>3. semaphorePending[t] = None
  BY <1>1, RunnerAwake DEF At
<1>4. IInv'
  BY <1>1, NextIInv DEF MutexInv
<1>5. MutexTypeOK'
  <2>1. 1 \in 0 .. MaxDepth /\ priority[t] \in Nat
    BY MutexAssumption DEF MutexInv, MutexTypeOK, TypeOK
  <2> QED BY <1>1, <1>2, <1>4, <2>1 DEF MutexInv, MutexTypeOK, IInv
<1>6. SleepersCall'
  BY <1>1, <1>3 DEF MutexInv, MutexTypeOK, SleepersCall, vars, semVars, timeVars
<1>7. CallersNested'
  <2>1. ASSUME NEW u \in Thread, pc'[u] \in {"pend", "own"}
        PROVE  (arg[u] \in Mutex /\ owner[arg[u]] # u /\ Nested(u, arg[u]))'
    <3>1. u # t /\ pc[u] = pc'[u] /\ arg'[u] = arg[u]
      BY <1>1, <2>1 DEF MutexInv, MutexTypeOK
    <3>2. \A n \in Mutex : owner'[n] = u => owner[n] = u
      BY <1>1, <1>2, <3>1 DEF MutexInv, MutexTypeOK
    <3>3. PICK n \in Mutex : n = arg[u] /\ owner[n] # u /\ Nested(u, n)
      BY <2>1, <3>1 DEF MutexInv, CallersNested
    <3>4. Nested(u, n)' /\ owner'[n] # u
      BY <3>2, <3>3 DEF Nested
    <3> QED BY <3>1, <3>3, <3>4 DEF Nested
  <2> QED BY <2>1 DEF CallersNested
<1>8. ASSUME NEW n \in Mutex PROVE TokenPlaced(n)'
  <2>1. \A u \in Thread : Has(u, n)' <=> Has(u, n) /\ u # t
    BY <1>1, <1>2 DEF MutexInv, MutexTypeOK, Has, vars, semVars
  <2>2. UNCHANGED count
    BY <1>1 DEF vars, semVars
  <2>3. CASE n # m
    <3>1. \A u \in Thread : Has(u, n)' <=> Has(u, n)
      BY <2>1, <2>3 DEF Has
    <3>2. owner'[n] = owner[n] /\ depth'[n] = depth[n]
      BY <1>1, <2>3 DEF MutexInv, MutexTypeOK
    <3> QED BY <2>2, <3>1, <3>2, TokenStays DEF MutexInv, TokenPlaced
  <2>4. CASE n = m
    <3>1. Has(t, m)
      BY <1>1, <1>3 DEF Has, At
    <3>2. count[m] <= 0 /\ \A u \in Thread : Has(u, m) => u = t
      BY <1>2, <3>1 DEF MutexInv, TokenPlaced
    <3>3. owner'[m] = t /\ depth'[m] = 1
      BY <1>1, <1>2 DEF MutexInv, MutexTypeOK
    <3> QED BY <1>2, <2>1, <2>2, <2>4, <3>2, <3>3 DEF TokenPlaced
  <2> QED BY <2>3, <2>4
<1> QED BY <1>4, <1>5, <1>6, <1>7, <1>8 DEF MutexInv

-------------------------------------------------------------------------------
\* The outermost post hands the token to the first sleeper, which then has it, or
\* puts it back into the semaphore.
LEMMA PostSemaphoreInv ==
    ASSUME MutexInv, NEW t \in Thread, NEW m \in Mutex, PostSemaphore(t, m)
    PROVE  MutexInv'
<1>1. /\ At(t, "run") /\ owner[m] = t
      /\ depth' = [depth EXCEPT ![m] = 0]
      /\ owner' = [owner EXCEPT ![m] = None]
      /\ restore' = [restore EXCEPT ![t] = priorityRestore[m]]
      /\ pc' = [pc EXCEPT ![t] = "restore"]
      /\ UNCHANGED <<priorityRestore, arg, isrVars>>
      /\ Post(m)
  BY DEF PostSemaphore, Goto, OS_SemaphorePost
<1>2. m \in Semaphore /\ None \notin Thread /\ None \notin Mutex
  BY MutexAssumption, KernelAssumption
<1>3. semaphorePending[t] = None /\ t \notin ToSet(TimeoutHead)
  BY <1>1, RunnerAwake DEF At
<1>4. IInv'
  BY <1>1, <1>2, PostIInv DEF MutexInv, IInv, TypeOK, isrVars
<1>5. MutexTypeOK'
  BY <1>1, <1>4, MutexAssumption DEF MutexInv, MutexTypeOK, IInv
<1>6. CallersNested'
  <2>1. ASSUME NEW u \in Thread, pc'[u] \in {"pend", "own"}
        PROVE  (arg[u] \in Mutex /\ owner[arg[u]] # u /\ Nested(u, arg[u]))'
    <3>1. pc[u] = pc'[u] /\ arg'[u] = arg[u]
      BY <1>1, <2>1 DEF MutexInv, MutexTypeOK
    <3>2. \A n \in Mutex : owner'[n] = u => owner[n] = u
      BY <1>1, <1>2 DEF MutexInv, MutexTypeOK
    <3>3. PICK n \in Mutex : n = arg[u] /\ owner[n] # u /\ Nested(u, n)
      BY <2>1, <3>1 DEF MutexInv, CallersNested
    <3>4. Nested(u, n)' /\ owner'[n] # u
      BY <3>2, <3>3 DEF Nested
    <3> QED BY <3>1, <3>3, <3>4 DEF Nested
  <2> QED BY <2>1 DEF CallersNested
<1>7. /\ count' = [count EXCEPT ![m] = @ + 1] /\ count \in [Semaphore -> Int]
      /\ owner[m] # None /\ count[m] <= 0 /\ \A u \in Thread : ~Has(u, m)
      /\ owner'[m] = None
  BY <1>1, <1>2 DEF Post, MutexInv, MutexTypeOK, IInv, TypeOK, TokenPlaced
<1>8. ASSUME NEW n \in Mutex, n # m
      PROVE  count'[n] = count[n] /\ owner'[n] = owner[n] /\ depth'[n] = depth[n]
  BY <1>1, <1>7, <1>8, MutexAssumption DEF MutexInv, MutexTypeOK
<1>9. CASE count[m] < 0
  <2>1. PICK u \in Thread : u = Head(threadHead[m]) /\ semaphorePending[u] = m
    BY <1>2, <1>9, FirstSleeper DEF MutexInv
  <2>2. semaphorePending' = [semaphorePending EXCEPT ![u] = None]
        /\ TimeoutHead' = TimeoutRemove(TimeoutHead, u)
    BY <1>1, <1>9, <2>1 DEF Post, WakeFirst
  <2>3. u # t /\ pc[u] = "own" /\ arg[u] = m
    BY <1>2, <1>3, <2>1 DEF MutexInv, SleepersCall
  <2>4. ToSet(TimeoutHead') \subseteq ToSet(TimeoutHead)
    BY <2>2, TimeoutRemoveSet DEF MutexInv, IInv, TypeOK, TimeoutsPending
  <2>5. SleepersCall'
    <3>1. \A v \in Thread : semaphorePending'[v] # None =>
             semaphorePending'[v] = semaphorePending[v] /\ v # t
      BY <1>3, <2>2 DEF MutexInv, IInv, TypeOK
    <3>2. \A v \in ToSet(TimeoutHead') : semaphorePending'[v] \notin Mutex
      <4>1. ToSet(TimeoutHead) \subseteq Thread
        BY DEF MutexInv, IInv, TypeOK, ToSet
      <4> QED BY <1>2, <2>2, <2>4, <4>1 DEF MutexInv, IInv, TypeOK, SleepersCall
    <3> QED BY <1>1, <3>1, <3>2 DEF MutexInv, MutexTypeOK, SleepersCall
  <2>6. \A n \in Mutex, v \in Thread : Has(v, n)' <=> Has(v, n) \/ (v = u /\ n = m)
    BY <1>1, <1>2, <2>1, <2>2, <2>3 DEF Has, At, MutexInv, MutexTypeOK, IInv, TypeOK
  <2>7. ASSUME NEW n \in Mutex PROVE TokenPlaced(n)'
    <3>1. CASE n = m
      <4>1. count'[m] <= 0 /\ \A v \in Thread : Has(v, m)' <=> v = u
        BY <1>2, <1>7, <1>9, <2>6
      <4> QED BY <1>7, <3>1, <4>1 DEF TokenPlaced
    <3>2. CASE n # m
      BY <1>8, <2>6, <3>2, TokenStays DEF MutexInv, TokenPlaced
    <3> QED BY <3>1, <3>2
  <2> QED BY <1>4, <1>5, <1>6, <2>5, <2>7 DEF MutexInv
<1>10. CASE ~(count[m] < 0)
  <2>1. UNCHANGED <<semaphorePending, TimeoutHead>>
    BY <1>1, <1>10 DEF Post, timeVars
  <2>2. SleepersCall'
    BY <1>1, <1>3, <2>1 DEF MutexInv, MutexTypeOK, SleepersCall
  <2>3. \A n \in Mutex, v \in Thread : Has(v, n)' <=> Has(v, n)
    BY <1>1, <2>1 DEF Has, At, MutexInv, MutexTypeOK
  <2>4. ASSUME NEW n \in Mutex PROVE TokenPlaced(n)'
    <3>1. CASE n = m
      <4>1. count'[m] = 1 /\ \A v \in Thread : ~Has(v, m)'
        BY <1>2, <1>7, <1>10, <2>3
      <4> QED BY <1>7, <3>1, <4>1 DEF TokenPlaced
    <3>2. CASE n # m
      BY <1>8, <2>3, <3>2, TokenStays DEF MutexInv, TokenPlaced
    <3> QED BY <3>1, <3>2
  <2> QED BY <1>4, <1>5, <1>6, <2>2, <2>4 DEF MutexInv
<1> QED BY <1>7, <1>9, <1>10

\* The last half of a post lowers the thread and moves no token.
LEMMA PostRestoreInv ==
    ASSUME MutexInv, NEW t \in Thread, PostRestore(t)
    PROVE  MutexInv'
<1>1. /\ At(t, "restore")
      /\ pc' = [pc EXCEPT ![t] = "run"]
      /\ restore' = [restore EXCEPT ![t] = 0]
      /\ UNCHANGED <<mutexVars, arg>>
  BY DEF PostRestore, Goto
<1>2. IInv' /\ UNCHANGED <<semVars, timeVars>>
  <2>1. restore[t] \in Nat
    BY DEF MutexInv, MutexTypeOK
  <2> QED BY <2>1, PriorityEffect DEF PostRestore
<1>3. MutexTypeOK'
  BY <1>1, <1>2 DEF MutexInv, MutexTypeOK, IInv, mutexVars
<1>4. semaphorePending[t] = None /\ t \notin ToSet(TimeoutHead)
  BY <1>1, RunnerAwake DEF At
<1>5. SleepersCall'
  BY <1>1, <1>2, <1>4 DEF MutexInv, MutexTypeOK, SleepersCall, semVars, timeVars
<1>6. CallersNested'
  BY <1>1 DEF MutexInv, MutexTypeOK, CallersNested, Nested, mutexVars
<1>7. ASSUME NEW n \in Mutex PROVE TokenPlaced(n)'
  <2>1. \A u \in Thread : Has(u, n)' <=> Has(u, n)
    BY <1>1, <1>2 DEF MutexInv, MutexTypeOK, Has, semVars, At
  <2> QED BY <1>1, <1>2, <2>1, TokenStays DEF MutexInv, mutexVars, semVars, TokenPlaced
<1> QED BY <1>2, <1>3, <1>5, <1>6, <1>7 DEF MutexInv

\* A step of nobody.
LEMMA MutexInvStutter ==
    ASSUME MutexInv, UNCHANGED allVars
    PROVE  MutexInv'
<1>1. IInv'
  BY NextIInv DEF allVars, MutexInv
<1>2. KernelEffect
  BY <1>1, QuietEffect DEF allVars, vars, timeVars
<1> QED BY <1>2, KernelEffectInv

\* Every step keeps the invariant.
LEMMA MutexInvNext == MutexInv /\ [MutexNext]_allVars => MutexInv'
<1> SUFFICES ASSUME MutexInv, [MutexNext]_allVars PROVE MutexInv'
  OBVIOUS
<1>1. ASSUME NEW t \in Thread, OS_MutexPend(t) PROVE MutexInv'
  BY <1>1, RecursionInv, PendBoostInv, PendSemaphoreInv, PendOwnInv DEF OS_MutexPend
<1>2. ASSUME NEW t \in Thread, OS_MutexPost(t) PROVE MutexInv'
  BY <1>2, RecursionInv, PostSemaphoreInv, PostRestoreInv DEF OS_MutexPost
<1>3. CASE KernelStep
  BY <1>3, KernelStepEffect, KernelEffectInv
<1>4. CASE UNCHANGED allVars
  BY <1>4, MutexInvStutter
<1> QED BY <1>1, <1>2, <1>3, <1>4 DEF MutexNext

\* The inductive invariant holds in every reachable state: it places the token of every
\* mutex between OS_MutexPend and OS_MutexPost, whoever runs in between.
THEOREM MutexInvariant == QuietStart => (MutexSpec => []MutexInv)
<1> SUFFICES ASSUME QuietStart PROVE MutexSpec => []MutexInv
  OBVIOUS
<1> QED BY MutexInvInit, MutexInvNext, PTL DEF MutexSpec

\* Every variable of the mutexes and of the calls in progress keeps its type; the
\* nesting depth never goes below zero.
THEOREM MutexTyped == QuietStart => (MutexSpec => []MutexTypeOK)
<1> SUFFICES ASSUME QuietStart PROVE MutexSpec => []MutexTypeOK
  OBVIOUS
<1>1. MutexInv => MutexTypeOK
  BY DEF MutexInv
<1> QED BY <1>1, MutexInvariant, PTL

\* Mutual exclusion, for any number of threads and mutexes: OS_MutexPend never
\* returns to a thread while another owns the mutex or has been handed its token.
THEOREM MutualExclusion == QuietStart => (MutexSpec => []OneHolder)
<1> SUFFICES ASSUME QuietStart PROVE MutexSpec => []OneHolder
  OBVIOUS
<1>1. MutexInv => OneHolder
  <2> SUFFICES ASSUME MutexInv, NEW m \in Mutex
               PROVE  /\ owner[m] # None => depth[m] > 0 /\ count[m] <= 0 /\ Granted(m) = {}
                      /\ owner[m] = None =>
                             \/ count[m] = 1 /\ Granted(m) = {}
                             \/ count[m] <= 0 /\ \E t \in Thread : Granted(m) = {t}
    BY DEF OneHolder
  <2>1. \A t \in Thread : t \in Granted(m) <=> Has(t, m)
    BY DEF Granted, Has, MutexInv, IInv, SleepersPlaced
  <2>2. Granted(m) \subseteq Thread
    BY DEF Granted
  <2> QED BY <2>1, <2>2 DEF MutexInv, TokenPlaced
<1> QED BY <1>1, MutexInvariant, PTL

-------------------------------------------------------------------------------
(***************************************************************************)
(* Inherited priorities are given back, if programs lock and unlock all    *)
(* mutexes in one order.  Without it two mutexes that are released in the  *)
(* order they were locked in leave a thread with a priority it inherited:  *)
(* each remembers the priority at its own pend only.                       *)
(***************************************************************************)
OneOrder == \A m, n \in Mutex : m # n => <<m, n>> \in Inside \/ <<n, m>> \in Inside

OwnsNone(t) == \A m \in Mutex : owner[m] # t

\* t locked m before every other mutex it owns.
Outermost(t, m) ==
    /\ owner[m] = t
    /\ \A n \in Mutex : owner[n] = t /\ n # m => <<m, n>> \in Inside

\* A thread is at least as urgent as it was created, whatever it goes back to is;
\* and what its outermost mutex, or its last post, goes back to is that priority.
Restorable(t) ==
    /\ priority[t] >= InitialPriority[t]
    /\ pc[t] = "restore" =>
          /\ restore[t] >= InitialPriority[t]
          /\ OwnsNone(t) => restore[t] = InitialPriority[t]
    /\ pc[t] # "restore" /\ OwnsNone(t) => priority[t] = InitialPriority[t]
    /\ \A m \in Mutex : owner[m] = t => priorityRestore[m] >= InitialPriority[t]
    /\ \A m \in Mutex : Outermost(t, m) => priorityRestore[m] = InitialPriority[t]

RestoreInv == MutexInv /\ \A t \in Thread : Restorable(t)

\* At the start every thread has its own priority.
LEMMA RestoreInvInit == QuietStart /\ MutexInit => RestoreInv
<1> SUFFICES ASSUME QuietStart, MutexInit, NEW t \in Thread PROVE Restorable(t)
  BY MutexInvInit DEF RestoreInv
<1>1. priority[t] = InitialPriority[t] /\ InitialPriority[t] \in Nat
  BY KernelAssumption DEF MutexInit, Init
<1>2. \A m \in Mutex : owner[m] # t
  BY KernelAssumption DEF MutexInit
<1>3. pc[t] = "run"
  BY DEF MutexInit
<1> QED BY <1>1, <1>2, <1>3 DEF Restorable, OwnsNone, Outermost

\* A thread whose mutexes, place and priority a step leaves alone; being boosted
\* does no harm to one that owns a mutex.
LEMMA RestorableStays ==
    ASSUME NEW t \in Thread, Restorable(t), InitialPriority[t] \in Nat,
           priority[t] \in Nat, priority'[t] \in Nat,
           priority'[t] = priority[t] \/ (~OwnsNone(t) /\ priority'[t] > priority[t]),
           pc'[t] = "restore" <=> pc[t] = "restore",
           pc[t] = "restore" => restore'[t] = restore[t],
           \A m \in Mutex : owner'[m] = t <=> owner[m] = t,
           \A m \in Mutex : owner[m] = t => priorityRestore'[m] = priorityRestore[m]
    PROVE  Restorable(t)'
<1>1. OwnsNone(t)' <=> OwnsNone(t)
  BY DEF OwnsNone
<1>2. \A m \in Mutex : Outermost(t, m)' <=> Outermost(t, m)
  BY DEF Outermost
<1>3. \A m \in Mutex : Outermost(t, m) => owner[m] = t
  BY DEF Outermost
<1> QED BY <1>1, <1>2, <1>3 DEF Restorable

\* Priorities are numbers.
LEMMA Priorities ==
    ASSUME MutexInv, MutexInv', NEW t \in Thread
    PROVE  InitialPriority[t] \in Nat /\ priority[t] \in Nat /\ priority'[t] \in Nat
  BY KernelAssumption DEF MutexInv, IInv, TypeOK

\* A boost reaches a holder, who will give it back.
LEMMA BoostRestorable ==
    ASSUME RestoreInv, MutexInv', NEW t \in Thread, NEW m \in Mutex, PendBoost(t, m),
           NEW u \in Thread
    PROVE  Restorable(u)'
<1>1. /\ At(t, "run") /\ pc' = [pc EXCEPT ![t] = "pend"]
      /\ UNCHANGED <<mutexVars, restore>>
  BY DEF PendBoost, Goto
<1>2. priority'[u] = priority[u] \/ (owner[m] = u /\ priority'[u] > priority[u])
  <2>1. CASE owner[m] # None /\ priority[owner[m]] < priority[t]
    <3>1. priority' = [priority EXCEPT ![owner[m]] = priority[t]]
      BY <2>1 DEF PendBoost, OS_ThreadPrioritySet
    <3> QED BY <2>1, <3>1 DEF RestoreInv, MutexInv, IInv, TypeOK
  <2>2. CASE UNCHANGED vars
    BY <2>2 DEF vars
  <2> QED BY <2>1, <2>2 DEF PendBoost
<1>3. pc'[u] = "restore" <=> pc[u] = "restore"
  BY <1>1 DEF At, RestoreInv, MutexInv, MutexTypeOK
<1> QED BY <1>1, <1>2, <1>3, RestorableStays, Priorities DEF RestoreInv, OwnsNone, mutexVars

\* A new owner goes back to the priority it has: the one it was created with,
\* unless it owns a mutex that is locked outside this one.
LEMMA OwnRestorable ==
    ASSUME RestoreInv, MutexInv', NEW t \in Thread, PendOwn(t), NEW u \in Thread
    PROVE  Restorable(u)'
<1> PICK m \in Mutex : m = arg[t] /\ owner[m] # t /\ Nested(t, m)
  BY DEF PendOwn, At, RestoreInv, MutexInv, CallersNested
<1>1. /\ At(t, "own")
      /\ owner' = [owner EXCEPT ![m] = t]
      /\ priorityRestore' = [priorityRestore EXCEPT ![m] = priority[t]]
      /\ pc' = [pc EXCEPT ![t] = "run"]
      /\ UNCHANGED <<priority, restore>>
  BY DEF PendOwn, Goto, vars
<1>2. owner[m] = None /\ None \notin Thread
  <2>1. Has(t, m)
    BY <1>1, RunnerAwake DEF At, RestoreInv, Has
  <2> QED BY <2>1, KernelAssumption DEF RestoreInv, MutexInv, TokenPlaced
<1>3. InitialPriority[u] \in Nat /\ priority[u] \in Nat
  BY Priorities DEF RestoreInv
<1>4. CASE u # t
  <2>1. \A n \in Mutex : owner'[n] = u <=> owner[n] = u
    BY <1>1, <1>2, <1>4 DEF RestoreInv, MutexInv, MutexTypeOK
  <2>2. \A n \in Mutex : owner[n] = u => priorityRestore'[n] = priorityRestore[n]
    BY <1>1, <1>2 DEF RestoreInv, MutexInv, MutexTypeOK
  <2>3. pc'[u] = pc[u]
    BY <1>1, <1>4 DEF RestoreInv, MutexInv, MutexTypeOK
  <2> QED BY <1>1, <1>3, <2>1, <2>2, <2>3, RestorableStays DEF RestoreInv
<1>5. CASE u = t
  <2>1. /\ owner'[m] = t /\ priorityRestore'[m] = priority[t]
        /\ \A n \in Mutex \ {m} : owner'[n] = owner[n] /\ priorityRestore'[n] = priorityRestore[n]
    BY <1>1 DEF RestoreInv, MutexInv, MutexTypeOK
  <2>2. pc'[t] = "run" /\ pc[t] = "own" /\ ~OwnsNone(t)'
    BY <1>1, <2>1 DEF OwnsNone, At, RestoreInv, MutexInv, MutexTypeOK
  <2>3. Restorable(t) /\ priority[t] >= InitialPriority[t]
    BY DEF RestoreInv, Restorable
  <2>4. ASSUME NEW n \in Mutex, owner'[n] = t
        PROVE  priorityRestore'[n] >= InitialPriority[t]
    BY <2>1, <2>3, <2>4 DEF Restorable
  <2>5. ASSUME NEW n \in Mutex, Outermost(t, n)'
        PROVE  priorityRestore'[n] = InitialPriority[t]
    <3>1. CASE n = m
      <4>1. OwnsNone(t)
        BY <1>1, <2>1, <2>5, <3>1 DEF Outermost, OwnsNone, Nested
      <4> QED BY <2>1, <2>2, <2>3, <3>1, <4>1 DEF Restorable
    <3>2. CASE n # m
      <4>1. Outermost(t, n)
        BY <2>1, <2>5, <3>2, <1>2 DEF Outermost
      <4> QED BY <2>1, <2>3, <3>2, <4>1 DEF Restorable
    <3> QED BY <3>1, <3>2
  <2> QED BY <1>1, <1>5, <2>2, <2>3, <2>4, <2>5 DEF Restorable
<1> QED BY <1>4, <1>5

\* The mutex posted was locked last, so a mutex that is the outermost one of those
\* left was the outermost before; and if none is left, this one was.
LEMMA PostRestorable ==
    ASSUME OneOrder, RestoreInv, MutexInv', NEW t \in Thread, NEW m \in Mutex,
           PostSemaphore(t, m), NEW u \in Thread
    PROVE  Restorable(u)'
<1>1. /\ At(t, "run") /\ owner[m] = t /\ Nested(t, m)
      /\ owner' = [owner EXCEPT ![m] = None]
      /\ restore' = [restore EXCEPT ![t] = priorityRestore[m]]
      /\ pc' = [pc EXCEPT ![t] = "restore"]
      /\ UNCHANGED <<priorityRestore, priority>>
  BY DEF PostSemaphore, Goto, OS_SemaphorePost, Post
<1>2. /\ owner'[m] = None /\ None \notin Thread
      /\ \A n \in Mutex \ {m} : owner'[n] = owner[n]
  BY <1>1, KernelAssumption DEF RestoreInv, MutexInv, MutexTypeOK
<1>3. InitialPriority[u] \in Nat /\ priority[u] \in Nat
  BY Priorities DEF RestoreInv
<1>4. CASE u # t
  <2>1. \A n \in Mutex : owner'[n] = u <=> owner[n] = u
    BY <1>1, <1>2, <1>4
  <2>2. pc'[u] = pc[u] /\ restore'[u] = restore[u]
    BY <1>1, <1>4 DEF RestoreInv, MutexInv, MutexTypeOK
  <2> QED BY <1>1, <1>3, <2>1, <2>2, RestorableStays DEF RestoreInv
<1>5. CASE u = t
  <2>1. pc'[t] = "restore" /\ restore'[t] = priorityRestore[m]
    BY <1>1 DEF RestoreInv, MutexInv, MutexTypeOK
  <2>2. Restorable(t) /\ priority[t] >= InitialPriority[t]
    BY DEF RestoreInv, Restorable
  <2>3. restore'[t] >= InitialPriority[t]
    BY <1>1, <2>1, <2>2 DEF Restorable
  <2>4. ASSUME OwnsNone(t)'
        PROVE  restore'[t] = InitialPriority[t]
    <3>1. Outermost(t, m)
      BY <1>1, <1>2, <2>4 DEF Outermost, OwnsNone
    <3> QED BY <2>1, <2>2, <3>1 DEF Restorable
  <2>5. ASSUME NEW n \in Mutex, owner'[n] = t
        PROVE  priorityRestore'[n] >= InitialPriority[t]
    BY <1>1, <1>2, <2>2, <2>5 DEF Restorable
  <2>6. ASSUME NEW n \in Mutex, Outermost(t, n)'
        PROVE  priorityRestore'[n] = InitialPriority[t]
    <3>1. owner[n] = t /\ n # m
      BY <1>2, <2>6 DEF Outermost
    <3>2. <<n, m>> \in Inside
      BY <1>1, <3>1 DEF OneOrder, Nested
    <3>3. Outermost(t, n)
      BY <1>2, <2>6, <3>1, <3>2 DEF Outermost
    <3> QED BY <1>1, <2>2, <3>3 DEF Restorable
  <2> QED BY <1>1, <1>5, <2>1, <2>2, <2>3, <2>4, <2>5, <2>6 DEF Restorable
<1> QED BY <1>4, <1>5

\* A thread that restores goes back to what it had before it locked.
LEMMA RestoreRestorable ==
    ASSUME RestoreInv, MutexInv', NEW t \in Thread, PostRestore(t), NEW u \in Thread
    PROVE  Restorable(u)'
<1>1. /\ At(t, "restore") /\ pc' = [pc EXCEPT ![t] = "run"]
      /\ restore' = [restore EXCEPT ![t] = 0]
      /\ UNCHANGED mutexVars
  BY DEF PostRestore, Goto
<1>2. InitialPriority[u] \in Nat /\ priority[u] \in Nat /\ restore[t] \in Nat
  BY Priorities DEF RestoreInv, MutexInv, MutexTypeOK
<1>3. \A v \in Thread : priority'[v] =
         IF v = t /\ restore[t] < priority[t] THEN restore[t] ELSE priority[v]
  <2>1. CASE restore[t] < priority[t]
    BY <2>1 DEF PostRestore, OS_ThreadPrioritySet, RestoreInv, MutexInv, IInv, TypeOK
  <2>2. CASE ~(restore[t] < priority[t])
    BY <2>2 DEF PostRestore, vars
  <2> QED BY <2>1, <2>2
<1>4. CASE u # t
  <2>1. pc'[u] = pc[u] /\ restore'[u] = restore[u] /\ priority'[u] = priority[u]
    BY <1>1, <1>3, <1>4 DEF RestoreInv, MutexInv, MutexTypeOK
  <2> QED BY <1>1, <1>2, <2>1, RestorableStays DEF RestoreInv, mutexVars
<1>5. CASE u = t
  <2>1. pc'[t] = "run" /\ pc[t] = "restore" /\ UNCHANGED <<owner, priorityRestore>>
    BY <1>1 DEF At, RestoreInv, MutexInv, MutexTypeOK, mutexVars
  <2>2. Restorable(t)
    BY DEF RestoreInv
  <2>3. priority'[t] >= InitialPriority[t]
        /\ (OwnsNone(t) => priority'[t] = InitialPriority[t])
    BY <1>2, <1>3, <1>5, <2>1, <2>2 DEF Restorable
  <2> QED BY <1>5, <2>1, <2>2, <2>3 DEF Restorable, OwnsNone, Outermost
<1> QED BY <1>4, <1>5

\* Every step keeps what is to be given back.
LEMMA RestoreInvNext == OneOrder /\ RestoreInv /\ [MutexNext]_allVars => RestoreInv'
<1> SUFFICES ASSUME OneOrder, RestoreInv, [MutexNext]_allVars PROVE RestoreInv'
  OBVIOUS
<1>1. MutexInv'
  BY MutexInvNext DEF RestoreInv
<1> SUFFICES ASSUME NEW u \in Thread PROVE Restorable(u)'
  BY <1>1 DEF RestoreInv
<1>2. Restorable(u) /\ InitialPriority[u] \in Nat /\ priority[u] \in Nat
  BY <1>1, Priorities DEF RestoreInv
<1>3. ASSUME UNCHANGED <<priority, owner, priorityRestore, restore>>,
             pc'[u] = "restore" <=> pc[u] = "restore"
      PROVE  Restorable(u)'
  BY <1>2, <1>3, RestorableStays
<1>4. ASSUME NEW t \in Thread, PendSemaphore(t)
      PROVE  Restorable(u)'
  <2>1. UNCHANGED <<priority, owner, priorityRestore, restore>>
    BY <1>4 DEF PendSemaphore, mutexVars, OS_SemaphorePend, TakeToken, SleepOn
  <2>2. pc'[u] = "restore" <=> pc[u] = "restore"
    BY <1>4 DEF PendSemaphore, At, Goto, RestoreInv, MutexInv, MutexTypeOK
  <2> QED BY <1>3, <2>1, <2>2
<1>5. ASSUME NEW t \in Thread, NEW m \in Mutex, PendAgain(t, m) \/ PostInner(t, m)
      PROVE  Restorable(u)'
  BY <1>3, <1>5 DEF PendAgain, PostInner, vars, callVars
<1>6. ASSUME NEW t \in Thread, OS_MutexPend(t) PROVE Restorable(u)'
  BY <1>1, <1>4, <1>5, <1>6, BoostRestorable, OwnRestorable DEF OS_MutexPend
<1>7. ASSUME NEW t \in Thread, OS_MutexPost(t) PROVE Restorable(u)'
  BY <1>1, <1>5, <1>7, PostRestorable, RestoreRestorable DEF OS_MutexPost
<1>8. CASE KernelStep
  <2>1. KernelEffect
    BY <1>8, KernelStepEffect DEF RestoreInv
  <2> QED BY <1>3, <2>1 DEF KernelEffect, mutexVars, callVars
<1>9. CASE UNCHANGED allVars
  BY <1>3, <1>9 DEF allVars, vars, mutexVars, callVars
<1> QED BY <1>6, <1>7, <1>8, <1>9 DEF MutexNext

\* If all mutexes are locked and unlocked in one order, a thread that holds none
\* and is in no mutex call has the priority it was created with, whoever boosted
\* it, however deep and at whatever moment of its calls.
THEOREM PrioritiesGivenBack == QuietStart /\ OneOrder => (MutexSpec => []PriorityRestored)
<1> SUFFICES ASSUME QuietStart, OneOrder PROVE MutexSpec => []PriorityRestored
  OBVIOUS
<1>1. RestoreInv => PriorityRestored
  BY DEF RestoreInv, Restorable, PriorityRestored, OwnsNone
<1>2. RestoreInv /\ [MutexNext]_allVars => RestoreInv'
  BY RestoreInvNext
<1> QED BY <1>1, <1>2, RestoreInvInit, PTL DEF MutexSpec

-------------------------------------------------------------------------------
(***************************************************************************)
(* A boost lasts while there is one mutex.  The danger is the thread that  *)
(* goes back to its own priority: it is not rescheduled, and if it could   *)
(* boost an owner then, the switch would come between the boost and the    *)
(* wait.  It cannot, because whoever boosted it comes behind it in the     *)
(* ready list and has not let go of the mutex yet; so the order of that    *)
(* list comes first.                                                       *)
(***************************************************************************)
\* One thread is in front of another in a list.
AheadOf(l, t, h) == \E i, j \in 1 .. Len(l) : i < j /\ l[i] = t /\ l[j] = h

\* An insertion leaves the order of the others as it is, and puts the new thread
\* behind those that are not less urgent.
LEMMA InsertKeepsOrder ==
    ASSUME NEW T, NEW l \in Seq(T), NEW x \in T, NEW prio \in [T -> Nat],
           SortedBy(l, prio)
    PROVE  /\ \A t, h : AheadOf(l, t, h) => AheadOf(PriorityInsert(l, x, prio), t, h)
           /\ \A t \in ToSet(l) : prio[t] >= prio[x] => AheadOf(PriorityInsert(l, x, prio), t, x)
<1> DEFINE r == PriorityInsert(l, x, prio)
<1>1. PICK i \in 0 .. Len(l) :
          /\ r = LinkBefore(l, i, x)
          /\ i = 0 => \A j \in 1 .. Len(l) : prio[l[j]] >= prio[x]
          /\ i # 0 => /\ prio[l[i]] < prio[x]
                      /\ \A j \in 1 .. i - 1 : prio[l[j]] >= prio[x]
  BY PriorityInsertPosition
<1> DEFINE k == IF i = 0 THEN Len(l) + 1 ELSE i
<1>2. k \in 1 .. Len(l) + 1 /\ r \in Seq(T) /\ LinkedAt(r, l, x, k)
  BY <1>1, LinkBeforeLinks
<1>3. k <= Len(l) => prio[l[k]] < prio[x]
  BY <1>1
<1> HIDE DEF r, k
<1> DEFINE to(j) == IF j < k THEN j ELSE j + 1
<1>4. ASSUME NEW j \in 1 .. Len(l) PROVE to(j) \in 1 .. Len(r) /\ r[to(j)] = l[j]
  <2>1. CASE j < k
    BY <1>2, <2>1 DEF LinkedAt
  <2>2. CASE ~(j < k)
    <3>1. j + 1 \in 1 .. Len(r) /\ j + 1 > k
      BY <1>2, <2>2 DEF LinkedAt
    <3>2. r[j + 1] = l[(j + 1) - 1]
      BY <1>2, <3>1 DEF LinkedAt
    <3> QED BY <2>2, <3>1, <3>2
  <2> QED BY <2>1, <2>2
<1>5. ASSUME NEW t, NEW h, AheadOf(l, t, h) PROVE AheadOf(r, t, h)
  <2>1. PICK a \in 1 .. Len(l), b \in 1 .. Len(l) : a < b /\ l[a] = t /\ l[b] = h
    BY <1>5 DEF AheadOf
  <2>2. to(a) < to(b)
    BY <1>2, <2>1
  <2>3. to(a) \in 1 .. Len(r) /\ r[to(a)] = t /\ to(b) \in 1 .. Len(r) /\ r[to(b)] = h
    BY <1>4, <2>1
  <2> HIDE DEF to
  <2> QED BY <2>2, <2>3 DEF AheadOf
<1>6. ASSUME NEW t \in ToSet(l), prio[t] >= prio[x] PROVE AheadOf(r, t, x)
  <2>1. PICK a \in 1 .. Len(l) : l[a] = t
    BY DEF ToSet
  <2>2. a < k
    <3> SUFFICES ASSUME k <= a PROVE FALSE
      BY <1>2
    <3>1. k \in 1 .. Len(l) /\ l[k] \in T /\ l[a] \in T
      BY <1>2
    <3>2. prio[l[k]] >= prio[l[a]]
      <4>1. CASE k = a
        BY <3>1, <4>1
      <4>2. CASE k < a
        BY <3>1, <4>2 DEF SortedBy
      <4> QED BY <1>2, <4>1, <4>2
    <3> QED BY <1>3, <1>6, <2>1, <3>1, <3>2
  <2>3. a \in 1 .. Len(r) /\ r[a] = t /\ k \in 1 .. Len(r) /\ r[k] = x
    BY <1>2, <2>1, <2>2 DEF LinkedAt
  <2> QED BY <2>2, <2>3 DEF AheadOf
<1> QED BY <1>5, <1>6 DEF r

\* A removal leaves the order of the others as it is.
LEMMA RemoveKeepsOrder ==
    ASSUME NEW T, NEW l \in Seq(T), NEW x \in ToSet(l), NEW t, NEW h, t # x, h # x,
           AheadOf(l, t, h)
    PROVE  AheadOf(PriorityRemove(l, x), t, h)
<1> DEFINE r == PriorityRemove(l, x)
<1>1. PICK k \in 1 .. Len(l) : l[k] = x /\ r \in Seq(T) /\ RemovedAt(r, l, k)
  BY RemoveFirstPosition DEF PriorityRemove
<1> HIDE DEF r
<1> DEFINE to(j) == IF j < k THEN j ELSE j - 1
<1>2. ASSUME NEW j \in 1 .. Len(l), j # k PROVE to(j) \in 1 .. Len(r) /\ r[to(j)] = l[j]
  <2>1. CASE j < k
    BY <1>1, <2>1 DEF RemovedAt
  <2>2. CASE ~(j < k)
    <3>1. j - 1 \in 1 .. Len(r) /\ ~(j - 1 < k)
      BY <1>1, <1>2, <2>2 DEF RemovedAt
    <3>2. r[j - 1] = l[(j - 1) + 1]
      BY <1>1, <3>1 DEF RemovedAt
    <3> QED BY <2>2, <3>1, <3>2
  <2> QED BY <2>1, <2>2
<1>3. PICK a \in 1 .. Len(l), b \in 1 .. Len(l) : a < b /\ l[a] = t /\ l[b] = h
  BY DEF AheadOf
<1>4. a # k /\ b # k
  BY <1>1, <1>3
<1>5. to(a) < to(b)
  BY <1>3, <1>4
<1>6. to(a) \in 1 .. Len(r) /\ r[to(a)] = t /\ to(b) \in 1 .. Len(r) /\ r[to(b)] = h
  BY <1>2, <1>3, <1>4
<1> HIDE DEF to
<1> QED BY <1>5, <1>6 DEF AheadOf, r

\* The threads of a list stay in it, in their order, until they run.
QueueKept(ready) ==
    /\ \A t, h \in Thread :
          AheadOf(ready, t, h) => AheadOf(ThreadHead', t, h) \/ ThreadCurrent' = t
    /\ \A t \in ToSet(ready) : t \in ToSet(ThreadHead') \/ ThreadCurrent' = t

\* The first of a list without repetitions is behind nobody.
LEMMA NobodyAheadOfHead ==
    ASSUME NEW T, NEW l \in Seq(T), IsInjective(l), NEW t, NEW h, AheadOf(l, t, h)
    PROVE  h # Head(l)
<1>1. PICK a \in 1 .. Len(l), b \in 1 .. Len(l) : a < b /\ l[a] = t /\ l[b] = h
  BY DEF AheadOf
<1>2. Head(l) = l[1] /\ 1 \in 1 .. Len(l) /\ b # 1
  BY <1>1
<1> QED BY <1>1, <1>2 DEF IsInjective

\* A switch lets the first one run and puts the preempted thread where it belongs.
LEMMA RescheduleQueue ==
    ASSUME TypeOK, NEW ready, NEW st, Handed(ready, st),
           NEW prio \in [Thread -> Nat], SortedBy(ready, prio), NEW rr \in BOOLEAN,
           Reschedule(rr, ready, st, prio)
    PROVE  /\ QueueKept(ready)
           /\ ThreadCurrent # None /\ st[ThreadCurrent] = "RUNNING" =>
                 ThreadCurrent \in ToSet(ThreadHead') \/ ThreadCurrent' = ThreadCurrent
<1>1. ready \in Seq(Thread) /\ st \in [Thread -> ThreadState]
      /\ IsInjective(ready) /\ ToSet(ready) = In(st, "READY")
  BY DEF Handed, Lists
<1>2. CASE ready # <<>> /\ MustSwap(rr, Head(ready), st, prio)
  <2> DEFINE next == Head(ready)
             preempted == ThreadCurrent # None /\ st[ThreadCurrent] = "RUNNING"
             list == IF preempted THEN PriorityInsert(ready, ThreadCurrent, prio) ELSE ready
  <2>1. next \in Thread /\ next \in ToSet(ready)
    BY <1>1, <1>2 DEF ToSet
  <2>2. ThreadCurrent' = next /\ ThreadHead' = PriorityRemove(list, next)
    BY <1>2 DEF Reschedule, Swap
  <2>3. preempted => ThreadCurrent \in Thread /\ ThreadCurrent \notin ToSet(ready)
    BY <1>1 DEF TypeOK, In
  <2>4. /\ list \in Seq(Thread) /\ IsInjective(list) /\ next \in ToSet(list)
        /\ ToSet(ready) \subseteq ToSet(list)
        /\ preempted => ThreadCurrent \in ToSet(list)
    <3>1. CASE preempted
      <4>1. PICK r : r = PriorityInsert(ready, ThreadCurrent, prio)
        OBVIOUS
      <4>2. r \in Seq(Thread) /\ IsInjective(r) /\ ToSet(r) = ToSet(ready) \cup {ThreadCurrent}
        BY <1>1, <2>3, <3>1, <4>1, PriorityInsertSet
      <4>3. list = r
        BY <3>1, <4>1
      <4> HIDE DEF list, next
      <4> QED BY <2>1, <4>2, <4>3
    <3>2. CASE ~preempted
      BY <1>1, <2>1, <3>2
    <3> QED BY <3>1, <3>2
  <2>5. \A t, h : AheadOf(ready, t, h) => AheadOf(list, t, h)
    BY <1>1, <2>3, InsertKeepsOrder
  <2> HIDE DEF list
  <2>6. ToSet(ThreadHead') = ToSet(list) \ {next}
    BY <2>2, <2>4, PriorityRemoveSet
  <2>7. ASSUME NEW t \in Thread, NEW h \in Thread, AheadOf(ready, t, h), t # next
        PROVE  AheadOf(ThreadHead', t, h)
    <3>1. h # next
      BY <1>1, <2>7, NobodyAheadOfHead
    <3> HIDE DEF next
    <3> QED BY <2>2, <2>4, <2>5, <2>7, <3>1, RemoveKeepsOrder
  <2> HIDE DEF next
  <2> QED BY <2>2, <2>4, <2>6, <2>7 DEF QueueKept
<1>3. CASE ~(ready # <<>> /\ MustSwap(rr, Head(ready), st, prio))
  BY <1>3 DEF Reschedule, QueueKept
<1> QED BY <1>2, <1>3

\* OS_ThreadReschedule as a whole.
LEMMA OS_ThreadRescheduleQueue ==
    ASSUME TypeOK, NEW ready, NEW st, Handed(ready, st),
           NEW prio \in [Thread -> Nat], SortedBy(ready, prio), NEW rr \in BOOLEAN,
           OS_ThreadReschedule(rr, ready, st, prio)
    PROVE  /\ QueueKept(ready)
           /\ ThreadCurrent # None /\ st[ThreadCurrent] = "RUNNING" =>
                 ThreadCurrent \in ToSet(ThreadHead') \/ ThreadCurrent' = ThreadCurrent
<1>1. CASE InterruptInside \/ ~ThreadSwapEnabled
  BY <1>1 DEF OS_ThreadReschedule, DeferReschedule, QueueKept
<1>2. CASE ~(InterruptInside \/ ~ThreadSwapEnabled)
  BY <1>2, RescheduleQueue DEF OS_ThreadReschedule
<1> QED BY <1>1, <1>2

\* A thread that becomes ready is put behind those that are not less urgent.
LEMMA EnterQueue ==
    ASSUME ReadyInv, NEW x \in Thread, state[x] \in {"PEND", "none"},
           OS_ThreadReschedule(FALSE, PriorityInsert(ThreadHead, x, priority),
                               [state EXCEPT ![x] = "READY"], priority)
    PROVE  /\ QueueKept(ThreadHead)
           /\ QueueKept(PriorityInsert(ThreadHead, x, priority))
           /\ ThreadCurrent # None /\ x # ThreadCurrent =>
                 ThreadCurrent \in ToSet(ThreadHead') \/ ThreadCurrent' = ThreadCurrent
<1> DEFINE ready == PriorityInsert(ThreadHead, x, priority)
           st == [state EXCEPT ![x] = "READY"]
<1>1. /\ TypeOK /\ priority \in [Thread -> Nat] /\ ThreadHead \in Seq(Thread)
      /\ SortedBy(ThreadHead, priority)
  BY ReadyIsSorted
<1>2. Handed(ready, st) /\ SortedBy(ready, priority)
  BY ReadyIsSorted, WokenHanded, PriorityInsertSorted
<1>3. /\ \A t, h : AheadOf(ThreadHead, t, h) => AheadOf(ready, t, h)
      /\ ToSet(ThreadHead) \subseteq ToSet(ready)
  BY <1>1, InsertKeepsOrder, PriorityInsertSet
<1>4. ThreadCurrent # None /\ x # ThreadCurrent => st[ThreadCurrent] = "RUNNING"
  BY <1>1 DEF TypeOK, ReadyInv, IInv, RunnablePlaced
<1>5. OS_ThreadReschedule(FALSE, ready, st, priority)
  OBVIOUS
<1> HIDE DEF ready, st
<1>6. /\ QueueKept(ready)
      /\ ThreadCurrent # None /\ st[ThreadCurrent] = "RUNNING" =>
            ThreadCurrent \in ToSet(ThreadHead') \/ ThreadCurrent' = ThreadCurrent
  BY <1>1, <1>2, <1>5, OS_ThreadRescheduleQueue
<1>7. QueueKept(ThreadHead)
  BY <1>3, <1>6 DEF QueueKept
<1> QED BY <1>4, <1>6, <1>7 DEF ready

\* Nobody gets past another ready thread in a post ...
LEMMA PostQueue ==
    ASSUME ReadyInv, NEW s \in Semaphore, Post(s)
    PROVE  QueueKept(ThreadHead)
<1>1. CASE count[s] < 0
  <2>1. PICK t \in Thread : t = Head(threadHead[s]) /\ state[t] = "PEND"
    BY <1>1, ReadyIsSorted, FirstSleeper
  <2>2. OS_ThreadReschedule(FALSE, PriorityInsert(ThreadHead, t, priority),
                            [state EXCEPT ![t] = "READY"], priority)
    BY <1>1, <2>1 DEF Post, WakeFirst
  <2> QED BY <2>1, <2>2, EnterQueue
<1>2. CASE ~(count[s] < 0)
  BY <1>2 DEF Post, schedVars, QueueKept
<1> QED BY <1>1, <1>2

\* ... or when the running thread goes to sleep.
LEMMA SleepQueue ==
    ASSUME ReadyInv, NEW t \in Thread, Running(t), t # Idle, NEW s, NEW ticks,
           SleepOn(t, s, ticks)
    PROVE  QueueKept(ThreadHead)
<1>1. OS_ThreadReschedule(FALSE, ThreadHead, [state EXCEPT ![t] = "PEND"], priority)
  BY DEF SleepOn
<1>2. Handed(ThreadHead, [state EXCEPT ![t] = "PEND"])
  BY ReadyIsSorted, SleeperHanded
<1> QED BY <1>1, <1>2, ReadyIsSorted, OS_ThreadRescheduleQueue

\* The steps between mutex calls keep the order of the ready threads.
LEMMA KernelQueue ==
    ASSUME ReadyInv, KernelStep
    PROVE  QueueKept(ThreadHead)
<1>1. CASE \E t \in Thread : rtos__thread_create(t)
  BY <1>1, EnterQueue DEF rtos__thread_create
<1>2. CASE rtos__start
  <2>1. CASE StartEnable
    BY <2>1 DEF StartEnable, schedVars, QueueKept
  <2>2. CASE FirstSwitch
    BY <2>2, ReadyIsSorted, StateHanded, RescheduleQueue DEF FirstSwitch
  <2> QED BY <1>2, <2>1, <2>2, StartInTwo DEF ReadyInv
<1>3. CASE \E t \in Thread, ticks \in Ticks : At(t, "run") /\ rtos__thread_sleep(t, ticks)
  <2>1. PICK t \in Thread, ticks \in Ticks :
           Running(t) /\ t # Idle
           /\ (TakeToken(SemaphoreSleep) \/ SleepOn(t, SemaphoreSleep, ticks))
    BY <1>3 DEF At, rtos__thread_sleep, OS_SemaphorePend
  <2>2. CASE TakeToken(SemaphoreSleep)
    BY <2>2 DEF TakeToken, schedVars, QueueKept
  <2> QED BY <2>1, <2>2, SleepQueue
<1>4. CASE UNCHANGED schedVars
  BY <1>4 DEF schedVars, QueueKept
<1>5. CASE DeviceHandler
  BY <1>4, <1>5, PostQueue, KernelAssumption DEF DeviceHandler
<1>6. CASE TickWake
  <2>1. PICK x : x = Head(TimeoutHead)
    OBVIOUS
  <2>2. x \in Thread /\ ThreadHead' = PriorityInsert(ThreadHead, x, priority)
    BY <1>6, <2>1, ReadyIsSorted DEF TickWake, TypeOK
  <2>3. ThreadHead \in Seq(Thread) /\ priority \in [Thread -> Nat] /\ SortedBy(ThreadHead, priority)
    BY ReadyIsSorted
  <2>4. \A t, h : AheadOf(ThreadHead, t, h) => AheadOf(ThreadHead', t, h)
    BY <2>2, <2>3, InsertKeepsOrder
  <2>5. ToSet(ThreadHead) \subseteq ToSet(ThreadHead')
    BY <2>2, <2>3, PriorityInsertSet
  <2> QED BY <2>4, <2>5 DEF QueueKept
<1>7. CASE TickDone
  BY <1>7, ReadyIsSorted, StateHanded, OS_ThreadRescheduleQueue DEF TickDone
<1>8. CASE InterruptExit
  <2>1. (ThreadNeedReschedule = 3) \in BOOLEAN
    OBVIOUS
  <2> QED BY <1>4, <1>8, <2>1, ReadyIsSorted, StateHanded, RescheduleQueue DEF InterruptExit
<1> QED BY <1>1, <1>2, <1>3, <1>4, <1>5, <1>6, <1>7, <1>8
        DEF KernelStep, InterruptBetweenCalls, rtos__interrupt_service_routine,
            InterruptEnter, OS_ThreadTick

-------------------------------------------------------------------------------
\* There is no second mutex.
OneMutex == \A m, n \in Mutex : m = n

\* t has posted a mutex and has yet to give back a priority it inherited.
Lowers(t) == pc[t] = "restore" /\ restore[t] < priority[t]

\* Whoever posts is the owner no more.
PostersLeft(m) == \A t \in Thread : pc[t] = "restore" => owner[m] # t

\* A caller runs on from the boost to the moment it sleeps.
CallersRun == \A t \in Thread : pc[t] = "pend" => ThreadCurrent = t

\* ... so it finds the owner as urgent as it left it.
CallerBelow(m) ==
    \A t \in Thread : pc[t] = "pend" /\ owner[m] # None => priority[owner[m]] >= priority[t]

\* Whoever boosted an owner still waits for the mutex, or is about to.
BoostFromWaiter(m) ==
    owner[m] # None /\ priority[owner[m]] > priorityRestore[m] =>
       \E h \in Thread : /\ priority[h] = priority[owner[m]]
                         /\ semaphorePending[h] = m \/ pc[h] = "pend"

\* A poster runs again before the one that boosted it takes over the mutex.
BoosterWaits(m) ==
    \A t \in Thread : Lowers(t) =>
       /\ t = ThreadCurrent \/ t \in ToSet(ThreadHead)
       /\ \E h \in Thread \ {t} :
             /\ priority[h] = priority[t]
             /\ \/ semaphorePending[h] = m
                \/ Has(h, m) /\ (t = ThreadCurrent \/ AheadOf(ThreadHead, t, h))

\* A new owner is no less urgent than a poster that was not given the time to step back.
OwnerAbove(m) ==
    \A t \in Thread : Lowers(t) /\ owner[m] # None => priority[owner[m]] >= priority[t]

\* A thread outside, or about to sleep, whom the owner of m is not less urgent than.
Low(t, m) ==
    /\ pc[t] \in {"run", "pend"}
    /\ count[m] <= 0
    /\ owner[m] # t
    /\ owner[m] # None => priority[owner[m]] >= priority[t]

\* Only such a thread runs beside a more urgent one.
MostUrgentOrLow(m) ==
    ThreadCurrent # None /\ (InterruptInside => ThreadNeedReschedule = 0 /\ ~inTick) =>
       Low(ThreadCurrent, m) \/ MostUrgent(ThreadCurrent, state, priority)

Boosts(m) ==
    /\ PostersLeft(m)
    /\ CallersRun
    /\ CallerBelow(m)
    /\ BoostFromWaiter(m)
    /\ BoosterWaits(m)
    /\ OwnerAbove(m)
    /\ MostUrgentOrLow(m)

BoostInv == ReadyInv /\ MutexInv /\ \A m \in Mutex : Boosts(m)

-------------------------------------------------------------------------------
\* At the start nobody is in a call.
LEMMA BoostInvInit == QuietStart /\ MutexInit => BoostInv
<1> SUFFICES ASSUME QuietStart, MutexInit, NEW m \in Mutex PROVE Boosts(m)
  BY MutexInvInit, InitReadyInv DEF BoostInv, MutexInit
<1>1. /\ \A t \in Thread : pc[t] = "run"
      /\ owner[m] = None /\ ThreadCurrent = None
  BY DEF MutexInit, Init
<1> QED BY <1>1 DEF Boosts, PostersLeft, CallersRun, CallerBelow, BoostFromWaiter,
             BoosterWaits, OwnerAbove, MostUrgentOrLow, Lowers

\* The ready list stays sorted in the steps of mutex calls too.
LEMMA MutexReady ==
    ASSUME ReadyInv, MutexInv, [MutexNext]_allVars
    PROVE  ReadyInv'
<1>1. IInv'
  BY MutexInvNext DEF MutexInv
<1>2. ASSUME [Next]_vars PROVE ReadyInv'
  BY <1>2, NextReadyInv
<1>3. ASSUME NEW u \in Thread, NEW p \in Nat, OS_ThreadPrioritySet(u, p)
      PROVE  ReadyInv'
  <2>1. ReadySorted'
    BY <1>3, PrioritySetSwitches
  <2>2. UNCHANGED isrVars
    BY <1>3 DEF OS_ThreadPrioritySet
  <2> QED BY <1>1, <2>1, <2>2 DEF ReadyInv, ServedInside, isrVars
<1>4. ASSUME NEW t \in Thread, NEW m \in Mutex, PendAgain(t, m) \/ PostInner(t, m)
      PROVE  ReadyInv'
  BY <1>2, <1>4 DEF PendAgain, PostInner
<1>5. ASSUME NEW t \in Thread, NEW m \in Mutex, PendBoost(t, m)
      PROVE  ReadyInv'
  <2>1. priority[t] \in Nat /\ (owner[m] # None => owner[m] \in Thread)
    BY DEF MutexInv, MutexTypeOK, IInv, TypeOK
  <2> QED BY <1>2, <1>3, <1>5, <2>1 DEF PendBoost
<1>6. ASSUME NEW t \in Thread, PendSemaphore(t)
      PROVE  ReadyInv'
  <2>1. PICK s : Running(t) /\ t # Idle /\ OS_SemaphorePend(t, s, WAIT_FOREVER)
    BY <1>6 DEF PendSemaphore, At
  <2>2. UNCHANGED isrVars
    BY <2>1 DEF OS_SemaphorePend, TakeToken, SleepOn
  <2>3. ReadySorted'
    <3>1. CASE TakeToken(s)
      BY <3>1, NothingSwitches DEF TakeToken, schedVars
    <3> QED BY <2>1, <3>1, SleepOnSwitches DEF OS_SemaphorePend
  <2> QED BY <1>1, <2>2, <2>3 DEF ReadyInv, ServedInside, isrVars
<1>7. ASSUME NEW t \in Thread, PendOwn(t)
      PROVE  ReadyInv'
  BY <1>2, <1>7 DEF PendOwn
<1>8. ASSUME NEW t \in Thread, NEW m \in Mutex, PostSemaphore(t, m)
      PROVE  ReadyInv'
  <2>1. m \in Semaphore /\ Post(m) /\ UNCHANGED isrVars
    BY <1>8, MutexAssumption DEF PostSemaphore, OS_SemaphorePost
  <2>2. ReadySorted'
    BY <2>1, PostSwitches
  <2> QED BY <1>1, <2>1, <2>2 DEF ReadyInv, ServedInside, isrVars
<1>9. ASSUME NEW t \in Thread, PostRestore(t)
      PROVE  ReadyInv'
  <2>1. restore[t] \in Nat
    BY DEF MutexInv, MutexTypeOK
  <2> QED BY <1>2, <1>3, <1>9, <2>1 DEF PostRestore
<1>10. ASSUME KernelStep PROVE ReadyInv'
  <2>1. Next
    BY <1>10 DEF KernelStep, InterruptBetweenCalls, Next, ThreadCall, At
  <2> QED BY <1>2, <2>1
<1>11. ASSUME UNCHANGED allVars PROVE ReadyInv'
  BY <1>2, <1>11 DEF allVars
<1> QED BY <1>4, <1>5, <1>6, <1>7, <1>8, <1>9, <1>10, <1>11
        DEF MutexNext, OS_MutexPend, OS_MutexPost

\* A thread that is not less urgent than any other stays where it is.
LEMMA RescheduleStays ==
    ASSUME TypeOK, NEW ready, NEW st, Handed(ready, st), NEW prio \in [Thread -> Nat],
           ThreadCurrent # None, st[ThreadCurrent] = "RUNNING",
           MostUrgent(ThreadCurrent, st, prio),
           OS_ThreadReschedule(FALSE, ready, st, prio)
    PROVE  ThreadCurrent' = ThreadCurrent /\ ThreadHead' = ready /\ state' = st
<1>1. CASE InterruptInside \/ ~ThreadSwapEnabled
  BY <1>1 DEF OS_ThreadReschedule, DeferReschedule
<1>2. CASE ~(InterruptInside \/ ~ThreadSwapEnabled)
  <2>1. ready # <<>> => Head(ready) \in Thread /\ st[Head(ready)] = "READY"
    BY DEF Handed, Lists, In, ToSet
  <2>2. ready # <<>> => prio[Head(ready)] <= prio[ThreadCurrent]
    BY <2>1 DEF MostUrgent
  <2>3. ThreadCurrent \in Thread
    BY DEF TypeOK
  <2>4. ready # <<>> => ~MustSwap(FALSE, Head(ready), st, prio)
    BY <2>1, <2>2, <2>3 DEF MustSwap
  <2> QED BY <1>2, <2>4 DEF OS_ThreadReschedule, Reschedule
<1> QED BY <1>1, <1>2

\* Whoever sleeps on a mutex has taken from its count; whoever has its token, too.
LEMMA WaiterCounts ==
    ASSUME MutexInv, NEW m \in Mutex, NEW h \in Thread
    PROVE  /\ semaphorePending[h] = m => count[m] < 0
           /\ Has(h, m) => count[m] <= 0 /\ owner[m] = None
<1>1. m \in Semaphore /\ count[m] \in Int /\ threadHead[m] \in Seq(Thread)
  BY MutexAssumption DEF MutexInv, IInv, TypeOK
<1>2. ASSUME semaphorePending[h] = m PROVE count[m] < 0
  <2>1. h \in ToSet(threadHead[m])
    BY <1>1, <1>2 DEF MutexInv, IInv, SleepersPlaced, Lists
  <2>2. Len(threadHead[m]) # 0
    BY <1>1, <2>1 DEF ToSet
  <2> QED BY <1>1, <2>2 DEF MutexInv, IInv, CountMatchesWaiters
<1>3. ASSUME Has(h, m) PROVE count[m] <= 0 /\ owner[m] = None
  BY <1>3 DEF MutexInv, TokenPlaced
<1> QED BY <1>2, <1>3

\* While there is a token left nobody boosted the last owner, or it has stepped back.
LEMMA LowersContended ==
    ASSUME MutexInv, NEW m \in Mutex, BoosterWaits(m), NEW t \in Thread, Lowers(t)
    PROVE  count[m] <= 0
<1>1. PICK h \in Thread : semaphorePending[h] = m \/ Has(h, m)
  BY DEF BoosterWaits
<1>2. count[m] \in Int
  BY MutexAssumption DEF MutexInv, IInv, TypeOK
<1> QED BY <1>1, <1>2, WaiterCounts

-------------------------------------------------------------------------------
\* Between mutex calls: the step reschedules or leaves one for later, or it leaves the
\* runnable threads as they are.
LEMMA KernelUrgent ==
    ASSUME ReadyInv, KernelStep, UNCHANGED priority
    PROVE  \/ UrgentUnlessAsked'
           \/ /\ UNCHANGED <<ThreadCurrent, state>>
              /\ (InterruptInside => ThreadNeedReschedule = 0 /\ ~inTick)'
                    => (InterruptInside => ThreadNeedReschedule = 0 /\ ~inTick)
<1>1. CASE \E t \in Thread : rtos__thread_create(t)
  BY <1>1, EnterUrgent DEF rtos__thread_create, isrVars
<1>2. CASE rtos__start
  <2>1. CASE StartEnable
    BY <2>1 DEF StartEnable, schedVars, isrVars
  <2>2. CASE FirstSwitch
    BY <2>2, RescheduleUrgentAll DEF FirstSwitch
  <2> QED BY <1>2, <2>1, <2>2, StartInTwo DEF ReadyInv
<1>3. CASE \E t \in Thread, ticks \in Ticks : At(t, "run") /\ rtos__thread_sleep(t, ticks)
  <2>1. PICK t \in Thread, ticks \in Ticks :
           Running(t) /\ t # Idle
           /\ (TakeToken(SemaphoreSleep) \/ SleepOn(t, SemaphoreSleep, ticks))
    BY <1>3 DEF At, rtos__thread_sleep, OS_SemaphorePend
  <2>2. CASE TakeToken(SemaphoreSleep)
    BY <2>2 DEF TakeToken, schedVars, isrVars
  <2>3. CASE SleepOn(t, SemaphoreSleep, ticks)
    <3>1. OS_ThreadReschedule(FALSE, ThreadHead, [state EXCEPT ![t] = "PEND"], priority)
          /\ UNCHANGED InterruptInside
      BY <2>3 DEF SleepOn, isrVars
    <3>2. Handed(ThreadHead, [state EXCEPT ![t] = "PEND"])
      BY <2>1, ReadyIsSorted, SleeperHanded
    <3> QED BY <3>1, <3>2, ReadyIsSorted, ReschedulingUrgent
  <2> QED BY <2>1, <2>2, <2>3
<1>4. CASE \E lines \in {{"tick"}, {"device"}, {"tick", "device"}} : InterruptEnter(lines)
  BY <1>4 DEF InterruptEnter, schedVars
<1>5. CASE DeviceHandler
  <2>1. CASE UNCHANGED <<schedVars, semVars, timeVars, bootVars, priority>>
    BY <1>5, <2>1 DEF DeviceHandler, Serve, schedVars
  <2>2. ASSUME NEW s \in UserSemaphore, Post(s)
        PROVE  \/ UrgentUnlessAsked'
               \/ UNCHANGED <<ThreadCurrent, state, ThreadNeedReschedule>>
    <3>1. CASE count[s] < 0
      <4>1. PICK t \in Thread : t = Head(threadHead[s]) /\ state[t] = "PEND"
        BY <3>1, ReadyIsSorted, FirstSleeper, KernelAssumption
      <4>2. OS_ThreadReschedule(FALSE, PriorityInsert(ThreadHead, t, priority),
                                [state EXCEPT ![t] = "READY"], priority)
        BY <2>2, <3>1, <4>1 DEF Post, WakeFirst
      <4> QED BY <1>5, <4>1, <4>2, EnterUrgent DEF DeviceHandler, Serve
    <3>2. CASE ~(count[s] < 0)
      BY <2>2, <3>2 DEF Post, schedVars
    <3> QED BY <3>1, <3>2
  <2>3. UNCHANGED <<InterruptInside, inTick>>
    BY <1>5 DEF DeviceHandler, Serve
  <2> QED BY <1>5, <2>1, <2>2, <2>3 DEF DeviceHandler
<1>6. CASE OS_ThreadTick
  BY <1>6, ReadyIsSorted DEF OS_ThreadTick, Serve, ReadyInv, ServedInside, UrgentUnlessAsked
<1>7. CASE TickWake
  BY <1>7, ReadyIsSorted DEF TickWake, isrVars, ReadyInv, ServedInside, UrgentUnlessAsked
<1>8. CASE TickDone
  BY <1>8, ReadyIsSorted, StateHanded, ReschedulingUrgent DEF TickDone
<1>9. CASE InterruptExit
  <2>1. CASE ThreadNeedReschedule = 0
    BY <1>9, <2>1 DEF InterruptExit, schedVars
  <2>2. CASE ~ThreadSwapEnabled
    BY <1>9, <2>2, ReadyIsSorted
       DEF InterruptExit, schedVars, UrgentUnlessAsked, IInv, SwapsOn
  <2>3. CASE ~(ThreadNeedReschedule = 0 \/ ~ThreadSwapEnabled)
    <3>1. (ThreadNeedReschedule = 3) \in BOOLEAN
      OBVIOUS
    <3> QED BY <1>9, <2>3, <3>1, RescheduleUrgentAll DEF InterruptExit
  <2> QED BY <2>1, <2>2, <2>3
<1> QED BY <1>1, <1>2, <1>3, <1>4, <1>5, <1>6, <1>7, <1>8, <1>9
        DEF KernelStep, InterruptBetweenCalls, rtos__interrupt_service_routine

\* The kernel runs between calls only.
LEMMA KernelBetween ==
    ASSUME ReadyInv, KernelStep, NEW t \in Thread, pc[t] # "run"
    PROVE  t # ThreadCurrent
<1>1. None \notin Thread /\ SwapsOn
  BY KernelAssumption DEF ReadyInv, IInv
<1>2. CASE \E u \in Thread, ticks \in Ticks : At(u, "run") /\ rtos__thread_sleep(u, ticks)
  BY <1>2 DEF At, Running
<1>3. CASE ~ThreadSwapEnabled \/ ThreadCurrent = None
  BY <1>1, <1>3 DEF SwapsOn
<1>4. CASE rtos__start
  BY <1>3, <1>4, StartInTwo
     DEF ReadyInv, StartEnable, FirstSwitch, BeforeFirstSwitch
<1> QED BY <1>1, <1>2, <1>3, <1>4 DEF KernelStep, InterruptBetweenCalls

\* Nothing the kernel does between mutex calls disturbs a boost.
LEMMA KernelBoosts ==
    ASSUME BoostInv, MutexInv', KernelStep, NEW m \in Mutex
    PROVE  Boosts(m)'
<1>0. ReadyInv /\ MutexInv /\ Boosts(m)
  BY DEF BoostInv
<1>1. /\ UNCHANGED <<owner, priorityRestore, pc, arg, restore, priority>>
      /\ count'[m] = count[m]
      /\ \A t \in Thread : semaphorePending[t] = m => semaphorePending'[t] = m
      /\ \A t \in Thread : Has(t, m) => Has(t, m)'
  <2>1. KernelEffect
    BY <1>0, KernelStepEffect
  <2> QED BY <2>1 DEF KernelEffect, mutexVars, callVars, Has
<1>2. \A t \in Thread : Lowers(t)' <=> Lowers(t)
  BY <1>1 DEF Lowers
<1>3. PostersLeft(m)'
  BY <1>0, <1>1 DEF Boosts, PostersLeft
<1>4. \A t \in Thread : pc[t] # "pend"
  BY <1>0, KernelBetween DEF Boosts, CallersRun
<1>5. CallersRun' /\ CallerBelow(m)'
  BY <1>1, <1>4 DEF CallersRun, CallerBelow
<1>6. BoostFromWaiter(m)'
  BY <1>0, <1>1 DEF Boosts, BoostFromWaiter
<1>7. BoosterWaits(m)'
  <2> SUFFICES ASSUME NEW t \in Thread, Lowers(t)
               PROVE  /\ t = ThreadCurrent' \/ t \in ToSet(ThreadHead')
                      /\ \E h \in Thread \ {t} :
                            /\ priority[h] = priority[t]
                            /\ \/ semaphorePending'[h] = m
                               \/ Has(h, m)' /\ (t = ThreadCurrent' \/ AheadOf(ThreadHead', t, h))
    BY <1>1, <1>2 DEF BoosterWaits
  <2>1. t # ThreadCurrent
    BY <1>0, KernelBetween DEF Lowers
  <2>2. t \in ToSet(ThreadHead)
    BY <1>0, <2>1 DEF Boosts, BoosterWaits
  <2>3. PICK h \in Thread \ {t} :
           /\ priority[h] = priority[t]
           /\ semaphorePending[h] = m \/ (Has(h, m) /\ AheadOf(ThreadHead, t, h))
    BY <1>0, <2>1 DEF Boosts, BoosterWaits
  <2>4. QueueKept(ThreadHead)
    BY <1>0, KernelQueue
  <2> QED BY <1>1, <2>2, <2>3, <2>4 DEF QueueKept
<1>8. OwnerAbove(m)'
  BY <1>0, <1>1, <1>2 DEF Boosts, OwnerAbove
<1>9. MostUrgentOrLow(m)'
  <2>1. CASE UrgentUnlessAsked'
    BY <2>1 DEF UrgentUnlessAsked, MostUrgentOrLow
  <2>2. CASE /\ UNCHANGED <<ThreadCurrent, state>>
             /\ (InterruptInside => ThreadNeedReschedule = 0 /\ ~inTick)'
                   => (InterruptInside => ThreadNeedReschedule = 0 /\ ~inTick)
    BY <1>0, <1>1, <2>2 DEF Boosts, MostUrgentOrLow, Low, MostUrgent
  <2> QED BY <1>0, <1>1, <2>1, <2>2, KernelUrgent
<1> QED BY <1>3, <1>5, <1>6, <1>7, <1>8, <1>9 DEF Boosts

\* Nor does a step that leaves everything of it alone.
LEMMA BoostsStay ==
    ASSUME NEW m \in Mutex, Boosts(m),
           UNCHANGED <<vars, owner, priorityRestore, pc, arg, restore>>
    PROVE  Boosts(m)'
  BY DEF Boosts, PostersLeft, CallersRun, CallerBelow, BoostFromWaiter, BoosterWaits,
         OwnerAbove, MostUrgentOrLow, Low, Lowers, Has, MostUrgent, AheadOf, vars,
         schedVars, semVars, isrVars

-------------------------------------------------------------------------------
\* What the first half of a pend does: the owner is raised to the caller, and the caller,
\* whom nobody that is ready is more urgent than, runs on.
LEMMA BoostStays ==
    ASSUME BoostInv, MutexInv', NEW m \in Mutex, NEW t \in Thread, PendBoost(t, m)
    PROVE  /\ UNCHANGED <<ThreadCurrent, state>>
           /\ ToSet(ThreadHead') = ToSet(ThreadHead)
           /\ owner[m] # None => priority'[owner[m]] >= priority[t]
           /\ \A u \in Thread :
                 \/ priority'[u] = priority[u]
                 \/ u = owner[m] /\ priority[u] < priority[t] /\ priority'[u] = priority[t]
<1>0. ReadyInv /\ MutexInv /\ Boosts(m) /\ TypeOK
  BY DEF BoostInv, MutexInv, IInv
<1>1. At(t, "run") /\ owner[m] # t /\ priority[t] \in Nat
  BY <1>0 DEF PendBoost, TypeOK
<1>2. CASE owner[m] # None /\ priority[owner[m]] < priority[t]
  <2>1. PICK o \in Thread : o = owner[m]
    BY <1>0, <1>2 DEF MutexInv, MutexTypeOK
  <2>2. OS_ThreadPrioritySet(o, priority[t]) /\ priority[o] < priority[t]
    BY <1>2, <2>1 DEF PendBoost
  <2>3. priority' = [priority EXCEPT ![o] = priority[t]]
    BY <2>2 DEF OS_ThreadPrioritySet
  <2>4. PICK prio \in [Thread -> Nat] : prio = priority'
    BY <1>0, <1>1, <2>3 DEF TypeOK
  <2>5. UNCHANGED <<ThreadCurrent, state>> /\ ToSet(ThreadHead') = ToSet(ThreadHead)
    <3>1. CASE state[o] = "READY"
      <4> DEFINE ready == PriorityInsert(PriorityRemove(ThreadHead, o), o, prio)
      <4>1. OS_ThreadReschedule(FALSE, ready, state, prio)
        BY <2>2, <2>4, <3>1 DEF OS_ThreadPrioritySet
      <4>2. o \in ToSet(ThreadHead) /\ Handed(ready, state)
        BY <1>0, <3>1, ReadyIsSorted, ResortHanded
      <4>3. t = ThreadCurrent /\ ThreadCurrent # None /\ state[ThreadCurrent] = "RUNNING"
        BY <1>0, <1>1, RunnerAwake, KernelAssumption DEF At, Running
      <4>4. ~Low(t, m)
        BY <1>0, <1>1, <1>2, <2>1, <2>2 DEF Low, TypeOK
      <4>5. MostUrgent(t, state, priority)
        BY <1>0, <1>1, <4>3, <4>4 DEF At, Running, Boosts, MostUrgentOrLow
      <4>6. MostUrgent(t, state, prio)
        BY <1>0, <2>1, <2>3, <2>4, <4>5, <1>1 DEF MostUrgent, TypeOK
      <4> HIDE DEF ready
      <4>7. ThreadCurrent' = ThreadCurrent /\ ThreadHead' = ready /\ state' = state
        BY <1>0, <4>1, <4>2, <4>3, <4>6, RescheduleStays
      <4>8. ToSet(ready) = In(state, "READY") /\ ToSet(ThreadHead) = In(state, "READY")
        BY <1>0, <4>2, ReadyIsSorted DEF Handed, Lists
      <4> QED BY <4>7, <4>8
    <3>2. CASE state[o] # "READY"
      BY <2>2, <3>2 DEF OS_ThreadPrioritySet, schedVars
    <3> QED BY <3>1, <3>2
  <2> QED BY <1>0, <1>1, <2>1, <2>2, <2>3, <2>5 DEF TypeOK
<1>3. CASE ~(owner[m] # None /\ priority[owner[m]] < priority[t])
  <2>1. UNCHANGED vars
    BY <1>3 DEF PendBoost
  <2>2. owner[m] # None => owner[m] \in Thread /\ priority[owner[m]] \in Nat
    BY <1>0 DEF MutexInv, MutexTypeOK, TypeOK
  <2> QED BY <1>1, <1>3, <2>1, <2>2 DEF vars, schedVars
<1> QED BY <1>2, <1>3

LEMMA PendBoostBoosts ==
    ASSUME BoostInv, MutexInv', NEW m \in Mutex, NEW t \in Thread, PendBoost(t, m)
    PROVE  Boosts(m)'
<1>0. ReadyInv /\ MutexInv /\ MutexTypeOK /\ TypeOK /\ Boosts(m)
  BY DEF BoostInv, MutexInv, IInv
<1>1. /\ At(t, "run") /\ owner[m] # t
      /\ pc' = [pc EXCEPT ![t] = "pend"]
      /\ arg' = [arg EXCEPT ![t] = m]
      /\ UNCHANGED <<owner, priorityRestore, restore>>
  BY DEF PendBoost, Goto, mutexVars
<1>2. UNCHANGED <<semaphorePending, count, isrVars>>
  BY DEF PendBoost, OS_ThreadPrioritySet, vars, semVars
<1>3. t = ThreadCurrent /\ pc[t] = "run" /\ ~InterruptInside /\ ThreadCurrent # None
  BY <1>1, KernelAssumption DEF At, Running
<1>4. /\ pc'[t] = "pend" /\ \A u \in Thread \ {t} : pc'[u] = pc[u] /\ arg'[u] = arg[u]
  BY <1>0, <1>1 DEF MutexTypeOK
<1>5. /\ UNCHANGED <<ThreadCurrent, state>>
      /\ ToSet(ThreadHead') = ToSet(ThreadHead)
      /\ owner[m] # None => priority'[owner[m]] >= priority[t]
      /\ \A u \in Thread :
            \/ priority'[u] = priority[u]
            \/ u = owner[m] /\ priority[u] < priority[t] /\ priority'[u] = priority[t]
  BY BoostStays
<1>6. /\ priority \in [Thread -> Nat] /\ priority' \in [Thread -> Nat]
      /\ owner[m] \in Thread \cup {None} /\ priority'[t] = priority[t]
  BY <1>0, <1>1, <1>5 DEF TypeOK, MutexTypeOK, MutexInv
<1>7. \A u \in Thread : Lowers(u)' => Lowers(u) /\ priority'[u] = priority[u] /\ u # t
  BY <1>0, <1>1, <1>4, <1>5, <1>6 DEF Lowers, Boosts, PostersLeft
<1>8. PostersLeft(m)'
  BY <1>0, <1>1, <1>4 DEF Boosts, PostersLeft
<1>9. CallersRun'
  BY <1>0, <1>3, <1>4, <1>5 DEF Boosts, CallersRun
<1>10. \A u \in Thread : pc'[u] = "pend" => u = t
  BY <1>3, <1>5, <1>9 DEF CallersRun
<1>11. CallerBelow(m)'
  BY <1>1, <1>5, <1>6, <1>10 DEF CallerBelow
<1>12. BoostFromWaiter(m)'
  <2> SUFFICES ASSUME owner[m] # None, priority'[owner[m]] > priorityRestore[m]
               PROVE  \E h \in Thread : /\ priority'[h] = priority'[owner[m]]
                                        /\ semaphorePending[h] = m \/ pc'[h] = "pend"
    BY <1>1, <1>2 DEF BoostFromWaiter
  <2>1. CASE priority'[owner[m]] = priority[t]
    BY <1>4, <1>6, <2>1
  <2>2. CASE priority'[owner[m]] = priority[owner[m]]
    <3>1. PICK h \in Thread : /\ priority[h] = priority[owner[m]]
                              /\ semaphorePending[h] = m \/ pc[h] = "pend"
      BY <1>0, <2>2 DEF Boosts, BoostFromWaiter
    <3>2. pc[h] = "pend" => pc'[h] = "pend"
      BY <1>4
    <3>3. priority'[h] = priority[h]
      BY <1>5, <2>2, <3>1
    <3> QED BY <2>2, <3>1, <3>2, <3>3
  <2> QED BY <1>5, <1>6, <2>1, <2>2
<1>13. BoosterWaits(m)'
  <2> SUFFICES ASSUME NEW u \in Thread, Lowers(u), priority'[u] = priority[u], u # t
               PROVE  /\ u = ThreadCurrent' \/ u \in ToSet(ThreadHead')
                      /\ \E h \in Thread \ {u} :
                            /\ priority'[h] = priority'[u]
                            /\ \/ semaphorePending[h] = m
                               \/ Has(h, m)' /\ (u = ThreadCurrent' \/ AheadOf(ThreadHead', u, h))
    BY <1>2, <1>7 DEF BoosterWaits
  <2>1. PICK h \in Thread \ {u} :
           /\ priority[h] = priority[u]
           /\ \/ semaphorePending[h] = m
              \/ Has(h, m) /\ (u = ThreadCurrent \/ AheadOf(ThreadHead, u, h))
    BY <1>0 DEF Boosts, BoosterWaits
  <2>2. u \in ToSet(ThreadHead')
    BY <1>0, <1>3, <1>5 DEF Boosts, BoosterWaits
  <2>3. CASE semaphorePending[h] = m
    <3>1. h # owner[m]
      BY <1>0, <2>3, KernelAssumption, MutexAssumption
         DEF MutexInv, SleepersCall, CallersNested
    <3> QED BY <1>5, <2>1, <2>2, <2>3, <3>1
  <2>4. CASE Has(h, m)
    <3>1. owner[m] = None
      BY <1>0, <2>4, WaiterCounts
    <3>2. UNCHANGED vars
      BY <3>1 DEF PendBoost
    <3>3. Has(h, m)'
      BY <1>2, <1>3, <1>4, <2>4 DEF Has
    <3> QED BY <1>3, <2>1, <2>2, <3>2, <3>3 DEF vars, schedVars, Has, AheadOf
  <2> QED BY <2>1, <2>3, <2>4
<1>14. OwnerAbove(m)'
  <2> SUFFICES ASSUME NEW u \in Thread, Lowers(u), priority'[u] = priority[u], owner[m] # None
               PROVE  priority'[owner[m]] >= priority'[u]
    BY <1>1, <1>7 DEF OwnerAbove
  <2>1. priority[owner[m]] >= priority[u]
    BY <1>0 DEF Boosts, OwnerAbove
  <2>2. priority'[owner[m]] >= priority[owner[m]]
    BY <1>5, <1>6
  <2> QED BY <1>6, <2>1, <2>2
<1>15. MostUrgentOrLow(m)'
  <2>1. Low(t, m) \/ MostUrgent(t, state, priority)
    BY <1>0, <1>3 DEF Boosts, MostUrgentOrLow
  <2>2. CASE Low(t, m)
    <3>1. Low(t, m)'
      BY <1>1, <1>2, <1>4, <1>5, <1>6, <2>2 DEF Low
    <3> QED BY <1>3, <1>5, <3>1 DEF MostUrgentOrLow
  <2>3. CASE MostUrgent(t, state, priority)
    <3>1. MostUrgent(t, state', priority')
      BY <1>5, <1>6, <2>3 DEF MostUrgent
    <3> QED BY <1>3, <1>5, <3>1 DEF MostUrgentOrLow
  <2> QED BY <2>1, <2>2, <2>3
<1> QED BY <1>8, <1>9, <1>11, <1>12, <1>13, <1>14, <1>15 DEF Boosts

\* The second half: the caller takes the token, and then nobody is left to step back, or
\* it goes to sleep, and the most urgent thread runs.
LEMMA PendSemaphoreBoosts ==
    ASSUME OneMutex, BoostInv, MutexInv', NEW m \in Mutex, NEW t \in Thread, PendSemaphore(t)
    PROVE  Boosts(m)'
<1>0. ReadyInv /\ MutexInv /\ MutexTypeOK /\ IInv /\ TypeOK /\ Boosts(m)
  BY DEF BoostInv, MutexInv, IInv
<1>1. arg[t] = m
  BY <1>0 DEF OneMutex, PendSemaphore, At, MutexInv, CallersNested
<1>2. /\ At(t, "pend") /\ Running(t) /\ t # Idle
      /\ pc' = [pc EXCEPT ![t] = "own"]
      /\ UNCHANGED <<owner, priorityRestore, arg, restore, priority, isrVars>>
      /\ OS_SemaphorePend(t, m, WAIT_FOREVER)
      /\ count' = [count EXCEPT ![m] = @ - 1]
  BY <1>1 DEF PendSemaphore, Goto, At, mutexVars, OS_SemaphorePend, TakeToken, SleepOn
<1>3. t = ThreadCurrent /\ pc[t] = "pend" /\ ~InterruptInside /\ ThreadCurrent # None
  BY <1>2, KernelAssumption DEF At, Running
<1>4. pc'[t] = "own" /\ \A u \in Thread \ {t} : pc'[u] = pc[u]
  BY <1>0, <1>2 DEF MutexTypeOK
<1>5. \A u \in Thread : Lowers(u)' => Lowers(u) /\ u # t
  BY <1>2, <1>4 DEF Lowers
<1>6. m \in Semaphore /\ count \in [Semaphore -> Int] /\ m # None
  BY <1>0, MutexAssumption, KernelAssumption DEF TypeOK
<1>7. PostersLeft(m)'
  BY <1>0, <1>2, <1>4 DEF Boosts, PostersLeft
<1>8. \A u \in Thread : pc'[u] # "pend"
  BY <1>0, <1>3, <1>4 DEF Boosts, CallersRun
<1>9. CallersRun' /\ CallerBelow(m)'
  BY <1>8 DEF CallersRun, CallerBelow
<1>10. OwnerAbove(m)'
  BY <1>0, <1>2, <1>5 DEF Boosts, OwnerAbove
<1>11. CASE count[m] > 0 /\ TakeToken(m)
  <2>1. \A u \in Thread : ~Lowers(u)
    BY <1>0, <1>6, <1>11, LowersContended DEF Boosts
  <2>2. owner[m] = None
    BY <1>0, <1>6, <1>11 DEF MutexInv, TokenPlaced
  <2>3. BoostFromWaiter(m)' /\ BoosterWaits(m)'
    BY <1>2, <1>5, <2>1, <2>2 DEF BoostFromWaiter, BoosterWaits
  <2>4. MostUrgent(t, state, priority)
    BY <1>0, <1>3, <1>6, <1>11 DEF Boosts, MostUrgentOrLow, Low
  <2>5. UNCHANGED <<ThreadCurrent, state, priority>>
    BY <1>11 DEF TakeToken, schedVars
  <2>6. MostUrgentOrLow(m)'
    BY <1>3, <2>4, <2>5 DEF MostUrgentOrLow, MostUrgent
  <2> QED BY <1>7, <1>9, <1>10, <2>3, <2>6 DEF Boosts
<1>12. CASE count[m] <= 0 /\ SleepOn(t, m, WAIT_FOREVER)
  <2>1. /\ semaphorePending' = [semaphorePending EXCEPT ![t] = m]
        /\ semaphorePending \in [Thread -> Semaphore \cup {None}]
    BY <1>0, <1>12 DEF SleepOn, TypeOK
  <2>2. BoostFromWaiter(m)'
    <3> SUFFICES ASSUME owner[m] # None, priority[owner[m]] > priorityRestore[m]
                 PROVE  \E h \in Thread : priority[h] = priority[owner[m]] /\ semaphorePending'[h] = m
      BY <1>2 DEF BoostFromWaiter
    <3>1. PICK h \in Thread : /\ priority[h] = priority[owner[m]]
                              /\ semaphorePending[h] = m \/ pc[h] = "pend"
      BY <1>0 DEF Boosts, BoostFromWaiter
    <3>2. pc[h] = "pend" => h = t
      BY <1>0, <1>3 DEF Boosts, CallersRun
    <3> QED BY <2>1, <3>1, <3>2
  <2>3. BoosterWaits(m)'
    <3> SUFFICES ASSUME NEW u \in Thread, Lowers(u), u # t
                 PROVE  /\ u = ThreadCurrent' \/ u \in ToSet(ThreadHead')
                        /\ \E h \in Thread \ {u} :
                              /\ priority[h] = priority[u]
                              /\ \/ semaphorePending'[h] = m
                                 \/ Has(h, m)' /\ (u = ThreadCurrent' \/ AheadOf(ThreadHead', u, h))
      BY <1>2, <1>5 DEF BoosterWaits
    <3>1. PICK h \in Thread \ {u} :
             /\ priority[h] = priority[u]
             /\ semaphorePending[h] = m \/ (Has(h, m) /\ AheadOf(ThreadHead, u, h))
      BY <1>0, <1>3 DEF Boosts, BoosterWaits
    <3>2. u \in ToSet(ThreadHead)
      BY <1>0, <1>3 DEF Boosts, BoosterWaits
    <3>3. QueueKept(ThreadHead)
      BY <1>0, <1>2, <1>12, SleepQueue
    <3>4. Has(h, m) => Has(h, m)'
      BY <1>2, <1>3, <1>4, <2>1 DEF Has
    <3>5. semaphorePending[h] = m => semaphorePending'[h] = m
      BY <2>1
    <3> QED BY <3>1, <3>2, <3>3, <3>4, <3>5 DEF QueueKept
  <2>4. MostUrgentOrLow(m)'
    <3>1. /\ OS_ThreadReschedule(FALSE, ThreadHead, [state EXCEPT ![t] = "PEND"], priority)
          /\ UNCHANGED InterruptInside
      BY <1>12 DEF SleepOn, isrVars
    <3>2. Handed(ThreadHead, [state EXCEPT ![t] = "PEND"])
      BY <1>0, <1>2, SleeperHanded
    <3>3. UrgentUnlessAsked'
      BY <1>0, <1>2, <3>1, <3>2, ReadyIsSorted, ReschedulingUrgent
    <3> QED BY <3>3 DEF UrgentUnlessAsked, MostUrgentOrLow
  <2> QED BY <1>7, <1>9, <1>10, <2>2, <2>3, <2>4 DEF Boosts
<1> QED BY <1>2, <1>11, <1>12 DEF OS_SemaphorePend

-------------------------------------------------------------------------------
\* The new owner runs because nobody that is ready is more urgent, a poster that was
\* preempted included.
LEMMA PendOwnBoosts ==
    ASSUME OneMutex, BoostInv, MutexInv', NEW m \in Mutex, NEW t \in Thread, PendOwn(t)
    PROVE  Boosts(m)'
<1>0. ReadyInv /\ MutexInv /\ MutexTypeOK /\ IInv /\ TypeOK /\ Boosts(m)
  BY DEF BoostInv, MutexInv, IInv
<1>1. arg[t] = m
  BY <1>0 DEF OneMutex, PendOwn, At, MutexInv, CallersNested
<1>2. /\ At(t, "own")
      /\ owner' = [owner EXCEPT ![m] = t]
      /\ priorityRestore' = [priorityRestore EXCEPT ![m] = priority[t]]
      /\ pc' = [pc EXCEPT ![t] = "run"]
      /\ arg' = [arg EXCEPT ![t] = None]
      /\ UNCHANGED <<ThreadCurrent, ThreadHead, state, priority, restore, semaphorePending,
                     count, InterruptInside, inTick, ThreadNeedReschedule>>
  BY <1>1 DEF PendOwn, Goto, vars, schedVars, semVars, isrVars
<1>3. t = ThreadCurrent /\ pc[t] = "own" /\ ~InterruptInside /\ ThreadCurrent # None
  BY <1>2, KernelAssumption DEF At, Running
<1>4. /\ pc'[t] = "run" /\ owner'[m] = t /\ priorityRestore'[m] = priority[t]
      /\ \A u \in Thread \ {t} : pc'[u] = pc[u] /\ arg'[u] = arg[u]
      /\ priority \in [Thread -> Nat]
  BY <1>0, <1>2 DEF MutexTypeOK, TypeOK
<1>5. Has(t, m) /\ semaphorePending[t] = None /\ state[t] = "RUNNING"
  BY <1>0, <1>1, <1>2, <1>3, RunnerAwake DEF Has, At
<1>6. owner[m] = None /\ \A u \in Thread : Has(u, m) => u = t
  BY <1>0, <1>5, WaiterCounts DEF MutexInv, TokenPlaced
<1>7. \A u \in Thread : Lowers(u)' => Lowers(u) /\ u # t
  BY <1>2, <1>4 DEF Lowers
<1>8. \A u \in ToSet(ThreadHead) : u # t
  BY <1>0, <1>5, ReadyIsSorted DEF In
<1>9. MostUrgent(t, state, priority)
  BY <1>0, <1>3 DEF Boosts, MostUrgentOrLow, Low
<1>10. PostersLeft(m)'
  BY <1>4 DEF PostersLeft
<1>11. \A u \in Thread : pc'[u] # "pend"
  BY <1>0, <1>3, <1>4 DEF Boosts, CallersRun
<1>12. CallersRun' /\ CallerBelow(m)'
  BY <1>11 DEF CallersRun, CallerBelow
<1>13. BoostFromWaiter(m)'
  BY <1>2, <1>4 DEF BoostFromWaiter
<1>14. ASSUME NEW u \in Thread, Lowers(u), u # t
       PROVE  /\ u \in ToSet(ThreadHead)
              /\ \E h \in Thread \ {u} : priority[h] = priority[u] /\ semaphorePending[h] = m
  <2>1. PICK h \in Thread \ {u} :
           /\ priority[h] = priority[u]
           /\ semaphorePending[h] = m \/ (Has(h, m) /\ AheadOf(ThreadHead, u, h))
    BY <1>0, <1>3, <1>14 DEF Boosts, BoosterWaits
  <2>2. ~(Has(h, m) /\ AheadOf(ThreadHead, u, h))
    BY <1>6, <1>8 DEF AheadOf, ToSet
  <2> QED BY <1>0, <1>3, <1>14, <2>1, <2>2 DEF Boosts, BoosterWaits
<1>15. BoosterWaits(m)'
  BY <1>2, <1>7, <1>14 DEF BoosterWaits
<1>16. OwnerAbove(m)'
  <2>1. ASSUME NEW u \in Thread, Lowers(u), u # t PROVE priority[t] >= priority[u]
    <3>1. state[u] = "READY"
      BY <1>0, <1>14, <2>1, ReadyIsSorted DEF In
    <3> QED BY <1>4, <1>9, <3>1 DEF MostUrgent
  <2> QED BY <1>2, <1>4, <1>7, <2>1 DEF OwnerAbove
<1>17. MostUrgentOrLow(m)'
  BY <1>2, <1>3, <1>9 DEF MostUrgentOrLow, MostUrgent
<1> QED BY <1>10, <1>12, <1>13, <1>15, <1>16, <1>17 DEF Boosts

\* The poster keeps running, or waits in front of a thread that has boosted it, as no owner
\* is less urgent than a thread that is ready.
LEMMA PostSemaphoreBoosts ==
    ASSUME BoostInv, MutexInv', NEW m \in Mutex, NEW t \in Thread, PostSemaphore(t, m)
    PROVE  Boosts(m)'
<1>0. ReadyInv /\ MutexInv /\ MutexTypeOK /\ IInv /\ TypeOK /\ Boosts(m)
  BY DEF BoostInv, MutexInv, IInv
<1>1. /\ At(t, "run") /\ owner[m] = t
      /\ owner' = [owner EXCEPT ![m] = None]
      /\ restore' = [restore EXCEPT ![t] = priorityRestore[m]]
      /\ pc' = [pc EXCEPT ![t] = "restore"]
      /\ UNCHANGED <<priorityRestore, arg, priority, InterruptInside, inTick>>
      /\ Post(m)
  BY DEF PostSemaphore, Goto, OS_SemaphorePost, Post, isrVars
<1>2. t = ThreadCurrent /\ pc[t] = "run" /\ ~InterruptInside /\ ThreadCurrent # None
  BY <1>1, KernelAssumption DEF At, Running
<1>3. /\ pc'[t] = "restore" /\ owner'[m] = None /\ restore'[t] = priorityRestore[m]
      /\ \A u \in Thread \ {t} : pc'[u] = pc[u] /\ restore'[u] = restore[u]
      /\ priority \in [Thread -> Nat] /\ owner[m] # None
  BY <1>0, <1>1, KernelAssumption DEF MutexTypeOK, TypeOK
<1>4. state[t] = "RUNNING" /\ semaphorePending[t] = None /\ m \in Semaphore
  BY <1>0, <1>1, RunnerAwake, MutexAssumption DEF At
<1>5. MostUrgent(t, state, priority)
  BY <1>0, <1>1, <1>2 DEF Boosts, MostUrgentOrLow, Low
<1>6. \A u \in Thread : pc[u] # "pend" /\ ~Has(u, m)
  BY <1>0, <1>2, <1>3, WaiterCounts DEF Boosts, CallersRun
<1>7. \A u \in Thread : pc'[u] # "pend"
  BY <1>3, <1>6
<1>8. PostersLeft(m)' /\ CallersRun' /\ CallerBelow(m)' /\ BoostFromWaiter(m)' /\ OwnerAbove(m)'
  BY <1>3, <1>7, KernelAssumption
     DEF PostersLeft, CallersRun, CallerBelow, BoostFromWaiter, OwnerAbove
<1>9. MostUrgentOrLow(m)'
  <2>1. UrgentUnlessAsked
    BY <1>2, <1>5 DEF UrgentUnlessAsked
  <2>2. UrgentUnlessAsked'
    BY <1>0, <1>1, <1>4, <2>1, PostUrgent
  <2> QED BY <2>2 DEF UrgentUnlessAsked, MostUrgentOrLow
<1>10. ASSUME NEW u \in Thread, Lowers(u)'
       PROVE  /\ u = ThreadCurrent \/ u \in ToSet(ThreadHead)
              /\ u = ThreadCurrent => u = t
              /\ \E h \in Thread \ {u} : priority[h] = priority[u] /\ semaphorePending[h] = m
  <2>1. CASE u = t
    <3>1. priority[owner[m]] > priorityRestore[m]
      BY <1>0, <1>1, <1>3, <1>10, <2>1 DEF Lowers, MutexTypeOK
    <3>2. PICK h \in Thread : priority[h] = priority[t] /\ semaphorePending[h] = m
      BY <1>0, <1>1, <1>3, <1>6, <3>1 DEF Boosts, BoostFromWaiter
    <3> QED BY <1>2, <1>4, <2>1, <3>2, MutexAssumption, KernelAssumption
  <2>2. CASE u # t
    <3>1. Lowers(u)
      BY <1>1, <1>3, <1>10, <2>2 DEF Lowers
    <3> QED BY <1>0, <1>2, <1>6, <2>2, <3>1 DEF Boosts, BoosterWaits
  <2> QED BY <2>1, <2>2
<1>11. BoosterWaits(m)'
  <2> SUFFICES ASSUME NEW u \in Thread, Lowers(u)'
               PROVE  /\ u = ThreadCurrent' \/ u \in ToSet(ThreadHead')
                      /\ \E h \in Thread \ {u} :
                            /\ priority[h] = priority[u]
                            /\ \/ semaphorePending'[h] = m
                               \/ Has(h, m)' /\ (u = ThreadCurrent' \/ AheadOf(ThreadHead', u, h))
    BY <1>1 DEF BoosterWaits
  <2>1. PICK h \in Thread \ {u} : priority[h] = priority[u] /\ semaphorePending[h] = m
    BY <1>10
  <2>2. count[m] < 0
    BY <1>0, <2>1, WaiterCounts
  <2>3. PICK w \in Thread : /\ w = Head(threadHead[m]) /\ state[w] = "PEND"
                            /\ semaphorePending[w] = m
    BY <1>0, <1>4, <2>2, FirstSleeper
  <2>4. /\ semaphorePending' = [semaphorePending EXCEPT ![w] = None]
        /\ OS_ThreadReschedule(FALSE, PriorityInsert(ThreadHead, w, priority),
                               [state EXCEPT ![w] = "READY"], priority)
    BY <1>1, <2>2, <2>3 DEF Post, WakeFirst
  <2>5. w # t /\ pc[w] = "own" /\ arg[w] = m
    BY <1>0, <1>4, <2>3, KernelAssumption, MutexAssumption DEF MutexInv, SleepersCall
  <2>6. Has(w, m)'
    BY <1>0, <1>1, <1>3, <2>3, <2>4, <2>5 DEF Has, TypeOK
  <2>7. /\ QueueKept(ThreadHead)
        /\ QueueKept(PriorityInsert(ThreadHead, w, priority))
        /\ ThreadCurrent \in ToSet(ThreadHead') \/ ThreadCurrent' = ThreadCurrent
    BY <1>0, <1>2, <2>3, <2>4, <2>5, EnterQueue
  <2>8. u = ThreadCurrent' \/ u \in ToSet(ThreadHead')
    BY <1>10, <2>7 DEF QueueKept
  <2>9. CASE h # w
    <3>1. semaphorePending'[h] = m
      BY <1>0, <2>1, <2>4, <2>9 DEF TypeOK
    <3> QED BY <2>1, <2>8, <3>1
  <2>10. CASE h = w
    <3>1. CASE u = t
      <4> DEFINE st == [state EXCEPT ![w] = "READY"]
                 ready == PriorityInsert(ThreadHead, w, priority)
      <4>1. Handed(ready, st)
        BY <1>0, <2>3, WokenHanded
      <4>2. st[ThreadCurrent] = "RUNNING"
        BY <1>0, <1>2, <1>4, <2>5 DEF TypeOK
      <4>3. MostUrgent(ThreadCurrent, st, priority)
        BY <1>0, <1>2, <1>3, <1>5, <2>1, <2>10, <3>1 DEF MostUrgent, TypeOK
      <4>4. OS_ThreadReschedule(FALSE, ready, st, priority)
        BY <2>4
      <4> HIDE DEF ready, st
      <4>5. ThreadCurrent' = ThreadCurrent
        BY <1>0, <1>2, <1>3, <4>1, <4>2, <4>3, <4>4, RescheduleStays
      <4> QED BY <1>2, <2>1, <2>6, <2>8, <2>10, <3>1, <4>5
    <3>2. CASE u # t
      <4>1. u \in ToSet(ThreadHead)
        BY <1>2, <1>10, <3>2
      <4>2. ThreadHead \in Seq(Thread) /\ SortedBy(ThreadHead, priority)
        BY <1>0, ReadyIsSorted
      <4>3. priority[u] >= priority[w]
        BY <1>3, <2>1, <2>10
      <4>4. AheadOf(PriorityInsert(ThreadHead, w, priority), u, w)
        BY <1>3, <4>1, <4>2, <4>3, InsertKeepsOrder
      <4>5. AheadOf(ThreadHead', u, w) \/ ThreadCurrent' = u
        BY <2>7, <4>4 DEF QueueKept
      <4> QED BY <2>1, <2>6, <2>8, <2>10, <4>5
    <3> QED BY <3>1, <3>2
  <2> QED BY <2>9, <2>10
<1> QED BY <1>8, <1>9, <1>11 DEF Boosts

\* A thread that steps back was boosted by one that is not served yet: the owner, if
\* there is one by now, is not less urgent.
LEMMA PostRestoreBoosts ==
    ASSUME BoostInv, MutexInv', NEW m \in Mutex, NEW t \in Thread, PostRestore(t)
    PROVE  Boosts(m)'
<1>0. ReadyInv /\ MutexInv /\ MutexTypeOK /\ IInv /\ TypeOK /\ Boosts(m)
  BY DEF BoostInv, MutexInv, IInv
<1>1. /\ At(t, "restore")
      /\ pc' = [pc EXCEPT ![t] = "run"]
      /\ restore' = [restore EXCEPT ![t] = 0]
      /\ UNCHANGED <<owner, priorityRestore, arg>>
  BY DEF PostRestore, Goto, mutexVars
<1>2. t = ThreadCurrent /\ pc[t] = "restore" /\ ~InterruptInside /\ ThreadCurrent # None
  BY <1>1, KernelAssumption DEF At, Running
<1>3. /\ pc'[t] = "run"
      /\ \A u \in Thread \ {t} : pc'[u] = pc[u] /\ restore'[u] = restore[u]
      /\ priority \in [Thread -> Nat] /\ restore[t] \in Nat
  BY <1>0, <1>1 DEF MutexTypeOK, TypeOK
<1>4. semaphorePending[t] = None /\ state[t] = "RUNNING"
  BY <1>0, <1>1, RunnerAwake DEF At
<1>5. /\ UNCHANGED <<ThreadHead, ThreadCurrent, state, semaphorePending, count,
                     InterruptInside, inTick>>
      /\ \A u \in Thread : priority'[u] = IF u = t /\ Lowers(t) THEN restore[t] ELSE priority[u]
  <2>1. CASE restore[t] < priority[t]
    BY <1>0, <1>2, <1>4, <2>1
       DEF PostRestore, OS_ThreadPrioritySet, schedVars, semVars, isrVars, Lowers, TypeOK
  <2>2. CASE ~(restore[t] < priority[t])
    BY <2>2 DEF PostRestore, vars, schedVars, semVars, isrVars, Lowers
  <2> QED BY <2>1, <2>2
<1>6. owner[m] # t
  BY <1>0, <1>2 DEF Boosts, PostersLeft
<1>7. \A u \in Thread : Lowers(u)' => Lowers(u) /\ u # t /\ priority'[u] = priority[u]
  BY <1>3, <1>5 DEF Lowers
<1>8. PostersLeft(m)'
  BY <1>0, <1>1, <1>3 DEF Boosts, PostersLeft
<1>9. \A u \in Thread : pc[u] # "pend" /\ pc'[u] # "pend"
  BY <1>0, <1>2, <1>3 DEF Boosts, CallersRun
<1>10. CallersRun' /\ CallerBelow(m)'
  BY <1>9 DEF CallersRun, CallerBelow
<1>11. owner[m] # None => owner[m] \in Thread /\ priority'[owner[m]] = priority[owner[m]]
  BY <1>0, <1>5, <1>6 DEF MutexTypeOK
<1>12. \A h \in Thread : semaphorePending[h] = m \/ Has(h, m) => h # t
  BY <1>2, <1>4, KernelAssumption, MutexAssumption DEF Has
<1>13. BoostFromWaiter(m)'
  BY <1>0, <1>1, <1>5, <1>9, <1>11, <1>12 DEF Boosts, BoostFromWaiter
<1>14. BoosterWaits(m)'
  <2> SUFFICES ASSUME NEW u \in Thread, Lowers(u), u # t, priority'[u] = priority[u]
               PROVE  /\ u = ThreadCurrent \/ u \in ToSet(ThreadHead)
                      /\ \E h \in Thread \ {u} :
                            /\ priority'[h] = priority'[u]
                            /\ \/ semaphorePending[h] = m
                               \/ Has(h, m)' /\ (u = ThreadCurrent \/ AheadOf(ThreadHead, u, h))
    BY <1>5, <1>7 DEF BoosterWaits
  <2>1. PICK h \in Thread \ {u} :
           /\ priority[h] = priority[u]
           /\ \/ semaphorePending[h] = m
              \/ Has(h, m) /\ (u = ThreadCurrent \/ AheadOf(ThreadHead, u, h))
    BY <1>0 DEF Boosts, BoosterWaits
  <2>2. h # t /\ priority'[h] = priority[h] /\ (Has(h, m) => Has(h, m)')
    BY <1>1, <1>3, <1>5, <1>12, <2>1 DEF Has
  <2> QED BY <1>0, <2>1, <2>2 DEF Boosts, BoosterWaits
<1>15. OwnerAbove(m)'
  BY <1>0, <1>1, <1>7, <1>11 DEF Boosts, OwnerAbove
<1>16. MostUrgentOrLow(m)'
  <2>1. CASE Lowers(t)
    <3>1. count[m] <= 0
      BY <1>0, <2>1, LowersContended DEF Boosts
    <3>2. owner[m] # None => priority[owner[m]] >= priority[t]
      BY <1>0, <2>1 DEF Boosts, OwnerAbove
    <3>3. priority'[t] \in Nat /\ priority'[t] < priority[t]
      BY <1>3, <1>5, <2>1 DEF Lowers
    <3>4. Low(t, m)'
      BY <1>1, <1>3, <1>5, <1>6, <1>11, <3>1, <3>2, <3>3 DEF Low
    <3> QED BY <1>2, <1>5, <3>4 DEF MostUrgentOrLow
  <2>2. CASE ~Lowers(t)
    <3>1. MostUrgent(t, state, priority)
      BY <1>0, <1>2 DEF Boosts, MostUrgentOrLow, Low
    <3>2. MostUrgent(t, state', priority')
      BY <1>5, <2>2, <3>1 DEF MostUrgent
    <3> QED BY <1>2, <1>5, <3>2 DEF MostUrgentOrLow
  <2> QED BY <2>1, <2>2
<1> QED BY <1>8, <1>10, <1>13, <1>14, <1>15, <1>16 DEF Boosts

-------------------------------------------------------------------------------
\* Every step keeps what boosts stand on.
LEMMA BoostInvNext == OneMutex /\ BoostInv /\ [MutexNext]_allVars => BoostInv'
<1> SUFFICES ASSUME OneMutex, BoostInv, [MutexNext]_allVars PROVE BoostInv'
  OBVIOUS
<1>1. ReadyInv' /\ MutexInv'
  BY MutexReady, MutexInvNext DEF BoostInv
<1> SUFFICES ASSUME NEW m \in Mutex PROVE Boosts(m)'
  BY <1>1 DEF BoostInv
<1>2. \A n \in Mutex : n = m
  BY DEF OneMutex
<1>3. Boosts(m)
  BY DEF BoostInv
<1>4. ASSUME NEW t \in Thread, OS_MutexPend(t) PROVE Boosts(m)'
  <2>1. CASE PendAgain(t, m)
    BY <1>3, <2>1, BoostsStay DEF PendAgain, callVars
  <2> QED BY <1>1, <1>2, <1>4, <2>1, PendBoostBoosts, PendSemaphoreBoosts, PendOwnBoosts
          DEF OS_MutexPend
<1>5. ASSUME NEW t \in Thread, OS_MutexPost(t) PROVE Boosts(m)'
  <2>1. CASE PostInner(t, m)
    BY <1>3, <2>1, BoostsStay DEF PostInner, callVars
  <2> QED BY <1>1, <1>2, <1>5, <2>1, PostSemaphoreBoosts, PostRestoreBoosts DEF OS_MutexPost
<1>6. CASE KernelStep
  BY <1>1, <1>6, KernelBoosts
<1>7. CASE UNCHANGED allVars
  BY <1>3, <1>7, BoostsStay DEF allVars, mutexVars, callVars
<1> QED BY <1>4, <1>5, <1>6, <1>7 DEF MutexNext

\* The body of BoostedWhileOwned.
BoostKept ==
    \A m \in Mutex, t \in Thread :
        owner[m] # None =>
           /\ state[t] = "RUNNING" /\ semaphorePending'[t] = m
                 => priority'[owner[m]] >= priority'[t]
           /\ owner'[m] = owner[m] => priority'[owner[m]] >= priority[owner[m]]

LEMMA BoostStep == OneMutex /\ BoostInv /\ [MutexNext]_allVars => BoostKept
<1> SUFFICES ASSUME OneMutex, BoostInv, [MutexNext]_allVars,
                    NEW m \in Mutex, NEW t \in Thread, owner[m] # None
             PROVE  /\ state[t] = "RUNNING" /\ semaphorePending'[t] = m
                          => priority'[owner[m]] >= priority'[t]
                    /\ owner'[m] = owner[m] => priority'[owner[m]] >= priority[owner[m]]
  BY DEF BoostKept
<1>0. ReadyInv /\ MutexInv /\ MutexTypeOK /\ IInv /\ TypeOK /\ Boosts(m) /\ MutexInv' /\ TypeOK'
  BY MutexInvNext DEF BoostInv, MutexInv, IInv
<1>1. /\ owner[m] \in Thread /\ priority \in [Thread -> Nat] /\ priority' \in [Thread -> Nat]
      /\ semaphorePending \in [Thread -> Semaphore \cup {None}]
  BY <1>0 DEF MutexTypeOK, TypeOK
<1>2. state[t] = "RUNNING" => semaphorePending[t] # m
  BY <1>0, KernelAssumption, MutexAssumption DEF IInv, SleepersPlaced
<1>3. ASSUME UNCHANGED priority,
             semaphorePending'[t] = m => semaphorePending[t] = m
      PROVE  /\ state[t] = "RUNNING" /\ semaphorePending'[t] = m
                   => priority'[owner[m]] >= priority'[t]
             /\ owner'[m] = owner[m] => priority'[owner[m]] >= priority[owner[m]]
  BY <1>1, <1>2, <1>3
<1>4. \A n \in Mutex : n = m
  BY DEF OneMutex
<1>5. ASSUME NEW u \in Thread, PendBoost(u, m)
      PROVE  priority'[owner[m]] >= priority[owner[m]] /\ UNCHANGED semaphorePending
  <2>1. UNCHANGED semaphorePending
    BY <1>5 DEF PendBoost, OS_ThreadPrioritySet, vars, semVars
  <2> QED BY <1>0, <1>1, <1>5, <2>1, BoostStays
<1>6. ASSUME NEW u \in Thread, PendSemaphore(u)
      PROVE  /\ state[t] = "RUNNING" /\ semaphorePending'[t] = m
                   => priority'[owner[m]] >= priority'[t]
             /\ owner'[m] = owner[m] => priority'[owner[m]] >= priority[owner[m]]
  <2>1. /\ pc[u] = "pend" /\ UNCHANGED priority
        /\ semaphorePending' = semaphorePending
           \/ semaphorePending' = [semaphorePending EXCEPT ![u] = arg[u]]
    BY <1>6 DEF PendSemaphore, At, OS_SemaphorePend, TakeToken, SleepOn
  <2>2. priority[owner[m]] >= priority[u]
    BY <1>0, <2>1 DEF Boosts, CallerBelow
  <2>3. CASE t = u
    BY <1>1, <2>1, <2>2, <2>3
  <2>4. CASE t # u
    BY <1>1, <1>3, <2>1, <2>4
  <2> QED BY <2>3, <2>4
<1>7. ASSUME NEW u \in Thread, OS_MutexPend(u)
      PROVE  /\ state[t] = "RUNNING" /\ semaphorePending'[t] = m
                   => priority'[owner[m]] >= priority'[t]
             /\ owner'[m] = owner[m] => priority'[owner[m]] >= priority[owner[m]]
  <2>1. CASE PendAgain(u, m) \/ PendOwn(u)
    BY <1>3, <2>1 DEF PendAgain, PendOwn, vars, semVars
  <2>2. CASE PendBoost(u, m)
    BY <1>2, <1>5, <2>2
  <2> QED BY <1>4, <1>6, <1>7, <2>1, <2>2 DEF OS_MutexPend
<1>8. ASSUME NEW u \in Thread, PostRestore(u)
      PROVE  UNCHANGED semaphorePending /\ priority'[owner[m]] >= priority[owner[m]]
  <2>1. u # owner[m]
    BY <1>0, <1>8 DEF PostRestore, At, Boosts, PostersLeft
  <2>2. CASE restore[u] < priority[u]
    <3>1. priority' = [priority EXCEPT ![u] = restore[u]] /\ UNCHANGED semaphorePending
      BY <1>8, <2>2 DEF PostRestore, OS_ThreadPrioritySet, semVars
    <3>2. priority'[owner[m]] = priority[owner[m]]
      BY <1>1, <2>1, <3>1
    <3> QED BY <1>1, <3>1, <3>2
  <2>3. CASE ~(restore[u] < priority[u])
    <3>1. UNCHANGED <<priority, semaphorePending>>
      BY <1>8, <2>3 DEF PostRestore, vars, semVars
    <3> QED BY <1>1, <3>1
  <2> QED BY <2>2, <2>3
<1>9. ASSUME NEW u \in Thread, OS_MutexPost(u)
      PROVE  /\ state[t] = "RUNNING" /\ semaphorePending'[t] = m
                   => priority'[owner[m]] >= priority'[t]
             /\ owner'[m] = owner[m] => priority'[owner[m]] >= priority[owner[m]]
  <2>1. CASE PostInner(u, m)
    BY <1>3, <2>1 DEF PostInner, vars, semVars
  <2>2. CASE PostSemaphore(u, m)
    <3>1. Post(m)
      BY <2>2 DEF PostSemaphore, OS_SemaphorePost
    <3>2. UNCHANGED priority /\ (semaphorePending'[t] = m => semaphorePending[t] = m)
      BY <1>1, <3>1, KernelAssumption, MutexAssumption DEF Post, WakeFirst
    <3> QED BY <1>3, <3>2
  <2>3. CASE PostRestore(u)
    BY <1>2, <1>8, <2>3
  <2> QED BY <1>4, <1>9, <2>1, <2>2, <2>3 DEF OS_MutexPost
<1>10. CASE KernelStep
  <2>1. KernelEffect
    BY <1>0, <1>10, KernelStepEffect
  <2> QED BY <1>3, <2>1 DEF KernelEffect
<1>11. CASE UNCHANGED allVars
  BY <1>3, <1>11 DEF allVars, vars, semVars
<1> QED BY <1>7, <1>9, <1>10, <1>11 DEF MutexNext

\* With one mutex, an owner that somebody starts to wait for is at least as urgent as the
\* waiter, and stays so until it posts, for any number of threads and priorities.
THEOREM OwnerStaysBoosted == QuietStart /\ OneMutex => (MutexSpec => BoostedWhileOwned)
<1> SUFFICES ASSUME QuietStart, OneMutex PROVE MutexSpec => BoostedWhileOwned
  OBVIOUS
<1>1. BoostInv /\ [MutexNext]_allVars => [BoostKept]_allVars
  BY BoostStep
<1>2. BoostInv /\ [MutexNext]_allVars => BoostInv'
  BY BoostInvNext
<1> QED BY <1>1, <1>2, BoostInvInit, PTL DEF MutexSpec, BoostedWhileOwned, BoostKept

\* With one mutex, a thread that runs beside a more urgent one has let go of the mutex
\* and finds it taken by a thread that is not less urgent.
THEOREM StepsBackLast == QuietStart /\ OneMutex => (MutexSpec => []StepsBackContended)
<1> SUFFICES ASSUME QuietStart, OneMutex PROVE MutexSpec => []StepsBackContended
  OBVIOUS
<1>1. BoostInv => StepsBackContended
  <2> SUFFICES ASSUME BoostInv, NEW m \in Mutex, ThreadCurrent # None, ~InterruptInside,
                      ~NoneMoreUrgent(state, priority)
               PROVE  /\ count[m] <= 0
                      /\ owner[m] # ThreadCurrent
                      /\ owner[m] # None => priority[owner[m]] >= priority[ThreadCurrent]
    BY DEF StepsBackContended
  <2> QED BY DEF BoostInv, Boosts, MostUrgentOrLow, Low, MostUrgent, NoneMoreUrgent
<1>2. BoostInv /\ [MutexNext]_allVars => BoostInv'
  BY BoostInvNext
<1> QED BY <1>1, <1>2, BoostInvInit, PTL DEF MutexSpec

===============================================================================
