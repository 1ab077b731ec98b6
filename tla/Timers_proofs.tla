----------------------------- MODULE Timers_proofs -----------------------------
(***************************************************************************)
(* The timer list is right for any number of timers and callers, whatever  *)
(* starts and stops overlap.  First its links: every running timer once,   *)
(* however long a call is kept from running.  Then its times: the list is  *)
(* in order and the timer thread wakes for its head, across the wrap of    *)
(* the tick counter, if the spans of the timers and the stalls of the      *)
(* calls fit into half its range.                                          *)
(***************************************************************************)
EXTENDS Timers, TLAPS, WellFoundedInduction

\* First the list of timers: an insertion adds one node and a removal takes one
\* away, and both keep the others and their order.

\* r is l with t linked in at position k.
LinkedAt(r, l, t, k) ==
    /\ Len(r) = Len(l) + 1
    /\ \A j \in 1 .. Len(r) :
          r[j] = IF j < k THEN l[j] ELSE IF j = k THEN t ELSE l[j - 1]

\* r is l without its position k.
RemovedAt(r, l, k) ==
    /\ Len(r) = Len(l) - 1
    /\ \A j \in 1 .. Len(r) : r[j] = IF j < k THEN l[j] ELSE l[j + 1]

\* The minimum SelectInSeq picks exists: every non-empty set of naturals has one.
LEMMA MinOfNats ==
    ASSUME NEW I \in SUBSET Nat, I # {}
    PROVE  Min(I) \in I /\ \A y \in I : Min(I) <= y
<1>1. \E x \in I : \A y \in I : x <= y
  <2> DEFINE R == {ss \in Nat \X Nat : ss[1] < ss[2]}
  <2>1. OpToRel(<, Nat) = R
    BY Zenon DEF OpToRel
  <2>2. IsWellFoundedOn(R, Nat)
    BY <2>1, NatLessThanWellFounded, Zenon
  <2>3. PICK x \in I : \A y \in I : ~ (<<y, x>> \in R)
    <3> HIDE DEF R
    <3> QED BY <2>2, WFMin, Zenon
  <2>4. ASSUME NEW y \in I PROVE x <= y
    <3>1. <<y, x>> \notin R
      BY <2>3
    <3>2. <<y, x>> \in Nat \X Nat
      OBVIOUS
    <3>3. ~ (<<y, x>>[1] < <<y, x>>[2])
      BY <3>1, <3>2
    <3> QED BY <3>3
  <2> QED BY <2>4
<1> QED BY <1>1 DEF Min

\* Both branches of LinkBefore link the node in at one position.
LEMMA LinkBeforeLinks ==
    ASSUME NEW T, NEW l \in Seq(T), NEW t \in T, NEW i \in 0 .. Len(l)
    PROVE  /\ LinkBefore(l, i, t) \in Seq(T)
           /\ LinkedAt(LinkBefore(l, i, t), l, t, IF i = 0 THEN Len(l) + 1 ELSE i)
<1>1. CASE i = 0
  BY <1>1 DEF LinkBefore, LinkedAt
<1>2. CASE i # 0
  <2> DEFINE a == SubSeq(l, 1, i - 1)
             b == SubSeq(l, i, Len(l))
  <2>1. a \in Seq(T) /\ Len(a) = i - 1 /\ \A j \in 1 .. i - 1 : a[j] = l[j]
    BY <1>2
  <2>2. b \in Seq(T) /\ Len(b) = Len(l) - i + 1
        /\ \A j \in 1 .. Len(l) - i + 1 : b[j] = l[i + j - 1]
    BY <1>2
  <2>3. LinkBefore(l, i, t) = a \o <<t>> \o b
    BY <1>2 DEF LinkBefore, InsertAt
  <2> HIDE DEF a, b
  <2> DEFINE c == a \o <<t>>
  <2>4. c \in Seq(T) /\ Len(c) = i
        /\ \A j \in 1 .. i : c[j] = IF j < i THEN l[j] ELSE t
    BY <1>2, <2>1
  <2>5. LinkBefore(l, i, t) = c \o b
    BY <2>3
  <2> HIDE DEF c
  <2>6. c \o b \in Seq(T)
    BY <2>2, <2>4
  <2>7. Len(c \o b) = Len(l) + 1
    BY <1>2, <2>2, <2>4
  <2>8. ASSUME NEW j \in 1 .. Len(l) + 1
        PROVE  (c \o b)[j] = IF j < i THEN l[j] ELSE IF j = i THEN t ELSE l[j - 1]
    BY <1>2, <2>2, <2>4
  <2> QED BY <1>2, <2>5, <2>6, <2>7, <2>8 DEF LinkedAt
<1> QED BY <1>1, <1>2

\* The position the loop of OS_ThreadTimeoutInsert stops at: 0 or the first node
\* that is not due before the new one.
LEMMA TimeoutInsertPosition ==
    ASSUME NEW T, NEW l \in Seq(T), NEW t \in T, NEW due \in [T -> Tick]
    PROVE  \E i \in 0 .. Len(l) :
              /\ TimeoutInsert(l, t, due) = LinkBefore(l, i, t)
              /\ i = 0 => \A j \in 1 .. Len(l) : ~(SignedDiff(due[t], due[l[j]]) <= 0)
              /\ i # 0 => /\ SignedDiff(due[t], due[l[i]]) <= 0
                          /\ \A j \in 1 .. i - 1 : ~(SignedDiff(due[t], due[l[j]]) <= 0)
<1> DEFINE late(j) == SignedDiff(due[t], due[l[j]]) <= 0
           I == {j \in 1 .. Len(l) : late(j)}
           i == IF I # {} THEN Min(I) ELSE 0
<1>1. TimeoutInsert(l, t, due) = LinkBefore(l, i, t)
  BY DEF TimeoutInsert, SelectInSeq
<1> HIDE DEF late
<1>2. I \in SUBSET Nat
  OBVIOUS
<1>3. CASE I = {}
  <2>1. i = 0 /\ 0 \in 0 .. Len(l) /\ \A j \in 1 .. Len(l) : ~late(j)
    BY <1>3
  <2> QED BY <1>1, <2>1 DEF late
<1>4. CASE I # {}
  <2>1. i \in I /\ \A j \in I : i <= j
    <3> HIDE DEF I
    <3> QED BY <1>2, <1>4, MinOfNats
  <2>2. i \in 1 .. Len(l) /\ i \in 0 .. Len(l) /\ i # 0 /\ late(i)
    BY <2>1
  <2>3. ASSUME NEW j \in 1 .. i - 1 PROVE ~late(j)
    <3>1. j \in 1 .. Len(l) /\ j < i
      BY <2>2
    <3>2. j \notin I
      <4> HIDE DEF I
      <4> QED BY <2>1, <2>2, <3>1
    <3> QED BY <3>1, <3>2
  <2> HIDE DEF i
  <2> QED BY <1>1, <2>2, <2>3 DEF late
<1> QED BY <1>3, <1>4

\* Linking a node in adds it to the set of nodes, and twice only if it was there.
LEMMA LinkedSet ==
    ASSUME NEW T, NEW l \in Seq(T), NEW r \in Seq(T), NEW t \in T,
           NEW k \in 1 .. Len(l) + 1, LinkedAt(r, l, t, k)
    PROVE  /\ ToSet(r) = ToSet(l) \cup {t}
           /\ IsInjective(l) /\ t \notin ToSet(l) => IsInjective(r)
<1>1. ToSet(r) \subseteq ToSet(l) \cup {t}
  BY DEF ToSet, LinkedAt
<1>2. t \in ToSet(r)
  <2>1. r[k] = t /\ k \in DOMAIN r
    BY DEF LinkedAt
  <2> QED BY <2>1 DEF ToSet
<1>3. ASSUME NEW j \in 1 .. Len(l) PROVE l[j] \in ToSet(r)
  <2>1. CASE j < k
    <3>1. r[j] = l[j] /\ j \in DOMAIN r
      BY <2>1 DEF LinkedAt
    <3> QED BY <3>1 DEF ToSet
  <2>2. CASE j >= k
    <3>1. r[j + 1] = l[j] /\ j + 1 \in DOMAIN r
      BY <2>2 DEF LinkedAt
    <3> QED BY <3>1 DEF ToSet
  <2> QED BY <2>1, <2>2
<1>4. ASSUME IsInjective(l), t \notin ToSet(l) PROVE IsInjective(r)
  <2>1. \A j \in 1 .. Len(l) : l[j] # t
    BY <1>4 DEF ToSet
  <2>2. \A i, j \in 1 .. Len(l) : l[i] = l[j] => i = j
    BY <1>4 DEF IsInjective
  <2> DEFINE from(x) == IF x < k THEN x ELSE x - 1
  <2>3. ASSUME NEW x \in 1 .. Len(r), x # k
        PROVE  from(x) \in 1 .. Len(l) /\ r[x] = l[from(x)]
    BY <2>3 DEF LinkedAt
  <2>4. r[k] = t
    BY DEF LinkedAt
  <2>5. ASSUME NEW i \in 1 .. Len(r), NEW j \in 1 .. Len(r), r[i] = r[j] PROVE i = j
    <3>1. CASE i = k /\ j = k
      BY <3>1
    <3>2. CASE i # k /\ j = k
      BY <2>1, <2>3, <2>4, <2>5, <3>2
    <3>3. CASE i = k /\ j # k
      BY <2>1, <2>3, <2>4, <2>5, <3>3
    <3>4. CASE i # k /\ j # k
      <4>1. from(i) = from(j)
        BY <2>2, <2>3, <2>5, <3>4
      <4> QED BY <3>4, <4>1
    <3> QED BY <3>1, <3>2, <3>3, <3>4
  <2> QED BY <2>5 DEF IsInjective
<1>5. ToSet(l) \subseteq ToSet(r)
  BY <1>3 DEF ToSet
<1> QED BY <1>1, <1>2, <1>4, <1>5

\* Unlinking a node that is there once takes it, and only it, away.
LEMMA RemovedSet ==
    ASSUME NEW T, NEW l \in Seq(T), NEW r \in Seq(T), NEW k \in 1 .. Len(l),
           RemovedAt(r, l, k), IsInjective(l)
    PROVE  ToSet(r) = ToSet(l) \ {l[k]} /\ IsInjective(r)
<1>1. \A i, j \in 1 .. Len(l) : l[i] = l[j] => i = j
  BY DEF IsInjective
<1>2. ASSUME NEW j \in 1 .. Len(r) PROVE r[j] \in ToSet(l) \ {l[k]}
  <2>1. CASE j < k
    <3>1. r[j] = l[j] /\ j \in 1 .. Len(l) /\ j # k
      BY <2>1 DEF RemovedAt
    <3> QED BY <1>1, <3>1 DEF ToSet
  <2>2. CASE j >= k
    <3>1. r[j] = l[j + 1] /\ j + 1 \in 1 .. Len(l) /\ j + 1 # k
      BY <2>2 DEF RemovedAt
    <3> QED BY <1>1, <3>1 DEF ToSet
  <2> QED BY <2>1, <2>2
<1>3. ASSUME NEW j \in 1 .. Len(l), j # k PROVE l[j] \in ToSet(r)
  <2>1. CASE j < k
    <3>1. r[j] = l[j] /\ j \in DOMAIN r
      BY <2>1 DEF RemovedAt
    <3> QED BY <3>1 DEF ToSet
  <2>2. CASE j > k
    <3>1. r[j - 1] = l[j] /\ j - 1 \in DOMAIN r
      BY <2>2 DEF RemovedAt
    <3> QED BY <3>1 DEF ToSet
  <2> QED BY <1>3, <2>1, <2>2
<1>4. ToSet(r) = ToSet(l) \ {l[k]}
  BY <1>2, <1>3 DEF ToSet
<1>5. ASSUME NEW i \in 1 .. Len(r), NEW j \in 1 .. Len(r), r[i] = r[j] PROVE i = j
  BY <1>1, <1>5 DEF RemovedAt
<1> QED BY <1>4, <1>5 DEF IsInjective

\* RemoveFirst removes one position of a list that holds the node ...
LEMMA RemoveFirstPosition ==
    ASSUME NEW T, NEW l \in Seq(T), NEW t \in ToSet(l)
    PROVE  \E k \in 1 .. Len(l) :
              l[k] = t /\ RemoveFirst(l, t) \in Seq(T) /\ RemovedAt(RemoveFirst(l, t), l, k)
<1> DEFINE I == {j \in 1 .. Len(l) : l[j] = t}
           k == Min(I)
<1>1. I # {} /\ I \in SUBSET Nat
  BY DEF ToSet
<1>2. k \in I
  <2> HIDE DEF I
  <2> QED BY <1>1, MinOfNats
<1>3. k \in 1 .. Len(l) /\ l[k] = t
  BY <1>2
<1>4. RemoveFirst(l, t) = RemoveAt(l, k)
  BY <1>1 DEF RemoveFirst, SelectInSeq
<1> HIDE DEF k, I
<1> DEFINE a == SubSeq(l, 1, k - 1)
           b == SubSeq(l, k + 1, Len(l))
<1>5. a \in Seq(T) /\ Len(a) = k - 1 /\ \A j \in 1 .. k - 1 : a[j] = l[j]
  BY <1>3
<1>6. b \in Seq(T) /\ Len(b) = Len(l) - k
      /\ \A j \in 1 .. Len(l) - k : b[j] = l[k + j]
  BY <1>3
<1>7. RemoveFirst(l, t) = a \o b
  BY <1>4 DEF RemoveAt
<1> HIDE DEF a, b
<1>8. a \o b \in Seq(T) /\ Len(a \o b) = Len(l) - 1
  BY <1>3, <1>5, <1>6
<1>9. ASSUME NEW j \in 1 .. Len(l) - 1
      PROVE  (a \o b)[j] = IF j < k THEN l[j] ELSE l[j + 1]
  BY ONLY l \in Seq(T), j \in 1 .. Len(l) - 1, <1>3, <1>5, <1>6
<1> QED BY <1>3, <1>7, <1>8, <1>9 DEF RemovedAt

\* ... and leaves any other list alone.
LEMMA RemoveFirstAbsent ==
    ASSUME NEW T, NEW l \in Seq(T), NEW t, t \notin ToSet(l)
    PROVE  RemoveFirst(l, t) = l
  BY DEF RemoveFirst, ToSet

\* OS_ThreadTimeoutInsert adds one node.
LEMMA TimeoutInsertSet ==
    ASSUME NEW T, NEW l \in Seq(T), NEW t \in T, NEW due \in [T -> Tick]
    PROVE  /\ TimeoutInsert(l, t, due) \in Seq(T)
           /\ ToSet(TimeoutInsert(l, t, due)) = ToSet(l) \cup {t}
           /\ IsInjective(l) /\ t \notin ToSet(l) => IsInjective(TimeoutInsert(l, t, due))
<1> DEFINE r == TimeoutInsert(l, t, due)
<1>1. PICK i \in 0 .. Len(l) : r = LinkBefore(l, i, t)
  BY TimeoutInsertPosition
<1> DEFINE k == IF i = 0 THEN Len(l) + 1 ELSE i
<1>2. k \in 1 .. Len(l) + 1
  OBVIOUS
<1>3. r \in Seq(T) /\ LinkedAt(r, l, t, k)
  BY <1>1, LinkBeforeLinks
<1> HIDE DEF r, k
<1>4. QED BY <1>2, <1>3, LinkedSet DEF r

\* OS_ThreadTimeoutRemove takes its node away if it is there.
LEMMA TimeoutRemoveSet ==
    ASSUME NEW T, NEW l \in Seq(T), NEW t, IsInjective(l)
    PROVE  /\ TimeoutRemove(l, t) \in Seq(T)
           /\ ToSet(TimeoutRemove(l, t)) = ToSet(l) \ {t}
           /\ IsInjective(TimeoutRemove(l, t))
<1> DEFINE r == RemoveFirst(l, t)
<1>1. CASE t \in ToSet(l)
  <2>1. PICK k \in 1 .. Len(l) : l[k] = t /\ r \in Seq(T) /\ RemovedAt(r, l, k)
    BY <1>1, RemoveFirstPosition
  <2> HIDE DEF r
  <2> QED BY <2>1, RemovedSet DEF r, TimeoutRemove
<1>2. CASE t \notin ToSet(l)
  BY <1>2, RemoveFirstAbsent DEF TimeoutRemove
<1> QED BY <1>1, <1>2

\* No node is behind one of a smaller key.
SortedBy(l, key) ==
    \A i, j \in 1 .. Len(l) : i < j => key[l[i]] >= key[l[j]]

\* A node linked in behind keys that are not smaller and in front of keys that are
\* not larger keeps a list sorted.
LEMMA LinkedSorted ==
    ASSUME NEW T, NEW l \in Seq(T), NEW t \in T, NEW key \in [T -> Int], SortedBy(l, key),
           NEW r \in Seq(T), NEW k \in 1 .. Len(l) + 1, LinkedAt(r, l, t, k),
           \A j \in 1 .. k - 1 : key[l[j]] >= key[t],
           k <= Len(l) => key[l[k]] <= key[t]
    PROVE  SortedBy(r, key)
<1>1. \A j \in 1 .. Len(l) : key[l[j]] \in Int
  OBVIOUS
<1>2. \A a, b \in 1 .. Len(l) : a < b => key[l[a]] >= key[l[b]]
  BY DEF SortedBy
<1>3. \A j \in 1 .. k - 1 : j \in 1 .. Len(l) /\ key[l[j]] >= key[t]
  OBVIOUS
<1>4. \A j \in k .. Len(l) : j \in 1 .. Len(l) /\ key[l[j]] <= key[t]
  <2> SUFFICES ASSUME NEW j \in k .. Len(l) PROVE j \in 1 .. Len(l) /\ key[l[j]] <= key[t]
    OBVIOUS
  <2>1. k \in 1 .. Len(l) /\ j \in 1 .. Len(l)
    OBVIOUS
  <2>2. key[l[k]] >= key[l[j]]
    BY <1>1, <1>2, <2>1
  <2> QED BY <1>1, <2>1, <2>2
<1>5. ASSUME NEW x \in 1 .. Len(r)
      PROVE  /\ x < k => x \in 1 .. k - 1 /\ r[x] = l[x]
             /\ x = k => r[x] = t
             /\ x > k => x - 1 \in k .. Len(l) /\ x - 1 \in 1 .. Len(l) /\ r[x] = l[x - 1]
  BY DEF LinkedAt
<1>6. ASSUME NEW x \in 1 .. Len(r), NEW y \in 1 .. Len(r), x < y
      PROVE  key[r[x]] >= key[r[y]]
  <2>1. CASE y < k
    <3>1. x \in 1 .. Len(l) /\ y \in 1 .. Len(l) /\ r[x] = l[x] /\ r[y] = l[y]
      BY <1>3, <1>5, <1>6, <2>1
    <3> QED BY <1>2, <1>6, <3>1
  <2>2. CASE y = k
    <3>1. x \in 1 .. k - 1 /\ r[x] = l[x] /\ r[y] = t
      BY <1>5, <1>6, <2>2
    <3> QED BY <1>3, <3>1
  <2>3. CASE y > k /\ x < k
    <3>1. x \in 1 .. k - 1 /\ r[x] = l[x] /\ y - 1 \in k .. Len(l) /\ r[y] = l[y - 1]
      BY <1>5, <2>3
    <3>2. key[l[x]] >= key[t] /\ key[t] >= key[l[y - 1]]
      BY <1>3, <1>4, <3>1
    <3>3. key[l[x]] \in Int /\ key[t] \in Int /\ key[l[y - 1]] \in Int
      BY <1>1, <1>3, <1>4, <3>1
    <3> QED BY <3>1, <3>2, <3>3
  <2>4. CASE y > k /\ x = k
    <3>1. r[x] = t /\ y - 1 \in k .. Len(l) /\ r[y] = l[y - 1]
      BY <1>5, <2>4
    <3> QED BY <1>1, <1>4, <3>1
  <2>5. CASE x > k
    <3>1. x - 1 \in 1 .. Len(l) /\ y - 1 \in 1 .. Len(l) /\ r[x] = l[x - 1] /\ r[y] = l[y - 1]
      BY <1>5, <1>6, <2>5
    <3>2. x - 1 < y - 1
      BY <1>6
    <3>3. key[l[x - 1]] >= key[l[y - 1]]
      BY <1>2, <3>1, <3>2, Zenon
    <3> QED BY <3>1, <3>3, Zenon
  <2> QED BY <1>6, <2>1, <2>2, <2>3, <2>4, <2>5
<1> QED BY <1>6 DEF SortedBy

\* A list without one of its nodes is sorted as before.
LEMMA RemovedSorted ==
    ASSUME NEW T, NEW l \in Seq(T), NEW t \in ToSet(l), NEW key, SortedBy(l, key)
    PROVE  SortedBy(RemoveFirst(l, t), key)
<1> DEFINE r == RemoveFirst(l, t)
<1>1. PICK k \in 1 .. Len(l) : r \in Seq(T) /\ RemovedAt(r, l, k)
  BY RemoveFirstPosition
<1> HIDE DEF r
<1> DEFINE from(x) == IF x < k THEN x ELSE x + 1
<1>2. ASSUME NEW x \in 1 .. Len(r) PROVE from(x) \in 1 .. Len(l) /\ r[x] = l[from(x)]
  BY <1>1 DEF RemovedAt
<1>3. ASSUME NEW x \in 1 .. Len(r), NEW y \in 1 .. Len(r), x < y
      PROVE  key[r[x]] >= key[r[y]]
  <2>1. from(x) < from(y)
    BY <1>3
  <2> HIDE DEF from
  <2> QED BY <1>2, <2>1 DEF SortedBy
<1> QED BY <1>3 DEF r, SortedBy

\* An insertion by due time keeps a list in order of due time, if the due times of
\* the list and the new one are in the order of a key: if none is half the range of
\* the counter away from another.  (The key falls as time goes on.)
LEMMA TimeoutInsertSorted ==
    ASSUME NEW T, NEW l \in Seq(T), NEW t \in T, NEW due \in [T -> Tick],
           NEW key \in [T -> Int], SortedBy(l, key),
           \A j \in 1 .. Len(l) : SignedDiff(due[t], due[l[j]]) <= 0 <=> key[t] >= key[l[j]]
    PROVE  SortedBy(TimeoutInsert(l, t, due), key)
<1> DEFINE r == TimeoutInsert(l, t, due)
           late(j) == SignedDiff(due[t], due[l[j]]) <= 0
<1>1. PICK i \in 0 .. Len(l) :
          /\ r = LinkBefore(l, i, t)
          /\ i = 0 => \A j \in 1 .. Len(l) : ~late(j)
          /\ i # 0 => late(i) /\ \A j \in 1 .. i - 1 : ~late(j)
  BY TimeoutInsertPosition
<1>2. \A j \in 1 .. Len(l) : late(j) <=> key[t] >= key[l[j]]
  OBVIOUS
<1> HIDE DEF late
<1> DEFINE k == IF i = 0 THEN Len(l) + 1 ELSE i
<1>3. k \in 1 .. Len(l) + 1 /\ r \in Seq(T) /\ LinkedAt(r, l, t, k)
  BY <1>1, LinkBeforeLinks
<1>4. key[t] \in Int /\ \A j \in 1 .. Len(l) : key[l[j]] \in Int
  OBVIOUS
<1> HIDE DEF r
<1>5. /\ \A j \in 1 .. k - 1 : key[l[j]] >= key[t]
      /\ k <= Len(l) => key[l[k]] <= key[t]
  <2>1. \A j \in 1 .. k - 1 : j \in 1 .. Len(l) /\ ~late(j)
    BY <1>1
  <2>2. k <= Len(l) => k \in 1 .. Len(l) /\ late(k)
    BY <1>1
  <2> HIDE DEF k
  <2> QED BY <1>2, <1>4, <2>1, <2>2
<1> HIDE DEF k
<1>6. SortedBy(r, key)
  BY <1>3, <1>5, LinkedSorted
<1> QED BY <1>6 DEF r

\* A removal keeps a list in order of due time.
LEMMA TimeoutRemoveSorted ==
    ASSUME NEW T, NEW l \in Seq(T), NEW t, NEW key, SortedBy(l, key)
    PROVE  SortedBy(TimeoutRemove(l, t), key)
<1>1. CASE t \in ToSet(l)
  BY <1>1, RemovedSorted DEF TimeoutRemove
<1>2. CASE t \notin ToSet(l)
  BY <1>2, RemoveFirstAbsent DEF TimeoutRemove
<1> QED BY <1>1, <1>2

-------------------------------------------------------------------------------
\* A call that is going to use its timer and due time has both, and the timer
\* thread has a timer to handle.
CallsCarryTimers ==
    /\ \A w \in Thread :
          /\ pc[w] \in {"start", "check", "stopfirst", "insert", "stop"} =>
                call[w].timer \in Timer
          /\ pc[w] \in {"check", "stopfirst", "insert"} => call[w].ticks \in Tick
    /\ pc[TimerThread] = "handle" => expired \in Timer

\* The inductive invariant.
IInv == TypeOK /\ RunningListed /\ CallsCarryTimers

-------------------------------------------------------------------------------
\* A tick count is wrapped to a tick count.
LEMMA ModuloTick ==
    ASSUME NEW a \in Int
    PROVE  a % TickModulus \in Tick
  BY TickModulusAssumption DEF Tick

\* The signed difference of two tick counts is a number that can be compared.
LEMMA SignedDiffInt ==
    ASSUME NEW a \in Int, NEW b \in Int
    PROVE  SignedDiff(a, b) \in Int
  BY TickModulusAssumption DEF SignedDiff

\* The facts about the parameters every step of the proof may need.
LEMMA Parameters ==
    /\ 0 \in Tick /\ Tick \subseteq Nat
    /\ TimerThread \in Thread /\ Caller \subseteq Thread
    /\ 0 \in 0 .. MaxStall
    /\ NoCall \in [timer : Timer \cup {NoTimer}, ticks : Nat, restart : Nat]
  BY TimersAssumption, TickModulusAssumption DEF Tick, Thread, NoCall

\* At the start no timer runs and no call is under way.
LEMMA InitEstablishes == Init => IInv
<1> SUFFICES ASSUME Init PROVE IInv
  OBVIOUS
<1>1. TypeOK
  <2>1. call \in [Thread -> [timer : Timer \cup {NoTimer}, ticks : Nat, restart : Nat]]
    BY Parameters DEF Init
  <2>2. /\ ThreadTime \in Tick /\ ticksTimeout \in [Timer -> Tick] /\ timeNow \in Tick
        /\ stall \in [Thread -> 0 .. MaxStall]
    BY Parameters DEF Init
  <2> QED
    BY <2>1, <2>2 DEF Init, TypeOK
<1>2. RunningListed
  <2>1. IsInjective(<<>>) /\ ToSet(<<>>) = {}
    BY DEF IsInjective, ToSet
  <2>2. {t \in Timer : active[t]} = {}
    BY DEF Init
  <2> QED
    BY <2>1, <2>2 DEF Init, RunningListed
<1>3. CallsCarryTimers
  <2>1. \A w \in Thread : pc[w] \in {"run", "howlong"}
    BY DEF Init
  <2> QED
    BY <2>1, Parameters DEF CallsCarryTimers
<1> QED
  BY <1>1, <1>2, <1>3 DEF IInv

\* Steps that leave the list and the timers alone keep the list right.
LEMMA ListUntouched ==
    ASSUME RunningListed, UNCHANGED <<TimerHead, active>>
    PROVE  RunningListed'
  BY DEF RunningListed

\* The region of OS_TimerStop.
LEMMA StopRegionKeeps ==
    ASSUME TypeOK, RunningListed, NEW t \in Timer, StopRegion(t)
    PROVE  /\ RunningListed'
           /\ TimerHead' \in Seq(Timer)
           /\ active' \in [Timer -> BOOLEAN]
           /\ ticksTimeout' \in [Timer -> Tick]
           /\ ticksRestart' = ticksRestart
<1>1. /\ active' = [active EXCEPT ![t] = FALSE]
      /\ ticksTimeout' = [ticksTimeout EXCEPT ![t] = 0]
      /\ ticksRestart' = ticksRestart
  BY DEF StopRegion
<1>2. /\ TimerHead' \in Seq(Timer)
      /\ IsInjective(TimerHead')
      /\ ToSet(TimerHead') = ToSet(TimerHead) \ {t}
  <2>1. CASE active[t]
    <3>1. TimerHead' = TimeoutRemove(TimerHead, t)
      BY <2>1 DEF StopRegion
    <3> QED
      BY <3>1, TimeoutRemoveSet DEF TypeOK, RunningListed
  <2>2. CASE ~active[t]
    BY <2>2 DEF StopRegion, TypeOK, RunningListed
  <2> QED
    BY <2>1, <2>2
<1>3. {u \in Timer : active'[u]} = {u \in Timer : active[u]} \ {t}
  BY <1>1 DEF TypeOK
<1> QED
  BY <1>1, <1>2, <1>3, Parameters DEF RunningListed, TypeOK

\* The region of OS_TimerStart, entered with a timer that is not running.
LEMMA InsertRegionKeeps ==
    ASSUME TypeOK, RunningListed,
           NEW t \in Timer, NEW due \in Tick, NEW r \in Nat,
           ~active[t], InsertRegion(t, due, r)
    PROVE  /\ RunningListed'
           /\ TimerHead' \in Seq(Timer)
           /\ active' \in [Timer -> BOOLEAN]
           /\ ticksTimeout' \in [Timer -> Tick]
           /\ ticksRestart' \in [Timer -> Nat]
<1>1. /\ active' = [active EXCEPT ![t] = TRUE]
      /\ ticksTimeout' \in [Timer -> Tick]
      /\ ticksRestart' \in [Timer -> Nat]
      /\ TimerHead' = TimeoutInsert(TimerHead, t, ticksTimeout')
  BY DEF InsertRegion, TypeOK
<1>2. t \notin ToSet(TimerHead)
  BY DEF RunningListed
<1>3. PICK due1 \in [Timer -> Tick] : TimerHead' = TimeoutInsert(TimerHead, t, due1)
  BY <1>1
<1>4. /\ TimerHead' \in Seq(Timer)
      /\ IsInjective(TimerHead')
      /\ ToSet(TimerHead') = ToSet(TimerHead) \cup {t}
  <2>1. TimerHead \in Seq(Timer) /\ IsInjective(TimerHead)
    BY DEF TypeOK, RunningListed
  <2> QED
    BY <1>2, <1>3, <2>1, TimeoutInsertSet
<1>5. {u \in Timer : active'[u]} = {u \in Timer : active[u]} \cup {t}
  BY <1>1 DEF TypeOK
<1> QED
  BY <1>1, <1>4, <1>5 DEF RunningListed, TypeOK

-------------------------------------------------------------------------------
\* One step per action.
LEMMA CallPreserves ==
    ASSUME IInv, NEW w \in Thread, Call(w)
    PROVE  IInv'
<1> USE DEF IInv
<1>1. CASE ReadTime(w)
  <2>1. Due(call[w].ticks) \in Tick
    BY ModuloTick, Parameters DEF Due, TypeOK
  <2>2. TypeOK'
    BY <1>1, <2>1, Parameters DEF ReadTime, Arguments, Step, TypeOK, timerVars, loopVars
  <2>3. CallsCarryTimers'
    BY <1>1, <2>1 DEF ReadTime, Arguments, Step, TypeOK, CallsCarryTimers, loopVars
  <2> QED
    BY <1>1, <2>2, <2>3, ListUntouched DEF ReadTime, timerVars
<1>2. CASE CheckActive(w)
  <2>1. TypeOK' /\ CallsCarryTimers'
    BY <1>2 DEF CheckActive, Step, TypeOK, CallsCarryTimers, timerVars, loopVars
  <2> QED
    BY <1>2, <2>1, ListUntouched DEF CheckActive, timerVars
<1>3. CASE StartRegion(w)
  <2>1. call[w].timer \in Timer /\ call[w].ticks \in Tick /\ call[w].restart \in Nat
    BY <1>3 DEF StartRegion, CallsCarryTimers, TypeOK
  <2>2. /\ RunningListed'
        /\ TimerHead' \in Seq(Timer)
        /\ active' \in [Timer -> BOOLEAN]
        /\ ticksTimeout' \in [Timer -> Tick]
        /\ ticksRestart' \in [Timer -> Nat]
    <3>1. CASE UNCHANGED timerVars
      BY <3>1, ListUntouched DEF timerVars, TypeOK
    <3>2. CASE ~active[call[w].timer] /\ StartInactive(w)
      BY <2>1, <3>2, InsertRegionKeeps DEF StartInactive
    <3> QED
      BY <1>3, <3>1, <3>2 DEF StartRegion
  <2>3. \/ Return(w, "insert")
        \/ Step(w, "insert", "post") /\ UNCHANGED <<call, stall>>
    BY <1>3 DEF StartRegion, StartInactive
  <2>4. TypeOK' /\ CallsCarryTimers'
    BY ZenonT(60), <1>3, <2>2, <2>3, Parameters
       DEF StartRegion, Return, Back, Step, TypeOK, CallsCarryTimers, loopVars
  <2> QED
    BY <2>2, <2>4
<1>4. CASE PostTimer(w)
  <2>1. /\ call' \in [Thread -> [timer : Timer \cup {NoTimer}, ticks : Nat, restart : Nat]]
        /\ stall' \in [Thread -> 0 .. MaxStall]
        /\ tokens' \in Nat
        /\ wakeAt' \in Tick \cup {WAIT_FOREVER}
    <3>1. CASE WakeTimerThread(w)
      BY <3>1, Parameters DEF WakeTimerThread, TypeOK
    <3>2. CASE Return(w, "post") /\ tokens' = tokens + 1 /\ wakeAt' = wakeAt
      BY <3>2, Parameters DEF Return, TypeOK
    <3> QED
      BY <1>4, <3>1, <3>2 DEF PostTimer
  <2>2. pc' \in [Thread -> {"run", "start", "check", "stopfirst", "insert", "post", "stop",
                           "howlong", "pend", "asleep", "now", "pick", "handle"}]
    BY <1>4, Parameters DEF PostTimer, WakeTimerThread, Return, Back, Step, TypeOK
  <2>3. TypeOK'
    BY <1>4, <2>1, <2>2 DEF PostTimer, TypeOK, timerVars
  <2>4. CallsCarryTimers'
    BY <1>4, Parameters DEF PostTimer, WakeTimerThread, Return, Back, Step, TypeOK, CallsCarryTimers
  <2> QED
    BY <1>4, <2>3, <2>4, ListUntouched DEF PostTimer, timerVars
<1>5. CASE OS_TimerStop(w)
  <2>1. call[w].timer \in Timer
    BY <1>5 DEF OS_TimerStop, Return, Step, CallsCarryTimers
  <2>2. /\ RunningListed'
        /\ TimerHead' \in Seq(Timer)
        /\ active' \in [Timer -> BOOLEAN]
        /\ ticksTimeout' \in [Timer -> Tick]
        /\ ticksRestart' = ticksRestart
    BY <1>5, <2>1, StopRegionKeeps DEF OS_TimerStop
  <2>3. TypeOK' /\ CallsCarryTimers'
    BY ZenonT(60), <1>5, <2>2, Parameters
       DEF OS_TimerStop, Return, Back, Step, TypeOK, CallsCarryTimers, loopVars
  <2> QED
    BY <2>2, <2>3
<1> QED
  BY <1>1, <1>2, <1>3, <1>4, <1>5 DEF Call, OS_TimerStart

\* Every step of the loop of the timer thread keeps the invariant.
LEMMA TimerThreadPreserves ==
    ASSUME IInv, OS_TimerThread
    PROVE  IInv'
<1> USE DEF IInv
<1>1. CASE HowLong
  <2>1. ticksToSleep' \in Int
    <3>1. CASE TimerHead = <<>>
      BY <1>1, <3>1 DEF HowLong, WAIT_FOREVER
    <3>2. CASE TimerHead # <<>>
      <4>1. Head(TimerHead) \in Timer
        BY <3>2 DEF TypeOK
      <4>2. ticksTimeout[Head(TimerHead)] \in Tick /\ timeNow \in Tick
        BY <4>1 DEF TypeOK
      <4>3. \A n \in Tick : n \in Int
        BY DEF Tick
      <4>4. ticksTimeout[Head(TimerHead)] \in Int /\ timeNow \in Int
        BY <4>2, <4>3
      <4>5. SignedDiff(ticksTimeout[Head(TimerHead)], timeNow) \in Int
        BY <4>4, SignedDiffInt
      <4> QED
        BY <1>1, <3>2, <4>5 DEF HowLong
    <3> QED
      BY <3>1, <3>2
  <2>2. TypeOK' /\ CallsCarryTimers'
    BY <1>1, <2>1, Parameters DEF HowLong, Step, TypeOK, CallsCarryTimers, timerVars
  <2> QED
    BY <1>1, <2>2, ListUntouched DEF HowLong, timerVars
<1>2. CASE PendTimer
  <2>1. Due(ticksToSleep) \in Tick
    BY ModuloTick, Parameters DEF Due, TypeOK
  <2>2. /\ tokens' \in Nat
        /\ wakeAt' \in Tick \cup {WAIT_FOREVER}
        /\ ticksToSleep' \in Int
        /\ stall' \in [Thread -> 0 .. MaxStall]
    BY <1>2, <2>1, Parameters DEF PendTimer, TypeOK
  <2>3. \E to \in {"now", "asleep"} : Step(TimerThread, "pend", to)
    BY <1>2 DEF PendTimer
  <2>4. TypeOK'
    BY <1>2, <2>2, <2>3 DEF PendTimer, Step, TypeOK, timerVars
  <2>5. CallsCarryTimers'
    BY <1>2 DEF PendTimer, Step, TypeOK, CallsCarryTimers
  <2> QED
    BY <1>2, <2>4, <2>5, ListUntouched DEF PendTimer, timerVars
<1>3. CASE ReadNow
  <2>1. TypeOK' /\ CallsCarryTimers'
    BY <1>3 DEF ReadNow, Step, TypeOK, CallsCarryTimers, timerVars
  <2> QED
    BY <1>3, <2>1, ListUntouched DEF ReadNow, timerVars
<1>4. CASE PickExpired
  <2>1. IsExpired => Head(TimerHead) \in Timer
    BY DEF IsExpired, TypeOK
  <2>2. TypeOK' /\ CallsCarryTimers'
    BY <1>4, <2>1 DEF PickExpired, Step, TypeOK, CallsCarryTimers, timerVars
  <2> QED
    BY <1>4, <2>2, ListUntouched DEF PickExpired, timerVars
<1>5. CASE RestartOrStop
  <2>1. expired \in Timer /\ ticksRestart[expired] \in Nat
    BY <1>5 DEF RestartOrStop, CallsCarryTimers, TypeOK
  <2>2. \E to \in {"start", "stop"}, r \in Nat : Arguments(TimerThread, "handle", to, expired, r, r)
    BY <1>5, <2>1 DEF RestartOrStop
  <2>3. TypeOK' /\ CallsCarryTimers'
    BY <1>5, <2>1, <2>2, Parameters
       DEF RestartOrStop, Arguments, Step, TypeOK, CallsCarryTimers, timerVars
  <2> QED
    BY <1>5, <2>3, ListUntouched DEF RestartOrStop, timerVars
<1> QED
  BY <1>1, <1>2, <1>3, <1>4, <1>5 DEF OS_TimerThread

\* A caller that starts or stops a timer enters the call with its arguments.
LEMMA CallTimerPreserves ==
    ASSUME IInv, NEW c \in Caller, CallTimer(c)
    PROVE  IInv'
<1> USE DEF IInv
<1>1. \E t \in Timer, to \in {"start", "stop"}, n, r \in Nat : Arguments(c, "run", to, t, n, r)
  BY TimersAssumption DEF CallTimer
<1>2. TypeOK' /\ CallsCarryTimers'
  BY <1>1, Parameters
     DEF CallTimer, Arguments, Step, TypeOK, CallsCarryTimers, timerVars, loopVars
<1> QED
  BY <1>2, ListUntouched DEF CallTimer, timerVars

\* The tick moves the time and leaves the list alone.
LEMMA TickPreserves ==
    ASSUME IInv, OS_ThreadTick
    PROVE  IInv'
<1> USE DEF IInv
<1>1. ThreadTime' \in Tick
  BY ModuloTick, Parameters DEF OS_ThreadTick, TypeOK
<1>2. stall' \in [Thread -> 0 .. MaxStall]
  BY TimersAssumption DEF OS_ThreadTick, InTime, TypeOK
<1>3. TypeOK'
  BY <1>1, <1>2, Parameters DEF OS_ThreadTick, Step, TypeOK, timerVars
<1>4. CallsCarryTimers'
  BY DEF OS_ThreadTick, Step, TypeOK, CallsCarryTimers
<1> QED
  BY <1>3, <1>4, ListUntouched DEF OS_ThreadTick, timerVars

\* The inductive invariant holds in every reachable state.
THEOREM TimersInvariant == Spec => []IInv
<1>1. IInv /\ [Next]_vars => IInv'
  <2> SUFFICES ASSUME IInv, [Next]_vars PROVE IInv'
    OBVIOUS
  <2>1. CASE UNCHANGED vars
    BY <2>1 DEF IInv, TypeOK, RunningListed, CallsCarryTimers, vars, timerVars, loopVars
  <2>2. CASE Next
    BY <2>2, CallTimerPreserves, CallPreserves, TimerThreadPreserves, TickPreserves DEF Next
  <2> QED
    BY <2>1, <2>2
<1> QED
  BY <1>1, InitEstablishes, PTL DEF Spec

\* Every variable keeps its type (TypeOK).
THEOREM TimersTyped == Spec => []TypeOK
<1>1. IInv => TypeOK
  BY DEF IInv
<1> QED
  BY <1>1, TimersInvariant, PTL

\* Overlapping starts and stops never link a timer twice, never lose one and never
\* leave a stopped one in the list.
THEOREM TimersListedOnce == Spec => []RunningListed
<1>1. IInv => RunningListed
  BY DEF IInv
<1> QED
  BY <1>1, TimersInvariant, PTL

-------------------------------------------------------------------------------
\* Arithmetic of the tick counter: differences of times that are in range.

\* A number that is a signed difference of two tick counts.
Near(n) == -TickModulus <= 2 * n /\ 2 * n < TickModulus

\* A number from one modulus below zero to two above is brought into range.
LEMMA Wraps ==
    ASSUME NEW n \in Int, -TickModulus <= n, n < 2 * TickModulus
    PROVE  n % TickModulus = IF n < 0 THEN n + TickModulus
                             ELSE IF n < TickModulus THEN n ELSE n - TickModulus
  BY TickModulusAssumption

\* The signed difference is the one number in range that is congruent to the
\* difference.
LEMMA SignedDiffIs ==
    ASSUME NEW a \in Tick, NEW b \in Tick, NEW n \in Int, Near(n),
           \/ n = a - b
           \/ n = a - b + TickModulus
           \/ n = a - b - TickModulus
    PROVE  SignedDiff(a, b) = n
<1>1. (a - b) % TickModulus = IF a - b < 0 THEN a - b + TickModulus ELSE a - b
  BY Wraps, TickModulusAssumption DEF Tick
<1> QED BY <1>1, TickModulusAssumption DEF SignedDiff, Near, Tick

\* A signed difference is a number in range.
LEMMA SignedDiffNear ==
    ASSUME NEW a \in Tick, NEW b \in Tick
    PROVE  /\ SignedDiff(a, b) \in Int
           /\ Near(SignedDiff(a, b))
           /\ \/ SignedDiff(a, b) = a - b
              \/ SignedDiff(a, b) = a - b + TickModulus
              \/ SignedDiff(a, b) = a - b - TickModulus
<1>1. (a - b) % TickModulus = IF a - b < 0 THEN a - b + TickModulus ELSE a - b
  BY Wraps, TickModulusAssumption DEF Tick
<1> QED BY <1>1, TickModulusAssumption DEF SignedDiff, Near, Tick

\* Two due times differ by as much as the ticks left until them.
LEMMA DifferenceLeft ==
    ASSUME NEW a \in Tick, NEW b \in Tick, NEW now \in Tick,
           Near(SignedDiff(a, now) - SignedDiff(b, now))
    PROVE  SignedDiff(a, b) = SignedDiff(a, now) - SignedDiff(b, now)
<1> DEFINE x == SignedDiff(a, now)
           y == SignedDiff(b, now)
<1>1. /\ x \in Int /\ (x = a - now \/ x = a - now + TickModulus \/ x = a - now - TickModulus)
      /\ y \in Int /\ (y = b - now \/ y = b - now + TickModulus \/ y = b - now - TickModulus)
  BY SignedDiffNear
<1> HIDE DEF x, y
<1>2. \/ x - y = a - b
      \/ x - y = a - b + TickModulus
      \/ x - y = a - b - TickModulus
  BY <1>1, TickModulusAssumption DEF x, y, Near, Tick
<1> QED BY <1>1, <1>2, SignedDiffIs DEF x, y

\* With every tick one tick less is left.
LEMMA TickPasses ==
    ASSUME NEW d \in Tick, NEW now \in Tick, Near(SignedDiff(d, now) - 1)
    PROVE  /\ (now + 1) % TickModulus \in Tick
           /\ SignedDiff(d, (now + 1) % TickModulus) = SignedDiff(d, now) - 1
<1> DEFINE x == SignedDiff(d, now)
           next == (now + 1) % TickModulus
<1>1. x \in Int /\ (x = d - now \/ x = d - now + TickModulus \/ x = d - now - TickModulus)
  BY SignedDiffNear
<1>2. next \in Tick /\ next = IF now + 1 < TickModulus THEN now + 1 ELSE 0
  BY Wraps, TickModulusAssumption DEF Tick
<1>3. Near(x - 1)
  OBVIOUS
<1> HIDE DEF x, next
<1>4. \/ x - 1 = d - next
      \/ x - 1 = d - next + TickModulus
      \/ x - 1 = d - next - TickModulus
  BY <1>1, <1>2, <1>3, TickModulusAssumption DEF Near, Tick
<1>5. SignedDiff(d, next) = x - 1
  BY <1>1, <1>2, <1>3, <1>4, SignedDiffIs
<1> QED BY <1>2, <1>5 DEF next, x

\* As many ticks are left until a due time as it was computed with.
LEMMA DueAhead ==
    ASSUME NEW n \in Int, NEW now \in Tick, Near(n)
    PROVE  SignedDiff((n + now) % TickModulus, now) = n
<1> DEFINE d == (n + now) % TickModulus
<1>1. d = IF n + now < 0 THEN n + now + TickModulus
          ELSE IF n + now < TickModulus THEN n + now ELSE n + now - TickModulus
  BY Wraps, TickModulusAssumption DEF Tick, Near
<1>2. d \in Tick
  BY ModuloTick DEF Tick
<1> HIDE DEF d
<1>3. SignedDiff(d, now) = n
  BY <1>1, <1>2, SignedDiffIs, TickModulusAssumption DEF Tick
<1> QED BY <1>3 DEF d

\* Two times that do not differ do not differ in the other direction either.
LEMMA NoDifference ==
    ASSUME NEW a \in Tick, NEW b \in Tick, SignedDiff(a, b) = 0
    PROVE  SignedDiff(b, a) = 0
<1>1. a = b
  BY SignedDiffNear, TickModulusAssumption DEF Tick
<1> QED BY <1>1

-------------------------------------------------------------------------------
\* The invariant about time.

\* The parameters fit the counter: due times of running timers, late ones included,
\* stay less than half its range apart.
InSight(n) == 2 * (n + 3 * MaxStall) < TickModulus

SpansFit == \A n \in {0} \cup Ticks \cup Restart : InSight(n)

\* The ticks that are left until a time, and until a timer is due.
Ahead(d) == SignedDiff(d, ThreadTime)
Left(t) == Ahead(ticksTimeout[t])

\* Somebody is about to wake the timer thread, for this timer or an earlier one.
Announced(t) == \E w \in Thread : pc[w] = "post" /\ Left(t) >= -stall[w]
Covered(t) == tokens > 0 \/ Announced(t)

\* A due time that is computed and not yet linked is late by the call's stall at most.
CallDue(w) ==
    /\ pc[w] = "start" => InSight(call[w].ticks) /\ InSight(call[w].restart)
    /\ pc[w] \in {"check", "stopfirst", "insert"} =>
          /\ InSight(call[w].restart)
          /\ InSight(Ahead(call[w].ticks))
          /\ Ahead(call[w].ticks) >= -stall[w]

\* A running timer is late by the stall of the timer thread and that of whoever
\* linked it, or that of the sleep before.
MayLag == IF pc[TimerThread] \in {"howlong", "pend", "asleep"} THEN MaxStall ELSE 2 * MaxStall

TimerDue(t) == InSight(Left(t)) /\ Left(t) >= -stall[TimerThread] - MayLag

\* The list is in order of the time that is left.
Lateness == [t \in Timer |-> -Left(t)]
InOrder == SortedBy(TimerHead, Lateness)

\* The timer thread will look at a running timer in time, or is told to.
InHand(t) ==
    /\ pc[TimerThread] = "howlong" => Covered(t) \/ Left(t) > Ahead(timeNow)
    /\ pc[TimerThread] = "pend" =>
          \/ Covered(t)
          \/ ticksToSleep > 0 /\ Left(t) >= ticksToSleep - stall[TimerThread]
    /\ pc[TimerThread] = "asleep" =>
          \/ Announced(t)
          \/ /\ wakeAt # WAIT_FOREVER
             /\ Ahead(wakeAt) > 0
             /\ Left(t) >= Ahead(wakeAt) - MaxStall

\* The timer thread knows the time but for its stall, and sleeps without a token.
ThreadOnTime ==
    /\ pc[TimerThread] # "run"
    /\ pc[TimerThread] \notin {"pend", "asleep", "now"} =>
          -stall[TimerThread] <= Ahead(timeNow) /\ Ahead(timeNow) <= 0
    /\ pc[TimerThread] = "asleep" => tokens = 0

\* The inductive invariant about time.
DueInv ==
    /\ \A w \in Thread : CallDue(w)
    /\ \A t \in Timer : InSight(ticksRestart[t])
    /\ \A t \in ToSet(TimerHead) : TimerDue(t) /\ InHand(t)
    /\ InOrder
    /\ ThreadOnTime

\* The numbers the proofs compute with.
LEMMA Numbers ==
    ASSUME IInv
    PROVE  /\ ThreadTime \in Tick /\ timeNow \in Tick /\ Tick \subseteq Int
           /\ TickModulus \in Nat /\ MaxStall \in Nat
           /\ \A t \in Timer : ticksTimeout[t] \in Tick /\ Left(t) \in Int /\ Near(Left(t))
           /\ \A d \in Tick : Ahead(d) \in Int /\ Near(Ahead(d))
           /\ \A w \in Thread : stall[w] \in Int /\ 0 <= stall[w] /\ stall[w] <= MaxStall
           /\ ToSet(TimerHead) \subseteq Timer
           /\ tokens \in Nat /\ ticksToSleep \in Int
<1>1. ThreadTime \in Tick /\ \A t \in Timer : ticksTimeout[t] \in Tick
  BY DEF IInv, TypeOK
<1>2. \A d \in Tick : Ahead(d) \in Int /\ Near(Ahead(d))
  BY <1>1, SignedDiffNear DEF Ahead
<1>3. ToSet(TimerHead) \subseteq Timer
  BY DEF IInv, RunningListed
<1>4. MaxStall \in Nat /\ TickModulus \in Nat /\ Tick \subseteq Int
  BY TimersAssumption, TickModulusAssumption DEF Tick
<1>5. \A w \in Thread : stall[w] \in 0 .. MaxStall
  BY DEF IInv, TypeOK
<1>6. \A t \in Timer : Left(t) \in Int /\ Near(Left(t))
  BY <1>1, <1>2 DEF Left
<1>7. timeNow \in Tick /\ tokens \in Nat /\ ticksToSleep \in Int
  BY DEF IInv, TypeOK
<1>8. \A w \in Thread : stall[w] \in Int /\ 0 <= stall[w] /\ stall[w] <= MaxStall
  BY <1>4, <1>5
<1> QED
  BY <1>1, <1>2, <1>3, <1>4, <1>6, <1>7, <1>8

\* The first timer of a list in order is due first.
HeadFirst ==
    /\ \A i, j \in DOMAIN TimerHead :
          /\ TimerHead[i] \in ToSet(TimerHead) /\ TimerHead[j] \in ToSet(TimerHead)
          /\ i < j => Left(TimerHead[i]) <= Left(TimerHead[j])
    /\ TimerHead # <<>> =>
          /\ Head(TimerHead) \in ToSet(TimerHead)
          /\ \A t \in ToSet(TimerHead) : Left(Head(TimerHead)) <= Left(t)

\* The list is in order, so its head comes first.
LEMMA HeadIsFirst == IInv /\ InOrder => HeadFirst
<1> SUFFICES ASSUME IInv, InOrder PROVE HeadFirst
  OBVIOUS
<1>1. TimerHead \in Seq(Timer) /\ DOMAIN TimerHead = 1 .. Len(TimerHead)
      /\ \A i \in 1 .. Len(TimerHead) : TimerHead[i] \in ToSet(TimerHead)
  BY DEF IInv, TypeOK, ToSet
<1>2. \A t \in ToSet(TimerHead) : t \in Timer /\ Left(t) \in Int
  BY Numbers
<1>3. \A i, j \in 1 .. Len(TimerHead) : i < j => Left(TimerHead[i]) <= Left(TimerHead[j])
  <2> SUFFICES ASSUME NEW i \in 1 .. Len(TimerHead), NEW j \in 1 .. Len(TimerHead), i < j
               PROVE  Left(TimerHead[i]) <= Left(TimerHead[j])
    OBVIOUS
  <2>1. Lateness[TimerHead[i]] >= Lateness[TimerHead[j]]
    BY DEF InOrder, SortedBy
  <2>2. TimerHead[i] \in Timer /\ TimerHead[j] \in Timer
        /\ Left(TimerHead[i]) \in Int /\ Left(TimerHead[j]) \in Int
    BY <1>1, <1>2
  <2>3. -Left(TimerHead[i]) >= -Left(TimerHead[j])
    BY <2>1, <2>2 DEF Lateness
  <2> QED BY <2>2, <2>3
<1>4. ASSUME TimerHead # <<>>
      PROVE  /\ Head(TimerHead) \in ToSet(TimerHead)
             /\ \A t \in ToSet(TimerHead) : Left(Head(TimerHead)) <= Left(t)
  <2>1. 1 \in 1 .. Len(TimerHead) /\ Head(TimerHead) = TimerHead[1]
    BY <1>1, <1>4
  <2>2. Head(TimerHead) \in ToSet(TimerHead)
    BY <1>1, <2>1
  <2>3. ASSUME NEW t \in ToSet(TimerHead) PROVE Left(Head(TimerHead)) <= Left(t)
    <3>1. PICK i \in 1 .. Len(TimerHead) : t = TimerHead[i]
      BY <1>1 DEF ToSet
    <3>2. Left(Head(TimerHead)) \in Int
      BY <1>2, <2>2
    <3>3. CASE i = 1
      BY <2>1, <3>1, <3>2, <3>3
    <3>4. CASE i > 1
      BY <1>3, <2>1, <3>1, <3>4
    <3> QED BY <3>3, <3>4
  <2> QED BY <2>2, <2>3
<1> QED BY <1>1, <1>3, <1>4 DEF HeadFirst

\* Two running timers are compared by the time that is left until each.
LEMMA Compared ==
    ASSUME NEW a \in Tick, NEW b \in Tick, IInv,
           InSight(Ahead(a)), InSight(Ahead(b)),
           Ahead(a) >= -3 * MaxStall, Ahead(b) >= -3 * MaxStall
    PROVE  SignedDiff(a, b) = Ahead(a) - Ahead(b)
<1>1. Ahead(a) \in Int /\ Ahead(b) \in Int /\ MaxStall \in Nat /\ TickModulus \in Nat
      /\ ThreadTime \in Tick
  BY Numbers
<1>2. Near(Ahead(a) - Ahead(b))
  BY <1>1 DEF Near, InSight
<1> QED BY <1>1, <1>2, DifferenceLeft DEF Ahead

\* How late a running timer may be, all in all.
LEMMA Running ==
    ASSUME IInv, DueInv, NEW t \in ToSet(TimerHead)
    PROVE  /\ t \in Timer /\ ticksTimeout[t] \in Tick /\ Left(t) \in Int
           /\ InSight(Left(t)) /\ Left(t) >= -3 * MaxStall
<1>1. t \in Timer /\ ticksTimeout[t] \in Tick /\ Left(t) \in Int
      /\ MaxStall \in Nat /\ stall[TimerThread] \in Int /\ stall[TimerThread] <= MaxStall
  BY Numbers, Parameters
<1> QED BY <1>1 DEF DueInv, TimerDue, MayLag

\* The invariant says what the two properties say.
LEMMA DueInvPromises ==
    ASSUME SpansFit, IInv, DueInv
    PROVE  DueInOrder /\ NotOverslept
<1>1. HeadFirst
  BY HeadIsFirst DEF DueInv
<1>2. DueInOrder
  <2> SUFFICES ASSUME NEW i \in DOMAIN TimerHead, NEW j \in DOMAIN TimerHead, i < j
               PROVE  SignedDiff(ticksTimeout[TimerHead[i]], ticksTimeout[TimerHead[j]]) <= 0
    BY DEF DueInOrder
  <2> DEFINE t == TimerHead[i]
             u == TimerHead[j]
  <2>1. t \in ToSet(TimerHead) /\ u \in ToSet(TimerHead) /\ Left(t) <= Left(u)
    BY <1>1 DEF HeadFirst
  <2> HIDE DEF t, u
  <2>2. SignedDiff(ticksTimeout[t], ticksTimeout[u]) = Left(t) - Left(u)
    BY <2>1, Running, Compared DEF Left
  <2>3. Left(t) \in Int /\ Left(u) \in Int
    BY <2>1, Running
  <2> QED BY <2>1, <2>2, <2>3 DEF t, u
<1>3. ASSUME pc[TimerThread] = "asleep", TimerHead # <<>>,
             ~\E w \in Thread : pc[w] = "post"
      PROVE  /\ wakeAt # WAIT_FOREVER
             /\ SignedDiff(wakeAt, ticksTimeout[Head(TimerHead)]) <= MaxStall
  <2> DEFINE t == Head(TimerHead)
  <2>1. t \in ToSet(TimerHead)
    BY <1>1, <1>3 DEF HeadFirst
  <2> HIDE DEF t
  <2>2. /\ wakeAt # WAIT_FOREVER
        /\ Ahead(wakeAt) > 0
        /\ Left(t) >= Ahead(wakeAt) - MaxStall
    BY <1>3, <2>1 DEF DueInv, InHand, Announced
  <2>3. wakeAt \in Tick
    BY <2>2 DEF IInv, TypeOK
  <2>4. InSight(Left(t)) /\ InSight(0) /\ Left(t) \in Int /\ ticksTimeout[t] \in Tick
    BY <2>1, Running DEF SpansFit
  <2>5. Ahead(wakeAt) \in Int /\ MaxStall \in Nat /\ TickModulus \in Nat /\ ThreadTime \in Tick
    BY <2>3, Numbers
  <2>6. Near(Ahead(wakeAt) - Left(t)) /\ Ahead(wakeAt) - Left(t) <= MaxStall
    BY <2>2, <2>4, <2>5 DEF Near, InSight
  <2>7. SignedDiff(wakeAt, ticksTimeout[t]) = Ahead(wakeAt) - Left(t)
    BY <2>3, <2>4, <2>5, <2>6, DifferenceLeft DEF Left, Ahead
  <2> QED BY <2>2, <2>6, <2>7 DEF t
<1> QED BY <1>2, <1>3 DEF NotOverslept

\* At the start nothing runs and the time has just been read.
LEMMA InitDue == SpansFit /\ Init => DueInv
<1> SUFFICES ASSUME SpansFit, Init PROVE DueInv
  OBVIOUS
<1>1. ToSet(TimerHead) = {} /\ SortedBy(TimerHead, Lateness)
  BY DEF Init, ToSet, SortedBy
<1>2. InSight(0)
  BY DEF SpansFit
<1>3. Ahead(timeNow) = 0
  BY SignedDiffIs, TickModulusAssumption DEF Init, Ahead, Near, Tick
<1>4. (\A w \in Thread : CallDue(w)) /\ \A t \in Timer : InSight(ticksRestart[t])
  BY <1>2 DEF Init, CallDue
<1>5. ThreadOnTime
  BY <1>3, Parameters DEF Init, ThreadOnTime
<1> QED BY <1>1, <1>4, <1>5 DEF DueInv, InOrder

\* A timer due later than one in hand is in hand.
LaterAreInHand == \A t, h \in Timer : InHand(h) /\ Left(h) <= Left(t) => InHand(t)

\* What covers a timer covers those behind it.
LEMMA LaterInHand == IInv => LaterAreInHand
<1> SUFFICES ASSUME IInv, NEW t \in Timer, NEW h \in Timer, InHand(h), Left(h) <= Left(t)
             PROVE  InHand(t)
  BY DEF LaterAreInHand
<1>1. /\ Left(t) \in Int /\ Left(h) \in Int /\ ticksToSleep \in Int /\ MaxStall \in Int
      /\ \A w \in Thread : stall[w] \in Int
      /\ TimerThread \in Thread
  <2>1. MaxStall \in Nat
    BY Numbers
  <2> QED BY <2>1, Numbers, Parameters
<1>0. Ahead(timeNow) \in Int
  <2>1. timeNow \in Tick
    BY Numbers
  <2> QED BY <2>1, Numbers
<1>2. wakeAt # WAIT_FOREVER => Ahead(wakeAt) \in Int
  BY Numbers DEF IInv, TypeOK
<1>3. Announced(h) => Announced(t)
  BY <1>1 DEF Announced
<1>4. Covered(h) => Covered(t)
  BY <1>3 DEF Covered
<1> HIDE DEF Announced, Covered
<1>5. pc[TimerThread] = "howlong" => Covered(t) \/ Left(t) > Ahead(timeNow)
  BY <1>0, <1>1, <1>4 DEF InHand
<1>6. pc[TimerThread] = "pend" =>
          \/ Covered(t)
          \/ ticksToSleep > 0 /\ Left(t) >= ticksToSleep - stall[TimerThread]
  BY <1>1, <1>4 DEF InHand
<1>7. pc[TimerThread] = "asleep" =>
          \/ Announced(t)
          \/ /\ wakeAt # WAIT_FOREVER
             /\ Ahead(wakeAt) > 0
             /\ Left(t) >= Ahead(wakeAt) - MaxStall
  BY <1>1, <1>2, <1>3 DEF InHand
<1> QED BY <1>5, <1>6, <1>7 DEF InHand

\* A key that grows by the same for all nodes of a list sorts it as before.
LEMMA SameOrder ==
    ASSUME NEW T, NEW l \in Seq(T), NEW k1 \in [T -> Int], NEW k2 \in [T -> Int], NEW d \in Int,
           SortedBy(l, k1), \A t \in ToSet(l) : k2[t] = k1[t] + d
    PROVE  SortedBy(l, k2)
<1>1. \A i \in 1 .. Len(l) : l[i] \in ToSet(l) /\ k1[l[i]] \in Int /\ k2[l[i]] = k1[l[i]] + d
  BY DEF ToSet
<1>2. \A i, j \in 1 .. Len(l) : i < j => k1[l[i]] >= k1[l[j]]
  BY DEF SortedBy
<1>3. \A i, j \in 1 .. Len(l) : i < j => k2[l[i]] >= k2[l[j]]
  BY <1>1, <1>2
<1> QED BY <1>3 DEF SortedBy

\* The time that is left is a number.
LEMMA LatenessNumbers == IInv => Lateness \in [Timer -> Int]
<1> SUFFICES ASSUME IInv PROVE Lateness \in [Timer -> Int]
  OBVIOUS
<1>1. \A t \in Timer : -Left(t) \in Int
  BY Numbers
<1> QED BY <1>1 DEF Lateness

\* The list stays in order while time stands still and no due time in it changes.
LEMMA OrderStays ==
    ASSUME IInv, IInv', InOrder, ThreadTime' = ThreadTime,
           NEW l \in Seq(Timer), SortedBy(l, Lateness),
           \A t \in ToSet(l) : t \in Timer /\ ticksTimeout'[t] = ticksTimeout[t]
    PROVE  SortedBy(l, Lateness')
<1>1. Lateness \in [Timer -> Int] /\ Lateness' \in [Timer -> Int]
  <2>1. Lateness \in [Timer -> Int]
    BY LatenessNumbers
  <2>2. (Lateness \in [Timer -> Int])'
    BY LatenessNumbers, PTL
  <2> QED BY <2>1, <2>2
<1>2. \A t \in ToSet(l) : Lateness'[t] = Lateness[t] + 0
  <2> SUFFICES ASSUME NEW t \in ToSet(l) PROVE Lateness'[t] = Lateness[t] + 0
    OBVIOUS
  <2>0. t \in Timer /\ ticksTimeout'[t] = ticksTimeout[t]
    OBVIOUS
  <2>1. Lateness'[t] = -SignedDiff(ticksTimeout'[t], ThreadTime')
    BY <2>0 DEF Lateness, Left, Ahead
  <2>2. Lateness[t] = -SignedDiff(ticksTimeout[t], ThreadTime) /\ Lateness[t] \in Int
    BY <1>1, <2>0 DEF Lateness, Left, Ahead
  <2> QED BY <2>0, <2>1, <2>2
<1>3. PICK k1 \in [Timer -> Int], k2 \in [Timer -> Int] : k1 = Lateness /\ k2 = Lateness'
  BY <1>1
<1>4. SortedBy(l, k1) /\ \A t \in ToSet(l) : k2[t] = k1[t] + 0
  BY <1>2, <1>3
<1>5. SortedBy(l, k2)
  BY <1>4, SameOrder
<1> QED BY <1>3, <1>5

\* Where a thread can be in its call when it does not use the semaphore; the timer
\* thread in a round of its loop.
Busy == {"start", "check", "stopfirst", "insert", "stop", "pick", "handle"}

\* A step of a call that leaves the time, the semaphore and what the timer thread
\* knows alone, for a timer whose due time does not change.
LEMMA QuietStep ==
    ASSUME IInv, IInv', DueInv, NEW w \in Thread, NEW to,
           UNCHANGED <<ThreadTime, tokens, wakeAt, timeNow, ticksToSleep>>,
           pc[w] # "post", pc' = [pc EXCEPT ![w] = to],
           w = TimerThread => pc[w] \in Busy /\ to \in Busy \cup {"post"},
           \A v \in Thread : v # w \/ v = TimerThread => stall'[v] = stall[v]
    PROVE  /\ ThreadOnTime'
           /\ \A t \in ToSet(TimerHead) :
                 ticksTimeout'[t] = ticksTimeout[t] => TimerDue(t)' /\ InHand(t)'
<1>1. /\ TimerThread \in Thread /\ DOMAIN pc = Thread
      /\ stall'[TimerThread] = stall[TimerThread]
  BY Parameters DEF IInv, TypeOK
<1>2. MayLag' = MayLag
  BY <1>1 DEF MayLag, Busy
<1>3. ThreadOnTime'
  BY <1>1 DEF DueInv, ThreadOnTime, Busy, Ahead
<1>4. ASSUME NEW t \in ToSet(TimerHead), ticksTimeout'[t] = ticksTimeout[t]
      PROVE  TimerDue(t)' /\ InHand(t)'
  <2>1. TimerDue(t) /\ InHand(t)
    BY DEF DueInv
  <2>2. Left(t)' = Left(t)
    BY <1>4 DEF Left, Ahead
  <2>3. TimerDue(t)'
    BY <1>1, <1>2, <2>1, <2>2 DEF TimerDue, InSight
  <2>4. Announced(t) => Announced(t)'
    BY <1>1, <2>2 DEF Announced
  <2>5. Covered(t) => Covered(t)'
    BY <2>4 DEF Covered
  <2>6. pc'[TimerThread] \in {"howlong", "pend", "asleep"} => pc'[TimerThread] = pc[TimerThread]
    BY <1>1 DEF Busy
  <2>7. InHand(t)'
    <3> HIDE DEF Announced, Covered, Left
    <3> QED BY <1>1, <2>1, <2>2, <2>4, <2>5, <2>6 DEF InHand, Ahead
  <2> QED BY <2>3, <2>7
<1> QED BY <1>3, <1>4

\* The calls of other threads are not disturbed while time stands still.
LEMMA OtherCalls ==
    ASSUME DueInv, ThreadTime' = ThreadTime, NEW w \in Thread,
           pc'[w] = pc[w], call'[w] = call[w], stall'[w] = stall[w]
    PROVE  CallDue(w)'
  BY DEF DueInv, CallDue, Ahead, InSight

-------------------------------------------------------------------------------
\* The two regions that change the list.

\* The region of OS_TimerStop leaves the list in order.
LEMMA StopRegionDue ==
    ASSUME IInv, IInv', InOrder, ThreadTime' = ThreadTime, NEW t \in Timer, StopRegion(t)
    PROVE  /\ InOrder'
           /\ ticksRestart' = ticksRestart
           /\ \A u \in ToSet(TimerHead') :
                 u \in ToSet(TimerHead) /\ ticksTimeout'[u] = ticksTimeout[u]
<1>1. TimerHead \in Seq(Timer) /\ IsInjective(TimerHead)
      /\ ToSet(TimerHead) = {u \in Timer : active[u]} /\ ticksTimeout \in [Timer -> Tick]
  BY DEF IInv, TypeOK, RunningListed
<1>2. TimerHead' \in Seq(Timer) /\ SortedBy(TimerHead', Lateness)
      /\ ToSet(TimerHead') = ToSet(TimerHead) \ {t}
  <2>1. CASE active[t]
    <3>1. TimerHead' = TimeoutRemove(TimerHead, t)
      BY <2>1 DEF StopRegion
    <3>2. SortedBy(TimeoutRemove(TimerHead, t), Lateness)
      BY <1>1, TimeoutRemoveSorted DEF InOrder
    <3> QED BY <1>1, <3>1, <3>2, TimeoutRemoveSet
  <2>2. CASE ~active[t]
    BY <1>1, <2>2 DEF StopRegion, InOrder
  <2> QED BY <2>1, <2>2
<1>3. \A u \in ToSet(TimerHead') :
         u \in Timer /\ u \in ToSet(TimerHead) /\ ticksTimeout'[u] = ticksTimeout[u]
  BY <1>1, <1>2 DEF StopRegion
<1>4. SortedBy(TimerHead', Lateness')
  <2>1. PICK l \in Seq(Timer) : l = TimerHead'
    BY <1>2
  <2>2. SortedBy(l, Lateness)
        /\ \A u \in ToSet(l) : u \in Timer /\ ticksTimeout'[u] = ticksTimeout[u]
    BY <1>2, <1>3, <2>1
  <2>3. SortedBy(l, Lateness')
    BY <2>2, OrderStays
  <2> QED BY <2>1, <2>3
<1> QED BY <1>3, <1>4 DEF InOrder, StopRegion

\* The region of OS_TimerStart leaves the list in order, for a due time that is late
\* by no more than a call may take.
LEMMA InsertRegionDue ==
    ASSUME IInv, IInv', DueInv, ThreadTime' = ThreadTime,
           NEW t \in Timer, NEW due \in Tick, NEW r \in Nat,
           InSight(Ahead(due)), Ahead(due) >= -MaxStall,
           ~active[t], InsertRegion(t, due, r)
    PROVE  /\ InOrder'
           /\ ToSet(TimerHead') = ToSet(TimerHead) \cup {t}
           /\ ticksTimeout'[t] = due
           /\ ticksRestart' = [ticksRestart EXCEPT ![t] = r]
           /\ \A u \in ToSet(TimerHead) : ticksTimeout'[u] = ticksTimeout[u]
<1>1. TimerHead \in Seq(Timer) /\ IsInjective(TimerHead)
      /\ ToSet(TimerHead) = {u \in Timer : active[u]} /\ ticksTimeout \in [Timer -> Tick]
      /\ t \notin ToSet(TimerHead)
  BY DEF IInv, TypeOK, RunningListed
<1>2. ticksTimeout' = [ticksTimeout EXCEPT ![t] = due] /\ ticksTimeout' \in [Timer -> Tick]
  BY <1>1 DEF InsertRegion
<1>3. PICK due1 \in [Timer -> Tick] : due1 = ticksTimeout'
  BY <1>2
<1>4. /\ due1[t] = due
      /\ \A u \in ToSet(TimerHead) : u \in Timer /\ due1[u] = ticksTimeout[u]
  BY <1>1, <1>2, <1>3
<1>5. TimerHead' = TimeoutInsert(TimerHead, t, due1)
  BY <1>3 DEF InsertRegion
<1>6. SortedBy(TimerHead, Lateness')
  BY <1>1, <1>3, <1>4, OrderStays DEF DueInv, InOrder
<1>7. (Lateness \in [Timer -> Int])'
  BY LatenessNumbers, PTL
<1>8. PICK key \in [Timer -> Int] : key = Lateness'
  BY <1>7
<1>9. \A u \in Timer : key[u] = -SignedDiff(due1[u], ThreadTime)
  BY <1>3, <1>8 DEF Lateness, Left, Ahead
<1>10. MaxStall \in Nat /\ Ahead(due) \in Int
  BY Numbers
<1>11. \A j \in 1 .. Len(TimerHead) :
          SignedDiff(due1[t], due1[TimerHead[j]]) <= 0 <=> key[t] >= key[TimerHead[j]]
  <2> SUFFICES ASSUME NEW j \in 1 .. Len(TimerHead)
               PROVE  SignedDiff(due1[t], due1[TimerHead[j]]) <= 0 <=> key[t] >= key[TimerHead[j]]
    OBVIOUS
  <2>1. PICK u \in ToSet(TimerHead) : u = TimerHead[j]
    BY <1>1 DEF ToSet
  <2>2. due1[u] = ticksTimeout[u] /\ due1[u] \in Tick /\ InSight(Left(u)) /\ Left(u) >= -3 * MaxStall
        /\ Left(u) \in Int /\ u \in Timer
    BY <1>4, Running
  <2>3. SignedDiff(due, due1[u]) = Ahead(due) - Left(u)
    <3>1. Ahead(due) >= -3 * MaxStall
      BY <1>10
    <3> QED BY <2>2, <3>1, Compared DEF Left
  <2>4. key[t] = -Ahead(due) /\ key[u] = -Left(u)
    BY <1>4, <1>9, <2>2 DEF Ahead, Left
  <2>5. Ahead(due) - Left(u) <= 0 <=> -Ahead(due) >= -Left(u)
    BY <1>10, <2>2
  <2> QED BY <1>4, <2>1, <2>3, <2>4, <2>5
<1>12. SortedBy(TimerHead, key)
  BY <1>6, <1>8
<1>13. SortedBy(TimeoutInsert(TimerHead, t, due1), key)
  BY <1>1, <1>11, <1>12, TimeoutInsertSorted
<1>14. ToSet(TimerHead') = ToSet(TimerHead) \cup {t}
  <2>0. TimerHead \in Seq(Timer)
    BY <1>1
  <2>1. ToSet(TimeoutInsert(TimerHead, t, due1)) = ToSet(TimerHead) \cup {t}
    BY ONLY <2>0, t \in Timer, due1 \in [Timer -> Tick], TimeoutInsertSet
  <2> QED BY <1>5, <2>1
<1>15. InOrder'
  <2>1. SortedBy(TimerHead', Lateness')
    BY <1>5, <1>8, <1>13
  <2> QED BY <2>1 DEF InOrder
<1>16. ticksRestart' = [ticksRestart EXCEPT ![t] = r]
  BY DEF InsertRegion
<1> QED BY <1>3, <1>4, <1>14, <1>15, <1>16

-------------------------------------------------------------------------------
\* One lemma per action.

\* A list that is not touched stays in order while time stands still.
LEMMA ListUntouchedDue ==
    ASSUME IInv, IInv', InOrder, ThreadTime' = ThreadTime, UNCHANGED timerVars
    PROVE  InOrder'
<1>1. TimerHead \in Seq(Timer) /\ \A t \in ToSet(TimerHead) : t \in Timer
  BY DEF IInv, TypeOK, RunningListed
<1>2. SortedBy(TimerHead, Lateness')
  BY <1>1, OrderStays DEF InOrder, timerVars
<1> QED BY <1>2 DEF InOrder, timerVars

\* A quiet step of a call that links no timer.
LEMMA QuietCall ==
    ASSUME IInv, IInv', DueInv, NEW w \in Thread, NEW to,
           UNCHANGED <<ThreadTime, tokens, wakeAt, timeNow, ticksToSleep>>,
           pc[w] # "post", pc' = [pc EXCEPT ![w] = to],
           w = TimerThread => pc[w] \in Busy /\ to \in Busy,
           \A v \in Thread : v # w \/ v = TimerThread => stall'[v] = stall[v],
           \A v \in Thread : v # w => call'[v] = call[v],
           CallDue(w)', InOrder', ticksRestart' = ticksRestart,
           \A t \in ToSet(TimerHead') : t \in ToSet(TimerHead) /\ ticksTimeout'[t] = ticksTimeout[t]
    PROVE  DueInv'
<1>1. \A v \in Thread : v # w => pc'[v] = pc[v]
  BY DEF IInv, TypeOK
<1>2. \A v \in Thread : CallDue(v)'
  BY <1>1, OtherCalls
<1>3. ThreadOnTime' /\ \A t \in ToSet(TimerHead') : TimerDue(t)' /\ InHand(t)'
  BY QuietStep
<1>4. (\A t \in Timer : InSight(ticksRestart[t]))'
  BY DEF DueInv, InSight
<1> QED BY <1>2, <1>3, <1>4 DEF DueInv

\* A caller's arguments fit the counter.
LEMMA CallTimerDue ==
    ASSUME SpansFit, IInv, IInv', DueInv, NEW c \in Caller, CallTimer(c)
    PROVE  DueInv'
<1>1. c \in Thread /\ c # TimerThread
  BY Parameters, TimersAssumption
<1>2. PICK t \in Timer, to \in {"start", "stop"}, n \in {0} \cup Ticks, r \in {0} \cup Restart :
         Arguments(c, "run", to, t, n, r)
  BY DEF CallTimer
<1>3. CallDue(c)'
  <2>1. /\ pc'[c] = to
        /\ call'[c] = [timer |-> t, ticks |-> n, restart |-> r]
    BY <1>1, <1>2 DEF Arguments, Step, IInv, TypeOK
  <2>2. InSight(n) /\ InSight(r)
    BY DEF SpansFit
  <2> QED BY <2>1, <2>2 DEF CallDue, InSight
<1>4. InOrder'
  BY ListUntouchedDue DEF CallTimer, DueInv
<1>5. \A v \in Thread : v # c => call'[v] = call[v]
  BY <1>2 DEF Arguments, IInv, TypeOK
<1> QED
  BY <1>1, <1>2, <1>3, <1>4, <1>5, QuietCall
     DEF CallTimer, Arguments, Step, timerVars, loopVars

\* The due time a call computes is as far ahead as its argument.
LEMMA ReadTimeDue ==
    ASSUME IInv, IInv', DueInv, NEW w \in Thread, ReadTime(w)
    PROVE  DueInv'
<1>1. pc[w] = "start" /\ pc' = [pc EXCEPT ![w] = "check"] /\ pc'[w] = "check"
      /\ call'[w] = [timer |-> call[w].timer, ticks |-> Due(call[w].ticks),
                     restart |-> call[w].restart]
      /\ \A v \in Thread : v # w => call'[v] = call[v]
  BY DEF ReadTime, Arguments, Step, IInv, TypeOK
<1>2. CallDue(w)'
  <2> DEFINE n == call[w].ticks
  <2>1. InSight(n) /\ InSight(call[w].restart) /\ n \in Nat
    BY <1>1 DEF DueInv, CallDue, IInv, TypeOK
  <2> HIDE DEF n
  <2>2. Near(n) /\ ThreadTime \in Tick
    BY <2>1, Numbers DEF InSight, Near
  <2>3. SignedDiff(Due(n), ThreadTime) = n
    BY <2>1, <2>2, DueAhead DEF Due
  <2>4. n >= -stall'[w]
    <3>1. stall' = stall /\ stall[w] \in Int /\ stall[w] >= 0
      BY Numbers DEF ReadTime
    <3> QED BY <2>1, <3>1
  <2>5. SignedDiff(Due(n), ThreadTime') = n
    BY <2>3 DEF ReadTime
  <2>6. Ahead(call[w].ticks)' = n /\ call'[w].restart = call[w].restart
    BY <1>1, <2>5 DEF Ahead, n
  <2> QED BY <1>1, <2>1, <2>4, <2>6 DEF CallDue, InSight
<1>3. InOrder'
  BY ListUntouchedDue DEF ReadTime, DueInv
<1> QED
  BY <1>1, <1>2, <1>3, QuietCall DEF ReadTime, timerVars, loopVars, Busy

\* Looking at active changes nothing.
LEMMA CheckActiveDue ==
    ASSUME IInv, IInv', DueInv, NEW w \in Thread, CheckActive(w)
    PROVE  DueInv'
<1>1. PICK to \in {"stopfirst", "insert"} : pc[w] = "check" /\ pc' = [pc EXCEPT ![w] = to]
  BY DEF CheckActive, Step
<1>2. CallDue(w)'
  <2>1. pc'[w] = to
    BY <1>1 DEF IInv, TypeOK
  <2> QED BY <1>1, <2>1 DEF CheckActive, DueInv, CallDue, InSight, Ahead
<1>3. InOrder'
  BY ListUntouchedDue DEF CheckActive, DueInv
<1> QED
  BY <1>1, <1>2, <1>3, QuietCall DEF CheckActive, timerVars, loopVars, Busy

\* A stop takes a timer out of the list and leaves the others as they are.
LEMMA OS_TimerStopDue ==
    ASSUME IInv, IInv', DueInv, NEW w \in Thread, OS_TimerStop(w)
    PROVE  DueInv'
<1>1. PICK to \in {Back(w), "insert"} :
         /\ pc' = [pc EXCEPT ![w] = to]
         /\ \/ pc[w] = "stop" /\ to = Back(w)
            \/ pc[w] = "stopfirst" /\ to = "insert" /\ call' = call /\ stall' = stall
  BY DEF OS_TimerStop, Return, Step
<1>2. call[w].timer \in Timer
  BY <1>1 DEF IInv, CallsCarryTimers
<1>3. /\ \A v \in Thread : v # w \/ v = TimerThread => stall'[v] = stall[v]
      /\ \A v \in Thread : v # w => call'[v] = call[v]
      /\ ThreadTime' = ThreadTime /\ StopRegion(call[w].timer)
      /\ pc'[w] = to
  BY <1>1 DEF OS_TimerStop, Return, IInv, TypeOK
<1>4. CallDue(w)'
  <2>1. CASE to = "insert" /\ pc[w] = "stopfirst" /\ call' = call /\ stall' = stall
    BY <1>3, <2>1 DEF DueInv, CallDue, InSight, Ahead
  <2>2. CASE to = Back(w)
    BY <1>3, <2>2 DEF CallDue, Back
  <2> QED BY <1>1, <2>1, <2>2
<1>5. /\ InOrder' /\ ticksRestart' = ticksRestart
      /\ \A u \in ToSet(TimerHead') :
            u \in ToSet(TimerHead) /\ ticksTimeout'[u] = ticksTimeout[u]
  BY <1>2, <1>3, StopRegionDue DEF DueInv
<1>6. w = TimerThread => pc[w] \in Busy /\ to \in Busy
  BY <1>1 DEF Busy, Back
<1> QED
  BY <1>1, <1>3, <1>4, <1>5, <1>6, QuietCall DEF OS_TimerStop, loopVars

\* A timer that becomes the first one is announced by the call that linked it; any
\* other is due after the first one and in hand as that is.
LEMMA StartInactiveDue ==
    ASSUME IInv, IInv', DueInv, NEW w \in Thread, StartInactive(w), ~active[call[w].timer],
           UNCHANGED <<ThreadTime, tokens, loopVars>>
    PROVE  DueInv'
<1>1. pc[w] = "insert"
  BY DEF StartInactive
<1>2. PICK t \in Timer, due \in Tick, r \in Nat :
         t = call[w].timer /\ due = call[w].ticks /\ r = call[w].restart
  BY <1>1 DEF IInv, CallsCarryTimers, TypeOK
<1>3. InSight(r) /\ InSight(Ahead(due)) /\ Ahead(due) >= -stall[w]
  BY <1>1, <1>2 DEF DueInv, CallDue
<1>4. InsertRegion(t, due, r) /\ ~active[t]
  BY <1>2 DEF StartInactive
<1>5. /\ Ahead(due) \in Int /\ MaxStall \in Nat /\ stall[w] \in Int /\ stall[w] <= MaxStall
      /\ stall[TimerThread] \in Int /\ stall[TimerThread] >= 0 /\ TimerThread \in Thread
  BY <1>2, Numbers, Parameters
<1>6. Ahead(due) >= -MaxStall
  BY <1>3, <1>5
<1>7. /\ InOrder'
      /\ ToSet(TimerHead') = ToSet(TimerHead) \cup {t}
      /\ ticksTimeout'[t] = due
      /\ ticksRestart' = [ticksRestart EXCEPT ![t] = r]
      /\ \A u \in ToSet(TimerHead) : ticksTimeout'[u] = ticksTimeout[u]
  BY <1>2, <1>3, <1>4, <1>6, InsertRegionDue
<1>8. \/ /\ Head(TimerHead') = t /\ Step(w, "insert", "post") /\ UNCHANGED <<call, stall>>
      \/ Head(TimerHead') # t /\ Return(w, "insert")
  BY <1>2 DEF StartInactive
<1>9. PICK to \in {"post", Back(w)} :
         /\ pc' = [pc EXCEPT ![w] = to] /\ pc'[w] = to
         /\ to = "post" \/ Head(TimerHead') # t
         /\ to = "post" => stall' = stall
  <2>1. DOMAIN pc = Thread /\ Back(w) # "post"
    BY DEF IInv, TypeOK, Back
  <2> QED BY <1>8, <2>1 DEF Step, Return
<1>10. /\ \A v \in Thread : v # w \/ v = TimerThread => stall'[v] = stall[v]
       /\ \A v \in Thread : v # w => call'[v] = call[v] /\ pc'[v] = pc[v]
  BY <1>8, <1>9 DEF Return, IInv, TypeOK
<1>11. /\ UNCHANGED <<ThreadTime, tokens, wakeAt, timeNow, ticksToSleep>>
       /\ w = TimerThread => pc[w] \in Busy /\ to \in Busy \cup {"post"}
  BY <1>1 DEF loopVars, Busy, Back
<1>12. /\ ThreadOnTime'
       /\ \A u \in ToSet(TimerHead) : TimerDue(u)' /\ InHand(u)'
  BY <1>1, <1>7, <1>9, <1>10, <1>11, QuietStep
<1>13. Left(t)' = Ahead(due)
  BY <1>7 DEF Left, Ahead
<1>14. TimerDue(t)'
  BY <1>3, <1>5, <1>6, <1>10, <1>13 DEF TimerDue, InSight, MayLag
<1>15. InHand(t)'
  <2>1. CASE to = "post"
    <3>1. Announced(t)'
      BY <1>3, <1>9, <1>13, <2>1 DEF Announced
    <3>2. w = TimerThread \/ pc'[TimerThread] = pc[TimerThread]
      BY <1>5, <1>10
    <3> QED BY <3>1 DEF InHand, Covered
  <2>2. CASE Head(TimerHead') # t
    <3>1. HeadFirst'
      BY <1>7, HeadIsFirst, PTL
    <3>2. TimerHead' # <<>>
      BY <1>7 DEF ToSet
    <3>3. PICK h : h = Head(TimerHead')
      OBVIOUS
    <3>4. h \in ToSet(TimerHead') /\ Left(h)' <= Left(t)'
      BY <1>7, <3>1, <3>2, <3>3 DEF HeadFirst
    <3>5. h \in ToSet(TimerHead) /\ h \in Timer
      BY <1>7, <2>2, <3>3, <3>4, Numbers
    <3>6. InHand(h)'
      BY <1>12, <3>5
    <3>7. LaterAreInHand'
      BY LaterInHand, PTL
    <3> QED BY <1>2, <3>4, <3>5, <3>6, <3>7 DEF LaterAreInHand
  <2> QED BY <1>9, <2>1, <2>2
<1>16. \A v \in Thread : CallDue(v)'
  <2>1. \A v \in Thread : v # w => CallDue(v)'
    BY <1>10, <1>11, OtherCalls
  <2>2. CallDue(w)'
    BY <1>9 DEF CallDue, Back
  <2> QED BY <2>1, <2>2
<1>17. (\A u \in Timer : InSight(ticksRestart[u]))'
  BY <1>3, <1>7 DEF DueInv, InSight, IInv, TypeOK
<1> QED
  BY <1>7, <1>12, <1>14, <1>15, <1>16, <1>17 DEF DueInv

\* The region of OS_TimerStart.
LEMMA StartRegionDue ==
    ASSUME IInv, IInv', DueInv, NEW w \in Thread, StartRegion(w)
    PROVE  DueInv'
<1>1. CASE Return(w, "insert") /\ UNCHANGED timerVars
  <2>1. /\ pc[w] = "insert" /\ pc' = [pc EXCEPT ![w] = Back(w)] /\ pc'[w] = Back(w)
        /\ \A v \in Thread : v # w \/ v = TimerThread => stall'[v] = stall[v]
        /\ \A v \in Thread : v # w => call'[v] = call[v]
    BY <1>1 DEF Return, Step, IInv, TypeOK
  <2>2. CallDue(w)'
    BY <2>1 DEF CallDue, Back
  <2>3. InOrder'
    BY <1>1, ListUntouchedDue DEF StartRegion, DueInv
  <2>4. w = TimerThread => pc[w] \in Busy /\ Back(w) \in Busy
    BY <2>1 DEF Busy, Back
  <2> QED
    BY <1>1, <2>1, <2>2, <2>3, <2>4, QuietCall DEF StartRegion, timerVars, loopVars
<1>2. CASE ~active[call[w].timer] /\ StartInactive(w)
  BY <1>2, StartInactiveDue DEF StartRegion
<1> QED BY <1>1, <1>2 DEF StartRegion

\* A post wakes the timer thread, or leaves a token that covers every timer.
LEMMA PostTimerDue ==
    ASSUME IInv, IInv', DueInv, NEW w \in Thread, PostTimer(w)
    PROVE  DueInv'
<1>1. /\ UNCHANGED <<ThreadTime, timerVars, timeNow, ticksToSleep>>
      /\ TimerThread \in Thread /\ MaxStall \in Nat /\ tokens \in Nat
      /\ stall[TimerThread] \in Int
  BY Numbers, Parameters DEF PostTimer
<1>2. /\ \A v \in Thread : v # w /\ v # TimerThread =>
               pc'[v] = pc[v] /\ call'[v] = call[v] /\ stall'[v] = stall[v]
      /\ stall'[TimerThread] = stall[TimerThread]
      /\ \/ w # TimerThread /\ pc[TimerThread] = "asleep" /\ pc'[TimerThread] = "now"
         \/ /\ pc[TimerThread] # "asleep" /\ tokens' = tokens + 1
            /\ w # TimerThread => pc'[TimerThread] = pc[TimerThread]
                                  /\ call'[TimerThread] = call[TimerThread]
            /\ w = TimerThread => pc[TimerThread] = "post" /\ pc'[TimerThread] = "pick"
      /\ pc'[w] = Back(w)
  <2>1. CASE WakeTimerThread(w)
    BY <1>1, <2>1 DEF WakeTimerThread, Back, IInv, TypeOK
  <2>2. CASE pc[TimerThread] # "asleep" /\ Return(w, "post") /\ tokens' = tokens + 1
    BY <1>1, <2>2 DEF Return, Step, Back, IInv, TypeOK
  <2> QED BY <2>1, <2>2 DEF PostTimer
<1>3. \A v \in Thread : CallDue(v)'
  <2>1. \A v \in Thread : v # w /\ v # TimerThread => CallDue(v)'
    BY <1>1, <1>2, OtherCalls
  <2>2. CallDue(w)'
    BY <1>2 DEF CallDue, Back
  <2>3. w # TimerThread => CallDue(TimerThread)'
    BY <1>1, <1>2, OtherCalls DEF CallDue
  <2> QED BY <2>1, <2>2, <2>3
<1>4. InOrder'
  BY <1>1, ListUntouchedDue DEF DueInv
<1>5. ThreadOnTime'
  BY <1>1, <1>2 DEF DueInv, ThreadOnTime, Ahead
<1>6. ASSUME NEW t \in ToSet(TimerHead) PROVE TimerDue(t)' /\ InHand(t)'
  <2>1. Left(t)' = Left(t) /\ Left(t) \in Int
    BY <1>1, Running DEF Left, Ahead, timerVars
  <2>2. MayLag' >= MayLag /\ MayLag \in Int /\ MayLag' \in Int
    BY <1>1, <1>2 DEF MayLag
  <2>3. TimerDue(t)'
    <3>1. TimerDue(t)
      BY DEF DueInv
    <3>2. InSight(Left(t))' /\ Left(t) >= -stall[TimerThread] - MayLag
      BY <2>1, <3>1 DEF TimerDue, InSight
    <3>3. Left(t)' >= -stall'[TimerThread] - MayLag'
      BY <1>1, <1>2, <2>1, <2>2, <3>2
    <3> QED BY <3>2, <3>3 DEF TimerDue
  <2>4. pc'[TimerThread] = "now" \/ (pc'[TimerThread] # "asleep" /\ tokens' > 0)
    <3>1. CASE pc[TimerThread] = "asleep"
      BY <1>2, <3>1
    <3>2. CASE pc[TimerThread] # "asleep"
      <4>1. tokens' = tokens + 1 /\ (pc'[TimerThread] = "pick" \/ pc'[TimerThread] = pc[TimerThread])
        BY <1>2, <3>2
      <4> QED BY <1>1, <3>2, <4>1
    <3> QED BY <3>1, <3>2
  <2>5. InHand(t)'
    BY <2>4 DEF InHand, Covered
  <2> QED BY <2>3, <2>5
<1>7. (\A t \in Timer : InSight(ticksRestart[t]))' /\ TimerHead' = TimerHead
  BY <1>1 DEF DueInv, InSight, timerVars
<1> QED BY <1>3, <1>4, <1>5, <1>6, <1>7 DEF DueInv

\* The sleep lasts until the first timer is due, unless somebody announces another.
LEMMA HowLongDue ==
    ASSUME SpansFit, IInv, IInv', DueInv, HowLong
    PROVE  DueInv'
<1>1. /\ pc[TimerThread] = "howlong" /\ pc'[TimerThread] = "pend"
      /\ \A v \in Thread : v # TimerThread => pc'[v] = pc[v]
      /\ call' = call /\ stall' = stall /\ tokens' = tokens /\ ThreadTime' = ThreadTime
      /\ UNCHANGED timerVars /\ TimerThread \in Thread
  BY Parameters DEF HowLong, Step, IInv, TypeOK
<1>2. \A v \in Thread : CallDue(v)'
  <2>1. \A v \in Thread : v # TimerThread => CallDue(v)'
    BY <1>1, OtherCalls
  <2>2. CallDue(TimerThread)'
    BY <1>1 DEF CallDue
  <2> QED BY <2>1, <2>2
<1>3. InOrder'
  BY <1>1, ListUntouchedDue DEF DueInv
<1>4. ThreadOnTime'
  BY <1>1 DEF ThreadOnTime
<1>5. ASSUME NEW t \in ToSet(TimerHead) PROVE TimerDue(t)' /\ InHand(t)'
  <2>1. Left(t)' = Left(t)
    BY <1>1 DEF Left, Ahead, timerVars
  <2>2. TimerDue(t)'
    BY <1>1, <2>1 DEF DueInv, TimerDue, InSight, MayLag
  <2>3. CASE Covered(t)
    <3>1. Covered(t)'
      BY <1>1, <2>1, <2>3 DEF Covered, Announced
    <3> QED BY <1>1, <2>2, <3>1 DEF InHand
  <2>4. CASE ~Covered(t)
    <3>1. PICK h \in ToSet(TimerHead) : h = Head(TimerHead) /\ Left(h) <= Left(t)
      BY HeadIsFirst DEF HeadFirst, DueInv, ToSet
    <3>2. TimerHead # <<>>
      BY <3>1 DEF ToSet
    <3>3. InHand(h)
      BY DEF DueInv
    <3>4. h \in Timer /\ t \in Timer /\ Left(h) \in Int /\ Left(t) \in Int /\ ticksTimeout[h] \in Tick
          /\ InSight(Left(h)) /\ Left(h) >= -3 * MaxStall
      BY <3>1, Running
    <3>5. ~Covered(h)
      BY <2>4, <3>1, <3>4, Numbers DEF Covered, Announced
    <3>6. Left(h) > Ahead(timeNow) /\ timeNow \in Tick /\ Ahead(timeNow) \in Int
      BY <1>1, <3>3, <3>5, Numbers DEF InHand
    <3>7. /\ -stall[TimerThread] <= Ahead(timeNow) /\ Ahead(timeNow) <= 0
          /\ stall[TimerThread] \in Int /\ stall[TimerThread] <= MaxStall /\ MaxStall \in Nat
      BY <1>1, Numbers DEF DueInv, ThreadOnTime
    <3>8. InSight(Ahead(timeNow)) /\ Ahead(timeNow) >= -3 * MaxStall
      <4>1. InSight(0) /\ TickModulus \in Nat
        BY Numbers DEF SpansFit
      <4> QED BY <3>6, <3>7, <4>1 DEF InSight
    <3>9. ticksToSleep' = Left(h) - Ahead(timeNow)
      <4>1. ticksToSleep' = SignedDiff(ticksTimeout[h], timeNow)
        BY <3>1, <3>2 DEF HowLong
      <4> QED BY <3>4, <3>6, <3>8, <4>1, Compared DEF Left
    <3>10. ticksToSleep' > 0 /\ Left(t)' >= ticksToSleep' - stall'[TimerThread]
      BY <1>1, <2>1, <3>1, <3>4, <3>6, <3>7, <3>9
    <3> QED BY <1>1, <2>2, <3>10 DEF InHand
  <2> QED BY <2>3, <2>4
<1>6. (\A t \in Timer : InSight(ticksRestart[t]))' /\ TimerHead' = TimerHead
  BY <1>1 DEF DueInv, InSight, timerVars
<1> QED BY <1>2, <1>3, <1>4, <1>5, <1>6 DEF DueInv

\* The timer thread goes to sleep without a token, so each timer is announced or due
\* after the sleep.
LEMMA PendTimerDue ==
    ASSUME SpansFit, IInv, IInv', DueInv, PendTimer
    PROVE  DueInv'
<1>1. /\ pc[TimerThread] = "pend" /\ pc'[TimerThread] \in {"now", "asleep"}
      /\ \A v \in Thread : v # TimerThread => pc'[v] = pc[v] /\ stall'[v] = stall[v]
      /\ call' = call /\ stall'[TimerThread] = 0 /\ ThreadTime' = ThreadTime
      /\ UNCHANGED timerVars
      /\ pc'[TimerThread] = "asleep" =>
            /\ tokens = 0 /\ tokens' = 0
            /\ ticksToSleep > 0 => wakeAt' = Due(ticksToSleep)
  <2>1. TimerThread \in Thread /\ ticksToSleep \in Int
    BY Parameters, Numbers
  <2>2. ticksToSleep > 0 => ticksToSleep # WAIT_FOREVER
    BY <2>1 DEF WAIT_FOREVER
  <2> QED BY <2>1, <2>2 DEF PendTimer, Step, IInv, TypeOK
<1>2. \A v \in Thread : CallDue(v)'
  <2>1. \A v \in Thread : v # TimerThread => CallDue(v)'
    BY <1>1, OtherCalls
  <2>2. CallDue(TimerThread)'
    BY <1>1 DEF CallDue
  <2> QED BY <2>1, <2>2
<1>3. InOrder'
  BY <1>1, ListUntouchedDue DEF DueInv
<1>4. ThreadOnTime'
  BY <1>1 DEF ThreadOnTime
<1>5. ASSUME NEW t \in ToSet(TimerHead) PROVE TimerDue(t)' /\ InHand(t)'
  <2>1. /\ Left(t)' = Left(t) /\ Left(t) \in Int /\ TimerThread \in Thread
        /\ MaxStall \in Nat /\ stall[TimerThread] \in Int /\ stall[TimerThread] <= MaxStall
        /\ stall[TimerThread] >= 0 /\ ticksToSleep \in Int /\ ThreadTime \in Tick
        /\ TickModulus \in Nat
    BY <1>1, Running, Numbers, Parameters DEF Left, Ahead, timerVars
  <2>2. TimerDue(t) /\ InHand(t) /\ MayLag = MaxStall
    BY <1>1 DEF DueInv, MayLag
  <2>3. InSight(Left(t))'
    BY <2>1, <2>2 DEF TimerDue, InSight
  <2>4. CASE pc'[TimerThread] = "now"
    <3>1. MayLag' = 2 * MaxStall /\ Left(t)' >= -stall'[TimerThread] - 2 * MaxStall
      BY <1>1, <2>1, <2>2, <2>4 DEF MayLag, TimerDue
    <3> QED BY <2>3, <2>4, <3>1 DEF InHand, TimerDue
  <2>5. CASE pc'[TimerThread] = "asleep"
    <3>1. MayLag' = MaxStall
      BY <2>5 DEF MayLag
    <3>2. CASE Announced(t)
      <4>1. PICK w \in Thread : pc[w] = "post" /\ Left(t) >= -stall[w]
        BY <3>2 DEF Announced
      <4>2. pc'[w] = "post" /\ stall'[w] = stall[w] /\ stall[w] \in Int /\ stall[w] <= MaxStall
        BY <1>1, <4>1, Numbers
      <4>3. Announced(t)'
        BY <2>1, <4>1, <4>2 DEF Announced
      <4>4. Left(t)' >= -stall'[TimerThread] - MaxStall
        BY <1>1, <2>1, <4>1, <4>2
      <4> QED BY <2>3, <2>5, <3>1, <4>3, <4>4 DEF InHand, TimerDue
    <3>3. CASE ~Announced(t)
      <4>1. ticksToSleep > 0 /\ Left(t) >= ticksToSleep - stall[TimerThread]
        BY <1>1, <2>2, <2>5, <3>3 DEF InHand, Covered
      <4>2. Near(ticksToSleep)
        BY <2>1, <2>2, <4>1 DEF TimerDue, InSight, Near
      <4>3. wakeAt' = Due(ticksToSleep) /\ Due(ticksToSleep) \in Tick
        BY <1>1, <2>1, <2>5, <4>1, ModuloTick DEF Due, Tick
      <4>4. SignedDiff(Due(ticksToSleep), ThreadTime) = ticksToSleep
        BY <2>1, <4>2, DueAhead DEF Due
      <4>5. Ahead(wakeAt)' = ticksToSleep
        BY <1>1, <4>3, <4>4 DEF Ahead
      <4>6. wakeAt' # WAIT_FOREVER
        BY <4>3 DEF WAIT_FOREVER, Tick
      <4>7. Left(t)' >= ticksToSleep - MaxStall /\ Left(t)' >= -stall'[TimerThread] - MaxStall
        BY <1>1, <2>1, <4>1
      <4> QED BY <2>3, <2>5, <3>1, <4>1, <4>5, <4>6, <4>7 DEF InHand, TimerDue
    <3> QED BY <3>2, <3>3
  <2> QED BY <1>1, <2>4, <2>5
<1>6. (\A t \in Timer : InSight(ticksRestart[t]))' /\ TimerHead' = TimerHead
  BY <1>1 DEF DueInv, InSight, timerVars
<1> QED BY <1>2, <1>3, <1>4, <1>5, <1>6 DEF DueInv

\* The timer thread reads the time.
LEMMA ReadNowDue ==
    ASSUME IInv, IInv', DueInv, ReadNow
    PROVE  DueInv'
<1>1. /\ pc[TimerThread] = "now" /\ pc'[TimerThread] = "pick"
      /\ \A v \in Thread : v # TimerThread => pc'[v] = pc[v]
      /\ call' = call /\ stall' = stall /\ tokens' = tokens /\ ThreadTime' = ThreadTime
      /\ UNCHANGED timerVars /\ TimerThread \in Thread /\ timeNow' = ThreadTime
      /\ ThreadTime \in Tick /\ stall[TimerThread] \in Int /\ stall[TimerThread] >= 0
  BY Parameters, Numbers DEF ReadNow, Step, IInv, TypeOK
<1>2. \A v \in Thread : CallDue(v)'
  <2>1. \A v \in Thread : v # TimerThread => CallDue(v)'
    BY <1>1, OtherCalls
  <2>2. CallDue(TimerThread)'
    BY <1>1 DEF CallDue
  <2> QED BY <2>1, <2>2
<1>3. InOrder'
  BY <1>1, ListUntouchedDue DEF DueInv
<1>4. ThreadOnTime'
  <2>1. SignedDiff(ThreadTime, ThreadTime) = 0
    BY <1>1, SignedDiffIs, TickModulusAssumption DEF Near, Tick
  <2>2. Ahead(timeNow)' = 0
    BY <1>1, <2>1 DEF Ahead
  <2> QED BY <1>1, <2>2 DEF ThreadOnTime
<1>5. ASSUME NEW t \in ToSet(TimerHead) PROVE TimerDue(t)' /\ InHand(t)'
  <2>1. Left(t)' = Left(t)
    BY <1>1 DEF Left, Ahead, timerVars
  <2>2. TimerDue(t)'
    BY <1>1, <2>1 DEF DueInv, TimerDue, InSight, MayLag
  <2> QED BY <1>1, <2>2 DEF InHand
<1>6. (\A t \in Timer : InSight(ticksRestart[t]))' /\ TimerHead' = TimerHead
  BY <1>1 DEF DueInv, InSight, timerVars
<1> QED BY <1>2, <1>3, <1>4, <1>5, <1>6 DEF DueInv

\* The loop over expired timers ends when the first one is due after the time read:
\* so are all the others.
LEMMA PickExpiredDue ==
    ASSUME SpansFit, IInv, IInv', DueInv, PickExpired
    PROVE  DueInv'
<1>1. /\ pc[TimerThread] = "pick"
      /\ \A v \in Thread : v # TimerThread => pc'[v] = pc[v]
      /\ call' = call /\ stall' = stall /\ tokens' = tokens /\ ThreadTime' = ThreadTime
      /\ UNCHANGED timerVars /\ TimerThread \in Thread /\ timeNow' = timeNow
      /\ \/ pc'[TimerThread] = "handle"
         \/ ~IsExpired /\ pc'[TimerThread] = "howlong"
  BY Parameters DEF PickExpired, Step, IInv, TypeOK
<1>2. \A v \in Thread : CallDue(v)'
  <2>1. \A v \in Thread : v # TimerThread => CallDue(v)'
    BY <1>1, OtherCalls
  <2>2. CallDue(TimerThread)'
    BY <1>1 DEF CallDue
  <2> QED BY <2>1, <2>2
<1>3. InOrder'
  BY <1>1, ListUntouchedDue DEF DueInv
<1>4. ThreadOnTime'
  BY <1>1 DEF DueInv, ThreadOnTime, Ahead
<1>5. ASSUME NEW t \in ToSet(TimerHead) PROVE TimerDue(t)' /\ InHand(t)'
  <2>1. Left(t)' = Left(t) /\ InSight(Left(t))'
    BY <1>1 DEF Left, Ahead, timerVars, DueInv, TimerDue, InSight
  <2>2. CASE pc'[TimerThread] = "handle"
    BY <1>1, <2>1, <2>2 DEF DueInv, TimerDue, InSight, MayLag, InHand
  <2>3. CASE ~IsExpired /\ pc'[TimerThread] = "howlong"
    <3>1. PICK h \in ToSet(TimerHead) : h = Head(TimerHead) /\ Left(h) <= Left(t)
      BY HeadIsFirst DEF HeadFirst, DueInv, ToSet
    <3>2. TimerHead # <<>>
      BY <3>1 DEF ToSet
    <3>3. Left(h) \in Int /\ Left(t) \in Int /\ ticksTimeout[h] \in Tick
          /\ InSight(Left(h)) /\ Left(h) >= -3 * MaxStall
      BY <3>1, Running
    <3>4. /\ -stall[TimerThread] <= Ahead(timeNow) /\ Ahead(timeNow) <= 0
          /\ stall[TimerThread] \in Int /\ stall[TimerThread] <= MaxStall /\ MaxStall \in Nat
          /\ timeNow \in Tick /\ Ahead(timeNow) \in Int /\ TickModulus \in Nat
      <4>1. timeNow \in Tick
        BY Numbers
      <4> QED BY <1>1, <4>1, Numbers DEF DueInv, ThreadOnTime
    <3>5. InSight(Ahead(timeNow)) /\ Ahead(timeNow) >= -3 * MaxStall
      <4>1. InSight(0)
        BY DEF SpansFit
      <4> QED BY <3>4, <4>1 DEF InSight
    <3>6. SignedDiff(timeNow, ticksTimeout[h]) = Ahead(timeNow) - Left(h)
      BY <3>3, <3>4, <3>5, Compared DEF Left
    <3>7. ~(SignedDiff(timeNow, ticksTimeout[h]) >= 0)
      BY <2>3, <3>1, <3>2 DEF IsExpired
    <3>8. Left(t)' > Ahead(timeNow)
      BY <2>1, <3>1, <3>3, <3>4, <3>6, <3>7
    <3>9. Ahead(timeNow)' = Ahead(timeNow)
      BY <1>1 DEF Ahead
    <3>10. MayLag' = MaxStall /\ Left(t)' >= -stall'[TimerThread] - MaxStall
      BY <1>1, <2>1, <2>3, <3>3, <3>4, <3>8 DEF MayLag
    <3> QED BY <2>1, <2>3, <3>8, <3>9, <3>10 DEF InHand, TimerDue
  <2> QED BY <1>1, <2>2, <2>3
<1>6. (\A t \in Timer : InSight(ticksRestart[t]))' /\ TimerHead' = TimerHead
  BY <1>1 DEF DueInv, InSight, timerVars
<1> QED BY <1>2, <1>3, <1>4, <1>5, <1>6 DEF DueInv

\* A timer that starts again does so with a period that fits the counter.
LEMMA RestartOrStopDue ==
    ASSUME SpansFit, IInv, IInv', DueInv, RestartOrStop
    PROVE  DueInv'
<1>1. expired \in Timer /\ ticksRestart[expired] \in Nat /\ TimerThread \in Thread
      /\ InSight(ticksRestart[expired]) /\ InSight(0)
  BY Parameters DEF RestartOrStop, IInv, CallsCarryTimers, TypeOK, DueInv, SpansFit
<1>2. PICK to \in {"start", "stop"}, r \in Nat :
         InSight(r) /\ Arguments(TimerThread, "handle", to, expired, r, r)
  BY <1>1 DEF RestartOrStop
<1>3. /\ pc[TimerThread] = "handle" /\ pc' = [pc EXCEPT ![TimerThread] = to]
      /\ pc'[TimerThread] = to
      /\ call'[TimerThread] = [timer |-> expired, ticks |-> r, restart |-> r]
      /\ \A v \in Thread : v # TimerThread => call'[v] = call[v]
  BY <1>1, <1>2 DEF Arguments, Step, IInv, TypeOK
<1>4. CallDue(TimerThread)'
  BY <1>2, <1>3 DEF CallDue, InSight
<1>5. InOrder'
  BY ListUntouchedDue DEF RestartOrStop, DueInv
<1> QED
  BY <1>1, <1>3, <1>4, <1>5, QuietCall DEF RestartOrStop, timerVars, Busy

\* A tick takes one tick off the time that is left; whoever is in a call has stalled
\* for one more.
LEMMA OneTick ==
    ASSUME SpansFit, IInv, OS_ThreadTick, NEW d \in Tick, Ahead(d) - 1 >= -3 * MaxStall
    PROVE  SignedDiff(d, ThreadTime') = Ahead(d) - 1
<1>1. Ahead(d) \in Int /\ Near(Ahead(d)) /\ ThreadTime \in Tick
      /\ TickModulus \in Nat /\ MaxStall \in Nat
  BY Numbers
<1>2. InSight(0)
  BY DEF SpansFit
<1>3. Near(Ahead(d) - 1)
  BY <1>1, <1>2 DEF Near, InSight
<1> QED BY <1>1, <1>3, TickPasses DEF OS_ThreadTick, Ahead

\* A tick: the sleep of the timer thread ends when nothing of it is left.
LEMMA TickDue ==
    ASSUME SpansFit, IInv, IInv', DueInv, OS_ThreadTick
    PROVE  DueInv'
<1>1. /\ call' = call /\ tokens' = tokens /\ UNCHANGED timerVars /\ timeNow' = timeNow
      /\ ticksToSleep' = ticksToSleep /\ TimerThread \in Thread
      /\ MaxStall \in Nat /\ TickModulus \in Nat /\ ticksToSleep \in Int
      /\ pc[TimerThread] # "run"
  BY Parameters, Numbers DEF OS_ThreadTick, DueInv, ThreadOnTime
<1>2. /\ \A w \in Thread : pc[w] \notin {"run", "asleep"} =>
            /\ pc'[w] = pc[w] /\ stall'[w] = stall[w] + 1
            /\ stall[w] \in Int /\ 0 <= stall[w] /\ stall[w] < MaxStall
      /\ \A w \in Thread : pc[w] \in {"run", "asleep"} =>
            stall'[w] = 0 /\ pc'[w] \in {"run", "asleep", "now"}
      /\ \/ pc' = pc /\ wakeAt' = wakeAt
         \/ pc[TimerThread] = "asleep" /\ pc'[TimerThread] = "now"
  <2>1. \A w \in Thread : InCall(w) <=> pc[w] \notin {"run", "asleep"}
    BY DEF InCall
  <2>2. \A w \in Thread : stall[w] \in Int /\ 0 <= stall[w] /\ (InCall(w) => stall[w] < MaxStall)
    BY Numbers DEF OS_ThreadTick, InTime
  <2>3. \A w \in Thread : stall'[w] = IF InCall(w) THEN stall[w] + 1 ELSE 0
    BY DEF OS_ThreadTick
  <2>4. \/ pc' = pc /\ wakeAt' = wakeAt
        \/ /\ pc[TimerThread] = "asleep" /\ pc'[TimerThread] = "now"
           /\ \A w \in Thread : w # TimerThread => pc'[w] = pc[w]
    BY <1>1 DEF OS_ThreadTick, Step, IInv, TypeOK
  <2> QED BY <2>1, <2>2, <2>3, <2>4
<1>3. \A w \in Thread : CallDue(w)'
  <2> SUFFICES ASSUME NEW w \in Thread PROVE CallDue(w)'
    OBVIOUS
  <2>1. CASE pc[w] \in {"check", "stopfirst", "insert"}
    <3> DEFINE d == call[w].ticks
    <3>1. d \in Tick
      BY <2>1 DEF IInv, CallsCarryTimers
    <3>2. /\ InSight(call[w].restart) /\ InSight(Ahead(d)) /\ Ahead(d) >= -stall[w]
          /\ Ahead(d) \in Int
      BY <2>1, <3>1, Numbers DEF DueInv, CallDue
    <3>3. /\ pc'[w] = pc[w] /\ stall'[w] = stall[w] + 1
          /\ stall[w] \in Int /\ 0 <= stall[w] /\ stall[w] < MaxStall
      BY <1>2, <2>1
    <3>4. SignedDiff(d, ThreadTime') = Ahead(d) - 1
      <4> HIDE DEF d
      <4>1. Ahead(d) - 1 >= -3 * MaxStall
        BY <1>1, <3>2, <3>3
      <4> QED BY <3>1, <4>1, OneTick
    <3>5. Ahead(call[w].ticks)' = Ahead(d) - 1
      BY <1>1, <3>4 DEF Ahead
    <3> HIDE DEF d
    <3>6. InSight(Ahead(d) - 1) /\ Ahead(d) - 1 >= -stall'[w]
      BY <1>1, <3>2, <3>3 DEF InSight
    <3> QED BY <1>1, <2>1, <3>2, <3>3, <3>5, <3>6 DEF CallDue, InSight
  <2>2. CASE pc[w] \notin {"check", "stopfirst", "insert"}
    <3>1. pc'[w] \notin {"check", "stopfirst", "insert"} /\ (pc'[w] = "start" => pc[w] = "start")
      BY <1>2, <2>2
    <3> QED BY <1>1, <3>1 DEF CallDue, DueInv, InSight
  <2> QED BY <2>1, <2>2
<1>4. ASSUME NEW t \in ToSet(TimerHead)
      PROVE  /\ Left(t) - 1 >= -stall'[TimerThread] - MayLag'
             /\ Left(t) - 1 >= -3 * MaxStall
  <2>1. Left(t) \in Int /\ TimerDue(t) /\ InHand(t)
    BY Running DEF DueInv
  <2>2. CASE pc[TimerThread] = "asleep"
    <3>1. Left(t) - 1 >= -MaxStall
      <4>1. CASE Announced(t)
        <5>1. PICK w \in Thread : pc[w] = "post" /\ Left(t) >= -stall[w]
          BY <4>1 DEF Announced
        <5>2. stall[w] \in Int /\ stall[w] < MaxStall
          BY <1>2, <5>1
        <5> QED BY <1>1, <2>1, <5>1, <5>2
      <4>2. CASE ~Announced(t)
        <5>1. /\ wakeAt # WAIT_FOREVER /\ Ahead(wakeAt) > 0
              /\ Left(t) >= Ahead(wakeAt) - MaxStall
          BY <2>1, <2>2, <4>2 DEF InHand
        <5>2. Ahead(wakeAt) \in Int
          BY <5>1, Numbers DEF IInv, TypeOK
        <5> QED BY <1>1, <2>1, <5>1, <5>2
      <4> QED BY <4>1, <4>2
    <3>2. stall'[TimerThread] = 0 /\ MayLag' \in {MaxStall, 2 * MaxStall}
      BY <1>1, <1>2, <2>2 DEF MayLag
    <3> QED BY <1>1, <2>1, <3>1, <3>2
  <2>3. CASE pc[TimerThread] # "asleep"
    <3>1. /\ stall'[TimerThread] = stall[TimerThread] + 1 /\ pc'[TimerThread] = pc[TimerThread]
          /\ stall[TimerThread] \in Int /\ stall[TimerThread] < MaxStall
      BY <1>1, <1>2, <2>3
    <3>2. MayLag' = MayLag /\ MayLag \in {MaxStall, 2 * MaxStall}
      BY <3>1 DEF MayLag
    <3>3. Left(t) >= -stall[TimerThread] - MayLag
      BY <2>1 DEF TimerDue
    <3> QED BY <1>1, <2>1, <3>1, <3>2, <3>3
  <2> QED BY <2>2, <2>3
<1>5. \A t \in ToSet(TimerHead) : Left(t)' = Left(t) - 1 /\ Left(t) \in Int /\ t \in Timer
  <2> SUFFICES ASSUME NEW t \in ToSet(TimerHead)
               PROVE  Left(t)' = Left(t) - 1 /\ Left(t) \in Int /\ t \in Timer
    OBVIOUS
  <2>1. ticksTimeout[t] \in Tick /\ t \in Timer /\ Left(t) \in Int
    BY Running
  <2>2. SignedDiff(ticksTimeout[t], ThreadTime') = Left(t) - 1
    BY <1>4, <2>1, OneTick DEF Left
  <2>3. Left(t)' = SignedDiff(ticksTimeout[t], ThreadTime')
    BY <1>1 DEF Left, Ahead, timerVars
  <2> QED BY <2>1, <2>2, <2>3
<1>6. InOrder'
  <2>1. Lateness \in [Timer -> Int]
    BY LatenessNumbers
  <2>2. (Lateness \in [Timer -> Int])'
    BY LatenessNumbers, PTL
  <2>3. PICK k1 \in [Timer -> Int], k2 \in [Timer -> Int] : k1 = Lateness /\ k2 = Lateness'
    BY <2>1, <2>2
  <2>4. \A t \in ToSet(TimerHead) : k2[t] = k1[t] + 1
    <3> SUFFICES ASSUME NEW t \in ToSet(TimerHead) PROVE k2[t] = k1[t] + 1
      OBVIOUS
    <3>1. t \in Timer /\ Left(t)' = Left(t) - 1 /\ Left(t) \in Int
      BY <1>5
    <3>2. k1[t] = -Left(t)
      BY <2>3, <3>1 DEF Lateness
    <3>3. k2[t] = -(Left(t)')
      BY <2>3, <3>1 DEF Lateness
    <3> QED BY <3>1, <3>2, <3>3
  <2>5. TimerHead \in Seq(Timer) /\ SortedBy(TimerHead, k1)
    BY <2>3 DEF DueInv, InOrder, IInv, TypeOK
  <2>6. SortedBy(TimerHead, k2)
    BY <2>4, <2>5, SameOrder
  <2> QED BY <1>1, <2>3, <2>6 DEF InOrder, timerVars
<1>7. ASSUME pc[TimerThread] \notin {"pend", "asleep", "now"}
      PROVE  /\ Ahead(timeNow)' = Ahead(timeNow) - 1
             /\ Ahead(timeNow) \in Int
             /\ -stall'[TimerThread] <= Ahead(timeNow) - 1 /\ Ahead(timeNow) <= 0
  <2>1. timeNow \in Tick
    BY Numbers
  <2>2. -stall[TimerThread] <= Ahead(timeNow) /\ Ahead(timeNow) <= 0 /\ Ahead(timeNow) \in Int
    BY <1>7, <2>1, Numbers DEF DueInv, ThreadOnTime
  <2>3. stall'[TimerThread] = stall[TimerThread] + 1
        /\ stall[TimerThread] \in Int /\ stall[TimerThread] < MaxStall
    BY <1>1, <1>2, <1>7
  <2>4. Ahead(timeNow) - 1 >= -3 * MaxStall
    BY <1>1, <2>2, <2>3
  <2>5. Ahead(timeNow)' = Ahead(timeNow) - 1
    BY <1>1, <2>1, <2>4, OneTick DEF Ahead
  <2> QED BY <2>2, <2>3, <2>5
<1>8. ThreadOnTime'
  <2>1. pc'[TimerThread] # "run"
    BY <1>1, <1>2
  <2>2. pc'[TimerThread] = "asleep" => tokens' = 0
    BY <1>1, <1>2 DEF DueInv, ThreadOnTime
  <2>3. ASSUME pc'[TimerThread] \notin {"pend", "asleep", "now"}
        PROVE  -stall'[TimerThread] <= Ahead(timeNow)' /\ Ahead(timeNow)' <= 0
    <3>1. pc[TimerThread] \notin {"pend", "asleep", "now"}
      BY <1>1, <1>2, <2>3
    <3> QED BY <1>7, <3>1
  <2> QED BY <2>1, <2>2, <2>3 DEF ThreadOnTime
<1>9. ASSUME NEW t \in ToSet(TimerHead) PROVE TimerDue(t)' /\ InHand(t)'
  <2>1. Left(t)' = Left(t) - 1 /\ Left(t) \in Int /\ TimerDue(t) /\ InHand(t)
    BY <1>5 DEF DueInv
  <2>2. TimerDue(t)'
    BY <1>1, <1>4, <2>1 DEF TimerDue, InSight
  <2>3. ASSUME Announced(t) PROVE Announced(t)'
    <3>1. PICK w \in Thread : pc[w] = "post" /\ Left(t) >= -stall[w]
      BY <2>3 DEF Announced
    <3>2. pc'[w] = "post" /\ stall'[w] = stall[w] + 1 /\ stall[w] \in Int
      BY <1>2, <3>1
    <3>3. Left(t)' >= -stall'[w]
      BY <2>1, <3>1, <3>2
    <3> QED BY <3>2, <3>3 DEF Announced
  <2>4. Covered(t) => Covered(t)'
    BY <1>1, <2>3 DEF Covered
  <2>5. ASSUME pc'[TimerThread] = "howlong" PROVE Covered(t)' \/ Left(t)' > Ahead(timeNow)'
    <3>1. pc[TimerThread] = "howlong"
      BY <1>1, <1>2, <2>5
    <3>2. Covered(t) \/ Left(t) > Ahead(timeNow)
      BY <2>1, <3>1 DEF InHand
    <3>3. Ahead(timeNow)' = Ahead(timeNow) - 1 /\ Ahead(timeNow) \in Int
      BY <1>7, <3>1
    <3> QED BY <2>1, <2>4, <3>2, <3>3
  <2>6. ASSUME pc'[TimerThread] = "pend"
        PROVE  Covered(t)' \/ (ticksToSleep' > 0 /\ Left(t)' >= ticksToSleep' - stall'[TimerThread])
    <3>1. pc[TimerThread] = "pend" /\ stall'[TimerThread] = stall[TimerThread] + 1
          /\ stall[TimerThread] \in Int
      BY <1>1, <1>2, <2>6
    <3>2. Covered(t) \/ (ticksToSleep > 0 /\ Left(t) >= ticksToSleep - stall[TimerThread])
      BY <2>1, <3>1 DEF InHand
    <3> QED BY <1>1, <2>1, <2>4, <3>1, <3>2
  <2>7. ASSUME pc'[TimerThread] = "asleep", ~Announced(t)
        PROVE  /\ wakeAt' # WAIT_FOREVER
               /\ Ahead(wakeAt)' > 0
               /\ Left(t)' >= Ahead(wakeAt)' - MaxStall
    <3>1. pc[TimerThread] = "asleep" /\ pc' = pc /\ wakeAt' = wakeAt
      BY <1>1, <1>2, <2>7
    <3>2. /\ wakeAt # WAIT_FOREVER /\ Ahead(wakeAt) > 0
          /\ Left(t) >= Ahead(wakeAt) - MaxStall
      BY <2>1, <2>7, <3>1 DEF InHand
    <3>3. wakeAt \in Tick /\ Ahead(wakeAt) \in Int /\ ThreadTime' \in Tick
      <4>1. wakeAt \in Tick
        BY <3>2 DEF IInv, TypeOK
      <4> QED BY <4>1, Numbers DEF IInv, TypeOK
    <3>4. SignedDiff(wakeAt, ThreadTime') = Ahead(wakeAt) - 1
      <4>1. Ahead(wakeAt) - 1 >= -3 * MaxStall
        BY <1>1, <3>2, <3>3
      <4> QED BY <3>3, <4>1, OneTick
    <3>5. Ahead(wakeAt)' = Ahead(wakeAt) - 1
      BY <3>1, <3>4 DEF Ahead
    <3>6. Ahead(wakeAt) # 1
      <4> SUFFICES ASSUME Ahead(wakeAt) = 1 PROVE FALSE
        OBVIOUS
      <4>1. SignedDiff(wakeAt, ThreadTime') = 0
        BY <3>4
      <4>2. SignedDiff(ThreadTime', wakeAt) = 0
        <5>1. PICK now \in Tick : now = ThreadTime'
          BY <3>3
        <5>2. SignedDiff(now, wakeAt) = 0
          BY <3>3, <4>1, <5>1, NoDifference
        <5> QED BY <5>1, <5>2
      <4>3. SleepOver(ThreadTime')
        BY <3>1, <3>2, <4>2 DEF SleepOver
      <4>4. pc'[TimerThread] = "now"
        BY <1>1, <4>3 DEF OS_ThreadTick, Step, IInv, TypeOK
      <4> QED BY <2>7, <4>4
    <3> QED BY <1>1, <2>1, <3>1, <3>2, <3>3, <3>5, <3>6
  <2>8. InHand(t)'
    BY <2>3, <2>5, <2>6, <2>7 DEF InHand
  <2> QED BY <2>2, <2>8
<1>10. (\A t \in Timer : InSight(ticksRestart[t]))' /\ TimerHead' = TimerHead
  BY <1>1 DEF DueInv, InSight, timerVars
<1> QED BY <1>3, <1>6, <1>8, <1>9, <1>10 DEF DueInv

\* Every step keeps the invariant about time.
LEMMA NextDue == SpansFit /\ IInv /\ IInv' /\ DueInv /\ [Next]_vars => DueInv'
<1> SUFFICES ASSUME SpansFit, IInv, IInv', DueInv, [Next]_vars PROVE DueInv'
  OBVIOUS
<1>1. CASE UNCHANGED vars
  <2>1. InOrder'
    BY <1>1, ListUntouchedDue DEF vars, DueInv
  <2> QED BY <1>1, <2>1 DEF vars, timerVars, loopVars, DueInv, CallDue, TimerDue, InHand, ThreadOnTime,
             Covered, Announced, MayLag, InSight, Left, Ahead
<1>2. ASSUME NEW c \in Caller, CallTimer(c) PROVE DueInv'
  BY <1>2, CallTimerDue
<1>3. ASSUME NEW w \in Thread, Call(w) PROVE DueInv'
  BY <1>3, ReadTimeDue, CheckActiveDue, StartRegionDue, PostTimerDue, OS_TimerStopDue
     DEF Call, OS_TimerStart
<1>4. CASE OS_TimerThread
  BY <1>4, HowLongDue, PendTimerDue, ReadNowDue, PickExpiredDue, RestartOrStopDue
     DEF OS_TimerThread
<1>5. CASE OS_ThreadTick
  BY <1>5, TickDue
<1> QED BY <1>1, <1>2, <1>3, <1>4, <1>5 DEF Next

\* The timer list is in order of due time (DueInOrder) across wraps of the tick
\* counter, although callers read the time before they insert, if the spans fit.
THEOREM TimersInDueOrder == SpansFit => (Spec => []DueInOrder)
<1> SUFFICES ASSUME SpansFit PROVE Spec => []DueInOrder
  OBVIOUS
<1>1. Init => DueInv
  BY InitDue
<1>2. IInv /\ IInv' /\ DueInv /\ [Next]_vars => DueInv'
  BY NextDue
<1>3. IInv /\ DueInv => DueInOrder
  BY DueInvPromises
<1> QED BY <1>1, <1>2, <1>3, TimersInvariant, PTL DEF Spec

\* The timer thread never sleeps past the first timer by more than its own stall
\* (NotOverslept), unless a call that is not over is going to wake it.
THEOREM TimersNotOverslept == SpansFit => (Spec => []NotOverslept)
<1> SUFFICES ASSUME SpansFit PROVE Spec => []NotOverslept
  OBVIOUS
<1>1. Init => DueInv
  BY InitDue
<1>2. IInv /\ IInv' /\ DueInv /\ [Next]_vars => DueInv'
  BY NextDue
<1>3. IInv /\ DueInv => NotOverslept
  BY DueInvPromises
<1> QED BY <1>1, <1>2, <1>3, TimersInvariant, PTL DEF Spec

=============================================================================
