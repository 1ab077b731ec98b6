--------------------------- MODULE FatChains_proofs ---------------------------
(***************************************************************************)
(* The chains of fat.c, proved for volumes of every size, each width of    *)
(* the table, any files and stops of the machine at any write: the         *)
(* clusters of every file that no stop cut short are a chain as long as    *)
(* its size needs, no two files share one, and none is lost.               *)
(*                                                                         *)
(* Callers are careful (they avoid the stale handles of FatFiles) and a    *)
(* cluster has more than one sector; without either, TLC finds a           *)
(* counterexample.  The argument: a call has a context, the clusters of    *)
(* all other files, and keeps them wherever it stops (Safe); its own chain *)
(* is a path in the table (IsPath) that its handle is somewhere in, and    *)
(* each loop of a call goes along that path, makes it longer or shorter.   *)
(***************************************************************************)
EXTENDS FatFiles_proofs

\* Division with remainder.
LEMMA Divide ==
    ASSUME NEW x \in Int, NEW n \in Nat \ {0}
    PROVE  /\ x \div n \in Int /\ x % n \in 0 .. n - 1
           /\ x = (x \div n) * n + (x % n)
OBVIOUS

\* Quotient and remainder are unique.
LEMMA Quotient ==
    ASSUME NEW n \in Nat \ {0}, NEW q \in Int, NEW r \in 0 .. n - 1
    PROVE  (q * n + r) \div n = q /\ (q * n + r) % n = r
OBVIOUS

\* The three kinds of tables.
LEMMA Kinds ==
    ASSUME NEW type \in Types
    PROVE  \/ /\ type = 12 /\ Width(type) = 3 /\ EntryNibbles(type) = 3
              /\ EndMark(type) = 4095 /\ EmptyStart(type) = 4088 /\ NumClusters <= 4080
           \/ /\ type = 16 /\ Width(type) = 4 /\ EntryNibbles(type) = 4
              /\ EndMark(type) = 65535 /\ EmptyStart(type) = 65528 /\ NumClusters <= 65528
           \/ /\ type = 32 /\ Width(type) = 8 /\ EntryNibbles(type) = 7
              /\ EndMark(type) = 268435455 /\ EmptyStart(type) = 268435448
              /\ NumClusters <= 268435448
<1>1. type \in {12, 16, 32}
  BY FileAssumption
<1>2. NumClusters <= (IF type = 12 THEN 4080 ELSE EmptyStart(type))
  BY VolumeAssumption
<1>3. CASE type = 12
  BY <1>2, <1>3 DEF Width, EntryNibbles, EndMark, EmptyStart
<1>4. CASE type = 16
  BY <1>2, <1>4 DEF Width, EntryNibbles, EndMark, EmptyStart
<1>5. CASE type = 32
  <2>1. 16 ^ 7 = 268435456
    OBVIOUS
  <2> QED BY <1>2, <1>5, <2>1 DEF Width, EntryNibbles, EndMark, EmptyStart
<1> QED BY <1>1, <1>3, <1>4, <1>5

\* A sector of the table.
Nibbles == [0 .. SectorNibbles - 1 -> 0 .. 15]

\* A disk of a kind, with a table of nibbles.
Typed(d) == d.type \in Types /\ d.fat \in [1 .. FatSectors -> Nibbles]

\* The numbers a table has entries for: clusters, and 0 and 1.
Numbered == 0 .. NumClusters - 1

\* Nibble i of entry c: its sector, its place there.
LEMMA Places ==
    ASSUME NEW type \in Types, NEW c \in Numbered, NEW i \in 0 .. EntryNibbles(type) - 1
    PROVE  LET a == Width(type) * c + i
           IN  /\ a \in Nat /\ 1 + a \div SectorNibbles \in 1 .. FatSectors
               /\ a % SectorNibbles \in 0 .. SectorNibbles - 1
               /\ a = (a \div SectorNibbles) * SectorNibbles + (a % SectorNibbles)
<1> DEFINE W == Width(type)
           a == W * c + i
           q == a \div SectorNibbles
           r == a % SectorNibbles
           end == FatSectors * SectorNibbles
<1>1. W * NumClusters <= end /\ end \in Nat
  BY VolumeAssumption, TableAssumption, Kinds
<1> HIDE DEF end
<1>2. a \in Nat /\ a + 1 <= W * NumClusters
  <2>1. NumClusters \in Nat /\ c \in Nat /\ c + 1 <= NumClusters
    BY TableAssumption DEF Numbered
  <2> QED BY <2>1, Kinds
<1>3. a < end
  <2>1. W * NumClusters \in Int
    BY TableAssumption, Kinds
  <2> HIDE DEF a, W
  <2> QED BY <1>1, <1>2, <2>1
<1>4. q \in Int /\ r \in 0 .. SectorNibbles - 1 /\ a = q * SectorNibbles + r
  <2>1. a \in Int /\ SectorNibbles \in Nat \ {0}
    BY <1>2, TableAssumption
  <2> HIDE DEF a
  <2> QED BY <2>1, Divide
<1>5. q \in 0 .. FatSectors - 1
  <2> HIDE DEF a, q, r
  <2>1. SectorNibbles \in Nat \ {0} /\ FatSectors \in Nat
    BY TableAssumption
  <2>2. 0 <= q
    BY <1>2, <1>4, <2>1
  <2>3. q < FatSectors
    <3> SUFFICES ASSUME q >= FatSectors PROVE FALSE
      BY <1>4, <2>1
    <3>1. q * SectorNibbles >= FatSectors * SectorNibbles
      BY <1>4, <2>1
    <3> QED BY <1>3, <1>4, <2>1, <3>1 DEF end
  <2> QED BY <1>4, <2>1, <2>2, <2>3
<1> HIDE DEF q, r
<1> QED BY <1>2, <1>4, <1>5, TableAssumption, SMTT(60) DEF q, r

\* Nibbles of a typed table.
LEMMA NibbleRange ==
    ASSUME NEW d, Typed(d), NEW c \in Numbered, NEW i \in 0 .. EntryNibbles(d.type) - 1
    PROVE  Nibble(d, c, i) \in 0 .. 15
<1> DEFINE a == Width(d.type) * c + i
<1>1. 1 + a \div SectorNibbles \in 1 .. FatSectors /\ a % SectorNibbles \in 0 .. SectorNibbles - 1
  BY Places DEF Typed
<1>2. Nibble(d, c, i) = d.fat[1 + a \div SectorNibbles][a % SectorNibbles]
  BY DEF Nibble
<1> DEFINE s == 1 + a \div SectorNibbles
           k == a % SectorNibbles
<1> HIDE DEF a
<1>3. s \in 1 .. FatSectors /\ k \in 0 .. SectorNibbles - 1
  BY <1>1
<1> HIDE DEF s, k
<1>4. d.fat[s] \in Nibbles
  BY <1>3 DEF Typed
<1>5. d.fat[s][k] \in 0 .. 15
  BY <1>3, <1>4 DEF Nibbles
<1> QED BY <1>2, <1>5 DEF s, k

-------------------------------------------------------------------------------
\* An entry is a sum over its nibbles.
LEMMA EntrySum ==
    ASSUME NEW d, NEW c, EntryNibbles(d.type) \in Nat
    PROVE  \E g : /\ g[EntryNibbles(d.type)] = 0
                  /\ \A i \in 0 .. EntryNibbles(d.type) - 1 : g[i] = Nibble(d, c, i) + 16 * g[i + 1]
                  /\ Entry(d, c) = g[0]
<1> DEFINE n == EntryNibbles(d.type)
           S == {k \in Nat : \E f : \A i \in n - k .. n :
                    f[i] = IF i = n THEN 0 ELSE Nibble(d, c, i) + 16 * f[i + 1]}
<1>0. n \in Nat
  OBVIOUS
<1>1. 0 \in S
  <2> HIDE DEF n
  <2> DEFINE f == [i \in {n} |-> 0]
  <2>1. \A i \in n - 0 .. n : f[i] = IF i = n THEN 0 ELSE Nibble(d, c, i) + 16 * f[i + 1]
    BY <1>0
  <2> QED BY <2>1, Zenon
<1>2. ASSUME NEW k \in Nat, k \in S PROVE k + 1 \in S
  <2> HIDE DEF n
  <2>1. PICK f : \A i \in n - k .. n : f[i] = IF i = n THEN 0 ELSE Nibble(d, c, i) + 16 * f[i + 1]
    BY <1>2, Zenon
  <2> DEFINE j == n - (k + 1)
             g == [i \in j .. n |-> IF i = j THEN Nibble(d, c, j) + 16 * f[j + 1] ELSE f[i]]
  <2>2. ASSUME NEW i \in j .. n
        PROVE  g[i] = IF i = n THEN 0 ELSE Nibble(d, c, i) + 16 * g[i + 1]
    <3>1. CASE i = j
      <4>1. i # n /\ i + 1 \in j .. n /\ i + 1 # j
        BY <1>0, <3>1
      <4>2. g[i] = Nibble(d, c, j) + 16 * f[j + 1] /\ g[i + 1] = f[i + 1]
        BY <3>1, <4>1
      <4> HIDE DEF g
      <4> QED BY <3>1, <4>1, <4>2
    <3>2. CASE i # j
      <4>1. i \in n - k .. n /\ (i # n => i + 1 \in j .. n /\ i + 1 # j)
        BY <1>0, <3>2
      <4>2. g[i] = f[i] /\ (i # n => g[i + 1] = f[i + 1])
        BY <3>2, <4>1
      <4> HIDE DEF g
      <4> QED BY <2>1, <4>1, <4>2
    <3> QED BY <3>1, <3>2
  <2> HIDE DEF g
  <2>3. \A i \in n - (k + 1) .. n : g[i] = IF i = n THEN 0 ELSE Nibble(d, c, i) + 16 * g[i + 1]
    BY <2>2
  <2>4. \E e : \A i \in n - (k + 1) .. n :
            e[i] = IF i = n THEN 0 ELSE Nibble(d, c, i) + 16 * e[i + 1]
    BY <2>3, Zenon
  <2> QED BY <2>4
<1>3. n \in S
  <2> HIDE DEF S, n
  <2> QED BY <1>0, <1>1, <1>2, SetInduction
<1>4. \E f : f = [i \in 0 .. n |-> IF i = n THEN 0 ELSE Nibble(d, c, i) + 16 * f[i + 1]]
  <2> HIDE DEF n
  <2>1. PICK f : \A i \in n - n .. n : f[i] = IF i = n THEN 0 ELSE Nibble(d, c, i) + 16 * f[i + 1]
    BY <1>3, Zenon
  <2> DEFINE g == [i \in 0 .. n |-> f[i]]
  <2>2. ASSUME NEW i \in 0 .. n
        PROVE  g[i] = IF i = n THEN 0 ELSE Nibble(d, c, i) + 16 * g[i + 1]
    <3>1. i \in n - n .. n /\ (i # n => i + 1 \in 0 .. n)
      BY <1>0
    <3>2. g[i] = f[i] /\ (i # n => g[i + 1] = f[i + 1])
      BY <3>1
    <3> HIDE DEF g
    <3> QED BY <2>1, <3>1, <3>2
  <2>3. g = [i \in 0 .. n |-> g[i]]
    OBVIOUS
  <2> HIDE DEF g
  <2>4. g = [i \in 0 .. n |-> IF i = n THEN 0 ELSE Nibble(d, c, i) + 16 * g[i + 1]]
    BY <2>2, <2>3
  <2> QED BY <2>4
<1> DEFINE sum == CHOOSE f : f = [i \in 0 .. n |-> IF i = n THEN 0 ELSE Nibble(d, c, i) + 16 * f[i + 1]]
<1>5. sum = [i \in 0 .. n |-> IF i = n THEN 0 ELSE Nibble(d, c, i) + 16 * sum[i + 1]]
  BY <1>4, Zenon
<1>6. Entry(d, c) = sum[0]
  BY Zenon DEF Entry
<1> HIDE DEF sum
<1>7. sum[n] = 0 /\ \A i \in 0 .. n - 1 : sum[i] = Nibble(d, c, i) + 16 * sum[i + 1]
  <2> HIDE DEF n
  <2>1. \A i \in 0 .. n - 1 : i \in 0 .. n /\ i # n
    BY <1>0
  <2>2. n \in 0 .. n
    BY <1>0
  <2> QED BY <1>5, <2>1, <2>2
<1> QED BY <1>6, <1>7 DEF n

\* Up to seven nibbles.
LEMMA EntryClosed ==
    ASSUME NEW d, NEW c, Typed(d), c \in Numbered
    PROVE  /\ Entry(d, c) \in 0 .. EndMark(d.type)
           /\ d.type = 12 => Entry(d, c) = Nibble(d, c, 0) + 16 * (Nibble(d, c, 1) + 16 * Nibble(d, c, 2))
           /\ d.type = 16 => Entry(d, c) = Nibble(d, c, 0) + 16 * (Nibble(d, c, 1)
                                + 16 * (Nibble(d, c, 2) + 16 * Nibble(d, c, 3)))
           /\ d.type = 32 => Entry(d, c) = Nibble(d, c, 0) + 16 * (Nibble(d, c, 1)
                                + 16 * (Nibble(d, c, 2) + 16 * (Nibble(d, c, 3)
                                + 16 * (Nibble(d, c, 4) + 16 * (Nibble(d, c, 5) + 16 * Nibble(d, c, 6))))))
<1> DEFINE n == EntryNibbles(d.type)
           x == [i \in 0 .. 6 |-> Nibble(d, c, i)]
<1>0. d.type \in Types
  BY DEF Typed
<1>1. PICK g : /\ g[n] = 0
               /\ \A i \in 0 .. n - 1 : g[i] = Nibble(d, c, i) + 16 * g[i + 1]
               /\ Entry(d, c) = g[0]
  <2>1. n \in Nat
    BY <1>0, Kinds
  <2> QED BY <2>1, EntrySum
<1>2. \A i \in 0 .. n - 1 : Nibble(d, c, i) \in 0 .. 15
  BY NibbleRange
<1>3. \A i \in 0 .. 6 : x[i] = Nibble(d, c, i)
  OBVIOUS
<1> HIDE DEF x
<1>4. CASE d.type = 12
  <2>1. n = 3 /\ EndMark(d.type) = 4095
    BY <1>0, <1>4, Kinds
  <2>2. g[3] = 0 /\ g[2] = x[2] + 16 * g[3] /\ g[1] = x[1] + 16 * g[2] /\ g[0] = x[0] + 16 * g[1]
        /\ x[0] \in 0 .. 15 /\ x[1] \in 0 .. 15 /\ x[2] \in 0 .. 15
    BY <1>1, <1>2, <1>3, <2>1
  <2>3. g[0] = x[0] + 16 * (x[1] + 16 * x[2]) /\ g[0] \in Int /\ 0 <= g[0] /\ g[0] <= 4095
    BY <2>2, SMTT(60)
  <2>4. Entry(d, c) \in 0 .. EndMark(d.type)
    <3> DEFINE end == EndMark(d.type)
    <3>1. end \in Int /\ 0 <= g[0] /\ g[0] <= end /\ g[0] \in Int
      BY <1>0, <2>1, <2>3, SMT
    <3> HIDE DEF end
    <3>2. g[0] \in 0 .. end
      BY <3>1, SMT
    <3> QED BY <1>1, <3>2 DEF end
  <2> QED BY <1>1, <1>3, <1>4, <2>3, <2>4, SMT
<1>5. CASE d.type = 16
  <2>1. n = 4 /\ EndMark(d.type) = 65535
    BY <1>0, <1>5, Kinds
  <2>2. g[4] = 0 /\ g[3] = x[3] + 16 * g[4] /\ g[2] = x[2] + 16 * g[3] /\ g[1] = x[1] + 16 * g[2] /\ g[0] = x[0] + 16 * g[1]
        /\ x[0] \in 0 .. 15 /\ x[1] \in 0 .. 15 /\ x[2] \in 0 .. 15 /\ x[3] \in 0 .. 15
    BY <1>1, <1>2, <1>3, <2>1
  <2>3. g[0] = x[0] + 16 * (x[1] + 16 * (x[2] + 16 * x[3])) /\ g[0] \in Int /\ 0 <= g[0] /\ g[0] <= EndMark(d.type)
    <3> DEFINE a == x[0]
               b == x[1]
               u == x[2]
               v == x[3]
               y == g[0]
    <3>4. g[3] = v + 16 * 0 /\ g[2] = u + 16 * g[3] /\ g[1] = b + 16 * g[2] /\ y = a + 16 * g[1]
      BY <2>2, Zenon
    <3>2. a \in 0 .. 15 /\ b \in 0 .. 15 /\ u \in 0 .. 15 /\ v \in 0 .. 15
      BY <2>2
    <3> HIDE DEF a, b, u, v, y
    <3>5. g[3] = v
      BY <3>2, <3>4, SMT
    <3>1. y = a + 16 * (b + 16 * (u + 16 * v))
      BY <3>4, <3>5, Zenon
    <3>3. y \in Int /\ 0 <= y /\ y <= EndMark(d.type)
      BY <2>1, <3>1, <3>2, SMT
    <3> QED BY <3>1, <3>3, Zenon DEF a, b, u, v, y
  <2>4. Entry(d, c) \in 0 .. EndMark(d.type)
    <3> DEFINE end == EndMark(d.type)
    <3>1. end \in Int /\ 0 <= g[0] /\ g[0] <= end /\ g[0] \in Int
      BY <1>0, <2>1, <2>3, SMT
    <3> HIDE DEF end
    <3>2. g[0] \in 0 .. end
      BY <3>1, SMT
    <3> QED BY <1>1, <3>2 DEF end
  <2> QED BY <1>1, <1>3, <1>5, <2>3, <2>4, SMT
<1>6. CASE d.type = 32
  <2>1. n = 7 /\ EndMark(d.type) = 268435455
    BY <1>0, <1>6, Kinds
  <2>2. /\ g[7] = 0 /\ g[6] = x[6] + 16 * g[7] /\ g[5] = x[5] + 16 * g[6] /\ g[4] = x[4] + 16 * g[5]
        /\ g[3] = x[3] + 16 * g[4] /\ g[2] = x[2] + 16 * g[3] /\ g[1] = x[1] + 16 * g[2] /\ g[0] = x[0] + 16 * g[1]
        /\ x[0] \in 0 .. 15 /\ x[1] \in 0 .. 15 /\ x[2] \in 0 .. 15 /\ x[3] \in 0 .. 15
        /\ x[4] \in 0 .. 15 /\ x[5] \in 0 .. 15 /\ x[6] \in 0 .. 15
    BY <1>1, <1>2, <1>3, <2>1
  <2>3. g[0] = x[0] + 16 * (x[1] + 16 * (x[2] + 16 * (x[3] + 16 * (x[4] + 16 * (x[5] + 16 * x[6])))))
        /\ g[0] \in Int /\ 0 <= g[0] /\ g[0] <= EndMark(d.type)
    <3> DEFINE a == x[0]
               b == x[1]
               u == x[2]
               v == x[3]
               w == x[4]
               p == x[5]
               q == x[6]
               y == g[0]
    <3>1. /\ g[6] = q + 16 * 0 /\ g[5] = p + 16 * g[6] /\ g[4] = w + 16 * g[5] /\ g[3] = v + 16 * g[4]
          /\ g[2] = u + 16 * g[3] /\ g[1] = b + 16 * g[2] /\ y = a + 16 * g[1]
      BY <2>2, Zenon
    <3>2. /\ a \in 0 .. 15 /\ b \in 0 .. 15 /\ u \in 0 .. 15 /\ v \in 0 .. 15
          /\ w \in 0 .. 15 /\ p \in 0 .. 15 /\ q \in 0 .. 15
      BY <2>2, Zenon
    <3> HIDE DEF a, b, u, v, w, p, q, y
    <3>4. g[6] = q
      BY <3>1, <3>2, SMT
    <3>5. y = a + 16 * (b + 16 * (u + 16 * (v + 16 * (w + 16 * (p + 16 * q)))))
      BY <3>1, <3>4, Zenon
    <3>3. y \in Int /\ 0 <= y /\ y <= EndMark(d.type)
      BY <2>1, <3>5, <3>2, SMT
    <3> QED BY <3>5, <3>3, Zenon DEF a, b, u, v, w, p, q, y
  <2>4. Entry(d, c) \in 0 .. EndMark(d.type)
    <3> DEFINE end == EndMark(d.type)
    <3>1. end \in Int /\ 0 <= g[0] /\ g[0] <= end /\ g[0] \in Int
      BY <1>0, <2>1, <2>3, SMT
    <3> HIDE DEF end
    <3>2. g[0] \in 0 .. end
      BY <3>1, SMT
    <3> QED BY <1>1, <3>2 DEF end
  <2> QED BY <1>1, <1>3, <1>6, <2>3, <2>4, SMT
<1> QED BY <1>0, <1>4, <1>5, <1>6, Kinds

\* Entries with the same nibbles are the same.
LEMMA EntrySame ==
    ASSUME NEW d, NEW e, NEW c \in Numbered, Typed(d), Typed(e), e.type = d.type,
           \A i \in 0 .. EntryNibbles(d.type) - 1 : Nibble(e, c, i) = Nibble(d, c, i)
    PROVE  Entry(e, c) = Entry(d, c)
<1>0. d.type \in Types
  BY DEF Typed
<1>1. CASE d.type = 12
  <2>1. \A i \in 0 .. 2 : Nibble(e, c, i) = Nibble(d, c, i)
    BY <1>0, <1>1, Kinds
  <2> QED BY <1>1, <2>1, EntryClosed
<1>2. CASE d.type = 16
  <2>1. \A i \in 0 .. 3 : Nibble(e, c, i) = Nibble(d, c, i)
    BY <1>0, <1>2, Kinds
  <2> QED BY <1>2, <2>1, EntryClosed
<1>3. CASE d.type = 32
  <2>1. \A i \in 0 .. 6 : Nibble(e, c, i) = Nibble(d, c, i)
    BY <1>0, <1>3, Kinds
  <2> QED BY <1>3, <2>1, EntryClosed
<1> QED BY <1>0, <1>1, <1>2, <1>3, Kinds

\* An entry whose nibbles are those of v is v.
LEMMA EntryValue ==
    ASSUME NEW d, NEW c \in Numbered, Typed(d), NEW v \in 0 .. EndMark(d.type),
           \A i \in 0 .. EntryNibbles(d.type) - 1 : Nibble(d, c, i) = (v \div 16 ^ i) % 16
    PROVE  Entry(d, c) = v
<1>0. d.type \in Types
  BY DEF Typed
<1>1. /\ 16 ^ 0 = 1 /\ 16 ^ 1 = 16 /\ 16 ^ 2 = 256 /\ 16 ^ 3 = 4096 /\ 16 ^ 4 = 65536
      /\ 16 ^ 5 = 1048576 /\ 16 ^ 6 = 16777216
  BY SMT
<1> DEFINE x == [i \in 0 .. 6 |-> Nibble(d, c, i)]
<1>2. \A i \in 0 .. 6 : x[i] = Nibble(d, c, i)
  OBVIOUS
<1> HIDE DEF x
<1>3. CASE d.type = 12
  <2>1. EntryNibbles(d.type) = 3 /\ v \in Int /\ 0 <= v /\ v <= 4095
    BY <1>0, <1>3, Kinds
  <2>2. x[0] = (v \div 1) % 16 /\ x[1] = (v \div 16) % 16 /\ x[2] = (v \div 256) % 16
    BY <1>1, <1>2, <2>1
  <2>3. x[0] + 16 * (x[1] + 16 * x[2]) = v
    BY <2>1, <2>2
  <2> QED BY <1>2, <1>3, <2>3, EntryClosed
<1>4. CASE d.type = 16
  <2>1. EntryNibbles(d.type) = 4 /\ v \in Int /\ 0 <= v /\ v <= 65535
    BY <1>0, <1>4, Kinds
  <2>2. x[0] = (v \div 1) % 16 /\ x[1] = (v \div 16) % 16 /\ x[2] = (v \div 256) % 16 /\ x[3] = (v \div 4096) % 16
    BY <1>1, <1>2, <2>1
  <2>3. x[0] + 16 * (x[1] + 16 * (x[2] + 16 * x[3])) = v
    BY <2>1, <2>2, SMT
  <2> QED BY <1>2, <1>4, <2>3, EntryClosed, SMT
<1>5. CASE d.type = 32
  <2>1. EntryNibbles(d.type) = 7 /\ v \in Int /\ 0 <= v /\ v <= 268435455
    BY <1>0, <1>5, Kinds
  <2>2. /\ x[0] = (v \div 1) % 16 /\ x[1] = (v \div 16) % 16 /\ x[2] = (v \div 256) % 16 /\ x[3] = (v \div 4096) % 16
        /\ x[4] = (v \div 65536) % 16 /\ x[5] = (v \div 1048576) % 16 /\ x[6] = (v \div 16777216) % 16
    BY <1>1, <1>2, <2>1, SMT
  <2> DEFINE q1 == v \div 16
             q2 == v \div 256
             q3 == v \div 4096
             q4 == v \div 65536
             q5 == v \div 1048576
             q6 == v \div 16777216
  <2>3. q1 \in Nat /\ q2 = q1 \div 16 /\ q3 = q2 \div 16 /\ q4 = q3 \div 16
    BY <2>1, SMT
  <2>4. q3 \in Nat /\ q5 = q4 \div 16 /\ q6 = q5 \div 16
    BY <2>1, SMT
  <2>5. q6 <= 15
    BY <2>1, SMT
  <2>6. /\ x[0] = v % 16 /\ x[1] = q1 % 16 /\ x[2] = q2 % 16 /\ x[3] = q3 % 16
        /\ x[4] = q4 % 16 /\ x[5] = q5 % 16 /\ x[6] = q6 % 16
    BY <2>1, <2>2, SMT
  <2> DEFINE y == v
  <2>7. y \in Nat /\ q1 = y \div 16 /\ x[0] = y % 16 /\ y = v
    BY <2>1, <2>6, SMT
  <2> HIDE DEF q1, q2, q3, q4, q5, q6, y
  <2>8. q1 \in Nat /\ q2 \in Nat /\ q3 \in Nat /\ q4 \in Nat /\ q5 \in Nat /\ q6 \in Nat
    BY <2>3, <2>4, SMT
  <2>9. /\ y = 16 * q1 + x[0] /\ q1 = 16 * q2 + x[1] /\ q2 = 16 * q3 + x[2] /\ q3 = 16 * q4 + x[3]
        /\ q4 = 16 * q5 + x[4] /\ q5 = 16 * q6 + x[5] /\ q6 = x[6]
    BY <2>3, <2>4, <2>5, <2>6, <2>7, <2>8, SMTT(60)
  <2>10. x[0] + 16 * (x[1] + 16 * (x[2] + 16 * (x[3] + 16 * (x[4] + 16 * (x[5] + 16 * x[6]))))) = y
    <3> DEFINE a == x[0]
               b == x[1]
               u == x[2]
               z == x[3]
               w == x[4]
               p == x[5]
               q == x[6]
    <3>1. /\ q1 = 16 * q2 + b /\ q2 = 16 * q3 + u /\ q3 = 16 * q4 + z /\ q4 = 16 * q5 + w
          /\ q5 = 16 * q6 + p /\ q6 = q /\ y = 16 * q1 + a
      BY <2>9, Zenon
    <3>2. /\ a = y % 16 /\ b = q1 % 16 /\ u = q2 % 16 /\ z = q3 % 16 /\ w = q4 % 16 /\ p = q5 % 16
      BY <2>6, <2>7, Zenon
    <3> HIDE DEF a, b, u, z, w, p, q
    <3>3. a \in Nat /\ b \in Nat /\ u \in Nat /\ z \in Nat /\ w \in Nat /\ p \in Nat /\ q \in Nat
      BY <3>1, <3>2, <2>7, <2>8, SMT
    <3>4. a + 16 * (b + 16 * (u + 16 * (z + 16 * (w + 16 * (p + 16 * q))))) = y
      BY <3>1, <3>3, <2>8, <2>7, SMT
    <3> QED BY <3>4, Zenon DEF a, b, u, z, w, p, q
  <2> QED BY <1>2, <1>5, <2>7, <2>10, EntryClosed, SMT
<1> QED BY <1>0, <1>3, <1>4, <1>5, Kinds

-------------------------------------------------------------------------------
\* The part of the entry of c that lies in sector s is set to v.
Put(d, s, c, v) == [d EXCEPT !.fat[s] = PutEntry(d, d.fat[s], s, c, v)]

\* Any nibble is one.
LEMMA DigitRange ==
    ASSUME NEW type \in Types, NEW v \in 0 .. EndMark(type), NEW i \in 0 .. EntryNibbles(type) - 1
    PROVE  (v \div 16 ^ i) % 16 \in 0 .. 15
<1>1. EntryNibbles(type) \in 3 .. 7 /\ EndMark(type) \in Nat
  BY Kinds
<1> DEFINE e == EndMark(type)
           p == 16 ^ i
<1>2. p \in Nat \ {0}
  <2>1. i \in 0 .. 6
    BY <1>1
  <2>2. /\ 16 ^ 0 = 1 /\ 16 ^ 1 = 16 /\ 16 ^ 2 = 256 /\ 16 ^ 3 = 4096 /\ 16 ^ 4 = 65536
        /\ 16 ^ 5 = 1048576 /\ 16 ^ 6 = 16777216
    BY SMT
  <2>3. i = 0 \/ i = 1 \/ i = 2 \/ i = 3 \/ i = 4 \/ i = 5 \/ i = 6
    BY <2>1
  <2>4. ASSUME i = 0 PROVE p \in Nat \ {0}
    BY <2>2, <2>4, SMT
  <2>5. ASSUME i = 1 PROVE p \in Nat \ {0}
    BY <2>2, <2>5, SMT
  <2>6. ASSUME i = 2 PROVE p \in Nat \ {0}
    BY <2>2, <2>6, SMT
  <2>7. ASSUME i = 3 PROVE p \in Nat \ {0}
    BY <2>2, <2>7, SMT
  <2>8. ASSUME i = 4 PROVE p \in Nat \ {0}
    BY <2>2, <2>8, SMT
  <2>9. ASSUME i = 5 PROVE p \in Nat \ {0}
    BY <2>2, <2>9, SMT
  <2>10. ASSUME i = 6 PROVE p \in Nat \ {0}
    BY <2>2, <2>10, SMT
  <2> QED BY <2>3, <2>4, <2>5, <2>6, <2>7, <2>8, <2>9, <2>10, Zenon
<1>3. e \in Nat /\ v \in 0 .. e
  BY <1>1
<1> HIDE DEF e, p
<1> QED BY <1>2, <1>3

\* WriteFatEntry on the table of a typed disk: nothing but one sector of the table changes.
LEMMA PutTyped ==
    ASSUME NEW d, DiskFields(d), Typed(d), NEW s \in 1 .. FatSectors, NEW c \in Numbered,
           NEW v \in 0 .. EndMark(d.type)
    PROVE  LET e == Put(d, s, c, v)
           IN  /\ DiskFields(e) /\ Typed(e) /\ e.type = d.type /\ e.info = d.info
               /\ e.data = d.data /\ e.dir = d.dir
               /\ \A k \in 1 .. FatSectors : k # s => e.fat[k] = d.fat[k]
               /\ e.fat[s] = PutEntry(d, d.fat[s], s, c, v)
<1> DEFINE x == PutEntry(d, d.fat[s], s, c, v)
           e == [d EXCEPT !.fat[s] = x]
<1>1. x \in Nibbles
  <2>1. d.fat[s] \in Nibbles
    BY DEF Typed
  <2>2. ASSUME NEW k \in 0 .. SectorNibbles - 1
        PROVE  LET i == (s - 1) * SectorNibbles + k - Width(d.type) * c
               IN  (IF i \in 0 .. EntryNibbles(d.type) - 1 THEN (v \div 16 ^ i) % 16 ELSE d.fat[s][k]) \in 0 .. 15
    <3> DEFINE i == (s - 1) * SectorNibbles + k - Width(d.type) * c
               en == EntryNibbles(d.type) - 1
    <3>1. d.fat[s][k] \in 0 .. 15
      BY <2>1 DEF Nibbles
    <3>2. i \in 0 .. en => (v \div 16 ^ i) % 16 \in 0 .. 15
      BY DigitRange DEF Typed
    <3> HIDE DEF i, en
    <3>3. (IF i \in 0 .. en THEN (v \div 16 ^ i) % 16 ELSE d.fat[s][k]) \in 0 .. 15
      BY <3>1, <3>2, Zenon
    <3> QED BY <3>3 DEF i, en
  <2>3. x = [k \in 0 .. SectorNibbles - 1 |->
        LET i == (s - 1) * SectorNibbles + k - Width(d.type) * c
        IN  IF i \in 0 .. EntryNibbles(d.type) - 1 THEN (v \div 16 ^ i) % 16 ELSE d.fat[s][k]]
    BY Zenon DEF PutEntry
  <2> HIDE DEF x
  <2> QED BY <2>2, <2>3, Zenon DEF Nibbles
<1> HIDE DEF x
<1>2. DiskFields(e)
  BY DiskChanges
<1>3. e.type = d.type /\ e.info = d.info /\ e.data = d.data /\ e.dir = d.dir
      /\ e.fat = [d.fat EXCEPT ![s] = x]
  BY DEF DiskFields
<1>4. e.fat \in [1 .. FatSectors -> Nibbles]
  BY <1>1, <1>3 DEF Typed
<1>5. Typed(e)
  BY <1>3, <1>4 DEF Typed
<1>6. e.fat[s] = x /\ \A k \in 1 .. FatSectors : k # s => e.fat[k] = d.fat[k]
  BY <1>3 DEF Typed
<1>7. Put(d, s, c, v) = e
  BY Zenon DEF Put, x
<1> HIDE DEF e
<1> QED BY <1>2, <1>3, <1>5, <1>6, <1>7 DEF x

\* The nibbles after it.
LEMMA PutNibble ==
    ASSUME NEW d, DiskFields(d), Typed(d), NEW s \in 1 .. FatSectors, NEW c \in Numbered,
           NEW v \in 0 .. EndMark(d.type), NEW b \in Numbered, NEW j \in 0 .. EntryNibbles(d.type) - 1
    PROVE  LET a == Width(d.type) * b + j
               i == a - Width(d.type) * c
           IN  Nibble(Put(d, s, c, v), b, j) =
                   IF 1 + a \div SectorNibbles = s /\ i \in 0 .. EntryNibbles(d.type) - 1
                   THEN (v \div 16 ^ i) % 16 ELSE Nibble(d, b, j)
<1> DEFINE W == Width(d.type)
           en == EntryNibbles(d.type) - 1
           a == W * b + j
           i == a - W * c
           q == 1 + a \div SectorNibbles
           k == a % SectorNibbles
           e == Put(d, s, c, v)
<1>1. /\ a \in Nat /\ q \in 1 .. FatSectors /\ k \in 0 .. SectorNibbles - 1
      /\ a = (a \div SectorNibbles) * SectorNibbles + k
  BY Places DEF Typed
<1>2. /\ e.type = d.type
      /\ \A n \in 1 .. FatSectors : n # s => e.fat[n] = d.fat[n]
      /\ e.fat[s] = PutEntry(d, d.fat[s], s, c, v)
  BY PutTyped
<1>3. Nibble(e, b, j) = e.fat[q][k] /\ Nibble(d, b, j) = d.fat[q][k]
  BY <1>2 DEF Nibble
<1>4. e.fat[s][k] = LET n == (s - 1) * SectorNibbles + k - W * c
                    IN IF n \in 0 .. en THEN (v \div 16 ^ n) % 16 ELSE d.fat[s][k]
  <2> HIDE DEF k
  <2> QED BY <1>1, <1>2 DEF PutEntry
<1>5. q = s => (s - 1) * SectorNibbles + k - W * c = i
  <2> DEFINE x == a \div SectorNibbles
             y == x * SectorNibbles
             z == W * c
  <2>1. x \in Int /\ a = y + k /\ q = 1 + x /\ i = a - z
    BY <1>1, TableAssumption
  <2>2. k \in Int /\ y \in Int /\ z \in Int /\ s - 1 \in Int
    <3>1. W \in Int /\ c \in Int /\ SectorNibbles \in Int
      BY Kinds, TableAssumption DEF Numbered, Typed
    <3> HIDE DEF x, W, k
    <3> QED BY <1>1, <2>1, <3>1
  <2> HIDE DEF a, k, q, i
  <2>3. q = s => (s - 1) * SectorNibbles = y
    <3> HIDE DEF x
    <3>1. q = s => s - 1 = x
      BY <2>1, <2>2
    <3> QED BY <3>1, Zenon
  <2> HIDE DEF x, y, z
  <2>4. q = s => (s - 1) * SectorNibbles + k - z = i
    BY <2>1, <2>2, <2>3
  <2> QED BY <2>4 DEF z
<1> HIDE DEF e, q, k, en
<1>6. CASE q = s
  <2> DEFINE n == (s - 1) * SectorNibbles + k - W * c
  <2>1. n = i
    BY <1>5, <1>6
  <2>2. e.fat[s][k] = IF n \in 0 .. en THEN (v \div 16 ^ n) % 16 ELSE d.fat[s][k]
    BY <1>4, Zenon
  <2> HIDE DEF n, i
  <2>3. Nibble(e, b, j) = IF i \in 0 .. en THEN (v \div 16 ^ i) % 16 ELSE Nibble(d, b, j)
    BY <1>3, <1>6, <2>1, <2>2, Zenon
  <2> QED BY <1>6, <2>3, Zenon DEF e, q, en, i
<1>7. CASE q # s
  <2>1. Nibble(e, b, j) = Nibble(d, b, j)
    BY <1>1, <1>2, <1>3, <1>7, Zenon
  <2> QED BY <1>7, <2>1, Zenon DEF e, q
<1> QED BY <1>6, <1>7, Zenon

\* In particular those of the entry itself.
LEMMA PutOwn ==
    ASSUME NEW d, DiskFields(d), Typed(d), NEW s \in 1 .. FatSectors, NEW c \in Numbered,
           NEW v \in 0 .. EndMark(d.type), NEW j \in 0 .. EntryNibbles(d.type) - 1
    PROVE  Nibble(Put(d, s, c, v), c, j) =
               IF 1 + (Width(d.type) * c + j) \div SectorNibbles = s
               THEN (v \div 16 ^ j) % 16 ELSE Nibble(d, c, j)
<1> DEFINE W == Width(d.type)
           a == W * c + j
           i == a - W * c
           q == 1 + a \div SectorNibbles
           e == Put(d, s, c, v)
           en == EntryNibbles(d.type) - 1
<1>1. i = j
  BY Kinds, TableAssumption DEF Numbered, Typed
<1>2. Nibble(e, c, j) = IF q = s /\ i \in 0 .. en THEN (v \div 16 ^ i) % 16 ELSE Nibble(d, c, j)
  BY PutNibble
<1>3. j \in 0 .. en
  OBVIOUS
<1> HIDE DEF i, q, e, en
<1>4. Nibble(e, c, j) = IF q = s THEN (v \div 16 ^ j) % 16 ELSE Nibble(d, c, j)
  BY <1>1, <1>2, <1>3, Zenon
<1> QED BY <1>4, Zenon DEF e, q

\* No other entry changes.
LEMMA PutOther ==
    ASSUME NEW d, DiskFields(d), Typed(d), NEW s \in 1 .. FatSectors, NEW c \in Numbered,
           NEW v \in 0 .. EndMark(d.type), NEW b \in Numbered, b # c
    PROVE  Entry(Put(d, s, c, v), b) = Entry(d, b)
<1> DEFINE e == Put(d, s, c, v)
<1>1. Typed(e) /\ e.type = d.type
  BY PutTyped
<1>2. ASSUME NEW j \in 0 .. EntryNibbles(d.type) - 1
      PROVE  Nibble(e, b, j) = Nibble(d, b, j)
  <2> DEFINE W == Width(d.type)
             a == W * b + j
             i == a - W * c
             q == 1 + a \div SectorNibbles
  <2>1. ~(i \in 0 .. EntryNibbles(d.type) - 1)
    <3>1. b \in Int /\ c \in Int
      BY TableAssumption DEF Numbered
    <3>2. d.type \in Types
      BY DEF Typed
    <3> QED BY <3>1, <3>2, Kinds
  <2>2. Nibble(e, b, j) = IF q = s /\ i \in 0 .. EntryNibbles(d.type) - 1
                   THEN (v \div 16 ^ i) % 16 ELSE Nibble(d, b, j)
    BY PutNibble
  <2> HIDE DEF i, q
  <2> QED BY <2>1, <2>2, Zenon
<1> HIDE DEF e
<1>3. Entry(e, b) = Entry(d, b)
  BY <1>1, <1>2, EntrySame
<1> QED BY <1>3 DEF e

\* An entry lies in the sector of its first nibble and that of its last, which is the
\* same or the next.
LEMMA Sectors ==
    ASSUME NEW d, d.type \in Types, NEW c \in Numbered
    PROVE  /\ FirstSector(d, c) \in 1 .. FatSectors /\ LastSector(d, c) \in 1 .. FatSectors
           /\ \A j \in 0 .. EntryNibbles(d.type) - 1 :
                LET q == 1 + (Width(d.type) * c + j) \div SectorNibbles
                IN  q = FirstSector(d, c) \/ q = LastSector(d, c)
<1> DEFINE W == Width(d.type)
           en == EntryNibbles(d.type) - 1
<1>1. en \in 2 .. 6 /\ W \in Nat
  BY Kinds
<1>2. FirstSector(d, c) = 1 + (W * c + 0) \div SectorNibbles
  <2>1. W * c + 0 = W * c
    BY <1>1, TableAssumption DEF Numbered
  <2> QED BY <2>1 DEF FirstSector
<1>3. LastSector(d, c) = 1 + (W * c + en) \div SectorNibbles
  <2>1. W * c + EntryNibbles(d.type) - 1 = W * c + en
    BY Kinds, TableAssumption DEF Numbered
  <2> QED BY <2>1 DEF LastSector
<1>4. \A j \in 0 .. en : 1 + (W * c + j) \div SectorNibbles \in 1 .. FatSectors
  BY Places
<1> HIDE DEF W, en
<1>5. 0 \in 0 .. en /\ en \in 0 .. en
  BY <1>1
<1>6. ASSUME NEW j \in 0 .. en
      PROVE  LET q == 1 + (W * c + j) \div SectorNibbles
             IN  q = FirstSector(d, c) \/ q = LastSector(d, c)
  <2> DEFINE a == W * c
             n == SectorNibbles
             u == (a + 0) \div n
             x == (a + j) \div n
             z == (a + en) \div n
  <2>1. a \in Nat /\ n \in Nat /\ n >= 8 /\ j \in 0 .. en
    BY <1>1, TableAssumption DEF Numbered
  <2> HIDE DEF a, n
  <2>2. /\ u \in Int /\ x \in Int /\ z \in Int
        /\ a + 0 = u * n + ((a + 0) % n) /\ (a + 0) % n \in 0 .. n - 1
        /\ a + j = x * n + ((a + j) % n) /\ (a + j) % n \in 0 .. n - 1
        /\ a + en = z * n + ((a + en) % n) /\ (a + en) % n \in 0 .. n - 1
    <3>1. n \in Nat \ {0} /\ a + 0 \in Int /\ a + j \in Int /\ a + en \in Int
      BY <1>1, <2>1
    <3> QED BY <3>1, Divide
  <2> DEFINE r0 == (a + 0) % n
             r1 == (a + j) % n
             r2 == (a + en) % n
  <2>3. /\ a = u * n + r0 /\ r0 \in 0 .. n - 1
        /\ a + j = x * n + r1 /\ r1 \in 0 .. n - 1
        /\ a + en = z * n + r2 /\ r2 \in 0 .. n - 1
        /\ u \in Int /\ x \in Int /\ z \in Int
    BY <2>1, <2>2
  <2> HIDE DEF u, x, z, r0, r1, r2
  <2>4. u <= x /\ x <= z /\ z <= u + 1
    <3>1. u <= x
      <4> SUFFICES ASSUME x + 1 <= u PROVE FALSE
        BY <2>3
      <4>1. (x + 1) * n <= u * n
        BY <2>1, <2>3
      <4> QED BY <2>1, <2>3, <4>1
    <3>2. x <= z
      <4> SUFFICES ASSUME z + 1 <= x PROVE FALSE
        BY <2>3
      <4>1. (z + 1) * n <= x * n
        BY <2>1, <2>3
      <4> QED BY <1>1, <2>1, <2>3, <4>1
    <3>3. z <= u + 1
      <4> SUFFICES ASSUME u + 2 <= z PROVE FALSE
        BY <2>3
      <4>1. (u + 2) * n <= z * n
        BY <2>1, <2>3
      <4> QED BY <1>1, <2>1, <2>3, <4>1
    <3> QED BY <3>1, <3>2, <3>3
  <2>5. x = u \/ x = z
    BY <2>3, <2>4
  <2>6. FirstSector(d, c) = 1 + u /\ LastSector(d, c) = 1 + z /\ 1 + (W * c + j) \div SectorNibbles = 1 + x
    BY <1>2, <1>3 DEF u, x, z, a, n
  <2> QED BY <2>5, <2>6
<1> QED BY <1>2, <1>3, <1>4, <1>5, <1>6 DEF W, en

\* Both parts written, the entry is v.
LEMMA PutBoth ==
    ASSUME NEW d, DiskFields(d), Typed(d), NEW c \in Numbered, NEW v \in 0 .. EndMark(d.type)
    PROVE  LET s == FirstSector(d, c)
               t == LastSector(d, c)
               e == Put(d, s, c, v)
           IN  Entry(IF t = s THEN e ELSE Put(e, t, c, v), c) = v
<1> DEFINE s == FirstSector(d, c)
           t == LastSector(d, c)
           e == Put(d, s, c, v)
           g == Put(e, t, c, v)
           W == Width(d.type)
           en == EntryNibbles(d.type) - 1
<1>0. d.type \in Types
  BY DEF Typed
<1>1. /\ s \in 1 .. FatSectors /\ t \in 1 .. FatSectors
      /\ \A j \in 0 .. en : LET q == 1 + (W * c + j) \div SectorNibbles IN q = s \/ q = t
  BY <1>0, Sectors
<1> HIDE DEF s, t
<1>2. DiskFields(e) /\ Typed(e) /\ e.type = d.type
  BY <1>1, PutTyped
<1>3. ASSUME NEW j \in 0 .. en
      PROVE  Nibble(e, c, j) = IF 1 + (W * c + j) \div SectorNibbles = s THEN (v \div 16 ^ j) % 16 ELSE Nibble(d, c, j)
  <2>1. s \in 1 .. FatSectors
    BY <1>1
  <2> QED BY <2>1, PutOwn, ZenonT(60)
<1> HIDE DEF e
<1>4. DiskFields(g) /\ Typed(g) /\ g.type = d.type
  BY <1>1, <1>2, PutTyped
<1>5. ASSUME NEW j \in 0 .. en
      PROVE  Nibble(g, c, j) = IF 1 + (W * c + j) \div SectorNibbles = t THEN (v \div 16 ^ j) % 16 ELSE Nibble(e, c, j)
  <2>1. t \in 1 .. FatSectors /\ v \in 0 .. EndMark(e.type) /\ j \in 0 .. EntryNibbles(e.type) - 1
    BY <1>1, <1>2
  <2>2. Nibble(Put(e, t, c, v), c, j) = IF 1 + (Width(e.type) * c + j) \div SectorNibbles = t
            THEN (v \div 16 ^ j) % 16 ELSE Nibble(e, c, j)
    <3> HIDE DEF en
    <3> QED BY <2>1, <1>2, PutOwn, ZenonT(60)
  <2> QED BY <2>2, <1>2, Zenon
<1> HIDE DEF g
<1>6. CASE t = s
  <2>1. \A j \in 0 .. en : Nibble(e, c, j) = (v \div 16 ^ j) % 16
    BY <1>1, <1>3, <1>6, Zenon
  <2>2. Entry(e, c) = v
    BY <1>2, <2>1, EntryValue
  <2> QED BY <1>6, <2>2, Zenon DEF s, t, e
<1>7. CASE t # s
  <2>1. \A j \in 0 .. en : Nibble(g, c, j) = (v \div 16 ^ j) % 16
    BY <1>1, <1>3, <1>5, <1>7, Zenon
  <2>2. Entry(g, c) = v
    BY <1>4, <2>1, EntryValue
  <2> QED BY <1>7, <2>2, Zenon DEF s, t, e, g
<1> QED BY <1>6, <1>7, Zenon

-------------------------------------------------------------------------------
\* The table as a function on the clusters.
Links(d) == [c \in Numbered |-> Entry(d, c)]

\* A call on the file x.f begins with the disk x.d: the clusters x.rest are not to be
\* touched, and x.damaged are the files calls on which were cut short.
Context(x) ==
    /\ x.f \in File /\ DiskFields(x.d) /\ Typed(x.d)
    /\ 0 \in x.rest /\ 1 \in x.rest /\ x.rest \subseteq Numbered
    /\ \A c \in x.rest : Links(x.d)[c] # 0

\* A disk on which all but x.f is as it was.
Keeps(x, e) ==
    /\ DiskFields(e) /\ Typed(e) /\ e.type = x.d.type
    /\ e.info \in [free : Int, last : Nat]
    /\ \A g \in File : g # x.f => e.dir[g] = x.d.dir[g]
    /\ \A c \in x.rest : Links(e)[c] = Links(x.d)[c]
    /\ e.dir[x.f].start \in -1 .. NumClusters - 1
    /\ e.dir[x.f].size \in 0 .. MaxSize

\* What the cache holds is a sector of the table.
CachePlaced(c) == c = NoCache \/ c.sector \in 1 .. FatSectors

\* Wherever the machine stops.
Safe(x, m) ==
    /\ Whole(m) /\ CachePlaced(m.cached)
    /\ \A i \in 1 .. Len(m.img) : Keeps(x, m.img[i])

\* A call in order has written a disk on which the other files are kept.
LEMMA SafeDisk ==
    ASSUME NEW x, NEW m, Safe(x, m)
    PROVE  Keeps(x, Disk(m)) /\ Whole(m)
<1>1. Disk(m) = m.img[Len(m.img)] /\ Len(m.img) \in 1 .. Len(m.img)
  BY DiskIs DEF Safe, Whole
<1> QED BY <1>1, Zenon DEF Safe

\* What neither writes nor touches the cache stays in order.
LEMMA SafeSame ==
    ASSUME NEW x, NEW m, Safe(x, m), NEW n, SameDisk(m, n)
    PROVE  Safe(x, n) /\ Disk(n) = Disk(m)
<1>1. Whole(n)
  BY SameWhole DEF Safe
<1> QED BY <1>1 DEF Safe, SameDisk, Disk

\* A write that keeps the other files stays in order, wherever the machine stops.
LEMMA SafeWrite ==
    ASSUME NEW x, NEW m, Safe(x, m), NEW d, Keeps(x, d)
    PROVE  LET n == fatWriteLogical(m, d)
           IN  /\ Safe(x, n) /\ Wrote(m, n) /\ IF m.panic THEN n = m ELSE Disk(n) = d
<1> DEFINE n == fatWriteLogical(m, d)
<1>0. DiskFields(d) /\ Fields(m) /\ Images(m.img) /\ Whole(m)
  BY DEF Keeps, Safe, Whole
<1>1. /\ Whole(n) /\ Wrote(m, n)
      /\ IF m.panic THEN n = m
         ELSE n.img = Append(m.img, d) /\ Disk(n) = d /\ n.cached = NoCache
  BY <1>0, WriteLogical, WriteWhole DEF Wrote
<1> HIDE DEF n
<1>2. CASE m.panic
  BY <1>1, <1>2, Zenon DEF n, Safe
<1>3. CASE ~m.panic
  <2>1. /\ Len(n.img) = Len(m.img) + 1 /\ n.img[Len(n.img)] = d /\ Len(m.img) \in Nat
        /\ \A i \in 1 .. Len(m.img) : n.img[i] = m.img[i]
    <3>1. /\ Len(Append(m.img, d)) = Len(m.img) + 1 /\ Last(Append(m.img, d)) = d
          /\ \A i \in 1 .. Len(m.img) : Append(m.img, d)[i] = m.img[i]
      BY <1>0, OneImage
    <3>2. n.img = Append(m.img, d)
      BY <1>1, <1>3
    <3> QED BY <1>0, <3>1, <3>2 DEF Last, Images
  <2>2. \A i \in 1 .. Len(n.img) : Keeps(x, n.img[i])
    <3> TAKE i \in 1 .. Len(n.img)
    <3>1. CASE i = Len(n.img)
      BY <2>1, <3>1, Zenon
    <3>2. CASE i # Len(n.img)
      <4>1. i \in 1 .. Len(m.img)
        BY <2>1, <3>2
      <4> QED BY <2>1, <4>1, Zenon DEF Safe
    <3> QED BY <3>1, <3>2
  <2> QED BY <1>1, <1>3, <2>2, Zenon DEF Safe, CachePlaced, n
<1> QED BY <1>2, <1>3

\* The table is a function from the clusters.
LEMMA LinksAre ==
    ASSUME NEW d, Typed(d)
    PROVE  Links(d) \in [Numbered -> 0 .. EndMark(d.type)]
<1>1. \A c \in Numbered : Entry(d, c) \in 0 .. EndMark(d.type)
  BY EntryClosed
<1> DEFINE S == 0 .. EndMark(d.type)
<1> HIDE DEF S
<1>2. \A c \in Numbered : Entry(d, c) \in S
  BY <1>1 DEF S
<1> QED BY <1>2 DEF Links, S

\* A part of an entry.
LEMMA PutKeeps ==
    ASSUME NEW x, Context(x), NEW d, Keeps(x, d), NEW s \in 1 .. FatSectors,
           NEW c \in Numbered \ x.rest, NEW v \in 0 .. EndMark(d.type)
    PROVE  /\ Keeps(x, Put(d, s, c, v))
           /\ Put(d, s, c, v).info = d.info /\ Put(d, s, c, v).dir = d.dir
           /\ \A b \in Numbered : b # c => Links(Put(d, s, c, v))[b] = Links(d)[b]
<1> DEFINE e == Put(d, s, c, v)
<1>0. DiskFields(d) /\ Typed(d) /\ c \in Numbered
  BY DEF Keeps
<1>1. DiskFields(e) /\ Typed(e) /\ e.type = d.type /\ e.info = d.info /\ e.dir = d.dir
  BY <1>0, PutTyped
<1>2. \A b \in Numbered : b # c => Entry(e, b) = Entry(d, b)
  BY <1>0, PutOther
<1> HIDE DEF e
<1>3. \A b \in Numbered : b # c => Links(e)[b] = Links(d)[b]
  BY <1>2 DEF Links
<1>4. \A b \in x.rest : Links(e)[b] = Links(x.d)[b]
  <2>1. \A b \in x.rest : b \in Numbered /\ b # c
    BY DEF Context
  <2> QED BY <1>3, <2>1, Zenon DEF Keeps
<1>5. Keeps(x, e)
  BY <1>1, <1>4, Zenon DEF Keeps
<1> QED BY <1>1, <1>3, <1>5 DEF e

\* The new disk after one and after both parts of an entry.
LEMMA BothPut ==
    ASSUME NEW d, DiskFields(d), Typed(d), NEW c \in Numbered, NEW v \in 0 .. EndMark(d.type)
    PROVE  LET s == FirstSector(d, c)
               t == LastSector(d, c)
               e == Put(d, s, c, v)
               g == IF t = s THEN e ELSE Put(e, t, c, v)
           IN  Links(g) = [Links(d) EXCEPT ![c] = v]
<1> DEFINE s == FirstSector(d, c)
           t == LastSector(d, c)
           e == Put(d, s, c, v)
           g == IF t = s THEN e ELSE Put(e, t, c, v)
<1>1. Entry(g, c) = v
  BY PutBoth
<1>2. s \in 1 .. FatSectors /\ t \in 1 .. FatSectors
  BY Sectors DEF Typed
<1> HIDE DEF s, t
<1>3. DiskFields(e) /\ Typed(e) /\ e.type = d.type
  BY <1>2, PutTyped
<1>4. \A b \in Numbered : b # c => Entry(e, b) = Entry(d, b)
  BY <1>2, PutOther
<1> HIDE DEF e
<1>5. \A b \in Numbered : b # c => Entry(Put(e, t, c, v), b) = Entry(e, b)
  <2>1. v \in 0 .. EndMark(e.type)
    BY <1>3
  <2> QED BY <1>2, <1>3, <2>1, PutOther
<1>6. \A b \in Numbered : b # c => Entry(g, b) = Entry(d, b)
  BY <1>4, <1>5, Zenon
<1> HIDE DEF g
<1>7. Links(g) = [Links(d) EXCEPT ![c] = v]
  BY <1>1, <1>6 DEF Links
<1> QED BY <1>7, Zenon DEF s, t, e, g

\* WriteEntry writes one entry, whatever the width and wherever it lies.
LEMMA LinkWritten ==
    ASSUME NEW x, Context(x), NEW m, Safe(x, m), ~m.panic,
           NEW c \in Numbered \ x.rest, NEW v \in 0 .. EndMark(x.d.type)
    PROVE  LET n == WriteEntry(m, c, v)
           IN  /\ Safe(x, n) /\ Wrote(m, n)
               /\ Links(Disk(n)) = [Links(Disk(m)) EXCEPT ![c] = v]
               /\ Disk(n).info = Disk(m).info /\ Disk(n).dir = Disk(m).dir
<1> DEFINE d == Disk(m)
           s == FirstSector(d, c)
           t == LastSector(d, c)
           e == Put(d, s, c, v)
           g == Put(e, t, c, v)
           first == WriteFat(m, s, PutEntry(d, d.fat[s], s, c, v))
           second == WriteFat(first, t, PutEntry(d, d.fat[t], t, c, v))
<1>0. Keeps(x, d) /\ DiskFields(d) /\ Typed(d) /\ d.type = x.d.type /\ c \in Numbered
      /\ v \in 0 .. EndMark(d.type)
  BY SafeDisk DEF Keeps
<1>1. s \in 1 .. FatSectors /\ t \in 1 .. FatSectors
  BY <1>0, Sectors DEF Typed
<1>2. Links(IF t = s THEN e ELSE g) = [Links(d) EXCEPT ![c] = v]
  BY <1>0, BothPut, Zenon
<1>3. /\ Keeps(x, e) /\ e.info = d.info /\ e.dir = d.dir
  <2> HIDE DEF s, d
  <2> QED BY <1>0, <1>1, PutKeeps
<1>4. e.type = d.type /\ (t # s => e.fat[t] = d.fat[t])
  <2>1. /\ e.type = d.type /\ \A k \in 1 .. FatSectors : k # s => e.fat[k] = d.fat[k]
    <3> HIDE DEF s, d
    <3> QED BY <1>0, <1>1, PutTyped
  <2> QED BY <1>1, <2>1
<1>5. Keeps(x, g) /\ g.info = d.info /\ g.dir = d.dir
  <2>1. v \in 0 .. EndMark(e.type)
    BY <1>0, <1>4
  <2> HIDE DEF t, e
  <2>2. Keeps(x, g) /\ g.info = e.info /\ g.dir = e.dir
    BY <1>1, <1>3, <2>1, PutKeeps
  <2> QED BY <1>3, <2>2
<1>6. first = fatWriteLogical(m, e)
  BY Zenon DEF WriteFat, Put
<1>7. Safe(x, first) /\ Wrote(m, first) /\ Disk(first) = e /\ ~first.panic
  <2> HIDE DEF e
  <2>1. LET n == fatWriteLogical(m, e)
        IN  Safe(x, n) /\ Wrote(m, n) /\ IF m.panic THEN n = m ELSE Disk(n) = e
    BY <1>3, SafeWrite
  <2> HIDE DEF first
  <2> QED BY <1>6, <2>1 DEF Wrote
<1>8. WriteEntry(m, c, v) = IF t = s THEN first ELSE second
  BY Zenon DEF WriteEntry
<1>9. CASE t = s
  <2> DEFINE n == WriteEntry(m, c, v)
  <2>1. n = first
    BY <1>8, <1>9, Zenon
  <2>2. Links(e) = [Links(d) EXCEPT ![c] = v]
    BY <1>2, <1>9, Zenon
  <2> HIDE DEF n, first, e, d
  <2>3. Safe(x, n) /\ Wrote(m, n) /\ Links(Disk(n)) = [Links(d) EXCEPT ![c] = v]
        /\ Disk(n).info = d.info /\ Disk(n).dir = d.dir
    BY <1>3, <1>7, <2>1, <2>2, Zenon
  <2> QED BY <2>3, Zenon DEF n, d
<1>10. CASE t # s
  <2>1. second = fatWriteLogical(first, g)
    <3>1. PutEntry(d, d.fat[t], t, c, v) = PutEntry(e, e.fat[t], t, c, v)
      <4>1. e.fat[t] = d.fat[t] /\ e.type = d.type
        BY <1>4, <1>10
      <4> HIDE DEF e, d, t
      <4> QED BY <4>1, Zenon DEF PutEntry
    <3> HIDE DEF first, e, d, t
    <3> QED BY <1>7, <3>1, Zenon DEF WriteFat, Put
  <2>2. LET n == fatWriteLogical(first, g)
        IN  Safe(x, n) /\ Wrote(first, n) /\ IF first.panic THEN n = first ELSE Disk(n) = g
    <3> HIDE DEF first, g
    <3> QED BY <1>5, <1>7, SafeWrite
  <2> DEFINE n == WriteEntry(m, c, v)
  <2>3. n = second
    BY <1>8, <1>10, Zenon
  <2>4. Links(g) = [Links(d) EXCEPT ![c] = v]
    BY <1>2, <1>10, Zenon
  <2> HIDE DEF n, first, second, g, d
  <2>5. Safe(x, n) /\ Wrote(m, n) /\ Links(Disk(n)) = [Links(d) EXCEPT ![c] = v]
        /\ Disk(n).info = d.info /\ Disk(n).dir = d.dir
    BY <1>5, <1>7, <2>1, <2>2, <2>3, <2>4, Zenon DEF Wrote
  <2> QED BY <2>5, Zenon DEF n, d
<1> QED BY <1>9, <1>10

-------------------------------------------------------------------------------
\* Writes that leave the table: FSInfo, an entry of the directory, a sector of data.
LEMMA InfoWritten ==
    ASSUME NEW x, NEW m, Safe(x, m), ~m.panic, NEW delta \in Int, NEW last \in Nat
    PROVE  LET n == WriteInfo(m, delta, last)
           IN  /\ Safe(x, n) /\ Wrote(m, n)
               /\ Links(Disk(n)) = Links(Disk(m)) /\ Disk(n).dir = Disk(m).dir
               /\ Disk(n).info.free = IF Disk(m).info.free = Unknown THEN Unknown
                                      ELSE Disk(m).info.free + delta
<1> DEFINE d == Disk(m)
           free == IF d.info.free = Unknown THEN Unknown ELSE d.info.free + delta
           info == [free |-> free, last |-> last]
           e == [d EXCEPT !.info = info]
           n == fatWriteLogical(m, e)
<1>1. Keeps(x, d)
  BY SafeDisk
<1>2. info \in [free : Int, last : Nat] /\ info.free = free
  BY <1>1 DEF Keeps, Unknown
<1> HIDE DEF d, info
<1>3. DiskFields(e)
  BY <1>1, DiskChanges DEF Keeps
<1>4. e.type = d.type /\ e.fat = d.fat /\ e.info = info /\ e.dir = d.dir
  BY <1>1 DEF Keeps, DiskFields
<1> HIDE DEF e
<1>5. \A c \in Numbered : Entry(e, c) = Entry(d, c)
  BY <1>4, ZenonT(60) DEF Entry, Nibble
<1>6. Links(e) = Links(d)
  BY <1>5 DEF Links
<1>7. Typed(e)
  BY <1>1, <1>4 DEF Keeps, Typed
<1>8. Keeps(x, e)
  BY <1>1, <1>2, <1>3, <1>4, <1>6, <1>7, Zenon DEF Keeps
<1>9. Safe(x, n) /\ Wrote(m, n) /\ Disk(n) = e
  BY <1>8, SafeWrite, Zenon
<1>10. WriteInfo(m, delta, last) = n
  BY Zenon DEF WriteInfo, e, info, d
<1> HIDE DEF n, free
<1>11. /\ Safe(x, n) /\ Wrote(m, n)
       /\ Links(Disk(n)) = Links(d) /\ Disk(n).dir = d.dir /\ Disk(n).info.free = free
  BY <1>2, <1>4, <1>6, <1>9, Zenon
<1> QED BY <1>10, <1>11, Zenon DEF d, free

\* The entry of the file of the call is written: its directory entry, not the table.
LEMMA DirWritten ==
    ASSUME NEW x, Context(x), NEW m, Safe(x, m), NEW e, e = [start |-> e.start, size |-> e.size],
           e.start \in -1 .. NumClusters - 1, e.size \in 0 .. MaxSize
    PROVE  LET n == WriteDir(m, x.f, e)
           IN  /\ Safe(x, n) /\ Wrote(m, n)
               /\ Links(Disk(n)) = Links(Disk(m)) /\ Disk(n).info = Disk(m).info
               /\ ~m.panic => Disk(n).dir[x.f] = e
<1> DEFINE d == Disk(m)
           g == [d EXCEPT !.dir[x.f] = e]
           n == fatWriteLogical(m, g)
<1>1. Keeps(x, d) /\ x.f \in File /\ e.size \in Nat
  BY SafeDisk, FileAssumption DEF Context
<1> HIDE DEF d
<1>2. DiskFields(d)
  BY <1>1 DEF Keeps
<1>3. DiskFields(g)
  BY <1>1, <1>2, DirChange
<1>4. g.type = d.type /\ g.fat = d.fat /\ g.info = d.info /\ g.dir = [d.dir EXCEPT ![x.f] = e]
  BY <1>2 DEF DiskFields
<1>5. g.dir[x.f] = e /\ \A h \in File : h # x.f => g.dir[h] = d.dir[h]
  <2>1. d.dir = [h \in File |-> d.dir[h]]
    BY <1>2 DEF DiskFields, DirFields
  <2> QED BY <1>1, <1>4, <2>1
<1> HIDE DEF g
<1>6. \A c \in Numbered : Entry(g, c) = Entry(d, c)
  <2>1. g.type = d.type /\ g.fat = d.fat
    BY <1>4
  <2> QED BY <2>1, ZenonT(60) DEF Entry, Nibble
<1>7. Links(g) = Links(d)
  BY <1>6 DEF Links
<1>8. Typed(g)
  BY <1>1, <1>4 DEF Keeps, Typed
<1>9. Keeps(x, g)
  BY <1>1, <1>3, <1>4, <1>5, <1>7, <1>8, Zenon DEF Keeps
<1>10. Safe(x, n) /\ Wrote(m, n) /\ IF m.panic THEN n = m ELSE Disk(n) = g
  BY <1>9, SafeWrite, Zenon
<1>11. WriteDir(m, x.f, e) = n
  BY Zenon DEF WriteDir, g, d
<1> HIDE DEF n
<1>12. /\ Safe(x, n) /\ Wrote(m, n)
       /\ Links(Disk(n)) = Links(d) /\ Disk(n).info = d.info
       /\ ~m.panic => Disk(n).dir[x.f] = e
  BY <1>4, <1>5, <1>7, <1>10, Zenon DEF d
<1> QED BY <1>11, <1>12, Zenon DEF d

\* The disk but for the data.
SameTable(d, e) == Links(e) = Links(d) /\ e.info = d.info /\ e.dir = d.dir

\* A sector of data is written, and the table stays as it is.
LEMMA SectorWritten ==
    ASSUME NEW x, NEW m, Safe(x, m), NEW buf \in Buffer
    PROVE  LET n == WriteSector(m, buf)
           IN  Safe(x, n) /\ Wrote(m, n) /\ SameTable(Disk(m), Disk(n))
<1> DEFINE d == Disk(m)
           a == Address(m.h)
           e == [d EXCEPT !.data[a] = buf]
           g == IF a \in Sector THEN e ELSE d
           n == fatWriteLogical(m, g)
<1>1. Keeps(x, d) /\ DiskFields(d)
  BY SafeDisk DEF Keeps
<1> HIDE DEF d
<1>2. a \in Sector => DiskFields(e)
  BY <1>1, DiskChanges
<1>3. e.type = d.type /\ e.fat = d.fat /\ e.info = d.info /\ e.dir = d.dir
  BY <1>1 DEF DiskFields
<1> HIDE DEF e, a
<1>4. DiskFields(g) /\ g.type = d.type /\ g.fat = d.fat /\ g.info = d.info /\ g.dir = d.dir
  BY <1>1, <1>2, <1>3
<1> HIDE DEF g
<1>5. \A c \in Numbered : Entry(g, c) = Entry(d, c)
  BY <1>4, ZenonT(60) DEF Entry, Nibble
<1>6. Links(g) = Links(d)
  BY <1>5 DEF Links
<1>7. Typed(g)
  BY <1>1, <1>4 DEF Keeps, Typed
<1>8. Keeps(x, g)
  BY <1>1, <1>4, <1>6, <1>7, Zenon DEF Keeps
<1>9. Safe(x, n) /\ Wrote(m, n) /\ IF m.panic THEN n = m ELSE Disk(n) = g
  BY <1>8, SafeWrite, Zenon
<1>10. WriteSector(m, buf) = n
  BY Zenon DEF WriteSector, g, e, d, a
<1> HIDE DEF n
<1>11. Safe(x, n) /\ Wrote(m, n) /\ SameTable(d, Disk(n))
  BY <1>4, <1>6, <1>9, Zenon DEF SameTable, d
<1> QED BY <1>10, <1>11, Zenon DEF d

\* Looking an entry up changes the cache and nothing else.
LEMMA Analysed ==
    ASSUME NEW x, Context(x), NEW m, Safe(x, m), NEW c, c \in Cluster \/ fatEndCluster(x.d, c)
    PROVE  LET n == fatClusterAnalyse(m, c)
           IN  /\ Safe(x, n) /\ Disk(n) = Disk(m) /\ n.img = m.img
               /\ n.h = m.h /\ n.currcluster = m.currcluster /\ n.panic = m.panic
               /\ n.bytes = m.bytes /\ n.result = m.result
               /\ n.next = IF fatEndCluster(Disk(m), c) THEN m.next ELSE Entry(Disk(m), c)
<1> DEFINE d == Disk(m)
           s == FirstSector(d, c)
           t == LastSector(d, c)
           one == fatReadLogicalCached(m, s)
           two == fatReadLogicalCached(one, t)
           b == one.cached.buf
           u == two.cached.buf
           seen == [d EXCEPT !.fat[s] = b, !.fat[t] = u]
           n == fatClusterAnalyse(m, c)
           Alike(w) == /\ w.img = m.img /\ w.h = m.h /\ w.currcluster = m.currcluster
                       /\ w.panic = m.panic /\ w.bytes = m.bytes /\ w.result = m.result
                       /\ w.next = m.next
<1>0. Whole(m) /\ Keeps(x, d) /\ DiskFields(d) /\ d.fat \in [1 .. FatSectors -> Nibbles]
  BY SafeDisk DEF Keeps, Typed
<1>1. \A w, k : Whole(w) => LET r == fatReadLogicalCached(w, k)
                         IN  /\ r.img = w.img /\ r.h = w.h /\ r.currcluster = w.currcluster
                             /\ r.panic = w.panic /\ r.bytes = w.bytes /\ r.result = w.result
                             /\ r.next = w.next
  BY DEF fatReadLogicalCached, Whole, Fields
<1>2. \A w, k : Whole(w) /\ k # 0 => LET r == fatReadLogicalCached(w, k)
                         IN  r.cached.buf = Disk(w).fat[k]
  <2> TAKE w, k
  <2> HAVE Whole(w) /\ k # 0
  <2> DEFINE r == fatReadLogicalCached(w, k)
  <2>1. CASE w.cached.sector = k
    BY <2>1 DEF fatReadLogicalCached, Whole, Coherent
  <2>2. CASE w.cached.sector # k
    <3> DEFINE y == [sector |-> k, buf |-> Disk(w).fat[k]]
    <3>1. r = [w EXCEPT !.cached = y]
      BY <2>2, Zenon DEF fatReadLogicalCached
    <3>2. y.buf = Disk(w).fat[k]
      OBVIOUS
    <3> HIDE DEF y, r
    <3>3. r.cached = y
      BY <3>1 DEF Whole, Fields
    <3> QED BY <3>2, <3>3 DEF r
  <2> QED BY <2>1, <2>2
<1>3. Whole(one) /\ Disk(one) = d /\ Whole(two) /\ Disk(two) = d
  BY <1>0, ReadCachedWhole
<1>4. Alike(one) /\ Alike(two)
  <2> HIDE DEF one, two
  <2>1. Alike(one)
    BY <1>0, <1>1, Zenon DEF one
  <2> QED BY <1>1, <1>3, <2>1, Zenon DEF two
<1>5. CASE fatEndCluster(d, c)
  <2>1. n = m
    BY <1>5, Zenon DEF fatClusterAnalyse
  <2> HIDE DEF n, d
  <2> QED BY <2>1, <1>5, Zenon DEF n, d
<1>6. CASE ~fatEndCluster(d, c)
  <2>1. n = [two EXCEPT !.next = Entry(seen, c)]
    BY <1>6, Zenon DEF fatClusterAnalyse
  <2>2. s # 0 => b = d.fat[s]
    BY <1>0, <1>2, Zenon
  <2>3. t # 0 => u = d.fat[t]
    BY <1>2, <1>3, Zenon
  <2>4. seen = d
    <3> HIDE DEF b, u, s, t, d
    <3>1. 0 \notin DOMAIN d.fat
      <4>1. DOMAIN d.fat = 1 .. FatSectors
        BY <1>0
      <4>2. 0 \notin 1 .. FatSectors
        OBVIOUS
      <4> QED BY <4>1, <4>2
    <3>2. [d.fat EXCEPT ![s] = b] = d.fat
      BY <1>0, <2>2, <3>1
    <3>3. [d.fat EXCEPT ![t] = u] = d.fat
      BY <1>0, <2>3, <3>1
    <3>4. [d EXCEPT !.fat[s] = b] = d
      BY <1>0, <3>2 DEF DiskFields
    <3>5. [d EXCEPT !.fat[t] = u] = d
      BY <1>0, <3>3 DEF DiskFields
    <3>6. seen = [[d EXCEPT !.fat[s] = b] EXCEPT !.fat[t] = u]
      OBVIOUS
    <3> QED BY <3>4, <3>5, <3>6, Zenon
  <2> DEFINE y == Entry(d, c)
  <2>5. n = [two EXCEPT !.next = y]
    BY <2>1, <2>4, Zenon
  <2> HIDE DEF two, y, n, seen, d
  <2>6. n.next = y /\ n.img = two.img /\ n.h = two.h /\ n.currcluster = two.currcluster
        /\ n.panic = two.panic /\ n.bytes = two.bytes /\ n.result = two.result
    BY <1>3, <2>5 DEF Whole, Fields
  <2>7. Whole(n)
    BY AnalyseWhole, <1>0 DEF n
  <2>8. n.img = m.img
    BY <1>4, <2>6
  <2>10. CachePlaced(n.cached)
    <3>1. n.cached = two.cached
      BY <1>3, <2>5 DEF Whole, Fields
    <3>2. c \in Numbered /\ d.type \in Types
      <4>1. d.type = x.d.type /\ d.type \in Types
        BY <1>0 DEF Keeps, Typed
      <4>2. ~fatEndCluster(x.d, c)
        BY <1>6, <4>1 DEF fatEndCluster
      <4> QED BY <4>1, <4>2, TableAssumption DEF Cluster, Numbered
    <3>3. s \in 1 .. FatSectors /\ t \in 1 .. FatSectors
      BY <3>2, Sectors
    <3>4. \A w, k : k \in 1 .. FatSectors /\ Whole(w) /\ CachePlaced(w.cached)
             => CachePlaced(fatReadLogicalCached(w, k).cached)
      BY DEF fatReadLogicalCached, CachePlaced, Whole, Fields
    <3>5. CachePlaced(m.cached)
      BY DEF Safe
    <3> HIDE DEF one, s, t
    <3>6. CachePlaced(one.cached)
      BY <1>0, <3>3, <3>4, <3>5, Zenon DEF one
    <3>7. CachePlaced(two.cached)
      BY <1>3, <3>3, <3>4, <3>6, Zenon DEF two
    <3> QED BY <3>1, <3>7
  <2>9. Safe(x, n) /\ Disk(n) = d
    BY <2>7, <2>8, <2>10, Zenon DEF Safe, Disk, d
  <2> QED BY <1>4, <1>6, <2>6, <2>8, <2>9, Zenon DEF n, d, y
<1> QED BY <1>5, <1>6

\* No cluster of the volume has the number of an end mark.
LEMMA NotEnd ==
    ASSUME NEW d, d.type \in Types
    PROVE  /\ \A c \in Cluster : ~fatEndCluster(d, c)
           /\ fatEndCluster(d, EndMark(d.type)) /\ fatEndCluster(d, 0) /\ fatEndCluster(d, -1)
           /\ fatEndCluster(d, EmptyStart(d.type))
           /\ EmptyStart(d.type) \notin Numbered /\ EndMark(d.type) \notin Numbered
           /\ Cluster \subseteq Numbered /\ Cluster \subseteq 0 .. EndMark(d.type)
           /\ 0 \notin Cluster /\ Numbered = Cluster \cup {0, 1}
<1> DEFINE u == EndMark(d.type)
           v == EmptyStart(d.type)
<1>1. /\ u \in Nat /\ v \in Nat /\ 2 < v /\ v < u /\ NumClusters <= v
      /\ d.type = 12 => NumClusters <= 4080 /\ u # 4080
  <2>1. \/ /\ d.type = 12 /\ u = 4095 /\ v = 4088 /\ NumClusters <= 4080
        \/ /\ d.type = 16 /\ u = 65535 /\ v = 65528 /\ NumClusters <= 65528
        \/ /\ d.type = 32 /\ u = 268435455 /\ v = 268435448 /\ NumClusters <= 268435448
    <3> DEFINE type == d.type
    <3>1. type \in Types
      OBVIOUS
    <3> HIDE DEF type
    <3>2. \/ /\ type = 12 /\ EndMark(type) = 4095 /\ EmptyStart(type) = 4088 /\ NumClusters <= 4080
          \/ /\ type = 16 /\ EndMark(type) = 65535 /\ EmptyStart(type) = 65528 /\ NumClusters <= 65528
          \/ /\ type = 32 /\ EndMark(type) = 268435455 /\ EmptyStart(type) = 268435448
             /\ NumClusters <= 268435448
      BY <3>1, Kinds, SMT
    <3> QED BY <3>2, SMT DEF type
  <2> HIDE DEF u, v
  <2>2. NumClusters \in Nat
    BY TableAssumption
  <2> QED BY <2>1, <2>2, SMT
<1>2. NumClusters \in Nat /\ NumClusters >= 2
  BY TableAssumption
<1>3. \A c : fatEndCluster(d, c) <=> c < 2 \/ c >= v \/ (d.type = 12 /\ c = 4080)
  BY DEF fatEndCluster
<1> HIDE DEF u, v
<1>4. /\ \A c \in Cluster : ~fatEndCluster(d, c)
      /\ fatEndCluster(d, u) /\ fatEndCluster(d, 0) /\ fatEndCluster(d, -1)
      /\ fatEndCluster(d, v)
      /\ v \notin Numbered /\ u \notin Numbered
      /\ Cluster \subseteq Numbered /\ Cluster \subseteq 0 .. u
      /\ 0 \notin Cluster /\ Numbered = Cluster \cup {0, 1}
  BY <1>1, <1>2, <1>3 DEF Cluster, Numbered
<1> QED BY <1>4 DEF u, v

-------------------------------------------------------------------------------
\* Sequences with the same elements are equal.
LEMMA SameSequence ==
    ASSUME NEW S, NEW s \in Seq(S), NEW t \in Seq(S), Len(s) = Len(t),
           \A i \in 1 .. Len(s) : s[i] = t[i]
    PROVE  s = t
  OBVIOUS

\* The clusters of a chain in their order; `end` marks the last one.
IsPath(links, end, p) ==
    /\ p \in Seq(Cluster)
    /\ \A i, j \in 1 .. Len(p) : p[i] = p[j] => i = j
    /\ \A i \in 1 .. Len(p) : links[p[i]] = IF i = Len(p) THEN end ELSE p[i + 1]

\* The start of a chain in the directory: an empty file and no file have none.
StartsAt(p, c) == IF p = <<>> THEN c \in {-1, 0} ELSE c = p[1]

\* A chain of distinct clusters is no longer than the volume.
LEMMA PathLength ==
    ASSUME NEW links, NEW end, NEW p, IsPath(links, end, p)
    PROVE  /\ Len(p) \in Nat /\ Len(p) < NumClusters /\ Cardinality(Range(p)) = Len(p)
           /\ Range(p) \subseteq Cluster /\ IsFiniteSet(Range(p))
<1> DEFINE n == Len(p)
           R == Range(p)
<1>1. p \in Seq(Cluster) /\ n \in Nat /\ p \in [1 .. n -> Cluster] /\ DOMAIN p = 1 .. n
  BY DEF IsPath
<1>2. R \subseteq Cluster /\ p \in [1 .. n -> R] /\ \A t \in R : \E s \in 1 .. n : p[s] = t
  BY <1>1 DEF Range
<1>3. IsFiniteSet(1 .. n) /\ Cardinality(1 .. n) = n
  BY <1>1, FS_Interval
<1>4. IsInjective(p)
  BY <1>1 DEF IsInjective, IsPath
<1>5. p \in Bijection(1 .. n, R)
  <2> HIDE DEF R, n
  <2> QED BY <1>2, <1>4 DEF Bijection, Injection, Surjection
<1>6. IsFiniteSet(R) /\ Cardinality(R) = n
  <2> HIDE DEF R, n
  <2>1. ExistsBijection(1 .. n, R)
    BY <1>5 DEF ExistsBijection
  <2> QED BY <1>3, <2>1, FS_Bijection
<1>7. IsFiniteSet(Cluster) /\ Cardinality(Cluster) < NumClusters
  <2>1. NumClusters \in Nat /\ NumClusters >= 2
    BY TableAssumption
  <2>2. IsFiniteSet(2 .. NumClusters - 1) /\ Cardinality(2 .. NumClusters - 1) = IF 2 > NumClusters - 1 THEN 0 ELSE NumClusters - 1 - 2 + 1
    BY <2>1, FS_Interval
  <2> QED BY <2>1, <2>2 DEF Cluster
<1>8. n <= Cardinality(Cluster)
  <2> HIDE DEF R, n
  <2> QED BY <1>2, <1>6, <1>7, FS_Subset
<1>9. Cardinality(Cluster) \in Nat /\ NumClusters \in Nat
  BY <1>7, FS_CardinalityType, TableAssumption
<1> QED BY <1>1, <1>2, <1>6, <1>7, <1>8, <1>9

\* Following the entries finds it.
LEMMA ChainFinds ==
    ASSUME NEW d, Typed(d), NEW p, IsPath(Links(d), EndMark(d.type), p), NEW c, StartsAt(p, c)
    PROVE  Chain(d, c, NumClusters) = p
<1> DEFINE n == Len(p)
           Begin(i) == SubSeq(p, 1, IF i <= n THEN i ELSE n)
<1>0. d.type \in Types /\ NumClusters \in Nat
  BY TableAssumption DEF Typed
<1>1. p \in Seq(Cluster) /\ n \in Nat /\ n < NumClusters
  BY PathLength DEF IsPath
<1>2. PICK at : /\ at[0] = <<>>
                /\ \A i \in 1 .. NumClusters : at[i] = ChainOne(d, c, at[i - 1])
                /\ Chain(d, c, NumClusters) = at[NumClusters]
  BY <1>0, ChainSteps
<1>3. /\ \A b \in Cluster : ~fatEndCluster(d, b)
      /\ fatEndCluster(d, EndMark(d.type)) /\ fatEndCluster(d, 0) /\ fatEndCluster(d, -1)
      /\ Cluster \subseteq Numbered
  BY <1>0, NotEnd
<1>4. \A b \in Cluster : Links(d)[b] = Entry(d, b)
  BY <1>3 DEF Links
<1> DEFINE S == {i \in Nat : at[i] = Begin(i)}
<1> HIDE DEF n
<1>9. \A i \in Nat : Begin(i) = IF i <= n THEN SubSeq(p, 1, i) ELSE p
  <2>1. SubSeq(p, 1, n) = p
    BY <1>1 DEF n
  <2> QED BY <2>1
<1> HIDE DEF Begin
<1>5. 0 \in S
  <2>1. SubSeq(p, 1, 0) = <<>>
    BY <1>1
  <2>2. 0 \in Nat /\ 0 <= n
    BY <1>1
  <2> QED BY <1>2, <1>9, <2>1, <2>2
<1>10. p = <<>> <=> n = 0
  BY <1>1 DEF n
<1>6. ASSUME NEW i \in 0 .. NumClusters - 1, i \in S PROVE i + 1 \in S
  <2> DEFINE chain == at[i]
             next == IF chain = <<>> THEN c ELSE Entry(d, Last(chain))
  <2>1. chain = Begin(i)
    BY <1>6
  <2>2. at[i + 1] = IF fatEndCluster(d, next) THEN chain ELSE Append(chain, next)
    <3>1. i + 1 \in 1 .. NumClusters /\ (i + 1) - 1 = i
      BY <1>0
    <3>2. at[i + 1] = ChainOne(d, c, chain)
      BY <1>2, <3>1
    <3> QED BY <3>2, Zenon DEF ChainOne
  <2>3. CASE n = 0
    <3>1. p = <<>> /\ chain = <<>> /\ Begin(i + 1) = <<>>
      <4>1. p = <<>>
        BY <1>10, <2>3
      <4>2. SubSeq(p, 1, 0) = <<>>
        BY <1>1
      <4>3. Begin(i) = <<>> /\ Begin(i + 1) = <<>>
        BY <1>9, <2>3, <4>1, <4>2
      <4> QED BY <2>1, <4>1, <4>3
    <3>2. fatEndCluster(d, next)
      BY <1>3, <3>1 DEF StartsAt
    <3> HIDE DEF chain, next
    <3> QED BY <2>2, <3>1, <3>2
  <2>4. CASE n # 0 /\ i < n
    <3>1. chain \in Seq(Cluster) /\ Len(chain) = i /\ \A j \in 1 .. i : chain[j] = p[j]
      <4>1. chain = SubSeq(p, 1, i)
        <5>1. i \in Nat /\ i <= n
          BY <1>0, <1>1, <2>4
        <5> QED BY <1>9, <2>1, <5>1
      <4> HIDE DEF chain
      <4> QED BY <1>1, <2>4, <4>1 DEF n
    <3>2. p[i + 1] \in Cluster
      BY <1>1, <2>4 DEF n
    <3>3. next = p[i + 1]
      <4>1. CASE i = 0
        <5>1. chain = <<>> /\ p # <<>>
          BY <1>10, <2>4, <3>1, <4>1
        <5> HIDE DEF chain
        <5> QED BY <4>1, <5>1 DEF StartsAt
      <4>2. CASE i # 0
        <5>1. chain # <<>> /\ Last(chain) = p[i] /\ i \in 1 .. n /\ p[i] \in Cluster
          <6> HIDE DEF chain
          <6> QED BY <1>1, <2>4, <3>1, <4>2 DEF Last, n
        <5>2. Links(d)[p[i]] = p[i + 1]
          BY <1>1, <2>4, <5>1 DEF IsPath, n
        <5> QED BY <1>4, <5>1, <5>2
      <4> QED BY <4>1, <4>2
    <3> HIDE DEF chain, next
    <3>4. at[i + 1] = Append(chain, p[i + 1])
      BY <1>3, <2>2, <3>2, <3>3
    <3>5. Append(chain, p[i + 1]) = SubSeq(p, 1, i + 1)
      <4> DEFINE a == Append(chain, p[i + 1])
                 b == SubSeq(p, 1, i + 1)
      <4>1. a \in Seq(Cluster) /\ Len(a) = i + 1 /\ \A j \in 1 .. i + 1 : a[j] = p[j]
        BY <3>1, <3>2
      <4>2. b \in Seq(Cluster) /\ Len(b) = i + 1 /\ \A j \in 1 .. i + 1 : b[j] = p[j]
        BY <1>1, <2>4 DEF n
      <4> HIDE DEF a, b
      <4>3. a = b
        BY <4>1, <4>2, SameSequence
      <4> QED BY <4>3 DEF a, b
    <3>6. i + 1 \in Nat /\ i + 1 <= n
      BY <1>0, <1>1, <2>4
    <3> QED BY <3>4, <3>5, <3>6, <1>9
  <2>5. CASE n # 0 /\ i >= n
    <3>1. chain = p /\ Begin(i + 1) = p
      <4>1. SubSeq(p, 1, n) = p
        BY <1>1 DEF n
      <4> QED BY <1>1, <1>9, <2>1, <2>5, <4>1
    <3>2. next = EndMark(d.type)
      <4>1. p # <<>> /\ Last(p) = p[n] /\ n \in 1 .. n /\ p[n] \in Cluster
        BY <1>1, <2>5 DEF Last, n
      <4>2. Links(d)[p[n]] = EndMark(d.type)
        BY <4>1 DEF IsPath, n
      <4> QED BY <1>4, <3>1, <4>1, <4>2, Zenon
    <3> HIDE DEF chain, next
    <3> QED BY <1>3, <2>2, <3>1, <3>2
  <2> QED BY <1>1, <2>3, <2>4, <2>5
<1>7. \A i \in 0 .. NumClusters : i \in S
  <2> HIDE DEF S
  <2> QED BY <1>0, <1>5, <1>6, UpTo
<1>8. at[NumClusters] = Begin(NumClusters)
  BY <1>0, <1>7
<1>11. Begin(NumClusters) = p
  BY <1>0, <1>1, <1>9
<1> QED BY <1>2, <1>8, <1>11

\* A chain whose entries stay the same stays a chain.
LEMMA PathFrame ==
    ASSUME NEW links, NEW new, NEW end, NEW p, IsPath(links, end, p),
           \A i \in 1 .. Len(p) : new[p[i]] = links[p[i]]
    PROVE  IsPath(new, end, p)
  BY DEF IsPath

\* A chain gets one more cluster: the old end points to it, then it is marked.
LEMMA PathAppend ==
    ASSUME NEW end \in Nat, NEW links \in [Numbered -> Nat], NEW p, IsPath(links, end, p), p # <<>>,
           NEW c \in Cluster, links[c] = 0, end # 0
    PROVE  LET new == [links EXCEPT ![p[Len(p)]] = c]
           IN  IsPath([new EXCEPT ![c] = end], end, Append(p, c))
<1> DEFINE n == Len(p)
           u == p[n]
           new == [[links EXCEPT ![u] = c] EXCEPT ![c] = end]
           q == Append(p, c)
<1>1. p \in Seq(Cluster) /\ n \in Nat \ {0} /\ \A i \in 1 .. n : p[i] \in Cluster
  BY DEF IsPath
<1>2. Cluster \subseteq Numbered /\ 0 \notin Cluster
  BY TableAssumption DEF Cluster, Numbered
<1>3. \A i \in 1 .. n : p[i] # c
  <2>1. \A i \in 1 .. n : links[p[i]] # 0
    BY <1>1, <1>2 DEF IsPath
  <2> QED BY <2>1
<1>4. q \in Seq(Cluster) /\ Len(q) = n + 1 /\ q[n + 1] = c /\ \A i \in 1 .. n : q[i] = p[i]
  BY <1>1
<1>5. u \in Cluster /\ u # c
  BY <1>1, <1>3
<1>6. new[c] = end /\ new[u] = c /\ \A b \in Numbered : b # c /\ b # u => new[b] = links[b]
  BY <1>2, <1>5
<1> HIDE DEF new, q, u
<1>7. \A i, j \in 1 .. Len(q) : q[i] = q[j] => i = j
  <2> TAKE i, j \in 1 .. Len(q)
  <2>1. i \in 1 .. n \/ i = n + 1
    BY <1>1, <1>4
  <2>2. j \in 1 .. n \/ j = n + 1
    BY <1>1, <1>4
  <2> QED BY <1>3, <1>4, <2>1, <2>2 DEF IsPath
<1>8. \A i \in 1 .. Len(q) : new[q[i]] = IF i = Len(q) THEN end ELSE q[i + 1]
  <2> TAKE i \in 1 .. Len(q)
  <2>1. CASE i = n + 1
    BY <1>4, <1>6, <2>1
  <2>2. CASE i = n
    BY <1>1, <1>4, <1>6, <2>2 DEF u
  <2>3. CASE i # n /\ i # n + 1
    <3>1. i \in 1 .. n /\ i + 1 \in 1 .. n /\ i # n /\ n \in 1 .. n
      BY <1>1, <1>4, <2>3
    <3>2. p[i] # u /\ p[i] # c /\ p[i] \in Numbered
      BY <3>1, <1>1, <1>2, <1>3 DEF IsPath, u
    <3>3. new[p[i]] = p[i + 1]
      BY <1>6, <3>1, <3>2 DEF IsPath
    <3> QED BY <1>4, <2>3, <3>1, <3>3
  <2> QED BY <2>1, <2>2, <2>3
<1>9. IsPath(new, end, q)
  BY <1>4, <1>7, <1>8, Zenon DEF IsPath
<1> QED BY <1>9, Zenon DEF new, q, u

\* The first cluster of a file.
LEMMA PathStart ==
    ASSUME NEW end, NEW links \in [Numbered -> Nat], NEW c \in Cluster
    PROVE  IsPath([links EXCEPT ![c] = end], end, <<c>>)
<1>1. c \in Numbered
  BY TableAssumption DEF Cluster, Numbered
<1> QED BY <1>1 DEF IsPath

-------------------------------------------------------------------------------
\* The clusters fatFindFreeCluster may take.
Free(links) == {c \in Cluster : links[c] = 0}

\* On FAT32, while no call was cut short, the count of FSInfo is that of the free
\* clusters but for k that the running call has freed.
Owed(x, d, k) ==
    x.damaged = {} /\ x.d.type = 32 => d.info.free + k = Cardinality(Free(Links(d)))

\* The clusters that are not free are those of the file and those of the others.
Used(x, links, p) ==
    x.damaged = {} => \A c \in Cluster : links[c] = 0 <=> (c \notin x.rest /\ c \notin Range(p))

\* p is the chain of x.f.
Owns(x, d, p) ==
    /\ IsPath(Links(d), EndMark(x.d.type), p)
    /\ \A i \in 1 .. Len(p) : p[i] \notin x.rest
    /\ Used(x, Links(d), p)
    /\ Owed(x, d, 0)

\* The free clusters can be counted.
LEMMA FreeAre ==
    ASSUME NEW links
    PROVE  IsFiniteSet(Free(links)) /\ Cardinality(Free(links)) \in Nat
<1>1. IsFiniteSet(2 .. NumClusters - 1)
  BY TableAssumption, FS_Interval
<1> QED BY <1>1, FS_Subset, FS_CardinalityType DEF Free, Cluster

\* The entries of clusters lie in the table.
LEMMA FreeLinks ==
    ASSUME NEW d, Typed(d)
    PROVE  /\ Cluster \cap FreeEntries(d) = Free(Links(d))
           /\ FreeEntries(d) \subseteq Nat
           /\ \A c \in FreeEntries(d) : c < NumClusters => c \in Numbered /\ Links(d)[c] = 0
<1> DEFINE W == Width(d.type)
           end == FatSectors * SectorNibbles
           q == end \div W
<1>1. W \in Nat \ {0} /\ NumClusters \in Nat /\ NumClusters >= 2 /\ end \in Nat
  BY Kinds, TableAssumption DEF Typed
<1>2. NumClusters * W <= end
  BY VolumeAssumption DEF Typed
<1>3. q \in Int /\ NumClusters <= q
  <2> HIDE DEF end, W
  <2>1. q \in Int /\ end % W \in 0 .. W - 1 /\ end = q * W + (end % W)
    BY <1>1, Divide
  <2> DEFINE r == end % W
  <2> HIDE DEF q, r
  <2>2. r \in 0 .. W - 1 /\ end = q * W + r
    BY <2>1 DEF r
  <2> SUFFICES ASSUME q + 1 <= NumClusters PROVE FALSE
    BY <1>1, <2>1
  <2>3. (q + 1) * W <= NumClusters * W
    BY <1>1, <2>1
  <2> QED BY <1>1, <1>2, <2>1, <2>2, <2>3
<1>4. FreeEntries(d) = {c \in 0 .. q - 1 : Entry(d, c) = 0}
  BY DEF FreeEntries
<1> HIDE DEF q
<1>5. \A c \in Numbered : Links(d)[c] = Entry(d, c)
  BY DEF Links
<1> QED BY <1>1, <1>3, <1>4, <1>5 DEF Free, Cluster, Numbered

\* The search of fatFindFreeCluster ends at a free cluster or past the last one.
LEMMA FirstIs ==
    ASSUME NEW S \in SUBSET Nat
    PROVE  FirstFree(S) < NumClusters => FirstFree(S) \in S
<1>1. CASE S = {}
  BY <1>1, TableAssumption DEF FirstFree
<1>2. CASE S # {}
  <2>1. \E c \in S : \A e \in S : c <= e
    BY <1>2, LeastNumber
  <2>2. FirstFree(S) = CHOOSE c \in S : \A e \in S : c <= e
    BY <1>2 DEF FirstFree
  <2>3. FirstFree(S) \in S
    BY <2>1, <2>2, Zenon
  <2> QED BY <2>3
<1> QED BY <1>1, <1>2

\* The cluster found is free.
LEMMA FoundFree ==
    ASSUME NEW d, Typed(d), Links(d)[0] # 0, Links(d)[1] # 0
    PROVE  LET c == fatFindFreeCluster(d) IN c = 0 \/ (c \in Cluster /\ Links(d)[c] = 0)
<1> DEFINE last == IF d.type = 32 /\ d.info.last < NumClusters THEN d.info.last ELSE 0
           S == {c \in FreeEntries(d) : c >= last}
           onwards == FirstFree(S)
           again == IF last = 0 THEN NumClusters ELSE FirstFree(FreeEntries(d))
           c == fatFindFreeCluster(d)
<1>1. c = IF onwards < NumClusters THEN onwards ELSE IF again < NumClusters THEN again ELSE 0
  BY Zenon DEF fatFindFreeCluster
<1>2. /\ FreeEntries(d) \subseteq Nat
      /\ \A b \in FreeEntries(d) : b < NumClusters => b \in Numbered /\ Links(d)[b] = 0
  BY FreeLinks
<1>3. S \in SUBSET Nat /\ FreeEntries(d) \in SUBSET Nat /\ S \subseteq FreeEntries(d)
  BY <1>2
<1> HIDE DEF S, last
<1>4. onwards < NumClusters => onwards \in FreeEntries(d)
  BY <1>3, FirstIs
<1>5. again < NumClusters => again \in FreeEntries(d)
  <2>1. FirstFree(FreeEntries(d)) < NumClusters => FirstFree(FreeEntries(d)) \in FreeEntries(d)
    BY <1>3, FirstIs
  <2>2. ~(NumClusters < NumClusters)
    BY TableAssumption
  <2> QED BY <2>1, <2>2
<1> HIDE DEF onwards, again, c
<1>6. c = 0 \/ (c \in Numbered /\ Links(d)[c] = 0)
  BY <1>1, <1>2, <1>4, <1>5
<1>7. \A b \in Numbered : b \in Cluster \/ b = 0 \/ b = 1
  BY TableAssumption DEF Numbered, Cluster
<1>8. c = 0 \/ (c \in Cluster /\ Links(d)[c] = 0)
  BY <1>6, <1>7
<1> QED BY <1>8 DEF c

\* A free cluster is taken.
LEMMA Marked ==
    ASSUME NEW x, Context(x), NEW m, Safe(x, m), ~m.panic, NEW c \in Cluster, c \notin x.rest,
           Links(Disk(m))[c] = 0, Owed(x, Disk(m), 0)
    PROVE  LET n == fatMarkCluster(m, c)
           IN  /\ Safe(x, n) /\ Wrote(m, n)
               /\ Links(Disk(n)) = [Links(Disk(m)) EXCEPT ![c] = EndMark(x.d.type)]
               /\ Disk(n).dir = Disk(m).dir /\ Owed(x, Disk(n), 0)
<1> DEFINE d == Disk(m)
           end == EndMark(x.d.type)
           w == WriteEntry(m, c, end)
           i == WriteInfo(w, -1, c)
           new == [Links(d) EXCEPT ![c] = end]
           n == fatMarkCluster(m, c)
<1>0. Keeps(x, d) /\ d.type = x.d.type /\ x.d.type \in Types /\ Typed(d)
  BY SafeDisk DEF Keeps, Context, Typed
<1>1. c \in Numbered \ x.rest /\ end \in 0 .. end /\ end # 0 /\ c \in Nat
  BY <1>0, Kinds, TableAssumption DEF Numbered, Cluster
<1>2. Safe(x, w) /\ Wrote(m, w) /\ Links(Disk(w)) = new /\ Disk(w).info = d.info /\ Disk(w).dir = d.dir
  <2>1. c \in Numbered \ x.rest /\ end \in 0 .. EndMark(x.d.type)
    BY <1>1
  <2> HIDE DEF end
  <2>2. LET k == WriteEntry(m, c, end)
        IN  /\ Safe(x, k) /\ Wrote(m, k)
            /\ Links(Disk(k)) = [Links(Disk(m)) EXCEPT ![c] = end]
            /\ Disk(k).info = Disk(m).info /\ Disk(k).dir = Disk(m).dir
    BY <2>1, LinkWritten
  <2> QED BY <2>2, Zenon
<1>3. Free(new) = Free(Links(d)) \ {c} /\ c \in Free(Links(d))
  <2>1. Links(d) \in [Numbered -> 0 .. EndMark(d.type)]
    BY <1>0, LinksAre
  <2> DEFINE L == Links(d)
  <2> HIDE DEF end, d, L
  <2>2. DOMAIN L = Numbered
    BY <2>1 DEF L
  <2>3. \A b \in Cluster : b \in Numbered
    BY TableAssumption DEF Numbered, Cluster
  <2>4. Free([L EXCEPT ![c] = end]) = Free(L) \ {c}
    BY <1>1, <2>2, <2>3 DEF Free
  <2> QED BY <2>4 DEF Free, L, d
<1>4. Cardinality(Free(new)) = Cardinality(Free(Links(d))) - 1
  <2> HIDE DEF new, d
  <2> QED BY <1>3, FreeAre, FS_RemoveElement
<1>5. n = IF d.type = 32 THEN i ELSE w
  BY <1>0, Zenon DEF fatMarkCluster
<1> HIDE DEF w, end
<1>6. ~w.panic
  BY <1>2 DEF Wrote
<1>7. CASE d.type = 32
  <2>1. n = i
    BY <1>5, <1>7
  <2>2. /\ Safe(x, i) /\ Wrote(w, i)
        /\ Links(Disk(i)) = Links(Disk(w)) /\ Disk(i).dir = Disk(w).dir
        /\ Disk(i).info.free = IF Disk(w).info.free = Unknown THEN Unknown
                                      ELSE Disk(w).info.free + -1
    BY <1>1, <1>2, <1>6, InfoWritten
  <2> HIDE DEF i, n, new, d
  <2>3. Owed(x, Disk(i), 0)
    <3> SUFFICES ASSUME x.damaged = {}, x.d.type = 32 PROVE Disk(i).info.free + 0 = Cardinality(Free(Links(Disk(i))))
      BY DEF Owed
    <3>1. d.info.free + 0 = Cardinality(Free(Links(d)))
      BY DEF Owed, d
    <3>2. Cardinality(Free(Links(d))) \in Nat
      BY FreeAre
    <3>3. d.info.free \in Int
      BY <1>0 DEF Keeps
    <3>4. Disk(i).info.free = d.info.free - 1 /\ Links(Disk(i)) = new
      BY <1>2, <2>2, <3>1, <3>2, <3>3 DEF Unknown
    <3> QED BY <1>4, <3>1, <3>2, <3>3, <3>4
  <2>4. Safe(x, n) /\ Wrote(m, n) /\ Links(Disk(n)) = new /\ Disk(n).dir = d.dir /\ Owed(x, Disk(n), 0)
    BY <1>2, <2>1, <2>2, <2>3, Zenon DEF Wrote
  <2> QED BY <2>4, Zenon DEF n, new, d, end
<1>8. CASE d.type # 32
  <2>1. n = w
    BY <1>5, <1>8
  <2> HIDE DEF n, new, d
  <2>2. Owed(x, Disk(n), 0)
    BY <1>0, <1>8 DEF Owed
  <2>3. Safe(x, n) /\ Wrote(m, n) /\ Links(Disk(n)) = new /\ Disk(n).dir = d.dir /\ Owed(x, Disk(n), 0)
    BY <1>2, <2>1, <2>2, Zenon
  <2> QED BY <2>3, Zenon DEF n, new, d, end
<1> QED BY <1>7, <1>8

-------------------------------------------------------------------------------
\* The clusters of a chain with one more.
LEMMA RangeAppend ==
    ASSUME NEW p \in Seq(Cluster), NEW c \in Cluster
    PROVE  Range(Append(p, c)) = Range(p) \cup {c} /\ Range(<<c>>) = {c}
<1> DEFINE q == Append(p, c)
<1>1. DOMAIN p = 1 .. Len(p) /\ DOMAIN q = 1 .. Len(p) + 1 /\ Len(p) \in Nat
      /\ q[Len(p) + 1] = c /\ \A i \in 1 .. Len(p) : q[i] = p[i]
  OBVIOUS
<1>2. \A i \in 1 .. Len(p) + 1 : i \in 1 .. Len(p) \/ i = Len(p) + 1
  BY <1>1
<1>3. Range(<<c>>) = {c}
  BY DEF Range
<1> HIDE DEF q
<1>4. Range(q) = Range(p) \cup {c}
  BY <1>1, <1>2 DEF Range
<1> QED BY <1>3, <1>4 DEF q

\* An empty chain has no clusters.
LEMMA EmptyRange == Range(<<>>) = {}
  BY DEF Range

\* No entry of the clusters that are not to be touched is free.
LEMMA RestTaken ==
    ASSUME NEW x, Context(x), NEW d, Keeps(x, d)
    PROVE  \A c \in x.rest : Links(d)[c] # 0
  BY DEF Context, Keeps

\* The chain grows by a cluster that was free, or the volume is full.
LEMMA Chained ==
    ASSUME NEW x, Context(x), NEW m, Safe(x, m), ~m.panic, NEW p, Owns(x, Disk(m), p), p # <<>>,
           m.currcluster = p[Len(p)]
    PROVE  LET n == fatChain(m)
           IN  /\ Safe(x, n) /\ n.h = m.h /\ n.next = m.next /\ n.bytes = m.bytes /\ n.result = m.result
               /\ ~n.panic => \E c \in Cluster : /\ n.currcluster = c /\ Owns(x, Disk(n), Append(p, c))
                                                 /\ Disk(n).dir = Disk(m).dir
<1> DEFINE d == Disk(m)
           c == fatFindFreeCluster(d)
           u == m.currcluster
           w == WriteEntry(m, u, c)
           k == fatMarkCluster(w, c)
           y == [k EXCEPT !.currcluster = c]
           z == [m EXCEPT !.panic = TRUE]
           n == fatChain(m)
           end == EndMark(x.d.type)
           L == Links(d)
           A == [L EXCEPT ![u] = c]
           B == [A EXCEPT ![c] = end]
           q == Append(p, c)
<1>0. Keeps(x, d) /\ d.type = x.d.type /\ x.d.type \in Types /\ Typed(d) /\ Whole(m)
  BY SafeDisk DEF Keeps, Context, Typed
<1>1. \A b \in x.rest : L[b] # 0
  BY <1>0, RestTaken
<1>2. c = 0 \/ (c \in Cluster /\ L[c] = 0)
  <2>1. L[0] # 0 /\ L[1] # 0
    BY <1>1 DEF Context
  <2> QED BY <1>0, <2>1, FoundFree
<1>3. n = IF c = 0 \/ fatEndCluster(d, u) THEN z ELSE y
  BY Zenon DEF fatChain, ChainTo
<1>4. CASE c = 0 \/ fatEndCluster(d, u)
  <2>1. n = z
    BY <1>3, <1>4, Zenon
  <2>2. SameDisk(m, z)
    BY <1>0, FieldChange
  <2>3. Safe(x, z)
    BY <2>2, SafeSame
  <2>4. z.h = m.h /\ z.next = m.next /\ z.bytes = m.bytes /\ z.result = m.result /\ z.panic
    BY <1>0 DEF Whole, Fields
  <2> HIDE DEF n, z, d
  <2>5. Safe(x, n) /\ n.h = m.h /\ n.next = m.next /\ n.bytes = m.bytes /\ n.result = m.result /\ n.panic
    BY <2>1, <2>3, <2>4, Zenon
  <2> QED BY <2>5, Zenon DEF n
<1>5. CASE ~(c = 0 \/ fatEndCluster(d, u))
  <2>1. n = y
    BY <1>3, <1>5, Zenon
  <2>2. c \in Cluster /\ L[c] = 0 /\ c \notin x.rest
    BY <1>1, <1>2, <1>5
  <2>3. /\ p \in Seq(Cluster) /\ Len(p) \in 1 .. Len(p) /\ u \in Cluster /\ u \notin x.rest
        /\ u \in Range(p)
    <3>1. p \in Seq(Cluster) /\ Len(p) \in 1 .. Len(p)
      BY DEF Owns, IsPath
    <3>2. p[Len(p)] \in Cluster /\ p[Len(p)] \notin x.rest
      BY <3>1 DEF Owns
    <3>3. p[Len(p)] \in Range(p)
      BY <3>1 DEF Range
    <3> QED BY <3>1, <3>2, <3>3
  <2>4. Cluster \subseteq Numbered /\ Cluster \subseteq 0 .. end /\ 0 \notin Cluster
    BY <1>0, NotEnd
  <2>5. end \in Nat /\ end # 0 /\ L \in [Numbered -> 0 .. end]
    BY <1>0, Kinds, LinksAre
  <2>6. L \in [Numbered -> Nat]
    <3> HIDE DEF end, L
    <3> QED BY <2>5
  <2>7. u # c
    <3>1. L[p[Len(p)]] = end
      BY <1>0, <2>3 DEF Owns, IsPath
    <3> QED BY <2>2, <2>5, <3>1
  <2>8. LET g == WriteEntry(m, u, c)
        IN  /\ Safe(x, g) /\ Wrote(m, g)
            /\ Links(Disk(g)) = [Links(Disk(m)) EXCEPT ![u] = c]
            /\ Disk(g).info = Disk(m).info /\ Disk(g).dir = Disk(m).dir
    <3>1. u \in Numbered \ x.rest /\ c \in 0 .. EndMark(x.d.type)
      BY <2>2, <2>3, <2>4
    <3> HIDE DEF u, c
    <3> QED BY <3>1, LinkWritten
  <2>9. Safe(x, w) /\ Wrote(m, w) /\ Links(Disk(w)) = A /\ Disk(w).info = d.info /\ Disk(w).dir = d.dir
    BY <2>8, Zenon
  <2>10. ~w.panic
    BY <2>9 DEF Wrote
  <2>11. A[c] = 0 /\ Free(A) = Free(L)
    <3> HIDE DEF L, c, u
    <3>1. L[u] # 0
      <4>1. L[p[Len(p)]] = end
        BY <1>0, <2>3 DEF Owns, IsPath, L, d
      <4> QED BY <2>5, <4>1 DEF u
    <3>2. \A b \in Numbered : A[b] = IF b = u THEN c ELSE L[b]
      BY <2>3, <2>4, <2>6
    <3>3. c # 0
      BY <2>2, <2>4
    <3> HIDE DEF A
    <3> QED BY <2>2, <2>4, <2>7, <3>1, <3>2, <3>3 DEF Free
  <2>12. Owed(x, Disk(w), 0)
    <3> HIDE DEF w
    <3> QED BY <2>9, <2>11 DEF Owed, Owns
  <2>13. LET g == fatMarkCluster(w, c)
         IN  /\ Safe(x, g) /\ Wrote(w, g)
             /\ Links(Disk(g)) = [Links(Disk(w)) EXCEPT ![c] = EndMark(x.d.type)]
             /\ Disk(g).dir = Disk(w).dir /\ Owed(x, Disk(g), 0)
    <3>1. Links(Disk(w))[c] = 0
      BY <2>9, <2>11
    <3> HIDE DEF w, c
    <3> QED BY <2>2, <2>9, <2>10, <2>12, <3>1, Marked
  <2>14. Safe(x, k) /\ Wrote(m, k) /\ Links(Disk(k)) = B /\ Disk(k).dir = d.dir /\ Owed(x, Disk(k), 0)
    <3> HIDE DEF w
    <3> QED BY <2>9, <2>13, Zenon DEF Wrote
  <2> HIDE DEF k
  <2>15. SameDisk(k, y)
    BY <2>14, FieldChange DEF Safe
  <2>16. Safe(x, y) /\ Disk(y) = Disk(k)
    BY <2>14, <2>15, SafeSame
  <2>17. y.currcluster = c /\ y.h = m.h /\ y.next = m.next /\ y.bytes = m.bytes /\ y.result = m.result
         /\ y.panic = m.panic
    BY <2>14 DEF Wrote, Safe, Whole, Fields
  <2>18. Owns(x, Disk(k), q)
    <3>1. IsPath(B, end, q)
      <4>1. IsPath(L, end, p)
        BY DEF Owns
      <4>2. LET new == [L EXCEPT ![p[Len(p)]] = c]
            IN  IsPath([new EXCEPT ![c] = end], end, Append(p, c))
        <5> HIDE DEF L, end, c
        <5> QED BY <2>2, <2>5, <2>6, <4>1, PathAppend
      <4> QED BY <4>2, Zenon
    <3>2. Len(q) = Len(p) + 1 /\ q[Len(p) + 1] = c /\ \A i \in 1 .. Len(p) : q[i] = p[i]
      <4> HIDE DEF c
      <4> QED BY <2>2, <2>3
    <3>3. \A i \in 1 .. Len(q) : q[i] \notin x.rest
      <4>1. \A i \in 1 .. Len(p) + 1 : i \in 1 .. Len(p) \/ i = Len(p) + 1
        BY <2>3
      <4> HIDE DEF q
      <4> QED BY <2>2, <3>2, <4>1 DEF Owns
    <3>4. Used(x, B, q)
      <4>1. Range(q) = Range(p) \cup {c}
        <5> HIDE DEF c
        <5> QED BY <2>2, <2>3, RangeAppend
      <4>2. B[c] = end /\ B[u] = c /\ \A b \in Numbered : b # u /\ b # c => B[b] = L[b]
        <5> HIDE DEF c, L, u, end
        <5> QED BY <2>2, <2>3, <2>4, <2>6, <2>7
      <4>3. c # 0
        BY <2>2, <2>4
      <4>4. Used(x, L, p)
        BY DEF Owns
      <4> HIDE DEF B, q, c, u, L, end
      <4> SUFFICES ASSUME x.damaged = {}, NEW b \in Cluster
                   PROVE  B[b] = 0 <=> (b \notin x.rest /\ b \notin Range(q))
        BY DEF Used
      <4>5. L[b] = 0 <=> (b \notin x.rest /\ b \notin Range(p))
        BY <4>4 DEF Used
      <4>6. CASE b = c
        BY <4>1, <4>2, <4>6, <2>5
      <4>7. CASE b = u
        BY <4>1, <4>2, <4>3, <4>7, <2>3
      <4>8. CASE b # c /\ b # u
        BY <4>1, <4>2, <4>5, <4>8, <2>4
      <4> QED BY <4>6, <4>7, <4>8
    <3> HIDE DEF B, q, end
    <3> QED BY <2>14, <3>1, <3>3, <3>4, Zenon DEF Owns, end
  <2> HIDE DEF y, q, n, c, d
  <2>19. /\ Safe(x, n) /\ n.h = m.h /\ n.next = m.next /\ n.bytes = m.bytes /\ n.result = m.result
         /\ n.currcluster = c /\ Owns(x, Disk(n), q) /\ Disk(n).dir = d.dir /\ c \in Cluster
    BY <2>1, <2>2, <2>14, <2>16, <2>17, <2>18, Zenon
  <2> QED BY <2>19, Zenon DEF n, q, d
<1> QED BY <1>4, <1>5

-------------------------------------------------------------------------------
\* The table with the sector that is still buffered.
Virtual(at) == IF at.buffered = 0 THEN Disk(at.m)
               ELSE [Disk(at.m) EXCEPT !.fat[at.buffered] = at.buf]

\* A disk may be written with one sector of the table replaced by that of another.
LEMMA SetSector ==
    ASSUME NEW d, DiskFields(d), Typed(d), NEW e, DiskFields(e), Typed(e), e.type = d.type,
           e.info = d.info, e.data = d.data, e.dir = d.dir, NEW s \in 1 .. FatSectors,
           \A k \in 1 .. FatSectors : k # s => e.fat[k] = d.fat[k]
    PROVE  e = [d EXCEPT !.fat[s] = e.fat[s]]
<1> DEFINE b == e.fat[s]
           y == [d EXCEPT !.fat[s] = b]
<1>1. d.fat \in [1 .. FatSectors -> Nibbles] /\ e.fat \in [1 .. FatSectors -> Nibbles]
  BY DEF Typed
<1>2. e.fat = [d.fat EXCEPT ![s] = b]
  BY <1>1
<1> HIDE DEF b
<1>3. /\ y = [type |-> d.type, fat |-> [d.fat EXCEPT ![s] = b], info |-> d.info, data |-> d.data, dir |-> d.dir]
  BY DEF DiskFields
<1>4. e = y
  BY <1>2, <1>3 DEF DiskFields
<1> QED BY <1>4 DEF b

\* One cluster freed: the virtual disk has its entry zeroed, all written so far is safe.
LEMMA NukedOne ==
    ASSUME NEW x, Context(x), NEW at, Safe(x, at.m), ~at.m.panic, at.buffered \in 0 .. FatSectors,
           Keeps(x, Virtual(at)), at.c \in Cluster, at.c \notin x.rest
    PROVE  LET n == NukeOne(at)
           IN  /\ Safe(x, n.m) /\ Wrote(at.m, n.m) /\ n.buffered \in 1 .. FatSectors
               /\ Keeps(x, Virtual(n))
               /\ Links(Virtual(n)) = [Links(Virtual(at)) EXCEPT ![at.c] = 0]
               /\ Virtual(n).info = Virtual(at).info /\ Virtual(n).dir = Virtual(at).dir
               /\ n.c = Links(Virtual(at))[at.c] /\ n.n = at.n + 1
<1> DEFINE d == Disk(at.m)
           c == at.c
           s == FirstSector(d, c)
           t == LastSector(d, c)
           V == Virtual(at)
           left == IF at.buffered \notin {0, s} THEN WriteFat(at.m, at.buffered, at.buf) ELSE at.m
           e == Disk(left)
           cur == IF at.buffered = s THEN at.buf ELSE e.fat[s]
           zeroed == PutEntry(d, cur, s, c, 0)
           second == PutEntry(d, e.fat[t], t, c, 0)
           one == Put(V, s, c, 0)
           both == Put(one, t, c, 0)
           wrote == WriteFat(left, s, zeroed)
           next == Entry([e EXCEPT !.fat[s] = cur], c)
           a == [m |-> left, c |-> next, buffered |-> s, buf |-> zeroed, n |-> at.n + 1]
           b == [m |-> wrote, c |-> next, buffered |-> t, buf |-> second, n |-> at.n + 1]
           n == NukeOne(at)
<1>0. /\ Keeps(x, d) /\ DiskFields(d) /\ Typed(d) /\ d.type = x.d.type /\ d.type \in Types
      /\ DiskFields(V) /\ Typed(V) /\ V.type = x.d.type /\ c \in Numbered \ x.rest
  BY SafeDisk, TableAssumption DEF Keeps, Context, Typed, Cluster, Numbered
<1>1. s \in 1 .. FatSectors /\ t \in 1 .. FatSectors /\ s = FirstSector(V, c) /\ t = LastSector(V, c)
      /\ 0 \in 0 .. EndMark(d.type) /\ 0 \in 0 .. EndMark(V.type)
  <2>1. s \in 1 .. FatSectors /\ t \in 1 .. FatSectors
    BY <1>0, Sectors
  <2>2. s = FirstSector(V, c) /\ t = LastSector(V, c)
    BY <1>0 DEF FirstSector, LastSector
  <2> DEFINE end == EndMark(d.type)
  <2>3. end \in Nat /\ end = EndMark(V.type)
    BY <1>0, Kinds
  <2> HIDE DEF end
  <2>4. 0 \in 0 .. end
    BY <2>3
  <2> QED BY <2>1, <2>2, <2>3, <2>4 DEF end
<1> HIDE DEF s, t
<1>2. /\ V.type = d.type /\ V.info = d.info /\ V.data = d.data /\ V.dir = d.dir
      /\ \A k \in 1 .. FatSectors : k # at.buffered => V.fat[k] = d.fat[k]
      /\ at.buffered # 0 => V.fat[at.buffered] = at.buf
  <2> HIDE DEF d
  <2>1. CASE at.buffered = 0
    BY <2>1 DEF Virtual, d
  <2>2. CASE at.buffered # 0
    <3>1. V = [d EXCEPT !.fat[at.buffered] = at.buf]
      BY <2>2 DEF Virtual, d
    <3>2. at.buffered \in 1 .. FatSectors
      BY <2>2, TableAssumption
    <3> HIDE DEF V
    <3> QED BY <1>0, <3>1, <3>2 DEF DiskFields, Typed
  <2> QED BY <2>1, <2>2
<1>3. /\ Safe(x, left) /\ Wrote(at.m, left) /\ Keeps(x, e)
      /\ e.type = d.type /\ e.info = V.info /\ e.data = V.data /\ e.dir = V.dir
      /\ \A k \in 1 .. FatSectors : k # s => e.fat[k] = V.fat[k]
      /\ cur = V.fat[s]
  <2>1. CASE at.buffered = 0
    <3>1. left = at.m /\ e = d /\ cur = d.fat[s] /\ V = d
      BY <1>1, <2>1 DEF Virtual
    <3> HIDE DEF left, e, cur, V, d
    <3> QED BY <1>0, <3>1 DEF Wrote
  <2>2. CASE at.buffered = s
    <3>1. left = at.m /\ e = d /\ cur = at.buf
      BY <2>2
    <3>2. s # 0
      BY <1>1
    <3> HIDE DEF left, e, cur, V, d
    <3> QED BY <1>0, <1>2, <2>2, <3>1, <3>2 DEF Wrote
  <2>3. CASE at.buffered \notin {0, s}
    <3>1. left = fatWriteLogical(at.m, V)
      BY <2>3 DEF WriteFat, Virtual
    <3>2. LET g == fatWriteLogical(at.m, V)
          IN  Safe(x, g) /\ Wrote(at.m, g) /\ IF at.m.panic THEN g = at.m ELSE Disk(g) = V
      <4> HIDE DEF V
      <4> QED BY SafeWrite DEF V
    <3>3. cur = e.fat[s] /\ Keeps(x, V)
      BY <2>3
    <3> HIDE DEF left, V, cur
    <3>4. Safe(x, left) /\ Wrote(at.m, left) /\ e = V
      BY <3>1, <3>2
    <3> HIDE DEF e
    <3> QED BY <1>0, <1>2, <3>3, <3>4
  <2> QED BY <2>1, <2>2, <2>3
<1> HIDE DEF left, cur
<1>4. V = [e EXCEPT !.fat[s] = cur]
  <2> HIDE DEF e, V
  <2>1. V = [e EXCEPT !.fat[s] = V.fat[s]]
    <3>1. DiskFields(e) /\ Typed(e) /\ V.type = e.type
      BY <1>2, <1>3 DEF Keeps
    <3>2. \A k \in 1 .. FatSectors : k # s => V.fat[k] = e.fat[k]
      BY <1>3
    <3> QED BY <1>0, <1>1, <1>3, <3>1, <3>2, SetSector
  <2> QED BY <1>3, <2>1
<1>5. next = Links(V)[c]
  BY <1>0, <1>4 DEF Links
<1>6. /\ Keeps(x, one) /\ one.info = V.info /\ one.dir = V.dir
      /\ DiskFields(one) /\ Typed(one) /\ one.type = V.type /\ one.data = V.data
      /\ \A k \in 1 .. FatSectors : k # s => one.fat[k] = V.fat[k]
      /\ one.fat[s] = PutEntry(V, V.fat[s], s, c, 0)
  <2> HIDE DEF V
  <2>1. Keeps(x, V)
    BY DEF V
  <2>2. Keeps(x, one) /\ one.info = V.info /\ one.dir = V.dir
    BY <1>0, <1>1, <2>1, PutKeeps
  <2>3. LET g == Put(V, s, c, 0)
        IN  /\ DiskFields(g) /\ Typed(g) /\ g.type = V.type /\ g.info = V.info
            /\ g.data = V.data /\ g.dir = V.dir
            /\ \A k \in 1 .. FatSectors : k # s => g.fat[k] = V.fat[k]
            /\ g.fat[s] = PutEntry(V, V.fat[s], s, c, 0)
    <3>1. c \in Numbered
      BY <1>0
    <3> HIDE DEF c
    <3> QED BY <1>0, <1>1, <3>1, PutTyped
  <2> QED BY <2>2, <2>3
<1>7. zeroed = one.fat[s]
  <2> HIDE DEF one, V
  <2>1. PutEntry(V, V.fat[s], s, c, 0) = PutEntry(d, V.fat[s], s, c, 0)
    <3> HIDE DEF d
    <3> QED BY <1>2, Zenon DEF PutEntry
  <2> QED BY <1>3, <1>6, <2>1
<1>8. one = [e EXCEPT !.fat[s] = zeroed]
  <2> HIDE DEF one, e, zeroed, V, d
  <2>1. one = [e EXCEPT !.fat[s] = one.fat[s]]
    <3>1. DiskFields(e) /\ Typed(e) /\ one.type = e.type
      BY <1>2, <1>3, <1>6 DEF Keeps
    <3>2. \A k \in 1 .. FatSectors : k # s => one.fat[k] = e.fat[k]
      BY <1>3, <1>6
    <3>3. one.info = e.info /\ one.data = e.data /\ one.dir = e.dir
      BY <1>3, <1>6
    <3> QED BY <1>1, <1>6, <3>1, <3>2, <3>3, SetSector
  <2> QED BY <1>7, <2>1
<1>9. LET g == IF t = s THEN one ELSE both IN Links(g) = [Links(V) EXCEPT ![c] = 0]
  <2> HIDE DEF V
  <2>1. c \in Numbered
    BY <1>0
  <2> HIDE DEF c
  <2> QED BY <1>0, <1>1, <2>1, BothPut
<1>10. ~fatEndCluster(d, c)
  BY <1>0, NotEnd
<1>11. n = IF t = s THEN a ELSE b
  BY <1>10, Zenon DEF NukeOne, left, cur, s, t
<1>12. CASE t = s
  <2>1. n = a
    BY <1>11, <1>12, Zenon
  <2>2. /\ a.m = left /\ a.c = next /\ a.buffered = s /\ a.buf = zeroed /\ a.n = at.n + 1
    OBVIOUS
  <2> HIDE DEF a, n
  <2>3. Virtual(a) = one
    <3>1. Virtual(a) = [Disk(left) EXCEPT !.fat[s] = zeroed]
      <4>1. s # 0
        BY <1>1
      <4> HIDE DEF zeroed
      <4> QED BY <2>2, <4>1, Zenon DEF Virtual
    <3> QED BY <1>8, <3>1, Zenon
  <2>4. Links(one) = [Links(V) EXCEPT ![c] = 0]
    BY <1>9, <1>12, Zenon
  <2> HIDE DEF one, V, next, zeroed, e
  <2>5. /\ Safe(x, n.m) /\ Wrote(at.m, n.m) /\ n.buffered \in 1 .. FatSectors
        /\ Keeps(x, Virtual(n))
        /\ Links(Virtual(n)) = [Links(V) EXCEPT ![c] = 0]
        /\ Virtual(n).info = V.info /\ Virtual(n).dir = V.dir
        /\ n.c = Links(V)[c] /\ n.n = at.n + 1
    BY <1>1, <1>3, <1>5, <1>6, <2>1, <2>2, <2>3, <2>4, Zenon
  <2> QED BY <2>5, Zenon DEF n, V
<1>13. CASE t # s
  <2>1. n = b
    BY <1>11, <1>13, Zenon
  <2>2. /\ b.m = wrote /\ b.c = next /\ b.buffered = t /\ b.buf = second /\ b.n = at.n + 1
    OBVIOUS
  <2>3. wrote = fatWriteLogical(left, one)
    BY <1>8, Zenon DEF WriteFat
  <2> HIDE DEF a, b, n
  <2>4. Safe(x, wrote) /\ Wrote(at.m, wrote) /\ Disk(wrote) = one
    <3>1. ~left.panic
      BY <1>3 DEF Wrote
    <3>2. LET g == fatWriteLogical(left, one)
          IN  Safe(x, g) /\ Wrote(left, g) /\ IF left.panic THEN g = left ELSE Disk(g) = one
      <4> HIDE DEF one
      <4> QED BY <1>3, <1>6, SafeWrite
    <3> HIDE DEF wrote, one
    <3> QED BY <1>3, <2>3, <3>1, <3>2 DEF Wrote
  <2>5. second = PutEntry(one, one.fat[t], t, c, 0)
    <3>1. one.fat[t] = e.fat[t] /\ one.type = d.type
      BY <1>1, <1>2, <1>3, <1>6, <1>13
    <3> HIDE DEF one, e, d
    <3> QED BY <3>1, Zenon DEF PutEntry
  <2>6. Virtual(b) = both
    <3>1. Virtual(b) = [Disk(wrote) EXCEPT !.fat[t] = second]
      <4>1. t # 0
        BY <1>1
      <4> HIDE DEF second, wrote
      <4> QED BY <2>2, <4>1, Zenon DEF Virtual
    <3> HIDE DEF second, wrote, one
    <3> QED BY <2>4, <2>5, <3>1, Zenon DEF Put
  <2>7. Keeps(x, both) /\ both.info = one.info /\ both.dir = one.dir
    <3>1. 0 \in 0 .. EndMark(one.type)
      BY <1>1, <1>6
    <3> HIDE DEF one
    <3> QED BY <1>0, <1>1, <1>6, <3>1, PutKeeps
  <2>8. Links(both) = [Links(V) EXCEPT ![c] = 0]
    BY <1>9, <1>13, Zenon
  <2> HIDE DEF one, both, V, next, zeroed, e, wrote, second
  <2>9. /\ Safe(x, n.m) /\ Wrote(at.m, n.m) /\ n.buffered \in 1 .. FatSectors
        /\ Keeps(x, Virtual(n))
        /\ Links(Virtual(n)) = [Links(V) EXCEPT ![c] = 0]
        /\ Virtual(n).info = V.info /\ Virtual(n).dir = V.dir
        /\ n.c = Links(V)[c] /\ n.n = at.n + 1
    BY <1>1, <1>5, <1>6, <2>1, <2>2, <2>4, <2>6, <2>7, <2>8, Zenon
  <2> QED BY <2>9, Zenon DEF n, V
<1> QED BY <1>12, <1>13

-------------------------------------------------------------------------------
\* The first k clusters of p are freed.
Nuking(x, m, p, at, k) ==
    /\ Safe(x, at.m) /\ ~at.m.panic /\ Wrote(m, at.m)
    /\ at.buffered \in 0 .. FatSectors
    /\ Keeps(x, Virtual(at))
    /\ Virtual(at).info = Disk(m).info /\ Virtual(at).dir = Disk(m).dir
    /\ \A b \in Numbered : Links(Virtual(at))[b] =
           IF \E j \in 1 .. k : p[j] = b THEN 0 ELSE Links(Disk(m))[b]
    /\ at.n = k
    /\ IF k < Len(p) THEN at.c = p[k + 1] ELSE fatEndCluster(x.d, at.c)

\* One round of fatNukeChain frees the next cluster of the chain.
LEMMA NukeStep ==
    ASSUME NEW x, Context(x), NEW m, Safe(x, m), ~m.panic, NEW p, Owns(x, Disk(m), p),
           NEW k \in Nat, k < Len(p), NEW at, Nuking(x, m, p, at, k)
    PROVE  Nuking(x, m, p, NukeOne(at), k + 1)
<1> DEFINE n == NukeOne(at)
           V == Virtual(at)
           c == at.c
           L == Links(Disk(m))
<1>0. /\ p \in Seq(Cluster) /\ Len(p) \in Nat /\ k + 1 \in 1 .. Len(p)
      /\ \A i, j \in 1 .. Len(p) : p[i] = p[j] => i = j
  BY DEF Owns, IsPath
<1>1. c = p[k + 1] /\ c \in Cluster /\ c \notin x.rest
  BY <1>0 DEF Nuking, Owns
<1>2. LET g == NukeOne(at)
      IN  /\ Safe(x, g.m) /\ Wrote(at.m, g.m) /\ g.buffered \in 1 .. FatSectors
          /\ Keeps(x, Virtual(g))
          /\ Links(Virtual(g)) = [Links(Virtual(at)) EXCEPT ![at.c] = 0]
          /\ Virtual(g).info = Virtual(at).info /\ Virtual(g).dir = Virtual(at).dir
          /\ g.c = Links(Virtual(at))[at.c] /\ g.n = at.n + 1
  BY <1>1, NukedOne DEF Nuking
<1>3. /\ Safe(x, n.m) /\ Wrote(at.m, n.m) /\ n.buffered \in 1 .. FatSectors
      /\ Keeps(x, Virtual(n))
      /\ Links(Virtual(n)) = [Links(V) EXCEPT ![c] = 0]
      /\ Virtual(n).info = V.info /\ Virtual(n).dir = V.dir
      /\ n.c = Links(V)[c] /\ n.n = at.n + 1
  BY <1>2, Zenon
<1> HIDE DEF n
<1>4. \A b \in Numbered : Links(V)[b] = IF \E j \in 1 .. k : p[j] = b THEN 0 ELSE L[b]
  BY DEF Nuking
<1>5. ~n.m.panic /\ Wrote(m, n.m)
  <2>1. ~at.m.panic /\ Wrote(m, at.m)
    BY DEF Nuking
  <2> QED BY <1>3, <2>1 DEF Wrote
<1>6. n.buffered \in 0 .. FatSectors
  BY <1>3, TableAssumption
<1>7. Virtual(n).info = Disk(m).info /\ Virtual(n).dir = Disk(m).dir
  BY <1>3 DEF Nuking
<1>8. n.n = k + 1
  BY <1>3 DEF Nuking
<1>9. \A b \in Numbered : Links(Virtual(n))[b] = IF \E j \in 1 .. k + 1 : p[j] = b THEN 0 ELSE L[b]
  <2> TAKE b \in Numbered
  <2>1. Links(Virtual(n))[b] = IF b = c THEN 0 ELSE Links(V)[b]
    <3>1. DOMAIN Links(V) = Numbered
      BY DEF Links
    <3> HIDE DEF V
    <3> QED BY <1>3, <3>1
  <2>2. (\E j \in 1 .. k + 1 : p[j] = b) <=> (\E j \in 1 .. k : p[j] = b) \/ p[k + 1] = b
    <3>1. 1 .. k + 1 = (1 .. k) \cup {k + 1}
      OBVIOUS
    <3> QED BY <3>1
  <2> HIDE DEF V, L, c
  <2> QED BY <1>1, <1>4, <2>1, <2>2, Zenon
<1>10. n.c = IF k + 1 < Len(p) THEN p[k + 2] ELSE EndMark(x.d.type)
  <2>1. c \in Numbered
    BY <1>1, TableAssumption DEF Cluster, Numbered
  <2>2. ~\E j \in 1 .. k : p[j] = c
    BY <1>0, <1>1
  <2>3. Links(V)[c] = L[c]
    BY <1>4, <2>1, <2>2
  <2>4. L[p[k + 1]] = IF k + 1 = Len(p) THEN EndMark(x.d.type) ELSE p[k + 1 + 1]
    BY <1>0 DEF Owns, IsPath
  <2>5. k + 1 + 1 = k + 2 /\ (k + 1 < Len(p) <=> k + 1 # Len(p))
    BY <1>0
  <2> HIDE DEF L, V, c
  <2> QED BY <1>1, <1>3, <2>3, <2>4, <2>5, Zenon
<1>11. IF k + 1 < Len(p) THEN n.c = p[(k + 1) + 1] ELSE fatEndCluster(x.d, n.c)
  <2>1. x.d.type \in Types
    BY DEF Context, Typed
  <2>2. fatEndCluster(x.d, EndMark(x.d.type))
    BY <2>1, NotEnd
  <2>3. (k + 1) + 1 = k + 2
    OBVIOUS
  <2> QED BY <1>10, <2>2, <2>3, Zenon
<1>12. Nuking(x, m, p, n, k + 1)
  <2> HIDE DEF V, c
  <2> QED BY <1>3, <1>5, <1>6, <1>7, <1>8, <1>9, <1>11, Zenon DEF Nuking, L
<1> QED BY <1>12 DEF n

\* Past the end of the chain, fatNukeChain frees nothing.
LEMMA NukeStop ==
    ASSUME NEW x, Context(x), NEW m, NEW p, NEW at, Nuking(x, m, p, at, Len(p)), Len(p) \in Nat
    PROVE  NukeOne(at) = at
<1>1. fatEndCluster(x.d, at.c)
  BY DEF Nuking
<1>2. Disk(at.m).type = x.d.type
  BY SafeDisk DEF Nuking, Keeps
<1>3. fatEndCluster(Disk(at.m), at.c)
  BY <1>1, <1>2 DEF fatEndCluster
<1> QED BY <1>3, Zenon DEF NukeOne

\* Deleting frees the clusters of the chain and no others, and counts them.
LEMMA Nuked ==
    ASSUME NEW x, Context(x), NEW m, Safe(x, m), ~m.panic, NEW p, Owns(x, Disk(m), p), NEW c, StartsAt(p, c)
    PROVE  LET n == fatNuke(m, c)
           IN  Safe(x, n) /\ Wrote(m, n) /\ Owns(x, Disk(n), <<>>) /\ Disk(n).dir = Disk(m).dir
<1> DEFINE d == Disk(m)
           L == Links(d)
           l == Len(p)
           n == fatNuke(m, c)
           end == EndMark(x.d.type)
<1>0. /\ p \in Seq(Cluster) /\ l \in Nat /\ l < NumClusters /\ NumClusters \in Nat
      /\ Range(p) \subseteq Cluster /\ Cardinality(Range(p)) = l /\ IsFiniteSet(Range(p))
      /\ IsPath(L, end, p) /\ (p = <<>> <=> l = 0)
  <2>1. IsPath(L, end, p)
    BY DEF Owns
  <2> HIDE DEF L, end
  <2>2. p \in Seq(Cluster)
    BY <2>1 DEF IsPath
  <2>3. p = <<>> <=> l = 0
    BY <2>2
  <2> QED BY <2>1, <2>2, <2>3, PathLength, TableAssumption
<1>1. Keeps(x, d) /\ Typed(d) /\ d.type = x.d.type /\ x.d.type \in Types /\ d.info.free \in Int
      /\ d.info.last \in Nat
  BY SafeDisk DEF Keeps, Context, Typed
<1>2. CASE c = 0
  <2>1. n = m
    BY <1>2, Zenon DEF fatNuke
  <2>2. p = <<>>
    <3>1. l # 0 => p[1] \in Cluster
      BY <1>0
    <3>2. 0 \notin Cluster
      BY <1>1, NotEnd
    <3> QED BY <1>0, <1>2, <3>1, <3>2 DEF StartsAt
  <2> HIDE DEF n
  <2>3. Safe(x, n) /\ Wrote(m, n) /\ Owns(x, Disk(n), <<>>) /\ Disk(n).dir = Disk(m).dir
    BY <2>1, <2>2 DEF Wrote
  <2> QED BY <2>3 DEF n
<1>3. CASE c # 0
  <2>1. PICK at : /\ at[0] = [m |-> m, c |-> c, buffered |-> 0, buf |-> <<>>, n |-> 0]
                  /\ \A i \in 1 .. NumClusters : at[i] = NukeOne(at[i - 1])
                  /\ NukeSome(m, c, NumClusters) = at[NumClusters]
    BY <1>0, NukeSteps
  <2> DEFINE S == {i \in Nat : Nuking(x, m, p, at[i], IF i <= l THEN i ELSE l)}
  <2>2. 0 \in S
    <3> DEFINE a == at[0]
    <3>1. a.m = m /\ a.c = c /\ a.buffered = 0 /\ a.n = 0
      BY <2>1
    <3> HIDE DEF a
    <3>2. Virtual(a) = d
      BY <3>1 DEF Virtual
    <3>3. IF 0 < l THEN a.c = p[0 + 1] ELSE fatEndCluster(x.d, a.c)
      <4>1. CASE l = 0
        <5>1. c = -1
          BY <1>0, <1>3, <4>1 DEF StartsAt
        <5>2. fatEndCluster(x.d, -1)
          BY <1>1, NotEnd
        <5> QED BY <3>1, <4>1, <5>1, <5>2
      <4>2. CASE l # 0
        <5>1. c = p[1] /\ 0 + 1 = 1 /\ 0 < l
          BY <1>0, <4>2 DEF StartsAt
        <5> QED BY <3>1, <5>1, Zenon
      <4> QED BY <4>1, <4>2
    <3>4. ~\E j \in 1 .. 0 : TRUE
      OBVIOUS
    <3>5. 0 \in 0 .. FatSectors
      BY TableAssumption
    <3>6. Nuking(x, m, p, a, 0)
      <4> HIDE DEF d, l
      <4>1. \A b \in Numbered : Links(Virtual(a))[b] = IF \E j \in 1 .. 0 : p[j] = b THEN 0 ELSE Links(Disk(m))[b]
        BY <3>2, <3>4, Zenon DEF d
      <4>2. Safe(x, a.m) /\ ~a.m.panic /\ Wrote(m, a.m) /\ a.buffered \in 0 .. FatSectors
        BY <3>1, <3>5 DEF Wrote
      <4>3. Keeps(x, Virtual(a)) /\ Virtual(a).info = Disk(m).info /\ Virtual(a).dir = Disk(m).dir
        BY <1>1, <3>2 DEF d
      <4> QED BY <3>1, <3>3, <4>1, <4>2, <4>3, Zenon DEF Nuking, l
    <3>7. (IF 0 <= l THEN 0 ELSE l) = 0
      BY <1>0
    <3> QED BY <3>6, <3>7 DEF a
  <2>3. ASSUME NEW i \in 0 .. NumClusters - 1, i \in S PROVE i + 1 \in S
    <3>0. i \in Nat /\ i + 1 \in 1 .. NumClusters /\ (i + 1) - 1 = i
      BY <1>0
    <3>1. at[i + 1] = NukeOne(at[i])
      BY <2>1, <3>0
    <3>2. CASE i < l
      <4>1. Nuking(x, m, p, at[i], i)
        BY <2>3, <3>0, <3>2
      <4>2. Nuking(x, m, p, at[i + 1], i + 1)
        <5> HIDE DEF l
        <5> QED BY <3>0, <3>1, <3>2, <4>1, NukeStep DEF l
      <4>3. i + 1 <= l
        BY <1>0, <3>0, <3>2
      <4> QED BY <3>0, <4>2, <4>3
    <3>3. CASE i >= l
      <4>1. Nuking(x, m, p, at[i], l)
        BY <1>0, <2>3, <3>0, <3>3
      <4>2. at[i + 1] = at[i]
        BY <1>0, <3>1, <4>1, NukeStop
      <4>3. ~(i + 1 <= l)
        BY <1>0, <3>0, <3>3
      <4> QED BY <3>0, <4>1, <4>2, <4>3
    <3> QED BY <1>0, <3>0, <3>2, <3>3
  <2>4. \A i \in 0 .. NumClusters : i \in S
    <3> HIDE DEF S
    <3> QED BY <1>0, <2>2, <2>3, UpTo
  <2> DEFINE a == at[NumClusters]
             V == Virtual(a)
             done == IF a.buffered = 0 THEN a.m ELSE WriteFat(a.m, a.buffered, a.buf)
             i == WriteInfo(done, a.n, Disk(a.m).info.last)
  <2>5. Nuking(x, m, p, a, l)
    <3>1. NumClusters \in S
      BY <1>0, <2>4
    <3>2. (IF NumClusters <= l THEN NumClusters ELSE l) = l
      BY <1>0
    <3> QED BY <3>1, <3>2
  <2>6. n = IF Disk(a.m).type = 32 THEN i ELSE done
    BY <1>3, <2>1, Zenon DEF fatNuke, NukeEnd
  <2> HIDE DEF a, n
  <2>7. Safe(x, done) /\ Wrote(m, done) /\ Disk(done) = V
    <3>1. Safe(x, a.m) /\ ~a.m.panic /\ Wrote(m, a.m) /\ Keeps(x, V)
      BY <2>5 DEF Nuking
    <3>2. CASE a.buffered = 0
      BY <3>1, <3>2 DEF Virtual
    <3>3. CASE a.buffered # 0
      <4>1. done = fatWriteLogical(a.m, V)
        BY <3>3 DEF WriteFat, Virtual
      <4>2. LET g == fatWriteLogical(a.m, V)
            IN  Safe(x, g) /\ Wrote(a.m, g) /\ IF a.m.panic THEN g = a.m ELSE Disk(g) = V
        <5> HIDE DEF V
        <5> QED BY <3>1, SafeWrite
      <4> HIDE DEF done, V
      <4> QED BY <3>1, <4>1, <4>2 DEF Wrote
    <3> QED BY <3>2, <3>3
  <2>8. /\ V.info = d.info /\ V.dir = d.dir /\ a.n = l
        /\ \A b \in Numbered : Links(V)[b] = IF \E j \in 1 .. l : p[j] = b THEN 0 ELSE L[b]
    BY <2>5, Zenon DEF Nuking
  <2>9. \A b \in Numbered : Links(V)[b] = IF b \in Range(p) THEN 0 ELSE L[b]
    <3>1. \A b : b \in Range(p) <=> \E j \in 1 .. l : p[j] = b
      BY <1>0 DEF Range
    <3> HIDE DEF V, l, L
    <3> QED BY <2>8, <3>1, Zenon
  <2> HIDE DEF V, done
  <2>10. Free(Links(V)) = Free(L) \cup Range(p) /\ Free(L) \cap Range(p) = {}
    <3>1. \A b \in Range(p) : L[b] # 0
      <4> TAKE b \in Range(p)
      <4>1. PICK j \in 1 .. l : p[j] = b
        BY <1>0 DEF Range
      <4>2. end # 0 /\ 0 \notin Cluster
        BY <1>1, Kinds, NotEnd
      <4>3. j = l \/ p[j + 1] \in Cluster
        BY <1>0, <4>1
      <4> HIDE DEF L, end
      <4> QED BY <1>0, <4>1, <4>2, <4>3 DEF IsPath
    <3>2. \A b \in Cluster : b \in Numbered
      BY <1>1, NotEnd
    <3> HIDE DEF L
    <3> QED BY <1>0, <2>9, <3>1, <3>2 DEF Free
  <2>11. Cardinality(Free(Links(V))) = Cardinality(Free(L)) + l /\ Cardinality(Free(L)) \in Nat
    <3>1. IsFiniteSet(Free(L)) /\ Cardinality(Free(L)) \in Nat
      BY FreeAre
    <3>2. Cardinality(Free(L) \cup Range(p)) = Cardinality(Free(L)) + Cardinality(Range(p)) - Cardinality(Free(L) \cap Range(p))
      BY <1>0, <3>1, FS_Union
    <3>3. Cardinality(Free(L) \cap Range(p)) = 0
      BY <2>10, FS_EmptySet
    <3> HIDE DEF L, l
    <3> QED BY <1>0, <2>10, <3>1, <3>2, <3>3
  <2>12. Used(x, Links(V), <<>>)
    <3> SUFFICES ASSUME x.damaged = {}, NEW b \in Cluster
                 PROVE  Links(V)[b] = 0 <=> (b \notin x.rest /\ b \notin Range(<<>>))
      BY DEF Used
    <3>1. L[b] = 0 <=> (b \notin x.rest /\ b \notin Range(p))
      BY DEF Owns, Used
    <3>2. b \in Range(p) => b \notin x.rest
      <4>1. \A r : r \in Range(p) => \E j \in 1 .. l : p[j] = r
        BY <1>0 DEF Range
      <4> QED BY <4>1 DEF Owns
    <3>3. b \in Numbered
      BY <1>1, NotEnd
    <3> HIDE DEF L
    <3> QED BY <2>9, <3>1, <3>2, <3>3, EmptyRange
  <2>13. Owed(x, V, l)
    <3> HIDE DEF L, l, d
    <3> SUFFICES ASSUME x.damaged = {}, x.d.type = 32 PROVE V.info.free + l = Cardinality(Free(Links(V)))
      BY DEF Owed
    <3>1. d.info.free + 0 = Cardinality(Free(L))
      BY DEF Owns, Owed, L, d
    <3> QED BY <1>1, <2>8, <2>11, <3>1
  <2>14. Safe(x, n) /\ Wrote(m, n) /\ Links(Disk(n)) = Links(V) /\ Disk(n).dir = d.dir /\ Owed(x, Disk(n), 0)
    <3>0. ~done.panic
      BY <2>7 DEF Wrote
    <3>1. CASE x.d.type = 32
      <4>1. Disk(a.m).type = x.d.type /\ Disk(a.m).info.last \in Nat /\ a.n \in Int
        BY <1>0, <2>5, <2>8, SafeDisk DEF Nuking, Keeps
      <4>2. n = i
        BY <2>6, <3>1, <4>1
      <4>3. LET g == WriteInfo(done, a.n, Disk(a.m).info.last)
            IN  /\ Safe(x, g) /\ Wrote(done, g)
                /\ Links(Disk(g)) = Links(Disk(done)) /\ Disk(g).dir = Disk(done).dir
                /\ Disk(g).info.free = IF Disk(done).info.free = Unknown THEN Unknown
                                      ELSE Disk(done).info.free + a.n
        BY <2>7, <3>0, <4>1, InfoWritten
      <4> HIDE DEF L, l, d
      <4>4. /\ Safe(x, i) /\ Wrote(done, i) /\ Links(Disk(i)) = Links(V) /\ Disk(i).dir = V.dir
            /\ Disk(i).info.free = IF d.info.free = Unknown THEN Unknown ELSE d.info.free + l
        BY <2>7, <2>8, <4>3
      <4> HIDE DEF i
      <4>5. Owed(x, Disk(i), 0)
        <5> SUFFICES ASSUME x.damaged = {}, x.d.type = 32
                     PROVE  Disk(i).info.free + 0 = Cardinality(Free(Links(Disk(i))))
          BY DEF Owed
        <5>1. d.info.free + 0 = Cardinality(Free(L))
          BY DEF Owns, Owed, L, d
        <5>2. d.info.free # Unknown
          BY <2>11, <5>1, <1>1 DEF Unknown
        <5> QED BY <1>0, <1>1, <2>11, <4>4, <5>1, <5>2
      <4> QED BY <2>7, <2>8, <4>2, <4>4, <4>5 DEF Wrote
    <3>2. CASE x.d.type # 32
      <4>1. Disk(a.m).type = x.d.type
        BY <2>5, SafeDisk DEF Nuking, Keeps
      <4>2. n = done
        BY <2>6, <3>2, <4>1
      <4>3. Owed(x, Disk(n), 0)
        BY <3>2 DEF Owed
      <4> QED BY <2>7, <2>8, <4>2, <4>3
    <3> QED BY <3>1, <3>2
  <2>15. Owns(x, Disk(n), <<>>)
    <3>1. IsPath(Links(Disk(n)), EndMark(x.d.type), <<>>)
      BY DEF IsPath
    <3>2. Used(x, Links(Disk(n)), <<>>)
      BY <2>12, <2>14
    <3>3. \A j \in 1 .. Len(<<>>) : <<>>[j] \notin x.rest
      OBVIOUS
    <3> QED BY <2>14, <3>1, <3>2, <3>3, Zenon DEF Owns
  <2> QED BY <2>14, <2>15 DEF n
<1> QED BY <1>2, <1>3

-------------------------------------------------------------------------------
\* The clusters a size needs.
Fits(p, size) ==
    IF size = 0 THEN p = <<>>
    ELSE (Len(p) - 1) * ClusterBytes < size /\ size <= Len(p) * ClusterBytes

\* The handle points to sector k of the file.
AtSector(h, p, k) ==
    /\ k \in Nat /\ k \div SectorsPerCluster < Len(p)
    /\ h.cur = p[1 + k \div SectorsPerCluster] /\ h.up = k % SectorsPerCluster

\* The sector of currpos, or the last one.
Place(h) == IF h.pos < h.size THEN h.pos \div SectorBytes ELSE (h.size - 1) \div SectorBytes

\* The cluster the handle is in by its position and its sectorUpto.
Old(h) == h.pos \div ClusterBytes - (IF h.pos % ClusterBytes = 0 /\ h.pos # 0 /\ h.up # 0 THEN 1 ELSE 0)

\* A handle of a file of that size with the chain p.
EmptyHandle(d, h) ==
    /\ h.start \in {0, EmptyStart(d.type)}
    /\ h.next = 0 /\ ~h.stale

\* A handle at its position ...
PlacedHandle(p, h) ==
    /\ AtSector(h, p, Place(h))
    /\ h.pos > h.size \/ (h.pos = h.size /\ h.next # 0) => h.size % SectorBytes # 0

\* ... one that lags or leads by a sector, but not by a cluster: "stale" in FatFiles ...
StaleHandle(p, h) ==
    /\ h.pos <= h.size /\ h.pos % SectorBytes = 0 /\ h.pos # 0
    /\ Old(h) \in 0 .. Len(p) - 1 /\ h.cur = p[1 + Old(h)]
    /\ h.up \in 0 .. SectorsPerCluster

\* ... and either as a handle of a file with the chain p.  next is 0 or what the table says.
FullHandle(d, p, h) ==
    /\ h.start = p[1]
    /\ \E i \in 1 .. Len(p) : h.cur = p[i]
    /\ h.next \in {0, Links(d)[h.cur]}
    /\ IF h.stale THEN StaleHandle(p, h) ELSE PlacedHandle(p, h)

\* The handle h of the file f with the chain p is in order.
HandleAt(d, f, p, h) ==
    /\ h.size = d.dir[f].size /\ h.pos \in Nat
    /\ IF h.size = 0 THEN EmptyHandle(d, h) ELSE FullHandle(d, p, h)

\* p is the chain of f: it starts at the directory entry, and the size needs all of it.
FileAt(d, f, p) ==
    /\ IsPath(Links(d), EndMark(d.type), p) /\ StartsAt(p, d.dir[f].start)
    /\ Fits(p, d.dir[f].size)

\* What is on the disk, of the files but those damaged.
DiskOK(d, lost) ==
    /\ Typed(d) /\ d.info \in [free : Int, last : Nat]
    /\ Links(d)[0] # 0 /\ Links(d)[1] # 0
    /\ \A f \in File : d.dir[f].start \in -1 .. NumClusters - 1 /\ d.dir[f].size \in 0 .. MaxSize
    /\ \A f \in File \ lost : FileAt(d, f, ChainIn(d, f))
    /\ \A f, g \in File \ lost : f # g => Range(ChainIn(d, f)) \cap Range(ChainIn(d, g)) = {}
    /\ lost = {} =>
        /\ \A c \in Cluster : Links(d)[c] = 0 <=> \A f \in File : c \notin Range(ChainIn(d, f))
        /\ d.type = 32 => d.info.free = Cardinality(Free(Links(d)))

\* Only files that no stop cut short are open, and their handles are in order.
HandlesOK(d, lost, handles) ==
    /\ DOMAIN handles \subseteq File \ lost
    /\ \A f \in DOMAIN handles : d.dir[f] # NoEntry /\ HandleAt(d, f, ChainIn(d, f), handles[f])

\* The inductive invariant.  The cache is part of it as all of the table is read through it,
\* and the handles are as every write trusts the cluster and the sector they hold.
ChainInv ==
    /\ CacheInv /\ CachePlaced(cached)
    /\ damaged \subseteq File /\ stops \in 0 .. MaxStops
    /\ DiskOK(disk, damaged)
    /\ HandlesOK(disk, damaged, handle)

\* The chain of a file is the one that its entry starts.
LEMMA ChainIs ==
    ASSUME NEW d, Typed(d), NEW f, NEW p, FileAt(d, f, p)
    PROVE  ChainIn(d, f) = p
<1>1. CASE d.dir[f] = NoEntry
  <2>1. p = <<>>
    BY <1>1 DEF FileAt, Fits, NoEntry
  <2> QED BY <1>1, <2>1 DEF ChainIn
<1>2. CASE d.dir[f] # NoEntry
  <2>1. Chain(d, d.dir[f].start, NumClusters) = p
    BY ChainFinds DEF FileAt
  <2> QED BY <1>2, <2>1 DEF ChainIn
<1> QED BY <1>1, <1>2

\* A disk with the same entries of its clusters has the same file.
LEMMA FileStays ==
    ASSUME NEW d, NEW f, NEW p, FileAt(d, f, p), NEW e, Typed(e), e.type = d.type,
           e.dir[f] = d.dir[f], \A c \in Range(p) : Links(e)[c] = Links(d)[c]
    PROVE  FileAt(e, f, p) /\ ChainIn(e, f) = p
<1>1. \A i \in 1 .. Len(p) : Links(e)[p[i]] = Links(d)[p[i]]
  <2>1. p \in Seq(Cluster)
    BY DEF FileAt, IsPath
  <2>2. \A i \in 1 .. Len(p) : p[i] \in Range(p)
    BY <2>1 DEF Range
  <2> QED BY <2>2
<1>2. IsPath(Links(e), EndMark(e.type), p)
  BY <1>1, PathFrame DEF FileAt
<1>3. FileAt(e, f, p)
  BY <1>2 DEF FileAt
<1> QED BY <1>3, ChainIs

\* So does its handle.
LEMMA HandleStays ==
    ASSUME NEW d, NEW f, NEW p, p \in Seq(Cluster), NEW h, HandleAt(d, f, p, h), NEW e, e.type = d.type,
           e.dir[f] = d.dir[f], \A c \in Range(p) : Links(e)[c] = Links(d)[c]
    PROVE  HandleAt(e, f, p, h)
<1>1. EmptyHandle(d, h) => EmptyHandle(e, h)
  BY DEF EmptyHandle
<1>2. FullHandle(d, p, h) => FullHandle(e, p, h)
  <2> SUFFICES ASSUME FullHandle(d, p, h) PROVE FullHandle(e, p, h)
    OBVIOUS
  <2>1. PICK i \in 1 .. Len(p) : h.cur = p[i]
    BY DEF FullHandle
  <2>2. h.cur \in Range(p)
    BY <2>1 DEF Range
  <2>3. Links(e)[h.cur] = Links(d)[h.cur]
    BY <2>2
  <2> QED BY <2>3, Zenon DEF FullHandle
<1> QED BY <1>1, <1>2, Zenon DEF HandleAt

\* A call on f.
Others(f) == {0, 1} \cup UNION {Range(ChainIn(disk, g)) : g \in (File \ damaged) \ {f}}
On(f) == [d |-> disk, f |-> f, rest |-> Others(f), damaged |-> damaged]

\* The fields of the context of a call on f.
LEMMA OnFields ==
    ASSUME NEW f
    PROVE  On(f).d = disk /\ On(f).f = f /\ On(f).rest = Others(f) /\ On(f).damaged = damaged
  BY DEF On

\* The chain of a file is one of clusters.
LEMMA PathClusters ==
    ASSUME NEW d, NEW f, NEW p, FileAt(d, f, p)
    PROVE  /\ p \in Seq(Cluster) /\ Range(p) \subseteq Cluster
           /\ \A c \in Range(p) : \E i \in 1 .. Len(p) : p[i] = c
<1>1. p \in Seq(Cluster)
  BY DEF FileAt, IsPath
<1> QED BY <1>1 DEF Range

\* A call on f begins in order: its chain is its own.
LEMMA OnContext ==
    ASSUME ChainInv, NEW f \in File \ damaged
    PROVE  /\ Context(On(f)) /\ Keeps(On(f), disk) /\ Owns(On(f), disk, ChainIn(disk, f))
           /\ FileAt(disk, f, ChainIn(disk, f))
<1> DEFINE x == On(f)
           p == ChainIn(disk, f)
           L == Links(disk)
<1>0. /\ x.d = disk /\ x.f = f /\ x.rest = Others(f) /\ x.damaged = damaged
  BY OnFields
<1> HIDE DEF x
<1>1. /\ DiskFields(disk) /\ Typed(disk) /\ disk.type \in Types
      /\ DiskOK(disk, damaged)
  BY DEF ChainInv, CacheInv, DiskOK, Typed
<1>2. \A g \in File \ damaged : FileAt(disk, g, ChainIn(disk, g))
  BY <1>1, Zenon DEF DiskOK
<1>3. \A g \in File \ damaged : Range(ChainIn(disk, g)) \subseteq Cluster
  BY <1>2, PathClusters
<1>4. Numbered = Cluster \cup {0, 1} /\ EndMark(disk.type) # 0 /\ 0 \notin Cluster
  BY <1>1, NotEnd, Kinds
<1>5. x.rest \subseteq Numbered /\ 0 \in x.rest /\ 1 \in x.rest
  BY <1>0, <1>3, <1>4 DEF Others
<1>6. \A c \in x.rest : L[c] # 0
  <2> TAKE c \in x.rest
  <2>1. CASE c \in {0, 1}
    BY <1>1, <2>1 DEF DiskOK
  <2>2. CASE c \notin {0, 1}
    <3>1. PICK g \in File \ damaged : c \in Range(ChainIn(disk, g))
      BY <1>0, <2>2 DEF Others
    <3> DEFINE q == ChainIn(disk, g)
    <3>2. FileAt(disk, g, q)
      BY <1>2
    <3> HIDE DEF q
    <3>3. PICK i \in 1 .. Len(q) : q[i] = c
      BY <3>1, <3>2, PathClusters DEF q
    <3>4. q \in Seq(Cluster)
      BY <3>2, PathClusters
    <3>5. L[q[i]] = IF i = Len(q) THEN EndMark(disk.type) ELSE q[i + 1]
      BY <3>2, <3>3 DEF FileAt, IsPath
    <3>6. i # Len(q) => q[i + 1] \in Cluster
      BY <3>3, <3>4
    <3> QED BY <1>4, <3>3, <3>5, <3>6
  <2> QED BY <2>1, <2>2
<1>7. Context(x)
  BY <1>0, <1>1, <1>5, <1>6, Zenon DEF Context
<1>8. Keeps(x, disk)
  BY <1>0, <1>1 DEF Keeps, DiskOK
<1>9. FileAt(disk, f, p)
  BY <1>2
<1>10. \A i \in 1 .. Len(p) : p[i] \notin x.rest
  <2> TAKE i \in 1 .. Len(p)
  <2>1. p[i] \in Range(p) /\ p[i] \in Cluster
    BY <1>9, PathClusters DEF Range
  <2>2. p[i] \notin {0, 1}
    BY <2>1, TableAssumption DEF Cluster
  <2>3. \A g \in (File \ damaged) \ {f} : p[i] \notin Range(ChainIn(disk, g))
    BY <1>1, <2>1 DEF DiskOK
  <2> QED BY <1>0, <2>2, <2>3 DEF Others
<1>11. Used(x, L, p)
  <2> SUFFICES ASSUME damaged = {}, NEW c \in Cluster
               PROVE  L[c] = 0 <=> (c \notin x.rest /\ c \notin Range(p))
    BY <1>0 DEF Used
  <2>1. L[c] = 0 <=> \A g \in File : c \notin Range(ChainIn(disk, g))
    BY <1>1 DEF DiskOK
  <2>2. c \in Others(f) <=> \E g \in (File \ damaged) \ {f} : c \in Range(ChainIn(disk, g))
    <3>1. c \notin {0, 1}
      BY TableAssumption DEF Cluster
    <3> QED BY <3>1 DEF Others
  <2> HIDE DEF L
  <2> QED BY <1>0, <2>1, <2>2
<1>12. Owed(x, disk, 0)
  <2> SUFFICES ASSUME damaged = {}, disk.type = 32
               PROVE  disk.info.free + 0 = Cardinality(Free(Links(disk)))
    BY <1>0 DEF Owed
  <2>1. disk.info.free = Cardinality(Free(Links(disk))) /\ disk.info.free \in Int
    BY <1>1 DEF DiskOK
  <2> QED BY <2>1
<1>13. Owns(x, disk, p)
  BY <1>0, <1>9, <1>10, <1>11, <1>12, Zenon DEF Owns, FileAt
<1> QED BY <1>7, <1>8, <1>9, <1>13 DEF x

\* A call begins with the disk as it is.
LEMMA CallSafe ==
    ASSUME ChainInv, NEW f \in File \ damaged, NEW h, HandleFields(h)
    PROVE  LET m == Call(h)
           IN  /\ Safe(On(f), m) /\ ~m.panic /\ m.h = h /\ Disk(m) = disk /\ m.img = <<disk>>
               /\ m.bytes = <<>>
<1>1. LET m == Call(h) IN Whole(m) /\ m.h = h /\ m.img = <<disk>> /\ Disk(m) = disk
  BY CallWhole DEF ChainInv
<1>2. LET m == Call(h) IN ~m.panic /\ m.cached = cached /\ m.bytes = <<>>
  BY DEF Call
<1>3. Keeps(On(f), disk) /\ CachePlaced(cached)
  BY OnContext DEF ChainInv
<1>4. \A i \in 1 .. Len(<<disk>>) : <<disk>>[i] = disk
  OBVIOUS
<1> DEFINE m == Call(h)
<1> HIDE DEF m
<1>5. Safe(On(f), m) /\ ~m.panic /\ m.h = h /\ Disk(m) = disk /\ m.img = <<disk>> /\ m.bytes = <<>>
  BY <1>1, <1>2, <1>3, <1>4, Zenon DEF Safe, m
<1> QED BY <1>5, Zenon DEF m

-------------------------------------------------------------------------------
\* The data makes no difference.
LEMMA DiskSame ==
    ASSUME NEW d, NEW lost, DiskOK(d, lost), NEW e, e.type = d.type, e.fat = d.fat, e.info = d.info, e.dir = d.dir
    PROVE  /\ DiskOK(e, lost) /\ Links(e) = Links(d)
           /\ \A f \in File \ lost : ChainIn(e, f) = ChainIn(d, f)
<1>1. Typed(e)
  BY DEF DiskOK, Typed
<1>2. \A c \in Numbered : Entry(e, c) = Entry(d, c)
  BY ZenonT(60) DEF Entry, Nibble
<1>3. Links(e) = Links(d)
  BY <1>2 DEF Links
<1>4. \A f \in File \ lost : ChainIn(e, f) = ChainIn(d, f) /\ FileAt(e, f, ChainIn(e, f))
  <2> TAKE f \in File \ lost
  <2>1. FileAt(d, f, ChainIn(d, f))
    BY DEF DiskOK
  <2> DEFINE p == ChainIn(d, f)
  <2> HIDE DEF p
  <2>2. FileAt(e, f, p) /\ ChainIn(e, f) = p
    BY <1>1, <1>3, <2>1, FileStays DEF p
  <2> QED BY <2>2 DEF p
<1>5. lost = {} => \A c \in Cluster : (\A f \in File : c \notin Range(ChainIn(d, f)))
                                       <=> (\A f \in File : c \notin Range(ChainIn(e, f)))
  BY <1>4
<1>6. DiskOK(e, lost)
  <2>1. \A f, g \in File \ lost : f # g => Range(ChainIn(e, f)) \cap Range(ChainIn(e, g)) = {}
    <3> TAKE f, g \in File \ lost
    <3>1. ChainIn(e, f) = ChainIn(d, f) /\ ChainIn(e, g) = ChainIn(d, g)
      BY <1>4
    <3>2. f # g => Range(ChainIn(d, f)) \cap Range(ChainIn(d, g)) = {}
      BY DEF DiskOK
    <3> QED BY <3>1, <3>2, Zenon
  <2>2. lost = {} => \A c \in Cluster : Links(e)[c] = 0 <=> \A f \in File : c \notin Range(ChainIn(e, f))
    <3> SUFFICES ASSUME lost = {}, NEW c \in Cluster
                 PROVE  Links(e)[c] = 0 <=> \A f \in File : c \notin Range(ChainIn(e, f))
      OBVIOUS
    <3>1. Links(d)[c] = 0 <=> \A f \in File : c \notin Range(ChainIn(d, f))
      BY DEF DiskOK
    <3>2. (\A f \in File : c \notin Range(ChainIn(d, f))) <=> (\A f \in File : c \notin Range(ChainIn(e, f)))
      BY <1>5
    <3> QED BY <1>3, <3>1, <3>2, Zenon
  <2>3. lost = {} /\ e.type = 32 => e.info.free = Cardinality(Free(Links(e)))
    BY <1>3, Zenon DEF DiskOK
  <2>4. /\ e.info \in [free : Int, last : Nat] /\ Links(e)[0] # 0 /\ Links(e)[1] # 0
        /\ \A f \in File : e.dir[f].start \in -1 .. NumClusters - 1 /\ e.dir[f].size \in 0 .. MaxSize
    BY <1>3, Zenon DEF DiskOK
  <2> QED BY <1>1, <1>4, <2>1, <2>2, <2>3, <2>4, Zenon DEF DiskOK
<1> QED BY <1>3, <1>4, <1>6

\* Whatever a call on f leaves, the others have their chains.
LEMMA OthersStay ==
    ASSUME ChainInv, NEW f \in File \ damaged, NEW e, Keeps(On(f), e), NEW g \in (File \ damaged) \ {f}
    PROVE  /\ FileAt(e, g, ChainIn(disk, g)) /\ ChainIn(e, g) = ChainIn(disk, g)
           /\ e.dir[g] = disk.dir[g]
           /\ \A c \in Range(ChainIn(disk, g)) : Links(e)[c] = Links(disk)[c]
<1> DEFINE x == On(f)
           p == ChainIn(disk, g)
<1>0. /\ x.d = disk /\ x.f = f /\ x.rest = Others(f) /\ x.damaged = damaged
  BY OnFields
<1>1. FileAt(disk, g, p)
  BY DEF ChainInv, DiskOK
<1>2. Typed(e) /\ e.type = disk.type /\ e.dir[g] = disk.dir[g]
  BY <1>0 DEF Keeps
<1>3. \A c \in Range(p) : Links(e)[c] = Links(disk)[c]
  <2>1. \A c \in Range(p) : c \in Others(f)
    BY DEF Others
  <2> HIDE DEF p
  <2> QED BY <1>0, <2>1 DEF Keeps
<1> HIDE DEF p
<1>4. FileAt(e, g, p) /\ ChainIn(e, g) = p
  BY <1>1, <1>2, <1>3, FileStays
<1> QED BY <1>2, <1>3, <1>4 DEF p

\* What a call on f keeps of the disk.
LEMMA KeptOnes ==
    ASSUME ChainInv, NEW f \in File \ damaged, NEW e, Keeps(On(f), e)
    PROVE  /\ Typed(e) /\ e.info \in [free : Int, last : Nat] /\ DiskFields(e) /\ e.type = disk.type
           /\ Links(e)[0] # 0 /\ Links(e)[1] # 0
           /\ \A g \in File : e.dir[g].start \in -1 .. NumClusters - 1 /\ e.dir[g].size \in 0 .. MaxSize
<1> DEFINE x == On(f)
<1>0. /\ x.d = disk /\ x.f = f /\ x.rest = Others(f) /\ x.damaged = damaged
  BY OnFields
<1>1. Context(x)
  BY OnContext
<1>2. \A c \in x.rest : Links(e)[c] # 0
  BY <1>1, RestTaken
<1> HIDE DEF x
<1>3. Links(e)[0] # 0 /\ Links(e)[1] # 0
  BY <1>1, <1>2 DEF Context
<1>4. \A g \in File : disk.dir[g].start \in -1 .. NumClusters - 1 /\ disk.dir[g].size \in 0 .. MaxSize
  BY DEF ChainInv, DiskOK
<1>5. Keeps(x, e)
  BY DEF x
<1>6. \A g \in File : e.dir[g].start \in -1 .. NumClusters - 1 /\ e.dir[g].size \in 0 .. MaxSize
  <2> TAKE g \in File
  <2>1. CASE g = f
    BY <1>0, <1>5, <2>1 DEF Keeps
  <2>2. CASE g # f
    <3>1. e.dir[g] = disk.dir[g]
      BY <1>0, <1>5, <2>2 DEF Keeps
    <3> QED BY <1>4, <3>1
  <2> QED BY <2>1, <2>2
<1> QED BY <1>0, <1>3, <1>5, <1>6, Zenon DEF Keeps

\* The call is cut short: f is lost.
LEMMA DiskCut ==
    ASSUME ChainInv, NEW f \in File \ damaged, NEW e, Keeps(On(f), e)
    PROVE  DiskOK(e, damaged \cup {f})
<1> DEFINE lost == damaged \cup {f}
<1>1. \A g \in File \ lost : FileAt(e, g, ChainIn(disk, g)) /\ ChainIn(e, g) = ChainIn(disk, g)
  BY OthersStay
<1>2. \A g \in File \ lost : FileAt(e, g, ChainIn(e, g))
  BY <1>1
<1>3. \A g, h \in File \ lost : g # h => Range(ChainIn(e, g)) \cap Range(ChainIn(e, h)) = {}
  <2> TAKE g, h \in File \ lost
  <2>1. ChainIn(e, g) = ChainIn(disk, g) /\ ChainIn(e, h) = ChainIn(disk, h)
    BY <1>1
  <2>2. g \in File \ damaged /\ h \in File \ damaged
    OBVIOUS
  <2>3. g # h => Range(ChainIn(disk, g)) \cap Range(ChainIn(disk, h)) = {}
    BY <2>2 DEF ChainInv, DiskOK
  <2> QED BY <2>1, <2>3, Zenon
<1>4. lost # {}
  OBVIOUS
<1> HIDE DEF lost
<1>5. /\ Typed(e) /\ e.info \in [free : Int, last : Nat] /\ DiskFields(e) /\ e.type = disk.type
      /\ Links(e)[0] # 0 /\ Links(e)[1] # 0
      /\ \A g \in File : e.dir[g].start \in -1 .. NumClusters - 1 /\ e.dir[g].size \in 0 .. MaxSize
  BY KeptOnes
<1>6. DiskOK(e, lost)
  BY <1>2, <1>3, <1>4, <1>5, Zenon DEF DiskOK
<1> QED BY <1>6 DEF lost

\* The call ends with the chain p.
LEMMA DiskAfter ==
    ASSUME ChainInv, NEW f \in File \ damaged, NEW e, Keeps(On(f), e), NEW p, Owns(On(f), e, p),
           StartsAt(p, e.dir[f].start), Fits(p, e.dir[f].size)
    PROVE  DiskOK(e, damaged) /\ ChainIn(e, f) = p
<1> DEFINE x == On(f)
<1>0. /\ x.d = disk /\ x.f = f /\ x.rest = Others(f) /\ x.damaged = damaged
  BY OnFields
<1> HIDE DEF x
<1>1. \A g \in (File \ damaged) \ {f} : FileAt(e, g, ChainIn(disk, g)) /\ ChainIn(e, g) = ChainIn(disk, g)
  BY OthersStay
<1>2. /\ Typed(e) /\ e.info \in [free : Int, last : Nat] /\ DiskFields(e) /\ e.type = disk.type
      /\ Links(e)[0] # 0 /\ Links(e)[1] # 0
      /\ \A g \in File : e.dir[g].start \in -1 .. NumClusters - 1 /\ e.dir[g].size \in 0 .. MaxSize
  BY KeptOnes
<1>3. FileAt(e, f, p) /\ ChainIn(e, f) = p
  <2>1. FileAt(e, f, p)
    BY <1>0, <1>2 DEF Owns, FileAt, x
  <2> QED BY <1>2, <2>1, ChainIs
<1>4. \A g \in File \ damaged : FileAt(e, g, ChainIn(e, g))
  BY <1>1, <1>3
<1>5. \A c \in Range(p) : c \notin Others(f)
  <2>1. \A c \in Range(p) : \E i \in 1 .. Len(p) : p[i] = c
    BY <1>3, PathClusters
  <2> QED BY <1>0, <2>1 DEF Owns, x
<1>6. \A g, h \in File \ damaged : g # h => Range(ChainIn(e, g)) \cap Range(ChainIn(e, h)) = {}
  <2>1. \A g \in (File \ damaged) \ {f} : Range(ChainIn(disk, g)) \subseteq Others(f)
    BY DEF Others
  <2>2. \A g, h \in File \ damaged : g # h => Range(ChainIn(disk, g)) \cap Range(ChainIn(disk, h)) = {}
    BY DEF ChainInv, DiskOK
  <2> QED BY <1>1, <1>3, <1>5, <2>1, <2>2
<1>7. damaged = {} => \A c \in Cluster : Links(e)[c] = 0 <=> \A g \in File : c \notin Range(ChainIn(e, g))
  <2> SUFFICES ASSUME damaged = {}, NEW c \in Cluster
               PROVE  Links(e)[c] = 0 <=> \A g \in File : c \notin Range(ChainIn(e, g))
    OBVIOUS
  <2>1. Links(e)[c] = 0 <=> (c \notin Others(f) /\ c \notin Range(p))
    BY <1>0 DEF Owns, Used, x
  <2>2. c \in Others(f) <=> \E g \in (File \ damaged) \ {f} : c \in Range(ChainIn(disk, g))
    <3>1. c \notin {0, 1}
      BY TableAssumption DEF Cluster
    <3> QED BY <3>1 DEF Others
  <2>3. \A g \in File : g = f \/ g \in (File \ damaged) \ {f}
    OBVIOUS
  <2> QED BY <1>1, <1>3, <2>1, <2>2, <2>3
<1>8. damaged = {} /\ e.type = 32 => e.info.free = Cardinality(Free(Links(e)))
  <2> SUFFICES ASSUME damaged = {}, e.type = 32 PROVE e.info.free = Cardinality(Free(Links(e)))
    OBVIOUS
  <2>1. e.info.free + 0 = Cardinality(Free(Links(e)))
    BY <1>0, <1>2 DEF Owns, Owed, x
  <2>2. e.info.free \in Int
    BY <1>2
  <2> QED BY <2>1, <2>2
<1> QED BY <1>2, <1>3, <1>4, <1>6, <1>7, <1>8, Zenon DEF DiskOK

\* The handles after a call on f that ends: the others are as they were.
HandlesAfter(f, e, p, handles) ==
    /\ \A g \in DOMAIN handles : g # f => g \in Opened /\ handles[g] = handle[g]
    /\ f \in DOMAIN handles => e.dir[f] # NoEntry /\ HandleAt(e, f, p, handles[f])

\* After a call on f, the handles of the other files are as good as before.
LEMMA AllHandles ==
    ASSUME ChainInv, NEW f \in File \ damaged, NEW e, Keeps(On(f), e), NEW p, ChainIn(e, f) = p,
           NEW handles, HandlesAfter(f, e, p, handles)
    PROVE  HandlesOK(e, damaged, handles)
<1>1. HandlesOK(disk, damaged, handle)
  BY DEF ChainInv
<1>2. DOMAIN handles \subseteq File \ damaged
  BY <1>1 DEF HandlesAfter, HandlesOK, Opened
<1>3. ASSUME NEW g \in DOMAIN handles
      PROVE  e.dir[g] # NoEntry /\ HandleAt(e, g, ChainIn(e, g), handles[g])
  <2>1. CASE g = f
    BY <2>1 DEF HandlesAfter
  <2>2. CASE g # f
    <3>1. g \in DOMAIN handle /\ handles[g] = handle[g] /\ g \in (File \ damaged) \ {f}
      BY <1>2, <2>2 DEF HandlesAfter, Opened
    <3>2. disk.dir[g] # NoEntry /\ HandleAt(disk, g, ChainIn(disk, g), handle[g])
      BY <1>1, <3>1 DEF HandlesOK
    <3>3. /\ FileAt(e, g, ChainIn(disk, g)) /\ ChainIn(e, g) = ChainIn(disk, g)
          /\ e.dir[g] = disk.dir[g]
          /\ \A c \in Range(ChainIn(disk, g)) : Links(e)[c] = Links(disk)[c]
      BY <3>1, OthersStay
    <3>4. e.type = disk.type
      BY KeptOnes
    <3> DEFINE q == ChainIn(disk, g)
    <3>5. q \in Seq(Cluster)
      BY <3>3, PathClusters
    <3> HIDE DEF q
    <3>6. HandleAt(e, g, q, handle[g])
      BY <3>2, <3>3, <3>4, <3>5, HandleStays DEF q
    <3> QED BY <3>1, <3>2, <3>3, <3>6 DEF q
  <2> QED BY <2>1, <2>2
<1> QED BY <1>2, <1>3, Zenon DEF HandlesOK

-------------------------------------------------------------------------------
\* The data makes no difference to the handles either.
LEMMA HandlesSame ==
    ASSUME NEW d, NEW lost, DiskOK(d, lost), NEW handles, HandlesOK(d, lost, handles),
           NEW e, e.type = d.type, e.fat = d.fat, e.info = d.info, e.dir = d.dir
    PROVE  HandlesOK(e, lost, handles)
<1>1. /\ Links(e) = Links(d)
      /\ \A f \in File \ lost : ChainIn(e, f) = ChainIn(d, f)
  BY DiskSame
<1>2. ASSUME NEW f \in DOMAIN handles
      PROVE  e.dir[f] # NoEntry /\ HandleAt(e, f, ChainIn(e, f), handles[f])
  <2> DEFINE p == ChainIn(d, f)
  <2>1. f \in File \ lost
    BY DEF HandlesOK
  <2>2. d.dir[f] # NoEntry /\ HandleAt(d, f, p, handles[f])
    BY DEF HandlesOK
  <2>3. ChainIn(e, f) = p
    BY <1>1, <2>1
  <2>4. FileAt(d, f, p)
    BY <2>1 DEF DiskOK
  <2> HIDE DEF p
  <2>5. p \in Seq(Cluster)
    BY <2>4, PathClusters
  <2>6. HandleAt(e, f, p, handles[f])
    BY <1>1, <2>2, <2>5, HandleStays
  <2> QED BY <2>2, <2>3, <2>6
<1>3. DOMAIN handles \subseteq File \ lost
  BY DEF HandlesOK
<1> QED BY <1>2, <1>3, Zenon DEF HandlesOK

\* The call ends with a chain that fits, or the machine stops in it.
LEMMA EndsInv ==
    ASSUME ChainInv, NEW f \in File \ damaged, NEW m, Safe(On(f), m), NEW handles, Ends(m, f, handles),
           \A g \in DOMAIN handles : HandleFields(handles[g]),
           ~m.panic => \E p : /\ Owns(On(f), Disk(m), p)
                              /\ StartsAt(p, Disk(m).dir[f].start) /\ Fits(p, Disk(m).dir[f].size)
                              /\ HandlesAfter(f, Disk(m), p, handles)
    PROVE  ChainInv'
<1>1. Whole(m) /\ CachePlaced(m.cached) /\ Keeps(On(f), Disk(m))
      /\ \A k \in 1 .. Len(m.img) : Keeps(On(f), m.img[k])
  BY SafeDisk DEF Safe
<1>2. CacheInv'
  BY <1>1, EndsCache
<1>3. CASE /\ ~m.panic
           /\ disk' = Forget(Disk(m), Sound)
           /\ cached' = m.cached
           /\ handle' = handles
           /\ UNCHANGED <<damaged, stops>>
  <2> DEFINE d == Disk(m)
             e == Forget(Disk(m), Sound)
  <2>1. PICK p : /\ Owns(On(f), d, p)
                 /\ StartsAt(p, d.dir[f].start) /\ Fits(p, d.dir[f].size)
                 /\ HandlesAfter(f, d, p, handles)
    BY <1>3
  <2>2. DiskFields(d)
    BY <1>1 DEF Keeps
  <2>3. e.type = d.type /\ e.fat = d.fat /\ e.info = d.info /\ e.dir = d.dir
    BY <2>2, ForgetFields
  <2>4. disk' = e
    BY <1>3
  <2>5. Keeps(On(f), d)
    BY <1>1
  <2> HIDE DEF d, e
  <2>6. DiskOK(d, damaged) /\ ChainIn(d, f) = p
    BY <2>1, <2>5, DiskAfter
  <2>7. HandlesOK(d, damaged, handles)
    BY <2>1, <2>5, <2>6, AllHandles
  <2>8. DiskOK(e, damaged)
    BY <2>3, <2>6, DiskSame
  <2>9. HandlesOK(e, damaged, handles)
    BY <2>3, <2>6, <2>7, HandlesSame
  <2>10. DiskOK(disk', damaged') /\ HandlesOK(disk', damaged', handle') /\ CachePlaced(cached')
    BY <1>1, <1>3, <2>4, <2>8, <2>9
  <2>11. damaged' \subseteq File /\ stops' \in 0 .. MaxStops
    BY <1>3 DEF ChainInv
  <2>12. DiskOK(disk, damaged)' /\ HandlesOK(disk, damaged, handle)' /\ CachePlaced(cached)'
    BY <2>10
  <2> QED BY <1>2, <2>11, <2>12, Zenon DEF ChainInv
<1>4. CASE /\ stops < MaxStops
           /\ \E k \in 1 .. Len(m.img) : disk' = Forget(m.img[k], Sound \ {f})
           /\ cached' = NoCache
           /\ handle' = <<>>
           /\ damaged' = damaged \cup {f}
           /\ stops' = stops + 1
  <2>1. PICK k \in 1 .. Len(m.img) : disk' = Forget(m.img[k], Sound \ {f})
    BY <1>4
  <2> DEFINE d == m.img[k]
             e == Forget(m.img[k], Sound \ {f})
             lost == damaged \cup {f}
  <2>2. Keeps(On(f), d) /\ DiskFields(d)
    BY <1>1 DEF Keeps
  <2>3. e.type = d.type /\ e.fat = d.fat /\ e.info = d.info /\ e.dir = d.dir
    BY <2>2, ForgetFields
  <2>4. disk' = e
    BY <2>1
  <2>6. DiskOK(d, lost)
    BY <2>2, DiskCut
  <2>11. damaged' \subseteq File /\ stops' \in 0 .. MaxStops /\ damaged' = lost
    BY <1>4, FileAssumption DEF ChainInv
  <2> HIDE DEF d, e, lost
  <2>8. DiskOK(e, lost)
    BY <2>3, <2>6, DiskSame
  <2>9. HandlesOK(e, lost, <<>>)
    BY DEF HandlesOK
  <2>10. DiskOK(disk', damaged') /\ HandlesOK(disk', damaged', handle') /\ CachePlaced(cached')
    BY <1>4, <2>4, <2>8, <2>9, <2>11 DEF CachePlaced
  <2>12. DiskOK(disk, damaged)' /\ HandlesOK(disk, damaged, handle)' /\ CachePlaced(cached)'
    BY <2>10
  <2> QED BY <1>2, <2>11, <2>12, Zenon DEF ChainInv
<1>5. Len(m.img) \in Nat /\ \A k \in (IF m.panic THEN 1 ELSE 2) .. Len(m.img) : k \in 1 .. Len(m.img)
  BY <1>1 DEF Whole, Images
<1>6. \/ /\ ~m.panic
         /\ disk' = Forget(Disk(m), Sound)
         /\ cached' = m.cached
         /\ handle' = handles
         /\ UNCHANGED <<damaged, stops>>
      \/ /\ stops < MaxStops
         /\ \E k \in 1 .. Len(m.img) : disk' = Forget(m.img[k], Sound \ {f})
         /\ cached' = NoCache
         /\ handle' = <<>>
         /\ damaged' = damaged \cup {f}
         /\ stops' = stops + 1
  BY <1>5, Zenon DEF Ends
<1> QED BY <1>3, <1>4, <1>6

-------------------------------------------------------------------------------
\* The chain stays that of the file while the table does.
LEMMA OwnsSame ==
    ASSUME NEW x, NEW d, NEW p, Owns(x, d, p), NEW e, Links(e) = Links(d), e.info = d.info
    PROVE  Owns(x, e, p)
  BY Zenon DEF Owns, Owed

\* The same fields of the handle but next, or but cur.
AllButNext(h, k) ==
    /\ k.start = h.start /\ k.size = h.size /\ k.pos = h.pos /\ k.cur = h.cur
    /\ k.up = h.up /\ k.stale = h.stale
AllButCur(h, k) ==
    /\ k.start = h.start /\ k.size = h.size /\ k.pos = h.pos /\ k.next = h.next
    /\ k.up = h.up /\ k.stale = h.stale

\* No field of the call but its handle changes, and not the disk.
Stays(m, n) ==
    /\ Disk(n) = Disk(m) /\ n.img = m.img /\ n.currcluster = m.currcluster /\ n.panic = m.panic
    /\ n.bytes = m.bytes /\ n.result = m.result

\* The lookup of the cluster after that of the handle.
LEMMA AnalysedNext ==
    ASSUME NEW x, Context(x), NEW m, Safe(x, m), m.h.cur \in Cluster \/ fatEndCluster(x.d, m.h.cur)
    PROVE  LET n == AnalyseNext(m)
           IN  /\ Safe(x, n) /\ Stays(m, n) /\ AllButNext(m.h, n.h)
               /\ n.h.next = IF fatEndCluster(Disk(m), m.h.cur) THEN m.h.next
                             ELSE Links(Disk(m))[m.h.cur]
<1> DEFINE r == [m EXCEPT !.next = m.h.next]
           a == fatClusterAnalyse(r, m.h.cur)
           n == [a EXCEPT !.h.next = a.next]
<1>1. Whole(m)
  BY SafeDisk
<1>2. SameDisk(m, r) /\ r.next = m.h.next /\ r.h = m.h /\ r.currcluster = m.currcluster
      /\ r.panic = m.panic /\ r.bytes = m.bytes /\ r.result = m.result /\ r.img = m.img
  BY <1>1, FieldChange DEF Whole, Fields
<1>3. Safe(x, r) /\ Disk(r) = Disk(m)
  BY <1>2, SafeSame
<1> HIDE DEF r
<1>4. /\ Safe(x, a) /\ Disk(a) = Disk(r) /\ a.img = r.img
      /\ a.h = r.h /\ a.currcluster = r.currcluster /\ a.panic = r.panic
      /\ a.bytes = r.bytes /\ a.result = r.result
      /\ a.next = IF fatEndCluster(Disk(r), m.h.cur) THEN r.next ELSE Entry(Disk(r), m.h.cur)
  BY <1>3, Analysed
<1> HIDE DEF a
<1>5. Whole(a)
  BY <1>4, SafeDisk
<1>6. SameDisk(a, n) /\ n.h = [a.h EXCEPT !.next = a.next] /\ n.currcluster = a.currcluster
      /\ n.panic = a.panic /\ n.bytes = a.bytes /\ n.result = a.result /\ n.img = a.img
  BY <1>5, FieldChange DEF Whole, Fields
<1>7. AllButNext(a.h, n.h) /\ n.h.next = a.next
  BY <1>5, <1>6 DEF Whole, HandleFields, AllButNext
<1> HIDE DEF n
<1>8. Safe(x, n) /\ Disk(n) = Disk(a)
  BY <1>4, <1>6, SafeSame
<1>9. ~fatEndCluster(Disk(m), m.h.cur) => Entry(Disk(m), m.h.cur) = Links(Disk(m))[m.h.cur]
  <2>1. Disk(m).type = x.d.type /\ x.d.type \in Types
    BY SafeDisk DEF Keeps, Context, Typed
  <2>2. fatEndCluster(Disk(m), m.h.cur) <=> fatEndCluster(x.d, m.h.cur)
    BY <2>1 DEF fatEndCluster
  <2>3. Cluster \subseteq Numbered
    BY <2>1, NotEnd
  <2> QED BY <2>2, <2>3 DEF Links
<1>10. Safe(x, n) /\ Stays(m, n) /\ AllButNext(m.h, n.h)
       /\ n.h.next = IF fatEndCluster(Disk(m), m.h.cur) THEN m.h.next ELSE Links(Disk(m))[m.h.cur]
  BY <1>2, <1>3, <1>4, <1>6, <1>7, <1>8, <1>9 DEF Stays, AllButNext
<1>11. n = AnalyseNext(m)
  BY Zenon DEF AnalyseNext, n, a, r
<1> QED BY <1>10, <1>11, Zenon

\* The handle goes to the cluster after c.
LEMMA AnalysedCurrent ==
    ASSUME NEW x, Context(x), NEW m, Safe(x, m), NEW c \in Cluster
    PROVE  LET n == AnalyseCurrent(m, c)
           IN  /\ Safe(x, n) /\ Stays(m, n) /\ AllButCur(m.h, n.h)
               /\ n.h.cur = Links(Disk(m))[c]
<1> DEFINE r == [m EXCEPT !.next = m.h.cur]
           a == fatClusterAnalyse(r, c)
           n == [a EXCEPT !.h.cur = a.next]
<1>1. Whole(m)
  BY SafeDisk
<1>2. SameDisk(m, r) /\ r.next = m.h.cur /\ r.h = m.h /\ r.currcluster = m.currcluster
      /\ r.panic = m.panic /\ r.bytes = m.bytes /\ r.result = m.result /\ r.img = m.img
  BY <1>1, FieldChange DEF Whole, Fields
<1>3. Safe(x, r) /\ Disk(r) = Disk(m)
  BY <1>2, SafeSame
<1> HIDE DEF r
<1>4. /\ Safe(x, a) /\ Disk(a) = Disk(r) /\ a.img = r.img
      /\ a.h = r.h /\ a.currcluster = r.currcluster /\ a.panic = r.panic
      /\ a.bytes = r.bytes /\ a.result = r.result
      /\ a.next = IF fatEndCluster(Disk(r), c) THEN r.next ELSE Entry(Disk(r), c)
  BY <1>3, Analysed
<1> HIDE DEF a
<1>5. Whole(a)
  BY <1>4, SafeDisk
<1>6. SameDisk(a, n) /\ n.h = [a.h EXCEPT !.cur = a.next] /\ n.currcluster = a.currcluster
      /\ n.panic = a.panic /\ n.bytes = a.bytes /\ n.result = a.result /\ n.img = a.img
  BY <1>5, FieldChange DEF Whole, Fields
<1>7. AllButCur(a.h, n.h) /\ n.h.cur = a.next
  BY <1>5, <1>6 DEF Whole, HandleFields, AllButCur
<1> HIDE DEF n
<1>8. Safe(x, n) /\ Disk(n) = Disk(a)
  BY <1>4, <1>6, SafeSame
<1>9. ~fatEndCluster(Disk(m), c) /\ Entry(Disk(m), c) = Links(Disk(m))[c]
  <2>1. Disk(m).type \in Types
    BY SafeDisk DEF Keeps, Context, Typed
  <2> QED BY <2>1, NotEnd DEF Links
<1>10. Safe(x, n) /\ Stays(m, n) /\ AllButCur(m.h, n.h) /\ n.h.cur = Links(Disk(m))[c]
  BY <1>2, <1>3, <1>4, <1>6, <1>7, <1>8, <1>9 DEF Stays, AllButCur
<1>11. n = AnalyseCurrent(m, c)
  BY Zenon DEF AnalyseCurrent, n, a, r
<1> QED BY <1>10, <1>11, Zenon

\* The handles of With.
LEMMA WithAfter ==
    ASSUME NEW f, NEW e, NEW p, NEW h, e.dir[f] # NoEntry, HandleAt(e, f, p, h)
    PROVE  HandlesAfter(f, e, p, With(f, h))
  BY DEF HandlesAfter, With, Opened

\* A call on a file that is not open leaves the handles.
LEMMA SameAfter ==
    ASSUME NEW f, NEW e, NEW p, f \notin Opened
    PROVE  HandlesAfter(f, e, p, handle)
  BY DEF HandlesAfter, Opened

\* A call that changes nothing on the disk.
LEMMA IdleInv ==
    ASSUME ChainInv, NEW f \in File \ damaged, NEW m, Safe(On(f), m), Disk(m) = disk, NEW handles,
           Ends(m, f, handles), \A g \in DOMAIN handles : HandleFields(handles[g]),
           HandlesAfter(f, disk, ChainIn(disk, f), handles)
    PROVE  ChainInv'
<1>1. Owns(On(f), disk, ChainIn(disk, f)) /\ FileAt(disk, f, ChainIn(disk, f))
  BY OnContext
<1> QED BY <1>1, EndsInv DEF FileAt

\* CloseFile keeps the invariant: it writes nothing.
LEMMA CloseChains == ASSUME ChainInv, NEW f \in File, CloseFile(f) PROVE ChainInv'
<1>1. CacheInv'
  BY CloseCache DEF ChainInv
<1> USE DEF CloseFile
<1>2. handle' = [g \in Opened \ {f} |-> handle[g]] /\ UNCHANGED <<disk, cached, damaged, stops>>
  OBVIOUS
<1>3. HandlesOK(disk, damaged, handle)
  BY DEF ChainInv
<1> HIDE DEF CloseFile
<1>4. HandlesOK(disk, damaged, [g \in Opened \ {f} |-> handle[g]])
  BY <1>3 DEF HandlesOK, Opened
<1>5. HandlesOK(disk, damaged, handle)'
  BY <1>2, <1>4
<1>6. DiskOK(disk, damaged)' /\ CachePlaced(cached)' /\ (damaged \subseteq File)' /\ (stops \in 0 .. MaxStops)'
  BY <1>2 DEF ChainInv
<1> QED BY <1>1, <1>5, <1>6, Zenon DEF ChainInv

\* A stop of the machine between calls keeps it: all handles are gone.
LEMMA HaltChains == ASSUME ChainInv, Halt PROVE ChainInv'
<1>1. CacheInv'
  BY HaltCache DEF ChainInv
<1>2. /\ stops < MaxStops /\ stops' = stops + 1 /\ cached' = NoCache /\ handle' = <<>>
      /\ UNCHANGED <<disk, damaged>>
  BY DEF Halt
<1>3. HandlesOK(disk, damaged, <<>>)
  BY DEF HandlesOK
<1>4. HandlesOK(disk, damaged, handle)'
  BY <1>2, <1>3
<1>5. DiskOK(disk, damaged)' /\ CachePlaced(cached)' /\ (damaged \subseteq File)' /\ (stops \in 0 .. MaxStops)'
  BY <1>2, FileAssumption DEF ChainInv, CachePlaced
<1> QED BY <1>1, <1>4, <1>5, Zenon DEF ChainInv

-------------------------------------------------------------------------------
\* The directory entry of a new file.
NewEntry == [start |-> 0, size |-> 0]

\* The chain is freed and the entry is written.
LEMMA Emptied ==
    ASSUME ChainInv, NEW f \in File \ damaged, NEW c, StartsAt(ChainIn(disk, f), c), NEW e \in {NoEntry, NewEntry}
    PROVE  LET m == WriteDir(fatNuke(Call(NewHandle), c), f, e)
           IN  /\ Safe(On(f), m) /\ ~m.panic
               /\ Owns(On(f), Disk(m), <<>>) /\ Disk(m).dir[f] = e /\ Disk(m).type = disk.type
<1> DEFINE x == On(f)
           p == ChainIn(disk, f)
           b == Call(NewHandle)
           n == fatNuke(b, c)
           m == WriteDir(n, f, e)
<1>1. Context(x) /\ Owns(x, disk, p) /\ x.f = f /\ x.d = disk
  BY OnContext, OnFields
<1>2. Safe(x, b) /\ ~b.panic /\ Disk(b) = disk
  BY CallSafe, NewHandleFields
<1>3. e = [start |-> e.start, size |-> e.size] /\ e.start \in -1 .. NumClusters - 1 /\ e.size \in 0 .. MaxSize
  BY FileAssumption, TableAssumption DEF NoEntry, NewEntry
<1>4. StartsAt(p, c)
  OBVIOUS
<1> HIDE DEF x, p, b
<1>5. Safe(x, n) /\ Wrote(b, n) /\ Owns(x, Disk(n), <<>>) /\ Disk(n).dir = Disk(b).dir
  <2>1. Owns(x, Disk(b), p)
    BY <1>1, <1>2
  <2> QED BY <1>1, <1>2, <1>4, <2>1, Nuked
<1>6. ~n.panic
  BY <1>2, <1>5 DEF Wrote
<1> HIDE DEF n
<1>7. /\ Safe(x, m) /\ Wrote(n, m)
      /\ Links(Disk(m)) = Links(Disk(n)) /\ Disk(m).info = Disk(n).info
      /\ ~n.panic => Disk(m).dir[f] = e
  <2>1. LET y == WriteDir(n, x.f, e)
        IN  /\ Safe(x, y) /\ Wrote(n, y)
            /\ Links(Disk(y)) = Links(Disk(n)) /\ Disk(y).info = Disk(n).info
            /\ ~n.panic => Disk(y).dir[x.f] = e
    BY <1>1, <1>3, <1>5, DirWritten
  <2> QED BY <1>1, <2>1
<1> HIDE DEF m
<1>8. Owns(x, Disk(m), <<>>) /\ ~m.panic /\ Disk(m).type = disk.type
  BY <1>1, <1>5, <1>6, <1>7, OwnsSame, SafeDisk DEF Wrote, Keeps
<1>9. Safe(x, m) /\ ~m.panic /\ Owns(x, Disk(m), <<>>) /\ Disk(m).dir[f] = e /\ Disk(m).type = disk.type
  BY <1>6, <1>7, <1>8
<1> QED BY <1>9, Zenon DEF m, n, b, x

\* A directory entry starts the chain of its file; no entry, no chain.
LEMMA FileStart ==
    ASSUME ChainInv, NEW f \in File \ damaged
    PROVE  /\ Exists(f) => StartsAt(ChainIn(disk, f), disk.dir[f].start)
           /\ ~Exists(f) => ChainIn(disk, f) = <<>>
  BY OnContext DEF FileAt, Exists, ChainIn

\* The handle of a new file is one of an empty file.
LEMMA NewHandleAt ==
    ASSUME NEW d, NEW f, d.dir[f] = NewEntry, NEW c
    PROVE  HandleAt(d, f, <<>>, HandleWith(c)) /\ d.dir[f] # NoEntry
<1>1. NewEntry # NoEntry
  BY DEF NewEntry, NoEntry
<1> QED BY <1>1 DEF HandleAt, EmptyHandle, HandleWith, NewHandle, NewEntry

\* CreatFile keeps the invariant: an old chain is freed before its entry is reused.
LEMMA CreatChains == ASSUME ChainInv, NEW f \in File, CreatFile(f) PROVE ChainInv'
<1> DEFINE c == IF Exists(f) THEN disk.dir[f].start ELSE 0
           m == WriteDir(fatNuke(Call(NewHandle), c), f, NewEntry)
<1>1. PICK old \in Leftover : f \in File \ damaged /\ Ends(m, f, With(f, HandleWith(old)))
  BY Zenon DEF CreatFile, NewEntry
<1>2. StartsAt(ChainIn(disk, f), c)
  BY <1>1, FileStart DEF StartsAt
<1> HIDE DEF c
<1>3. /\ Safe(On(f), m) /\ ~m.panic
      /\ Owns(On(f), Disk(m), <<>>) /\ Disk(m).dir[f] = NewEntry /\ Disk(m).type = disk.type
  BY <1>1, <1>2, Emptied
<1> HIDE DEF m
<1>4. \A g \in DOMAIN With(f, HandleWith(old)) : HandleFields(With(f, HandleWith(old))[g])
  BY WithFields, HandleWithFields DEF ChainInv
<1>5. HandlesAfter(f, Disk(m), <<>>, With(f, HandleWith(old)))
  BY <1>3, NewHandleAt, WithAfter
<1>6. StartsAt(<<>>, Disk(m).dir[f].start) /\ Fits(<<>>, Disk(m).dir[f].size)
  BY <1>3 DEF StartsAt, Fits, NewEntry
<1> QED BY <1>1, <1>3, <1>4, <1>5, <1>6, EndsInv

\* Every open file has a handle.
LEMMA HandlesAre ==
    ASSUME ChainInv
    PROVE  \A g \in DOMAIN handle : HandleFields(handle[g])
  BY DEF ChainInv, CacheInv, Opened

\* DeleteFile keeps it.
LEMMA DeleteChains == ASSUME ChainInv, NEW f \in File, DeleteFile(f) PROVE ChainInv'
<1> DEFINE c == disk.dir[f].start
           m == WriteDir(fatNuke(Call(NewHandle), c), f, NoEntry)
           n == [Call(NewHandle) EXCEPT !.result = Failed]
<1>1. f \in File \ damaged /\ f \notin Opened
      /\ IF Exists(f) THEN Ends(m, f, handle) ELSE Ends(n, f, handle)
  BY Zenon DEF DeleteFile
<1>2. CASE Exists(f)
  <2>1. StartsAt(ChainIn(disk, f), c)
    BY <1>1, <1>2, FileStart
  <2> HIDE DEF c
  <2>2. /\ Safe(On(f), m) /\ ~m.panic
        /\ Owns(On(f), Disk(m), <<>>) /\ Disk(m).dir[f] = NoEntry
    BY <1>1, <2>1, Emptied
  <2> HIDE DEF m
  <2>3. HandlesAfter(f, Disk(m), <<>>, handle)
    BY <1>1, SameAfter
  <2>4. StartsAt(<<>>, Disk(m).dir[f].start) /\ Fits(<<>>, Disk(m).dir[f].size)
    BY <2>2 DEF StartsAt, Fits, NoEntry
  <2> QED BY <1>1, <1>2, <2>2, <2>3, <2>4, HandlesAre, EndsInv
<1>3. CASE ~Exists(f)
  <2> DEFINE b == Call(NewHandle)
  <2>1. Safe(On(f), b) /\ Disk(b) = disk /\ Whole(b)
    BY <1>1, CallSafe, NewHandleFields DEF Safe
  <2> HIDE DEF b
  <2>2. SameDisk(b, [b EXCEPT !.result = Failed])
    BY <2>1, FieldChange
  <2>3. Safe(On(f), [b EXCEPT !.result = Failed]) /\ Disk([b EXCEPT !.result = Failed]) = disk
    BY <2>1, <2>2, SafeSame
  <2>4. Safe(On(f), n) /\ Disk(n) = disk
    BY <2>3, Zenon DEF b
  <2> HIDE DEF n
  <2>5. HandlesAfter(f, disk, ChainIn(disk, f), handle)
    BY <1>1, SameAfter
  <2> QED BY <1>1, <1>3, <2>4, <2>5, HandlesAre, IdleInv
<1> QED BY <1>2, <1>3

\* CreatNewFile keeps it.
LEMMA CreatNewChains == ASSUME ChainInv, NEW f \in File, CreatNewFile(f) PROVE ChainInv'
<1> DEFINE b == Call(NewHandle)
           n == [b EXCEPT !.result = Failed]
           m == WriteDir(b, f, NewEntry)
<1>1. f \in File \ damaged /\ f \notin Opened
      /\ IF Exists(f) THEN Ends(n, f, handle) ELSE Ends(m, f, handle)
  BY Zenon DEF CreatNewFile, NewEntry
<1>0. Context(On(f)) /\ Owns(On(f), disk, ChainIn(disk, f)) /\ On(f).f = f
  BY <1>1, OnContext, OnFields
<1>2. Safe(On(f), b) /\ Disk(b) = disk /\ Whole(b) /\ ~b.panic
  BY <1>1, CallSafe, NewHandleFields DEF Safe
<1> HIDE DEF b
<1>3. CASE Exists(f)
  <2>2. SameDisk(b, n)
    BY <1>2, FieldChange
  <2>4. Safe(On(f), n) /\ Disk(n) = disk
    BY <1>2, <2>2, SafeSame
  <2> HIDE DEF n
  <2>5. HandlesAfter(f, disk, ChainIn(disk, f), handle)
    BY <1>1, SameAfter
  <2> QED BY <1>1, <1>3, <2>4, <2>5, HandlesAre, IdleInv
<1>4. CASE ~Exists(f)
  <2>1. ChainIn(disk, f) = <<>>
    BY <1>1, <1>4, FileStart
  <2> DEFINE x == On(f)
             e == NewEntry
  <2>2. e = [start |-> e.start, size |-> e.size] /\ e.start \in -1 .. NumClusters - 1 /\ e.size \in 0 .. MaxSize
    BY FileAssumption, TableAssumption DEF NewEntry
  <2>3. Context(x) /\ Safe(x, b)
    BY <1>0, <1>2
  <2> HIDE DEF x, e
  <2>4. LET y == WriteDir(b, x.f, e)
        IN  /\ Safe(x, y) /\ Wrote(b, y)
            /\ Links(Disk(y)) = Links(Disk(b)) /\ Disk(y).info = Disk(b).info
            /\ ~b.panic => Disk(y).dir[x.f] = e
    BY <2>2, <2>3, DirWritten
  <2>5. m = WriteDir(b, x.f, e)
    BY <1>0 DEF x, e
  <2> HIDE DEF m
  <2>6. /\ Safe(x, m) /\ Wrote(b, m) /\ Links(Disk(m)) = Links(disk) /\ Disk(m).info = disk.info
        /\ Disk(m).dir[f] = NewEntry /\ ~m.panic
    BY <1>0, <1>2, <2>4, <2>5 DEF x, e, Wrote
  <2>7. Owns(x, Disk(m), <<>>)
    BY <1>0, <2>1, <2>6, OwnsSame DEF x
  <2>8. HandlesAfter(f, Disk(m), <<>>, handle)
    BY <1>1, SameAfter
  <2>9. StartsAt(<<>>, Disk(m).dir[f].start) /\ Fits(<<>>, Disk(m).dir[f].size)
    BY <2>6 DEF StartsAt, Fits, NewEntry
  <2> HIDE DEF m
  <2>10. Ends(m, f, handle)
    BY <1>1, <1>4
  <2> QED BY <1>1, <2>6, <2>7, <2>8, <2>9, <2>10, HandlesAre, EndsInv DEF x
<1> QED BY <1>3, <1>4

-------------------------------------------------------------------------------
\* OpenFile keeps it: a handle starts at the first cluster of its file.
LEMMA OpenChains == ASSUME ChainInv, NEW f \in File, OpenFile(f) PROVE ChainInv'
<1> DEFINE entry == disk.dir[f]
           start == IF entry.size = 0 /\ entry.start = 0 THEN EmptyStart(disk.type) ELSE entry.start
           h1 == [NewHandle EXCEPT !.start = start]
           h2 == [h1 EXCEPT !.size = entry.size]
           h3 == [h2 EXCEPT !.cur = start]
           h == [NewHandle EXCEPT !.start = start, !.size = entry.size, !.cur = start]
           b == Call(h)
           m == AnalyseNext(b)
           n == [Call(NewHandle) EXCEPT !.result = Failed]
           p == ChainIn(disk, f)
<1>1. f \in File \ damaged /\ f \notin Opened
      /\ IF Exists(f) THEN Ends(m, f, With(f, m.h)) ELSE Ends(n, f, handle)
  BY Zenon DEF OpenFile
<1>2. CASE ~Exists(f)
  <2> DEFINE e == Call(NewHandle)
  <2>1. Safe(On(f), e) /\ Disk(e) = disk /\ Whole(e)
    BY <1>1, CallSafe, NewHandleFields DEF Safe
  <2> HIDE DEF e
  <2>2. SameDisk(e, [e EXCEPT !.result = Failed])
    BY <2>1, FieldChange
  <2>3. Safe(On(f), [e EXCEPT !.result = Failed]) /\ Disk([e EXCEPT !.result = Failed]) = disk
    BY <2>1, <2>2, SafeSame
  <2>4. Safe(On(f), n) /\ Disk(n) = disk
    BY <2>3, Zenon DEF e
  <2> HIDE DEF n
  <2>5. HandlesAfter(f, disk, ChainIn(disk, f), handle)
    BY <1>1, SameAfter
  <2> QED BY <1>1, <1>2, <2>4, <2>5, HandlesAre, IdleInv
<1>3. CASE Exists(f)
  <2>1. entry = [start |-> entry.start, size |-> entry.size] /\ entry.size \in Nat
    BY <1>1, EntryFields DEF ChainInv, CacheInv
  <2>2. FileAt(disk, f, p) /\ Context(On(f)) /\ On(f).d = disk
    BY <1>1, OnContext, OnFields
  <2>3. disk.type \in Types
    BY DEF ChainInv, DiskOK, Typed
  <2> HIDE DEF start
  <2>4. HandleFields(h1) /\ h1.start = start /\ h1.size = 0 /\ h1.pos = 0 /\ h1.cur = 0
        /\ h1.up = 0 /\ h1.next = 0 /\ h1.stale = FALSE
    BY NewHandleFields, PlaceFields DEF NewHandle
  <2> HIDE DEF h1
  <2>5. HandleFields(h2) /\ h2.start = start /\ h2.size = entry.size /\ h2.pos = 0
        /\ h2.up = 0 /\ h2.next = 0 /\ h2.stale = FALSE
    BY <2>1, <2>4, PlaceFields DEF HandleFields
  <2> HIDE DEF h2
  <2>6. HandleFields(h3) /\ h3.start = start /\ h3.size = entry.size /\ h3.pos = 0
        /\ h3.up = 0 /\ h3.next = 0 /\ h3.stale = FALSE /\ h3.cur = start
    BY <2>5, PlaceFields DEF HandleFields
  <2>7. h = h3
    BY Zenon DEF h3, h2, h1
  <2> HIDE DEF h3, h
  <2>8. HandleFields(h) /\ h.start = start /\ h.size = entry.size /\ h.pos = 0
        /\ h.up = 0 /\ h.next = 0 /\ h.stale = FALSE /\ h.cur = start
    BY <2>6, <2>7
  <2>9. Safe(On(f), b) /\ ~b.panic /\ b.h = h /\ Disk(b) = disk
    BY <1>1, <2>8, CallSafe
  <2> HIDE DEF b
  <2>10. p = <<>> /\ entry.size = 0 => start = EmptyStart(disk.type)
    <3>1. entry.size = 0 /\ entry.start = -1 => entry = NoEntry
      BY <2>1 DEF NoEntry
    <3> HIDE DEF entry, p
    <3>2. entry # NoEntry /\ StartsAt(p, entry.start)
      BY <1>3, <2>2 DEF FileAt, Exists, entry, p
    <3> QED BY <3>1, <3>2, <2>1 DEF StartsAt, start
  <2>11. entry.size # 0 => p # <<>> /\ Len(p) \in Nat /\ Len(p) # 0 /\ start = p[1] /\ p \in Seq(Cluster)
    <3>1. p \in Seq(Cluster)
      BY <2>2, PathClusters
    <3>2. entry.size # 0 => p # <<>>
      <4>1. ClusterBytes \in Nat
        BY FileAssumption DEF ClusterBytes
      <4> QED BY <2>1, <2>2, <4>1 DEF FileAt, Fits
    <3>3. p # <<>> => entry.start = p[1]
      BY <2>2 DEF FileAt, StartsAt
    <3> HIDE DEF entry, p
    <3> QED BY <3>1, <3>2, <3>3 DEF start
  <2>12. entry.size = 0 => p = <<>>
    BY <2>2 DEF FileAt, Fits
  <2>13. start \in Cluster \/ fatEndCluster(disk, start)
    <3>1. fatEndCluster(disk, EmptyStart(disk.type))
      BY <2>3, NotEnd
    <3> HIDE DEF entry, p
    <3> QED BY <3>1, <2>10, <2>11, <2>12
  <2>14. /\ Safe(On(f), m) /\ Stays(b, m) /\ AllButNext(b.h, m.h)
         /\ m.h.next = IF fatEndCluster(Disk(b), b.h.cur) THEN b.h.next ELSE Links(Disk(b))[b.h.cur]
    <3>1. b.h.cur \in Cluster \/ fatEndCluster(On(f).d, b.h.cur)
      BY <2>2, <2>8, <2>9, <2>13
    <3> QED BY <2>2, <2>9, <3>1, AnalysedNext
  <2> HIDE DEF m
  <2>15. Disk(m) = disk /\ HandleFields(m.h)
         /\ m.h.start = start /\ m.h.size = entry.size /\ m.h.pos = 0
         /\ m.h.up = 0 /\ m.h.stale = FALSE /\ m.h.cur = start
         /\ m.h.next = IF fatEndCluster(disk, start) THEN 0 ELSE Links(disk)[start]
    BY <2>8, <2>9, <2>14, SafeDisk DEF Stays, AllButNext, Whole
  <2>16. HandleAt(disk, f, p, m.h)
    <3>1. CASE entry.size = 0
      <4>1. fatEndCluster(disk, EmptyStart(disk.type))
        BY <2>3, NotEnd
      <4>2. start = EmptyStart(disk.type)
        BY <2>10, <2>12, <3>1
      <4> HIDE DEF p
      <4>3. EmptyHandle(disk, m.h)
        BY <2>15, <4>1, <4>2 DEF EmptyHandle
      <4> QED BY <2>15, <3>1, <4>3 DEF HandleAt
    <3>2. CASE entry.size # 0
      <4> HIDE DEF p
      <4>1. p \in Seq(Cluster) /\ Len(p) \in Nat /\ 1 <= Len(p) /\ start = p[1]
        BY <2>11, <3>2
      <4>2. m.h.next \in {0, Links(disk)[m.h.cur]}
        BY <2>15
      <4>3. AtSector(m.h, p, 0)
        <5>1. 0 \div SectorsPerCluster = 0 /\ 0 % SectorsPerCluster = 0
          BY FileAssumption
        <5> QED BY <2>15, <4>1, <5>1 DEF AtSector
      <4>4. Place(m.h) = 0
        <5>1. 0 \div SectorBytes = 0
          BY FileAssumption
        <5> QED BY <2>1, <2>15, <3>2, <5>1 DEF Place
      <4>5. PlacedHandle(p, m.h)
        <5>1. ~(m.h.pos > m.h.size) /\ ~(m.h.pos = m.h.size)
          BY <2>1, <2>15, <3>2
        <5> QED BY <4>3, <4>4, <5>1, Zenon DEF PlacedHandle
      <4>6. FullHandle(disk, p, m.h)
        BY <2>15, <4>1, <4>2, <4>5 DEF FullHandle
      <4> QED BY <2>15, <3>2, <4>6 DEF HandleAt
    <3> QED BY <3>1, <3>2
  <2>17. HandlesAfter(f, disk, p, With(f, m.h))
    <3>1. disk.dir[f] # NoEntry
      BY <1>3 DEF Exists
    <3> HIDE DEF p
    <3> QED BY <2>16, <3>1, WithAfter
  <2>18. \A g \in DOMAIN With(f, m.h) : HandleFields(With(f, m.h)[g])
    BY <2>15, WithFields DEF ChainInv
  <2> QED BY <1>1, <1>3, <2>14, <2>15, <2>17, <2>18, IdleInv
<1> QED BY <1>2, <1>3

\* A power of 16.
LEMMA Power ==
    ASSUME NEW i \in 0 .. 6
    PROVE  16 ^ i \in Nat \ {0}
<1> DEFINE p == 16 ^ i
<1>1. /\ 16 ^ 0 = 1 /\ 16 ^ 1 = 16 /\ 16 ^ 2 = 256 /\ 16 ^ 3 = 4096 /\ 16 ^ 4 = 65536
      /\ 16 ^ 5 = 1048576 /\ 16 ^ 6 = 16777216
  BY SMT
<1>2. i = 0 \/ i = 1 \/ i = 2 \/ i = 3 \/ i = 4 \/ i = 5 \/ i = 6
  OBVIOUS
<1>3. ASSUME i = 0 PROVE p \in Nat \ {0}
  BY <1>1, <1>3, SMT
<1>4. ASSUME i = 1 PROVE p \in Nat \ {0}
  BY <1>1, <1>4, SMT
<1>5. ASSUME i = 2 PROVE p \in Nat \ {0}
  BY <1>1, <1>5, SMT
<1>6. ASSUME i = 3 PROVE p \in Nat \ {0}
  BY <1>1, <1>6, SMT
<1>7. ASSUME i = 4 PROVE p \in Nat \ {0}
  BY <1>1, <1>7, SMT
<1>8. ASSUME i = 5 PROVE p \in Nat \ {0}
  BY <1>1, <1>8, SMT
<1>9. ASSUME i = 6 PROVE p \in Nat \ {0}
  BY <1>1, <1>9, SMT
<1> QED BY <1>2, <1>3, <1>4, <1>5, <1>6, <1>7, <1>8, <1>9, Zenon

\* An empty volume.
LEMMA EmptyLinks ==
    ASSUME NEW type \in Types, NEW d, d.type = type, d.fat = EmptyTable(type)
    PROVE  /\ Typed(d) /\ Links(d)[0] # 0 /\ Links(d)[1] # 0
           /\ \A c \in Cluster : Links(d)[c] = 0
<1> DEFINE W == Width(type)
           E == EntryNibbles(type)
<1>0. W \in Nat /\ E \in Nat /\ E >= 1 /\ E <= W /\ EndMark(type) \in Nat
  BY Kinds, SMT
<1>1. Typed(d)
  <2>1. \A s \in 1 .. FatSectors, k \in 0 .. SectorNibbles - 1 : EmptyTable(type)[s][k] \in 0 .. 15
    BY DEF EmptyTable
  <2>2. EmptyTable(type) \in [1 .. FatSectors -> Nibbles]
    BY DEF EmptyTable, Nibbles
  <2> QED BY <2>2 DEF Typed
<1>2. ASSUME NEW c \in Numbered, NEW i \in 0 .. E - 1
      PROVE  Nibble(d, c, i) = IF c < 2 THEN 15 ELSE 0
  <2> DEFINE a == W * c + i
             q == a \div SectorNibbles
             r == a % SectorNibbles
             end == 2 * W
  <2>1. LET b == Width(type) * c + i
        IN  /\ b \in Nat /\ 1 + b \div SectorNibbles \in 1 .. FatSectors
            /\ b % SectorNibbles \in 0 .. SectorNibbles - 1
            /\ b = (b \div SectorNibbles) * SectorNibbles + (b % SectorNibbles)
    BY Places
  <2>2. /\ a \in Nat /\ 1 + q \in 1 .. FatSectors /\ r \in 0 .. SectorNibbles - 1
        /\ a = q * SectorNibbles + r
    BY <2>1
  <2>3. Nibble(d, c, i) = d.fat[1 + q][r]
    BY Zenon DEF Nibble, q, r, a
  <2>4. a < end <=> c < 2
    <3>1. c \in Nat /\ i \in Nat /\ i < W
      BY <1>0 DEF Numbered
    <3> HIDE DEF W, E
    <3>2. CASE c = 0
      BY <1>0, <3>1, <3>2
    <3>3. CASE c = 1
      BY <1>0, <3>1, <3>3
    <3>4. CASE c >= 2
      <4>1. W * c >= W * 2
        BY <1>0, <3>1, <3>4
      <4> QED BY <1>0, <3>1, <3>4, <4>1
    <3> QED BY <3>1, <3>2, <3>3, <3>4
  <2> HIDE DEF a
  <2>5. q \in Int
    BY TableAssumption, <2>2, Divide DEF q
  <2> HIDE DEF q, r
  <2> DEFINE V(s, k) == IF (s - 1) * SectorNibbles + k < 2 * Width(type) THEN 15 ELSE 0
             s1 == 1 + q
  <2>6. EmptyTable(type) = [s \in 1 .. FatSectors |-> [k \in 0 .. SectorNibbles - 1 |-> V(s, k)]]
    BY Zenon DEF EmptyTable
  <2>7. s1 \in 1 .. FatSectors /\ r \in 0 .. SectorNibbles - 1 /\ d.fat[s1][r] = Nibble(d, c, i)
    BY <2>2, <2>3
  <2>8. s1 - 1 = q
    BY <2>5
  <2> HIDE DEF V, s1
  <2>9. EmptyTable(type)[s1][r] = V(s1, r)
    BY <2>6, <2>7
  <2>10. V(s1, r) = IF a < end THEN 15 ELSE 0
    <3>1. (s1 - 1) * SectorNibbles + r = a
      BY <2>2, <2>8
    <3> QED BY <3>1, Zenon DEF V
  <2> QED BY <2>4, <2>7, <2>9, <2>10
<1>3. \A c \in Cluster : c \in Numbered /\ ~(c < 2)
  BY DEF Cluster, Numbered
<1>4. ASSUME NEW c \in Cluster PROVE Links(d)[c] = 0
  <2>1. \A i \in 0 .. E - 1 : (0 \div 16 ^ i) % 16 = 0
    <3> TAKE i \in 0 .. E - 1
    <3>0. i \in 0 .. 6
      BY Kinds, SMT
    <3>1. 16 ^ i \in Nat \ {0}
      BY <3>0, Power
    <3> DEFINE w == 16 ^ i
    <3>2. w \in Nat \ {0}
      BY <3>1
    <3> HIDE DEF w
    <3>3. (0 \div w) % 16 = 0
      BY <3>2
    <3> QED BY <3>3 DEF w
  <2>2. c \in Numbered /\ ~(c < 2)
    BY <1>3
  <2>3. \A i \in 0 .. E - 1 : Nibble(d, c, i) = (0 \div 16 ^ i) % 16
    BY <1>2, <2>1, <2>2, Zenon
  <2>4. 0 \in 0 .. EndMark(d.type)
    BY <1>0
  <2>5. Entry(d, c) = 0
    BY <1>1, <2>2, <2>3, <2>4, EntryValue, Zenon
  <2> QED BY <2>2, <2>5 DEF Links
<1>5. ASSUME NEW c \in {0, 1} PROVE Links(d)[c] # 0
  <2>1. c \in Numbered /\ c < 2
    BY TableAssumption DEF Numbered
  <2>2. \A i \in 0 .. E - 1 : Nibble(d, c, i) = 15
    BY <1>2, <2>1
  <2> DEFINE e == Entry(d, c)
             n(i) == Nibble(d, c, i)
  <2>3. /\ d.type = 12 => Entry(d, c) = n(0) + 16 * (n(1) + 16 * n(2))
        /\ d.type = 16 => Entry(d, c) = n(0) + 16 * (n(1) + 16 * (n(2) + 16 * n(3)))
        /\ d.type = 32 => Entry(d, c) = n(0) + 16 * (n(1)
                                + 16 * (n(2) + 16 * (n(3) + 16 * (n(4) + 16 * (n(5) + 16 * n(6))))))
    BY <1>1, <2>1, EntryClosed
  <2> HIDE DEF n
  <2>4. /\ type = 12 => n(0) = 15 /\ n(1) = 15 /\ n(2) = 15
        /\ type = 16 => n(0) = 15 /\ n(1) = 15 /\ n(2) = 15 /\ n(3) = 15
        /\ type = 32 => n(0) = 15 /\ n(1) = 15 /\ n(2) = 15 /\ n(3) = 15 /\ n(4) = 15 /\ n(5) = 15 /\ n(6) = 15
    BY <2>2, Kinds, SMT DEF n
  <2>5. type = 12 \/ type = 16 \/ type = 32
    BY Kinds, SMT
  <2>6. Entry(d, c) # 0
    BY <2>3, <2>4, <2>5, SMT
  <2> QED BY <2>1, <2>6 DEF Links
<1> QED BY <1>1, <1>4, <1>5

\* It holds on the new volume.
LEMMA InitChains == Init => ChainInv
<1> SUFFICES ASSUME Init PROVE ChainInv
  OBVIOUS
<1>1. CacheInv
  BY InitCache
<1>2. PICK type \in Types :
        disk = [type |-> type, fat |-> EmptyTable(type),
                info |-> [free |-> NumClusters - 2, last |-> 2],
                data |-> [a \in Sector |-> JunkSector],
                dir |-> [f \in File |-> NoEntry]]
  BY DEF Init
<1>3. cached = NoCache /\ handle = <<>> /\ damaged = {} /\ stops = 0
  BY DEF Init
<1>4. /\ disk.type = type /\ disk.fat = EmptyTable(type) /\ disk.info.free = NumClusters - 2
      /\ disk.info = [free |-> NumClusters - 2, last |-> 2]
      /\ disk.dir = [f \in File |-> NoEntry]
  BY <1>2
<1>5. /\ Typed(disk) /\ Links(disk)[0] # 0 /\ Links(disk)[1] # 0
      /\ \A c \in Cluster : Links(disk)[c] = 0
  BY <1>4, EmptyLinks
<1>6. \A f \in File : disk.dir[f] = NoEntry /\ ChainIn(disk, f) = <<>>
  BY <1>4 DEF ChainIn
<1>7. \A f \in File : FileAt(disk, f, <<>>) /\ disk.dir[f].start \in -1 .. NumClusters - 1
                      /\ disk.dir[f].size \in 0 .. MaxSize
  BY <1>6, TableAssumption, FileAssumption DEF FileAt, IsPath, StartsAt, Fits, NoEntry
<1>8. Free(Links(disk)) = Cluster
  BY <1>5 DEF Free
<1>9. Cardinality(Cluster) = NumClusters - 2
  <2>1. Cardinality(2 .. NumClusters - 1) = IF 2 > NumClusters - 1 THEN 0 ELSE NumClusters - 1 - 2 + 1
    BY FS_Interval, TableAssumption
  <2> QED BY <2>1, TableAssumption DEF Cluster
<1>10. disk.info \in [free : Int, last : Nat]
  BY <1>4, TableAssumption
<1>11. \A f \in File : Range(ChainIn(disk, f)) = {}
  BY <1>6, EmptyRange
<1>12. DiskOK(disk, damaged)
  <2>1. \A f \in File \ damaged : FileAt(disk, f, ChainIn(disk, f))
    BY <1>6, <1>7
  <2>2. \A f, g \in File \ damaged : f # g => Range(ChainIn(disk, f)) \cap Range(ChainIn(disk, g)) = {}
    BY <1>11
  <2>3. \A c \in Cluster : Links(disk)[c] = 0 <=> \A f \in File : c \notin Range(ChainIn(disk, f))
    BY <1>5, <1>11
  <2>4. disk.info.free = Cardinality(Free(Links(disk)))
    BY <1>4, <1>8, <1>9
  <2> QED BY <1>5, <1>7, <1>10, <2>1, <2>2, <2>3, <2>4, Zenon DEF DiskOK
<1>13. HandlesOK(disk, damaged, handle)
  BY <1>3 DEF HandlesOK
<1> QED BY <1>1, <1>3, <1>12, <1>13, FileAssumption DEF ChainInv, CachePlaced

-------------------------------------------------------------------------------
\* Sectors and clusters have bytes.
LEMMA Sizes == SectorBytes \in Nat \ {0} /\ SectorsPerCluster \in Nat \ {0} /\ ClusterBytes \in Nat \ {0}
<1>1. SectorBytes \in Nat \ {0} /\ SectorsPerCluster \in Nat \ {0}
  BY FileAssumption
<1> DEFINE b == SectorBytes
           s == SectorsPerCluster
<1>2. b \in Nat \ {0} /\ s \in Nat \ {0}
  BY <1>1
<1> HIDE DEF b, s
<1>3. b * s \in Nat \ {0}
  BY <1>2
<1> QED BY <1>1, <1>3 DEF ClusterBytes, b, s

\* The quotient is below q when the number is below q times n.
LEMMA DivBelow ==
    ASSUME NEW x \in Int, NEW n \in Nat \ {0}, NEW q \in Int
    PROVE  x \div n < q <=> x < q * n
<1> DEFINE y == x \div n
           r == x % n
           a == y * n
           c == q * n
<1>1. y \in Int /\ r \in 0 .. n - 1 /\ x = a + r
  BY Divide
<1>2. ASSUME y < q PROVE x < c
  <2>1. a + n <= c
    <3>1. y + 1 <= q
      BY <1>1, <1>2
    <3> HIDE DEF y, r
    <3>2. (y + 1) * n <= q * n
      BY <1>1, <3>1
    <3>3. (y + 1) * n = y * n + n
      BY <1>1
    <3> QED BY <3>2, <3>3
  <2>2. a \in Int /\ c \in Int
    BY <1>1
  <2> HIDE DEF y, r, a, c
  <2> QED BY <1>1, <2>1, <2>2
<1>3. ASSUME ~(y < q) PROVE ~(x < c)
  <2>1. c <= a
    <3>1. q <= y
      BY <1>1, <1>3
    <3> HIDE DEF y, r
    <3> QED BY <1>1, <3>1
  <2>2. a \in Int /\ c \in Int
    BY <1>1
  <2> HIDE DEF y, r, a, c
  <2> QED BY <1>1, <2>1, <2>2
<1> QED BY <1>2, <1>3

\* Division keeps order.
LEMMA DivOrder ==
    ASSUME NEW x \in Int, NEW y \in Int, x <= y, NEW n \in Nat \ {0}
    PROVE  x \div n <= y \div n
<1> DEFINE q == y \div n
<1>1. q \in Int /\ x \div n \in Int
  BY Divide
<1>2. y < (q + 1) * n
  <2>1. q < q + 1
    BY <1>1
  <2> QED BY <1>1, <2>1, DivBelow DEF q
<1>3. (q + 1) * n \in Int
  BY <1>1
<1> HIDE DEF q
<1>4. x < (q + 1) * n
  <2> DEFINE c == (q + 1) * n
  <2> HIDE DEF c
  <2>1. c \in Int /\ y < c
    BY <1>2, <1>3 DEF c
  <2>2. x < c
    BY <2>1
  <2> QED BY <2>2 DEF c
<1>5. x \div n < q + 1
  BY <1>1, <1>4, DivBelow
<1> QED BY <1>1, <1>5 DEF q

\* Quotients of naturals are naturals.
LEMMA DivNat ==
    ASSUME NEW x \in Nat, NEW n \in Nat \ {0}
    PROVE  x \div n \in Nat
<1>1. 0 \div n <= x \div n
  BY DivOrder
<1>2. 0 \div n = 0 /\ x \div n \in Int
  BY Divide
<1> QED BY <1>1, <1>2

\* Places in clusters are places in sectors.
LEMMA InSectors ==
    ASSUME NEW x \in Nat
    PROVE  LET k == x \div SectorBytes
           IN  /\ k \in Nat /\ k \div SectorsPerCluster \in Nat
               /\ k % SectorsPerCluster \in 0 .. SectorsPerCluster - 1
               /\ x % SectorBytes \in 0 .. SectorBytes - 1
               /\ x = k * SectorBytes + (x % SectorBytes)
               /\ k = (k \div SectorsPerCluster) * SectorsPerCluster + (k % SectorsPerCluster)
               /\ x \div ClusterBytes = k \div SectorsPerCluster
               /\ x % ClusterBytes = (k % SectorsPerCluster) * SectorBytes + (x % SectorBytes)
               /\ (x % ClusterBytes) \div SectorBytes = k % SectorsPerCluster
<1> DEFINE b == SectorBytes
           s == SectorsPerCluster
           n == ClusterBytes
           k == x \div b
           r == x % b
           q == k \div s
           t == k % s
           w == t * b + r
<1>1. b \in Nat \ {0} /\ s \in Nat \ {0} /\ n \in Nat \ {0} /\ n = b * s
  BY Sizes DEF ClusterBytes
<1> HIDE DEF b, s, n
<1>2. k \in Nat /\ r \in 0 .. b - 1 /\ x = k * b + r
  <2>1. x \div b \in Int /\ x % b \in 0 .. b - 1 /\ x = (x \div b) * b + (x % b)
    BY <1>1, Divide
  <2>2. x \div b \in Nat
    BY <1>1, DivNat
  <2> QED BY <2>1, <2>2, Zenon DEF k, r
<1> HIDE DEF k, r
<1>3. q \in Nat /\ t \in 0 .. s - 1 /\ k = q * s + t
  <2>1. k \div s \in Int /\ k % s \in 0 .. s - 1 /\ k = (k \div s) * s + (k % s)
    BY <1>1, <1>2, Divide
  <2>2. k \div s \in Nat
    BY <1>1, <1>2, DivNat
  <2> QED BY <2>1, <2>2, Zenon DEF q, t
<1> HIDE DEF q, t
<1>4. x = q * n + w
  <2>1. k * b = (q * s) * b + t * b
    BY <1>1, <1>2, <1>3
  <2>2. (q * s) * b = q * (b * s)
    BY <1>1, <1>3
  <2>3. q * (b * s) = q * n
    BY <1>1
  <2> DEFINE qn == q * n
             tb == t * b
             kb == k * b
  <2>4. qn \in Int /\ tb \in Int /\ kb = qn + tb /\ x = kb + r
    BY <1>1, <1>2, <1>3, <2>1, <2>2, <2>3
  <2> HIDE DEF qn, tb, kb
  <2>5. x = qn + (tb + r)
    BY <1>2, <2>4
  <2> QED BY <2>5 DEF qn, tb
<1>5. w \in 0 .. n - 1
  <2>1. t * b >= 0 /\ t * b \in Int
    BY <1>1, <1>3
  <2>2. t * b <= (s - 1) * b
    <3>1. t <= s - 1 /\ s - 1 \in Int
      BY <1>1, <1>3
    <3> QED BY <1>1, <1>3, <3>1
  <2>3. (s - 1) * b = b * s - b
    BY <1>1
  <2> DEFINE tb == t * b
             bs == b * s
  <2>4. tb \in Int /\ tb >= 0 /\ tb <= bs - b /\ n = bs /\ bs \in Int
    BY <1>1, <2>1, <2>2, <2>3
  <2> HIDE DEF tb, bs
  <2>5. tb + r \in 0 .. n - 1
    BY <1>1, <1>2, <2>4
  <2> QED BY <2>5 DEF tb
<1>6. x \div n = q /\ x % n = w
  <2> HIDE DEF w
  <2>1. (q * n + w) \div n = q /\ (q * n + w) % n = w
    <3>1. q \in Int /\ w \in 0 .. n - 1 /\ n \in Nat \ {0}
      BY <1>1, <1>3, <1>5
    <3> QED BY <3>1, Quotient
  <2> QED BY <1>4, <2>1
<1>7. w \div b = t
  BY <1>1, <1>2, <1>3, Quotient
<1>8. /\ k \in Nat /\ q \in Nat /\ t \in 0 .. s - 1 /\ r \in 0 .. b - 1
      /\ x = k * b + r /\ k = q * s + t /\ x \div n = q /\ x % n = w /\ (x % n) \div b = t
  BY <1>2, <1>3, <1>6, <1>7, Zenon
<1> QED BY <1>8, Zenon DEF w, t, q, r, k, n, s, b

\* The last byte of a file lies in the last cluster of its chain.
LEMMA FitsLast ==
    ASSUME NEW p, Len(p) \in Nat, NEW size \in Nat \ {0}, Fits(p, size)
    PROVE  /\ (size - 1) \div ClusterBytes = Len(p) - 1 /\ Len(p) >= 1
           /\ ((size - 1) \div SectorBytes) \div SectorsPerCluster = Len(p) - 1
<1> DEFINE n == ClusterBytes
           l == Len(p)
           a == l * n
           b == (l - 1) * n
           y == (size - 1) \div n
<1>1. n \in Nat \ {0} /\ l \in Nat
  BY Sizes
<1>2. b < size /\ size <= a
  BY DEF Fits
<1>3. a \in Int /\ b \in Int /\ l - 1 \in Int /\ size - 1 \in Int
  BY <1>1
<1> HIDE DEF n, l
<1>4. y < l <=> size - 1 < a
  BY <1>1, <1>3, DivBelow
<1>5. y < l - 1 <=> size - 1 < b
  BY <1>1, <1>3, DivBelow
<1>6. y \in Int
  BY <1>1, <1>3, Divide
<1> HIDE DEF a, b, y
<1>7. y = l - 1
  BY <1>1, <1>2, <1>3, <1>4, <1>5, <1>6
<1>8. l # 0
  <2>1. ASSUME l = 0 PROVE a = 0
    BY <1>1, <2>1 DEF a
  <2> QED BY <1>2, <2>1
<1>9. ((size - 1) \div SectorBytes) \div SectorsPerCluster = y
  <2>1. size - 1 \in Nat
    OBVIOUS
  <2> DEFINE z == size - 1
  <2> HIDE DEF z
  <2>2. z \div ClusterBytes = (z \div SectorBytes) \div SectorsPerCluster
    BY <2>1, InSectors DEF z
  <2> QED BY <2>2 DEF z, y, n
<1> QED BY <1>1, <1>7, <1>8, <1>9 DEF y, n, l

-------------------------------------------------------------------------------
\* The disk, and what a call gives back, are as they were.
Rests(m, n) == Disk(n) = Disk(m) /\ n.panic = m.panic /\ n.bytes = m.bytes /\ n.result = m.result

\* fatSeek steps to the next cluster of the chain.
LEMMA SeekOneIs ==
    ASSUME NEW x, Context(x), NEW m, Safe(x, m), m.h.cur \in Cluster
    PROVE  LET n == SeekOne(m)
           IN  /\ Safe(x, n) /\ Rests(m, n) /\ AllButCur(m.h, n.h)
               /\ n.h.cur = Links(Disk(m))[m.h.cur]
<1> DEFINE c == m.h.cur
           r == [m EXCEPT !.currcluster = c]
           n == AnalyseCurrent(r, c)
<1>1. Whole(m) /\ c \in Cluster
  BY SafeDisk
<1>2. SameDisk(m, r) /\ r.h = m.h /\ r.panic = m.panic /\ r.bytes = m.bytes /\ r.result = m.result
  BY <1>1, FieldChange DEF Whole, Fields
<1>3. Safe(x, r) /\ Disk(r) = Disk(m)
  BY <1>2, SafeSame
<1> HIDE DEF r
<1>4. Safe(x, n) /\ Stays(r, n) /\ AllButCur(r.h, n.h) /\ n.h.cur = Links(Disk(r))[c]
  BY <1>1, <1>3, AnalysedCurrent
<1> HIDE DEF n
<1>5. Safe(x, n) /\ Rests(m, n) /\ AllButCur(m.h, n.h) /\ n.h.cur = Links(Disk(m))[m.h.cur]
  BY <1>2, <1>3, <1>4 DEF Stays, Rests
<1> QED BY <1>5, Zenon DEF SeekOne, n, r

\* fatSeek steps over n clusters of the chain.
LEMMA SeekSome ==
    ASSUME NEW x, Context(x), NEW m, Safe(x, m), NEW p, IsPath(Links(Disk(m)), EndMark(x.d.type), p),
           NEW k \in Nat, NEW n \in Nat, k + n < Len(p), m.h.cur = p[1 + k]
    PROVE  LET e == SeekClusters(m, n)
           IN  /\ Safe(x, e) /\ Rests(m, e) /\ AllButCur(m.h, e.h)
               /\ e.h.cur = p[1 + k + n]
<1> DEFINE Sought(e, i) == /\ Safe(x, e) /\ Rests(m, e) /\ AllButCur(m.h, e.h)
                           /\ e.h.cur = p[1 + k + i]
<1>1. PICK at : /\ at[0] = m
                /\ \A i \in 1 .. n : at[i] = SeekOne(at[i - 1])
                /\ SeekClusters(m, n) = at[n]
  BY SeekSteps
<1>2. Sought(at[0], 0)
  BY <1>1 DEF Rests, AllButCur
<1>3. ASSUME NEW i \in 0 .. n - 1, Sought(at[i], i)
      PROVE  Sought(at[i + 1], i + 1)
  <2> DEFINE b == at[i]
             e == SeekOne(b)
             j == 1 + k + i
  <2>1. at[i + 1] = SeekOne(at[i])
    <3>1. i + 1 \in 1 .. n /\ (i + 1) - 1 = i
      OBVIOUS
    <3> QED BY <1>1, <3>1
  <2>2. Safe(x, b) /\ Rests(m, b) /\ AllButCur(m.h, b.h) /\ b.h.cur = p[j]
    BY <1>3
  <2>3. p \in Seq(Cluster) /\ j \in 1 .. Len(p) /\ j # Len(p) /\ j \in Nat
    BY PathLength DEF IsPath
  <2>4. p[j] \in Cluster /\ Links(Disk(m))[p[j]] = p[j + 1]
    BY <2>3 DEF IsPath
  <2> HIDE DEF b, j
  <2>5. Safe(x, e) /\ Rests(b, e) /\ AllButCur(b.h, e.h) /\ e.h.cur = Links(Disk(b))[b.h.cur]
    BY <2>2, <2>4, SeekOneIs
  <2> HIDE DEF e
  <2>6. Safe(x, e) /\ Rests(m, e) /\ AllButCur(m.h, e.h) /\ e.h.cur = p[j + 1]
    BY <2>2, <2>4, <2>5 DEF Rests, AllButCur
  <2>7. j + 1 = 1 + k + (i + 1)
    BY DEF j
  <2> QED BY <2>1, <2>6, <2>7 DEF e, b
<1> DEFINE S == {i \in 0 .. n : Sought(at[i], i)}
<1>4. 0 \in S /\ \A i \in 0 .. n - 1 : i \in S => i + 1 \in S
  BY <1>2, <1>3
<1> HIDE DEF S
<1>5. \A i \in 0 .. n : i \in S
  BY <1>4, UpTo
<1>6. Sought(at[n], n)
  BY <1>5 DEF S
<1> QED BY <1>1, <1>6

\* Where a handle is by its position is where it is.
LEMMA OldPlace ==
    ASSUME NEW d, NEW p, p \in Seq(Cluster), NEW h, HandleFields(h), h.pos \in Nat, h.size # 0,
           Fits(p, h.size), FullHandle(d, p, h)
    PROVE  Old(h) \in Nat /\ (Old(h) < Len(p) => h.cur = p[1 + Old(h)])
<1> DEFINE n == ClusterBytes
           b == SectorBytes
           s == SectorsPerCluster
           pos == h.pos
           size == h.size
           up == h.up
           q == pos \div n
           r == pos % n
           back == r = 0 /\ pos # 0 /\ up # 0
<1>0. size \in Nat \ {0} /\ size - 1 \in Nat /\ Len(p) \in Nat /\ pos \in Nat
  BY DEF HandleFields
<1>1. n \in Nat \ {0} /\ b \in Nat \ {0} /\ s \in Nat \ {0}
  BY Sizes
<1> HIDE DEF n, pos, size, up
<1>2. q \in Nat /\ r \in 0 .. n - 1 /\ pos = q * n + r
  <2>1. pos \div n \in Int /\ pos % n \in 0 .. n - 1 /\ pos = (pos \div n) * n + (pos % n)
    BY <1>0, <1>1, Divide
  <2>2. pos \div n \in Nat
    BY <1>0, <1>1, DivNat
  <2> QED BY <2>1, <2>2
<1>3. Old(h) = q - (IF back THEN 1 ELSE 0)
  BY Zenon DEF Old, q, r, n, pos, up
<1> HIDE DEF q, r
<1>4. back => q # 0
  <2> SUFFICES ASSUME back, q = 0 PROVE FALSE
    OBVIOUS
  <2>1. q * n = 0
    BY <1>1
  <2> QED BY <1>0, <1>2, <2>1
<1>5. Old(h) \in Nat
  <2> HIDE DEF back
  <2> QED BY <1>2, <1>3, <1>4
<1>6. (size - 1) \div n = Len(p) - 1 /\ ((size - 1) \div b) \div s = Len(p) - 1
  BY <1>0, FitsLast DEF size, n
<1>7. CASE h.stale
  BY <1>5, <1>7 DEF FullHandle, StaleHandle
<1>8. CASE ~h.stale
  <2>1. h.cur = p[1 + Place(h) \div s] /\ up = Place(h) % s
    BY <1>8 DEF FullHandle, PlacedHandle, AtSector, up
  <2>2. CASE pos < size
    <3> DEFINE k == pos \div b
               u == k % s
               v == pos % b
    <3>1. Place(h) = k
      BY <2>2 DEF Place, pos, size
    <3>2. q = k \div s /\ r = u * b + v /\ u \in 0 .. s - 1 /\ v \in 0 .. b - 1
      BY <1>0, InSectors DEF q, r, n
    <3> HIDE DEF u, v, k
    <3>3. ~back
      <4> SUFFICES ASSUME r = 0, u # 0 PROVE FALSE
        BY <2>1, <3>1 DEF u
      <4>1. u \in Nat /\ v \in Nat /\ u * b + v = 0
        BY <1>1, <3>2
      <4>2. u * b >= 1
        BY <1>1, <4>1
      <4> DEFINE ub == u * b
      <4>3. ub \in Int /\ ub >= 1 /\ ub + v = 0
        BY <1>1, <4>1, <4>2
      <4> HIDE DEF ub
      <4> QED BY <4>1, <4>3
    <3>4. Old(h) = k \div s
      <4> HIDE DEF back
      <4> QED BY <1>2, <1>3, <3>2, <3>3
    <3> QED BY <1>5, <2>1, <3>1, <3>4
  <2>3. CASE pos >= size
    <3> DEFINE l == Len(p) - 1
    <3>1. Place(h) = (size - 1) \div b
      BY <1>0, <2>3 DEF Place, pos, size
    <3>2. h.cur = p[1 + l]
      BY <1>6, <2>1, <3>1
    <3>3. l \in Int /\ l = (size - 1) \div n
      BY <1>0, <1>6
    <3> HIDE DEF l, b, s
    <3>4. q >= l
      BY <1>0, <1>1, <2>3, <3>3, DivOrder DEF q
    <3>5. back => q > l
      <4> SUFFICES ASSUME back, q = l PROVE FALSE
        BY <1>2, <3>3, <3>4
      <4> DEFINE y == size - 1
                 a == q * n
      <4>1. y \in Int /\ y = size - 1
        BY <1>0
      <4> HIDE DEF y
      <4>2. y \div n < q <=> y < q * n
        BY <1>1, <1>2, <4>1, DivBelow
      <4>3. a \in Int /\ y \div n = q /\ ~(y < a)
        BY <1>1, <1>2, <3>3, <4>2 DEF y
      <4>4. pos = a + r
        BY <1>2
      <4> HIDE DEF a
      <4>5. pos = a
        BY <4>3, <4>4
      <4> QED BY <1>0, <2>3, <4>1, <4>3, <4>5
    <3> HIDE DEF back
    <3>6. Old(h) < Len(p) => Old(h) = l
      BY <1>0, <1>2, <1>3, <1>5, <3>3, <3>4, <3>5 DEF l
    <3> QED BY <1>5, <3>2, <3>6
  <2> QED BY <1>0, <2>2, <2>3
<1> QED BY <1>5, <1>7, <1>8

-------------------------------------------------------------------------------
\* The byte in front of one inside a sector lies in that sector.
LEMMA SameSector ==
    ASSUME NEW x \in Nat, NEW n \in Nat \ {0}, x % n # 0
    PROVE  (x - 1) \div n = x \div n
<1> DEFINE q == x \div n
           r == x % n
<1>1. q \in Int /\ r \in 0 .. n - 1 /\ x = q * n + r
  BY Divide
<1>2. r # 0
  OBVIOUS
<1> HIDE DEF q, r
<1> DEFINE a == q * n
           t == r - 1
<1>3. t \in 0 .. n - 1 /\ x - 1 = a + t
  <2>1. a \in Int
    BY <1>1
  <2> HIDE DEF a
  <2>2. x = a + r
    BY <1>1 DEF a
  <2> QED BY <1>1, <1>2, <2>1, <2>2
<1> HIDE DEF t
<1>4. (q * n + t) \div n = q
  BY <1>1, <1>3, Quotient
<1> QED BY <1>3, <1>4 DEF q

\* To note that a handle is stale changes nothing else of it.
LEMMA StaleSet ==
    ASSUME NEW h, HandleFields(h), NEW x
    PROVE  LET k == [h EXCEPT !.stale = x]
           IN  /\ k.start = h.start /\ k.size = h.size /\ k.pos = h.pos /\ k.cur = h.cur
               /\ k.up = h.up /\ k.next = h.next /\ k.stale = x
  BY DEF HandleFields

\* fatSeek to a place that is not the start: the handle is at its sector, or at the last
\* one of the file.
LEMMA SeekInsideIs ==
    ASSUME NEW x, Context(x), NEW m, Safe(x, m), NEW p,
           IsPath(Links(Disk(m)), EndMark(x.d.type), p), m.h.size # 0, m.h.pos \in Nat,
           Fits(p, m.h.size), FullHandle(Disk(m), p, m.h),
           NEW newpos \in Nat, newpos # 0, newpos <= m.h.size \/ m.h.size % SectorBytes # 0
    PROVE  LET n == SeekInside(m, newpos)
           IN  /\ Safe(x, n) /\ Rests(m, n)
               /\ n.h.start = m.h.start /\ n.h.size = m.h.size /\ n.h.pos = m.h.pos
               /\ n.h.next = m.h.next /\ n.h.stale = m.h.stale
               /\ AtSector(n.h, p, IF newpos < m.h.size THEN newpos \div SectorBytes
                                   ELSE (m.h.size - 1) \div SectorBytes)
<1> DEFINE h == m.h
           size == h.size
           old == h.pos \div ClusterBytes
                    - (IF h.pos % ClusterBytes = 0 /\ h.pos # 0 /\ h.up # 0 THEN 1 ELSE 0)
           real == Min({h.size, newpos}) - (IF h.size = newpos THEN 1 ELSE 0)
           new == real \div ClusterBytes
           here == new >= old /\ ~fatEndCluster(Disk(m), h.cur)
           up == (real % ClusterBytes) \div SectorBytes
           cur == IF here THEN h.cur ELSE h.start
           at == [m EXCEPT !.h.up = up, !.h.cur = cur]
           steps == IF here THEN new - old ELSE new
           n == SeekClusters(at, steps)
           k == IF newpos < size THEN newpos \div SectorBytes ELSE (size - 1) \div SectorBytes
           first == IF here THEN old ELSE 0
<1>0. SeekInside(m, newpos) = n
  BY Zenon DEF SeekInside, at, up, cur, steps, here, new, real, old
<1>1. Whole(m) /\ HandleFields(h) /\ size \in Nat \ {0} /\ size - 1 \in Nat
  BY SafeDisk DEF Whole, HandleFields
<1>2. p \in Seq(Cluster) /\ Len(p) \in Nat
  BY DEF IsPath
<1>3. Old(h) \in Nat /\ (Old(h) < Len(p) => h.cur = p[1 + Old(h)])
  BY <1>1, <1>2, OldPlace
<1>4. old = Old(h)
  BY Zenon DEF Old, old
<1> HIDE DEF old, n
<1>5. real \in Nat /\ real \div SectorBytes = k
  <2>1. Min({size, newpos}) = IF size <= newpos THEN size ELSE newpos
    BY <1>1, MinOfTwo
  <2> HIDE DEF size
  <2>2. CASE newpos < size
    BY <1>1, <2>1, <2>2 DEF size
  <2>3. CASE newpos = size
    BY <1>1, <2>1, <2>3 DEF size
  <2>4. CASE newpos > size
    <3>1. size % SectorBytes # 0
      BY <1>1, <2>4 DEF size
    <3>2. (size - 1) \div SectorBytes = size \div SectorBytes
      BY <1>1, <3>1, Sizes, SameSector
    <3>3. real = size
      BY <1>1, <2>1, <2>4 DEF size
    <3> HIDE DEF real
    <3> QED BY <1>1, <2>4, <3>2, <3>3
  <2> QED BY <1>1, <2>2, <2>3, <2>4
<1>6. new = k \div SectorsPerCluster /\ up = k % SectorsPerCluster /\ new \in Nat /\ k \in Nat
  <2> HIDE DEF real, k
  <2>1. LET z == real \div SectorBytes
        IN  /\ z \in Nat /\ z \div SectorsPerCluster \in Nat
            /\ real \div ClusterBytes = z \div SectorsPerCluster
            /\ (real % ClusterBytes) \div SectorBytes = z % SectorsPerCluster
    BY <1>5, InSectors
  <2> QED BY <1>5, <2>1
<1>7. new < Len(p) /\ Len(p) >= 1
  <2>1. k <= (size - 1) \div SectorBytes
    <3>1. newpos < size => newpos \div SectorBytes <= (size - 1) \div SectorBytes
      <4> DEFINE y == size - 1
      <4>1. newpos < size => newpos <= y /\ y \in Int
        BY <1>1
      <4> HIDE DEF y
      <4>2. newpos < size => newpos \div SectorBytes <= y \div SectorBytes
        BY <4>1, Sizes, DivOrder
      <4> QED BY <4>2 DEF y
    <3>2. (size - 1) \div SectorBytes \in Int
      BY <1>1, Sizes, DivNat
    <3> QED BY <3>1, <3>2
  <2> DEFINE last == (size - 1) \div SectorBytes
  <2>2. last \in Int /\ last \div SectorsPerCluster = Len(p) - 1 /\ Len(p) >= 1
    <3>1. size \in Nat \ {0} /\ Fits(p, size)
      BY <1>1
    <3> DEFINE y == size - 1
    <3>2. y \in Nat
      BY <1>1
    <3> HIDE DEF size, y
    <3>3. y \div SectorBytes \in Nat
      BY <3>2, Sizes, DivNat
    <3>4. ((size - 1) \div SectorBytes) \div SectorsPerCluster = Len(p) - 1 /\ Len(p) >= 1
      BY <1>2, <3>1, FitsLast
    <3> QED BY <3>3, <3>4 DEF y
  <2> HIDE DEF k, new, last
  <2>3. k \div SectorsPerCluster <= last \div SectorsPerCluster
    BY <1>6, <2>1, <2>2, Sizes, DivOrder DEF last
  <2> QED BY <1>2, <1>6, <2>2, <2>3
<1> HIDE DEF new, k, up, real
<1>8. h.start = p[1]
  BY DEF FullHandle
<1>9. here => old \in Nat /\ new >= old /\ h.cur = p[1 + old]
  BY <1>2, <1>3, <1>4, <1>6, <1>7
<1> HIDE DEF here
<1>10. first \in Nat /\ steps \in Nat /\ first + steps = new /\ cur = p[1 + first]
  BY <1>6, <1>8, <1>9
<1> HIDE DEF first, steps, cur
<1>11. SameDisk(m, at) /\ at.h = [h EXCEPT !.up = up, !.cur = cur] /\ at.panic = m.panic
       /\ at.bytes = m.bytes /\ at.result = m.result
  BY <1>1, FieldChanges DEF Whole, Fields
<1>12. /\ at.h.start = h.start /\ at.h.size = h.size /\ at.h.pos = h.pos /\ at.h.next = h.next
       /\ at.h.stale = h.stale /\ at.h.up = up /\ at.h.cur = cur
  <2> HIDE DEF at, h
  <2> QED BY <1>1, <1>11 DEF HandleFields
<1>13. Safe(x, at) /\ Disk(at) = Disk(m)
  BY <1>11, SafeSame
<1> HIDE DEF at
<1>14. Safe(x, n) /\ Rests(at, n) /\ AllButCur(at.h, n.h) /\ n.h.cur = p[1 + first + steps]
  <2>1. first + steps < Len(p) /\ at.h.cur = p[1 + first]
    BY <1>7, <1>10, <1>12
  <2>2. IsPath(Links(Disk(at)), EndMark(x.d.type), p)
    BY <1>13
  <2>3. LET e == SeekClusters(at, steps)
        IN  /\ Safe(x, e) /\ Rests(at, e) /\ AllButCur(at.h, e.h)
            /\ e.h.cur = p[1 + first + steps]
    BY <1>10, <1>13, <2>1, <2>2, SeekSome
  <2> QED BY <2>3, Zenon DEF n
<1>15. n.h.cur = p[1 + k \div SectorsPerCluster] /\ n.h.up = k % SectorsPerCluster
  <2>1. 1 + first + steps = 1 + new
    BY <1>10
  <2> QED BY <1>6, <1>12, <1>14, <2>1 DEF AllButCur
<1>16. AtSector(n.h, p, k)
  BY <1>6, <1>7, <1>15 DEF AtSector
<1>17. /\ Safe(x, n) /\ Rests(m, n)
       /\ n.h.start = m.h.start /\ n.h.size = m.h.size /\ n.h.pos = m.h.pos
       /\ n.h.next = m.h.next /\ n.h.stale = m.h.stale
  BY <1>11, <1>12, <1>13, <1>14 DEF Rests, AllButCur
<1> QED BY <1>0, <1>16, <1>17, Zenon DEF k, size, h

-------------------------------------------------------------------------------
\* The call leaves the chain and the handle is in place.
LEMMA SeekIs ==
    ASSUME NEW x, Context(x), NEW m, Safe(x, m), NEW f \in File, NEW p,
           IsPath(Links(Disk(m)), EndMark(x.d.type), p), Fits(p, m.h.size),
           HandleAt(Disk(m), f, p, m.h),
           NEW newpos \in Nat, newpos <= m.h.size \/ m.h.size = 0 \/ m.h.size % SectorBytes # 0
    PROVE  LET n == fatSeek(m, newpos)
           IN  /\ Safe(x, n) /\ Disk(n) = Disk(m)
               /\ HandleAt(Disk(m), f, p, [n.h EXCEPT !.stale = StaleAfterSeek(m.h, n.h)])
<1> DEFINE h == m.h
           stays == newpos >= h.size /\ h.pos >= h.size
           begin == [m EXCEPT !.h.cur = h.start, !.h.up = 0]
           moved == IF stays THEN m ELSE IF newpos = 0 THEN begin ELSE SeekInside(m, newpos)
           n == [moved EXCEPT !.h.pos = newpos, !.h.next = 0, !.result = Done(newpos)]
           stale == StaleAfterSeek(m.h, n.h)
           k == [n.h EXCEPT !.stale = stale]
           at == IF newpos < h.size THEN newpos \div SectorBytes ELSE (h.size - 1) \div SectorBytes
<1>0. fatSeek(m, newpos) = n
  BY Zenon DEF fatSeek, n, moved, begin, stays, h
<1>1. Whole(m) /\ HandleFields(h) /\ h.size \in Nat /\ h.pos \in Nat
  BY SafeDisk DEF Whole, HandleFields, HandleAt
<1>2. p \in Seq(Cluster) /\ Len(p) \in Nat
  BY DEF IsPath
<1>3. /\ Safe(x, moved) /\ Disk(moved) = Disk(m) /\ Whole(moved)
      /\ moved.h.start = h.start /\ moved.h.size = h.size /\ moved.h.stale = h.stale
      /\ stays => moved = m
      /\ ~stays => h.size # 0 /\ AtSector(moved.h, p, at)
  <2>1. CASE stays
    <3>1. moved = m
      BY <2>1
    <3> HIDE DEF moved
    <3> QED BY <1>1, <2>1, <3>1
  <2>2. CASE ~stays /\ newpos = 0
    <3>1. moved = begin
      BY <2>2
    <3>2. h.size # 0
      BY <1>1, <2>2
    <3>3. SameDisk(m, begin) /\ begin.h = [h EXCEPT !.cur = h.start, !.up = 0]
      BY <1>1, FieldChanges DEF Whole, Fields
    <3> HIDE DEF begin, moved, h
    <3>4. begin.h.start = h.start /\ begin.h.size = h.size /\ begin.h.stale = h.stale
          /\ begin.h.cur = h.start /\ begin.h.up = 0
      BY <1>1, <3>3 DEF HandleFields
    <3>5. Safe(x, begin) /\ Disk(begin) = Disk(m) /\ Whole(begin)
      BY <3>3, SafeSame, SafeDisk
    <3>6. h.start = p[1] /\ Len(p) >= 1
      <4>1. h.size \in Nat \ {0} /\ Fits(p, h.size)
        BY <1>1, <3>2 DEF h
      <4>2. Len(p) >= 1
        BY <1>2, <4>1, FitsLast
      <4> QED BY <3>2, <4>2 DEF HandleAt, FullHandle, h
    <3>7. at = 0
      <4>1. 0 \div SectorBytes = 0
        BY Sizes
      <4> QED BY <1>1, <2>2, <3>2, <4>1
    <3>8. AtSector(begin.h, p, 0)
      <4>1. 0 \div SectorsPerCluster = 0 /\ 0 % SectorsPerCluster = 0
        BY Sizes
      <4> QED BY <1>2, <3>4, <3>6, <4>1 DEF AtSector
    <3> QED BY <2>2, <3>1, <3>2, <3>4, <3>5, <3>7, <3>8
  <2>3. CASE ~stays /\ newpos # 0
    <3>1. moved = SeekInside(m, newpos)
      BY <2>3
    <3>2. h.size # 0
      BY <1>1, <2>3
    <3>3. FullHandle(Disk(m), p, m.h) /\ (newpos <= m.h.size \/ m.h.size % SectorBytes # 0)
      BY <3>2 DEF HandleAt
    <3> HIDE DEF moved
    <3>4. LET e == SeekInside(m, newpos)
          IN  /\ Safe(x, e) /\ Rests(m, e)
              /\ e.h.start = m.h.start /\ e.h.size = m.h.size /\ e.h.pos = m.h.pos
              /\ e.h.next = m.h.next /\ e.h.stale = m.h.stale
              /\ AtSector(e.h, p, IF newpos < m.h.size THEN newpos \div SectorBytes
                                   ELSE (m.h.size - 1) \div SectorBytes)
      <4>1. m.h.size # 0 /\ m.h.pos \in Nat /\ newpos # 0
        BY <1>1, <2>3, <3>2
      <4> QED BY <3>3, <4>1, SeekInsideIs
    <3>5. /\ Safe(x, moved) /\ Rests(m, moved)
          /\ moved.h.start = h.start /\ moved.h.size = h.size /\ moved.h.stale = h.stale
          /\ AtSector(moved.h, p, at)
      BY <3>1, <3>4, Zenon DEF h, at
    <3> HIDE DEF at
    <3> QED BY <2>3, <3>2, <3>5, SafeDisk DEF Rests
  <2> QED BY <2>1, <2>2, <2>3
<1> HIDE DEF moved
<1>4. SameDisk(moved, n) /\ n.h = [moved.h EXCEPT !.pos = newpos, !.next = 0]
  <2>1. newpos \in Int
    OBVIOUS
  <2>2. SameDisk(moved, n)
    BY <1>3, <2>1, FieldChanges
  <2> QED BY <1>3, <2>2 DEF Whole, Fields
<1>5. HandleFields(moved.h) /\ HandleFields(n.h)
  BY <1>3, <1>4 DEF Whole, SameDisk
<1> HIDE DEF n
<1>6. /\ n.h.start = moved.h.start /\ n.h.size = moved.h.size /\ n.h.stale = moved.h.stale
      /\ n.h.cur = moved.h.cur /\ n.h.up = moved.h.up /\ n.h.pos = newpos /\ n.h.next = 0
  BY <1>4, <1>5 DEF HandleFields
<1>7. Safe(x, n) /\ Disk(n) = Disk(m)
  BY <1>3, <1>4, SafeSame
<1>8. stale <=> h.stale /\ stays
  BY <1>3, <1>6 DEF StaleAfterSeek
<1> HIDE DEF stale
<1>9. /\ k.start = h.start /\ k.size = h.size /\ k.pos = newpos /\ k.next = 0 /\ k.stale = stale
      /\ k.cur = moved.h.cur /\ k.up = moved.h.up
  BY <1>3, <1>5, <1>6, StaleSet
<1> HIDE DEF k
<1>10. HandleAt(Disk(m), f, p, k)
  <2>1. k.size = Disk(m).dir[f].size /\ k.pos \in Nat
    BY <1>9 DEF HandleAt
  <2>2. CASE h.size = 0
    <3>1. EmptyHandle(Disk(m), h) /\ stays
      BY <1>1, <2>2 DEF HandleAt
    <3>2. k.cur = h.cur /\ ~stale
      BY <1>3, <1>8, <1>9, <3>1 DEF EmptyHandle
    <3>3. EmptyHandle(Disk(m), k)
      BY <1>9, <3>1, <3>2 DEF EmptyHandle
    <3> QED BY <1>9, <2>1, <2>2, <3>3 DEF HandleAt
  <2>3. CASE h.size # 0
    <3>1. FullHandle(Disk(m), p, h)
      BY <2>3 DEF HandleAt
    <3>2. CASE ~stays
      <4>1. AtSector(k, p, at)
        BY <1>3, <1>9, <3>2 DEF AtSector
      <4>2. Place(k) = at
        BY <1>9 DEF Place
      <4>3. k.pos > k.size \/ (k.pos = k.size /\ k.next # 0) => k.size % SectorBytes # 0
        BY <1>1, <1>9, <2>3
      <4>4. PlacedHandle(p, k) /\ ~stale
        BY <1>8, <3>2, <4>1, <4>2, <4>3 DEF PlacedHandle
      <4>5. \E i \in 1 .. Len(p) : k.cur = p[i]
        <5> DEFINE i == 1 + at \div SectorsPerCluster
        <5>1. k.cur = p[i] /\ at \in Nat /\ at \div SectorsPerCluster < Len(p)
          BY <4>1 DEF AtSector
        <5> HIDE DEF at
        <5>2. at \div SectorsPerCluster \in Nat
          BY <5>1, Sizes, DivNat
        <5>3. i \in 1 .. Len(p)
          BY <1>2, <5>1, <5>2
        <5> QED BY <5>1, <5>3
      <4>6. FullHandle(Disk(m), p, k)
        BY <1>9, <3>1, <4>4, <4>5 DEF FullHandle
      <4> QED BY <1>9, <2>1, <2>3, <4>6 DEF HandleAt
    <3>3. CASE stays
      <4>1. k.cur = h.cur /\ k.up = h.up /\ (stale <=> h.stale)
        BY <1>3, <1>8, <1>9, <3>3
      <4>2. CASE h.stale
        <5>1. StaleHandle(p, h)
          BY <3>1, <4>2 DEF FullHandle
        <5>2. h.pos = h.size
          BY <1>1, <3>3, <5>1 DEF StaleHandle
        <5>3. newpos = h.size
          BY <1>1, <2>3, <3>3, <5>1, <5>2 DEF StaleHandle
        <5>4. Old(k) = Old(h)
          BY <1>9, <4>1, <5>2, <5>3, Zenon DEF Old
        <5>5. StaleHandle(p, k)
          BY <1>9, <4>1, <5>1, <5>2, <5>3, <5>4 DEF StaleHandle
        <5>6. FullHandle(Disk(m), p, k)
          BY <1>9, <3>1, <4>1, <4>2, <5>5 DEF FullHandle
        <5> QED BY <1>9, <2>1, <2>3, <5>6 DEF HandleAt
      <4>3. CASE ~h.stale
        <5>1. PlacedHandle(p, h)
          BY <3>1, <4>3 DEF FullHandle
        <5>2. Place(k) = Place(h)
          BY <1>1, <1>9, <3>3 DEF Place
        <5>3. PlacedHandle(p, k)
          BY <1>1, <1>9, <2>3, <4>1, <5>1, <5>2 DEF PlacedHandle, AtSector
        <5>4. FullHandle(Disk(m), p, k)
          BY <1>9, <3>1, <4>1, <4>3, <5>3 DEF FullHandle
        <5> QED BY <1>9, <2>1, <2>3, <5>4 DEF HandleAt
      <4> QED BY <4>2, <4>3
    <3> QED BY <3>2, <3>3
  <2> QED BY <2>2, <2>3
<1> QED BY <1>0, <1>7, <1>10, Zenon DEF k, stale

\* An open file exists, was never cut short, and has a handle at a place of its chain.
LEMMA OpenedAre ==
    ASSUME ChainInv, NEW f \in Opened
    PROVE  /\ f \in File \ damaged /\ HandleFields(handle[f]) /\ disk.dir[f] # NoEntry
           /\ HandleAt(disk, f, ChainIn(disk, f), handle[f])
  BY DEF ChainInv, CacheInv, HandlesOK, Opened

\* SeekFile keeps the invariant, for a careful caller.
LEMMA SeekChains ==
    ASSUME ChainInv, Careful, NEW f \in File, NEW q \in Amount[f], SeekFile(f, q)
    PROVE  ChainInv'
<1> DEFINE x == On(f)
           h == handle[f]
           m == Call(h)
           n == fatSeek(m, q)
           k == [n.h EXCEPT !.stale = StaleAfterSeek(h, n.h)]
           p == ChainIn(disk, f)
<1>1. /\ f \in Opened /\ (q <= h.size \/ h.size = 0 \/ h.size % SectorBytes # 0)
      /\ Ends(n, f, With(f, k))
  BY Zenon DEF SeekFile
<1>2. f \in File \ damaged /\ HandleFields(h) /\ disk.dir[f] # NoEntry /\ HandleAt(disk, f, p, h)
  BY <1>1, OpenedAre
<1>3. q \in Nat
  BY FileAssumption
<1>4. Safe(x, m) /\ ~m.panic /\ m.h = h /\ Disk(m) = disk
  BY <1>2, CallSafe
<1>5. Context(x) /\ Owns(x, disk, p) /\ FileAt(disk, f, p) /\ x.d = disk
  BY <1>2, OnContext, OnFields
<1>6. IsPath(Links(Disk(m)), EndMark(x.d.type), p) /\ Fits(p, m.h.size)
  BY <1>2, <1>4, <1>5 DEF FileAt, HandleAt
<1> HIDE DEF x, m, h, p
<1>7. LET e == fatSeek(m, q)
      IN  /\ Safe(x, e) /\ Disk(e) = Disk(m)
          /\ HandleAt(Disk(m), f, p, [e.h EXCEPT !.stale = StaleAfterSeek(m.h, e.h)])
  <2>1. q <= m.h.size \/ m.h.size = 0 \/ m.h.size % SectorBytes # 0
    BY <1>1, <1>4
  <2>2. HandleAt(Disk(m), f, p, m.h)
    BY <1>2, <1>4
  <2> QED BY <1>3, <1>4, <1>5, <1>6, <2>1, <2>2, SeekIs
<1>8. Safe(x, n) /\ Disk(n) = disk /\ HandleAt(disk, f, p, k)
  BY <1>4, <1>7, Zenon DEF n, k
<1>9. HandleFields(k)
  <2>1. HandleFields(n.h)
    BY <1>8, SafeDisk DEF Whole
  <2> QED BY <2>1, StaleFields
<1> HIDE DEF n, k
<1>10. \A g \in DOMAIN With(f, k) : HandleFields(With(f, k)[g])
  BY <1>9, WithFields DEF ChainInv
<1>11. HandlesAfter(f, disk, p, With(f, k))
  BY <1>2, <1>8, WithAfter
<1> QED BY <1>1, <1>2, <1>8, <1>10, <1>11, IdleInv DEF x, p

-------------------------------------------------------------------------------
\* Byte c of sector u of cluster k of the file.
LEMMA SectorAt ==
    ASSUME NEW k \in Nat, NEW u \in 0 .. SectorsPerCluster - 1, NEW c \in 0 .. SectorBytes - 1,
           NEW x \in Int, x = k * ClusterBytes + u * SectorBytes + c
    PROVE  /\ x \div SectorBytes = k * SectorsPerCluster + u
           /\ (x \div SectorBytes) \div SectorsPerCluster = k
           /\ (x \div SectorBytes) % SectorsPerCluster = u
           /\ x % SectorBytes = c
           /\ x \div ClusterBytes = k /\ x % ClusterBytes = u * SectorBytes + c
           /\ x \in Nat
<1> DEFINE b == SectorBytes
           s == SectorsPerCluster
           n == ClusterBytes
           j == k * s + u
<1>1. b \in Nat \ {0} /\ s \in Nat \ {0} /\ n \in Nat \ {0} /\ n = b * s
  BY Sizes DEF ClusterBytes
<1>2. u \in 0 .. s - 1 /\ c \in 0 .. b - 1 /\ x = k * n + u * b + c
  OBVIOUS
<1> HIDE DEF b, s, n
<1>3. j \in Nat
  <2> DEFINE a == k * s
  <2>1. a \in Nat
    BY <1>1
  <2> HIDE DEF a
  <2>2. a + u \in Nat
    BY <1>2, <2>1
  <2> QED BY <2>2 DEF a
<1>4. x = j * b + c
  <2>1. j * b = (k * s) * b + u * b
    BY <1>1, <1>2
  <2>2. (k * s) * b = k * (b * s)
    BY <1>1
  <2> DEFINE kn == k * n
             ub == u * b
             jb == j * b
  <2>3. kn \in Int /\ ub \in Int /\ jb = kn + ub /\ x = kn + ub + c
    BY <1>1, <1>2, <2>1, <2>2
  <2> HIDE DEF kn, ub, jb
  <2>4. x = jb + c
    BY <1>2, <2>3
  <2> QED BY <2>4 DEF jb
<1>5. j \div s = k /\ j % s = u
  <2>1. k \in Int /\ u \in 0 .. s - 1 /\ s \in Nat \ {0}
    BY <1>1, <1>2
  <2>2. (k * s + u) \div s = k /\ (k * s + u) % s = u
    BY <2>1, Quotient
  <2> QED BY <2>2
<1>6. x \div b = j /\ x % b = c
  <2>1. j \in Int
    BY <1>3
  <2> HIDE DEF j
  <2>2. (j * b + c) \div b = j /\ (j * b + c) % b = c
    BY <1>1, <1>2, <2>1, Quotient
  <2> QED BY <1>4, <2>2
<1>7. x \in Nat
  <2> DEFINE jb == j * b
  <2>1. jb \in Nat
    BY <1>1, <1>3
  <2> HIDE DEF jb
  <2>2. x = jb + c
    BY <1>4 DEF jb
  <2> QED BY <1>2, <1>1, <2>1, <2>2
<1> HIDE DEF j
<1>8. x \div n = j \div s /\ x % n = (j % s) * b + (x % b)
  <2>1. LET z == x \div SectorBytes
        IN  /\ x \div ClusterBytes = z \div SectorsPerCluster
            /\ x % ClusterBytes = (z % SectorsPerCluster) * SectorBytes + (x % SectorBytes)
    BY <1>7, InSectors
  <2> QED BY <1>6, <2>1, Zenon DEF b, s, n
<1> QED BY <1>5, <1>6, <1>7, <1>8, Zenon DEF j, n, s, b

\* The end of the file in its last cluster.
LEMMA FitsEnd ==
    ASSUME NEW p, Len(p) \in Nat, NEW size \in Nat \ {0}, Fits(p, size)
    PROVE  /\ size % ClusterBytes \in 0 .. ClusterBytes - 1
           /\ IF size % ClusterBytes # 0
              THEN size = (Len(p) - 1) * ClusterBytes + (size % ClusterBytes)
                   /\ size \div ClusterBytes = Len(p) - 1
              ELSE size = Len(p) * ClusterBytes /\ size \div ClusterBytes = Len(p)
<1> DEFINE n == ClusterBytes
           l == Len(p)
           q == size \div n
           r == size % n
<1>1. n \in Nat \ {0} /\ l \in Nat
  BY Sizes
<1>2. (size - 1) \div n = l - 1 /\ l >= 1
  BY FitsLast
<1>3. size <= l * n
  BY DEF Fits
<1> HIDE DEF n, l
<1>4. q \in Int /\ r \in 0 .. n - 1 /\ size = q * n + r
  BY <1>1, Divide
<1>5. CASE r # 0
  <2>1. q = l - 1
    BY <1>1, <1>2, <1>5, SameSector
  <2> HIDE DEF q, r
  <2> QED BY <1>1, <1>4, <1>5, <2>1 DEF q, r, n, l
<1>6. CASE r = 0
  <2>0. size - 1 \in Int
    OBVIOUS
  <2>1. (size - 1) \div n < q <=> size - 1 < q * n
    <3> DEFINE y == size - 1
    <3>1. y \in Int
      OBVIOUS
    <3> HIDE DEF y, q
    <3>2. y \div n < q <=> y < q * n
      BY <1>1, <1>4, <3>1, DivBelow
    <3> QED BY <3>2 DEF y
  <2>2. q < l + 1
    <3>1. size < (l + 1) * n
      <4>1. (l + 1) * n = l * n + n
        BY <1>1
      <4> DEFINE ln == l * n
      <4>2. ln \in Int /\ size <= ln /\ (l + 1) * n = ln + n
        BY <1>1, <1>3, <4>1
      <4> HIDE DEF ln
      <4> QED BY <1>1, <4>2
    <3>2. l + 1 \in Int
      BY <1>1
    <3> QED BY <1>1, <3>1, <3>2, DivBelow
  <2> HIDE DEF q, r
  <2>3. size = q * n
    <3> DEFINE qn == q * n
    <3>1. qn \in Int /\ size = qn + r
      BY <1>1, <1>4
    <3> HIDE DEF qn
    <3>2. size = qn
      BY <1>6, <3>1
    <3> QED BY <3>2 DEF qn
  <2>4. size - 1 < q * n
    <3> DEFINE qn == q * n
    <3> HIDE DEF qn
    <3>1. size = qn
      BY <2>3 DEF qn
    <3>2. size - 1 < qn
      BY <3>1
    <3> QED BY <3>2 DEF qn
  <2>5. l - 1 < q
    BY <1>2, <2>1, <2>4
  <2>6. q = l
    BY <1>1, <1>4, <2>2, <2>5
  <2> QED BY <1>4, <1>6, <2>3, <2>6 DEF q, r, n, l
<1> QED BY <1>4, <1>5, <1>6 DEF r, n

-------------------------------------------------------------------------------
\* A read of `want` bytes on a disk with the chain p, begun with m.
AtRead(x, p, m, want, n) ==
    /\ Safe(x, n) /\ Disk(n) = Disk(m) /\ n.panic = m.panic
    /\ n.h.start = m.h.start /\ n.h.size = m.h.size /\ n.h.stale = m.h.stale
    /\ Len(n.bytes) <= want /\ n.h.next = Links(Disk(m))[n.h.cur]

\* The handle is at byte b of sector u of cluster k.
In(p, h, k, u, b) ==
    /\ k \in 0 .. Len(p) - 1 /\ u \in 0 .. SectorsPerCluster /\ b \in 0 .. SectorBytes - 1
    /\ h.cur = p[1 + k] /\ h.up = u
    /\ h.pos = k * ClusterBytes + u * SectorBytes + b /\ h.pos <= h.size

\* In a chain, the entry of a cluster is an end mark at the last and the next cluster elsewhere.
LEMMA NextEnd ==
    ASSUME NEW d, d.type \in Types, NEW p, IsPath(Links(d), EndMark(d.type), p),
           NEW k \in 0 .. Len(p) - 1
    PROVE  /\ p[1 + k] \in Cluster
           /\ fatEndCluster(d, Links(d)[p[1 + k]]) <=> k = Len(p) - 1
           /\ k # Len(p) - 1 => Links(d)[p[1 + k]] = p[2 + k] /\ p[2 + k] \in Cluster
<1>1. p \in Seq(Cluster) /\ Len(p) \in Nat
  BY DEF IsPath
<1> DEFINE i == 1 + k
<1>2. i \in 1 .. Len(p) /\ (i = Len(p) <=> k = Len(p) - 1) /\ i + 1 = 2 + k
  BY <1>1
<1> HIDE DEF i
<1>3. p[i] \in Cluster /\ Links(d)[p[i]] = (IF i = Len(p) THEN EndMark(d.type) ELSE p[i + 1])
  BY <1>2 DEF IsPath
<1>4. i # Len(p) => p[i + 1] \in Cluster
  BY <1>1, <1>2
<1>5. (\A c \in Cluster : ~fatEndCluster(d, c)) /\ fatEndCluster(d, EndMark(d.type))
  BY NotEnd
<1> QED BY <1>2, <1>3, <1>4, <1>5 DEF i

\* fatReadFile turns to the next cluster, unless the chain ends.
LEMMA TurnedIs ==
    ASSUME NEW x, Context(x), NEW m, Safe(x, m), NEW p, IsPath(Links(Disk(m)), EndMark(x.d.type), p),
           NEW want, NEW n, AtRead(x, p, m, want, n), NEW k, NEW u, NEW b, In(p, n.h, k, u, b)
    PROVE  LET t == Turned(n)
           IN  /\ AtRead(x, p, m, want, t) /\ t.bytes = n.bytes
               /\ IF u = SectorsPerCluster /\ k # Len(p) - 1 THEN In(p, t.h, k + 1, 0, b)
                  ELSE In(p, t.h, k, u, b)
<1> DEFINE d == Disk(m)
           c == n.h.next
           r == [n EXCEPT !.h.cur = c]
           a == AnalyseNext(r)
           e == [a EXCEPT !.h.up = 0]
           t == Turned(n)
<1>1. d.type = x.d.type /\ d.type \in Types /\ Disk(n) = d /\ Whole(n)
  BY SafeDisk DEF Keeps, Context, Typed, AtRead
<1>2. t = IF n.h.up # SectorsPerCluster \/ fatEndCluster(Disk(n), n.h.next) THEN n ELSE e
  BY Zenon DEF Turned, e, a, r, c
<1>3. n.h.cur = p[1 + k] /\ n.h.up = u /\ c = Links(d)[p[1 + k]] /\ k \in 0 .. Len(p) - 1
  BY DEF In, AtRead
<1>4. /\ fatEndCluster(d, c) <=> k = Len(p) - 1
      /\ k # Len(p) - 1 => c = p[2 + k] /\ c \in Cluster
  BY <1>1, <1>3, NextEnd
<1> HIDE DEF d, c, t
<1>5. CASE u = SectorsPerCluster /\ k # Len(p) - 1
  <2>1. t = e
    BY <1>1, <1>2, <1>3, <1>4, <1>5 DEF c
  <2>2. SameDisk(n, r) /\ r.h = [n.h EXCEPT !.cur = c] /\ r.panic = n.panic /\ r.bytes = n.bytes
    BY <1>1, FieldChange DEF Whole, Fields
  <2>3. Safe(x, r) /\ Disk(r) = d
    BY <1>1, <2>2, SafeSame DEF AtRead
  <2>4. /\ r.h.start = n.h.start /\ r.h.size = n.h.size /\ r.h.stale = n.h.stale /\ r.h.pos = n.h.pos
        /\ r.h.cur = c
    BY <1>1, <2>2 DEF Whole, HandleFields
  <2> HIDE DEF r
  <2>5. /\ Safe(x, a) /\ Stays(r, a) /\ AllButNext(r.h, a.h)
        /\ a.h.next = IF fatEndCluster(Disk(r), r.h.cur) THEN r.h.next ELSE Links(Disk(r))[r.h.cur]
    BY <1>4, <1>5, <2>3, <2>4, AnalysedNext
  <2>6. ~fatEndCluster(d, c)
    BY <1>1, <1>4, <1>5, NotEnd
  <2> HIDE DEF a
  <2>7. Whole(a)
    BY <2>5, SafeDisk
  <2>8. SameDisk(a, e) /\ e.h = [a.h EXCEPT !.up = 0] /\ e.panic = a.panic /\ e.bytes = a.bytes
    BY <2>7, FieldChange DEF Whole, Fields
  <2>9. /\ e.h.start = a.h.start /\ e.h.size = a.h.size /\ e.h.stale = a.h.stale /\ e.h.pos = a.h.pos
        /\ e.h.cur = a.h.cur /\ e.h.next = a.h.next /\ e.h.up = 0
    BY <2>7, <2>8 DEF Whole, HandleFields
  <2>10. Safe(x, e) /\ Disk(e) = Disk(a)
    BY <2>5, <2>8, SafeSame
  <2> HIDE DEF e
  <2>11. AtRead(x, p, m, want, e) /\ e.bytes = n.bytes
    BY <2>2, <2>3, <2>4, <2>5, <2>6, <2>8, <2>9, <2>10 DEF AtRead, Stays, AllButNext, d
  <2>12. In(p, e.h, k + 1, 0, b)
    <3>1. e.h.cur = p[2 + k] /\ e.h.up = 0 /\ e.h.pos = n.h.pos /\ e.h.size = n.h.size
      BY <1>4, <1>5, <2>4, <2>5, <2>9 DEF AllButNext
    <3>2. k + 1 \in 0 .. Len(p) - 1 /\ 2 + k = 1 + (k + 1) /\ k \in Nat
      BY <1>3, <1>5 DEF IsPath
    <3>3. k * ClusterBytes + SectorsPerCluster * SectorBytes + b = (k + 1) * ClusterBytes + 0 * SectorBytes + b
      <4>1. SectorsPerCluster * SectorBytes = ClusterBytes /\ 0 * SectorBytes = 0
        BY Sizes DEF ClusterBytes
      <4>2. (k + 1) * ClusterBytes = k * ClusterBytes + ClusterBytes
        BY <3>2, Sizes
      <4> DEFINE y == k * ClusterBytes
      <4>3. y \in Int /\ ClusterBytes \in Int /\ b \in Int
        BY <3>2, Sizes DEF In
      <4> HIDE DEF y
      <4> QED BY <4>1, <4>2, <4>3 DEF y
    <3>4. /\ b \in 0 .. SectorBytes - 1 /\ n.h.pos <= n.h.size
          /\ n.h.pos = k * ClusterBytes + SectorsPerCluster * SectorBytes + b
          /\ 0 \in 0 .. SectorsPerCluster
      BY <1>5, Sizes DEF In
    <3> QED BY <3>1, <3>2, <3>3, <3>4, Zenon DEF In
  <2> QED BY <1>5, <2>1, <2>11, <2>12 DEF t
<1>6. CASE ~(u = SectorsPerCluster /\ k # Len(p) - 1)
  <2>1. t = n
    BY <1>1, <1>2, <1>3, <1>4, <1>6 DEF c
  <2> QED BY <1>6, <2>1 DEF t
<1> QED BY <1>5, <1>6

-------------------------------------------------------------------------------
\* A place in the last cluster, of a file that ends inside of it.
LEMMA CutPlace ==
    ASSUME NEW p, Len(p) \in Nat, NEW size \in Nat \ {0}, Fits(p, size), size % ClusterBytes # 0,
           NEW u \in 0 .. SectorsPerCluster, NEW b \in 0 .. SectorBytes - 1,
           (Len(p) - 1) * ClusterBytes + u * SectorBytes + b <= size
    PROVE  LET lb == size % ClusterBytes
               v == lb \div SectorBytes
           IN  /\ v \in 0 .. SectorsPerCluster - 1 /\ u <= v
               /\ lb % SectorBytes \in 0 .. SectorBytes - 1
               /\ u = v => b <= lb % SectorBytes
               /\ u < v => (Len(p) - 1) * ClusterBytes + (u + 1) * SectorBytes <= size
               /\ size = (Len(p) - 1) * ClusterBytes + v * SectorBytes + (lb % SectorBytes)
               /\ size % SectorBytes = lb % SectorBytes
<1> DEFINE B == SectorBytes
           s == SectorsPerCluster
           n == ClusterBytes
           base == (Len(p) - 1) * n
           lb == size % n
           v == lb \div B
           w == lb % B
           ub == u * B
           vb == v * B
<1>1. B \in Nat \ {0} /\ s \in Nat \ {0} /\ n \in Nat \ {0} /\ u \in Nat /\ b \in 0 .. B - 1
  BY Sizes
<1>2. size = base + lb /\ lb \in 0 .. n - 1
  BY FitsEnd
<1>3. base \in Int
  BY <1>1
<1>4. base + ub + b <= size
  OBVIOUS
<1>5. LET k == size \div SectorBytes
      IN  /\ k % SectorsPerCluster \in 0 .. SectorsPerCluster - 1
          /\ size % SectorBytes \in 0 .. SectorBytes - 1
          /\ (size % ClusterBytes) \div SectorBytes = k % SectorsPerCluster
          /\ size % ClusterBytes = (k % SectorsPerCluster) * SectorBytes + (size % SectorBytes)
  BY InSectors
<1>6. v \in 0 .. s - 1
  BY <1>5
<1> HIDE DEF n, s
<1>7. w \in 0 .. B - 1 /\ lb = vb + w
  <2>1. lb \in Int
    BY <1>1, <1>2
  <2> HIDE DEF lb, B
  <2> QED BY <1>1, <2>1, Divide
<1>8. size % B = w
  <2>1. v * B + (size % B) = lb
    BY <1>5, Zenon DEF n, v, lb, B
  <2>2. size % B \in 0 .. B - 1 /\ vb \in Int
    BY <1>1, <1>5, <1>6
  <2> DEFINE sb == size % B
  <2>3. vb + sb = lb
    BY <2>1
  <2> HIDE DEF sb, vb, w, lb
  <2> QED BY <1>7, <2>2, <2>3 DEF sb
<1> HIDE DEF lb, w, base, B
<1>9. ub \in Int /\ vb \in Int
  BY <1>1, <1>6
<1>10. u * B + b <= lb
  <2> HIDE DEF ub
  <2>1. ub + b <= lb
    BY <1>1, <1>2, <1>3, <1>4, <1>9
  <2> QED BY <2>1 DEF ub
<1>11. u <= v
  <2>1. ASSUME v < u PROVE FALSE
    <3>1. v + 1 <= u
      BY <1>1, <1>6, <2>1
    <3>2. (v + 1) * B <= u * B
      <4> HIDE DEF v
      <4> QED BY <1>1, <1>6, <3>1
    <3>3. (v + 1) * B = vb + B
      BY <1>1, <1>6
    <3> HIDE DEF ub, vb, v
    <3>4. vb + B <= ub
      BY <3>2, <3>3 DEF ub
    <3>5. ub + b <= lb
      BY <1>10 DEF ub
    <3> QED BY <1>1, <1>7, <1>9, <3>4, <3>5
  <2> QED BY <1>1, <1>6, <2>1
<1>12. u = v => b <= w
  <2> SUFFICES ASSUME u = v PROVE b <= w
    OBVIOUS
  <2>1. vb + b <= lb
    BY <1>10
  <2> HIDE DEF vb, v
  <2> QED BY <1>1, <1>7, <1>9, <2>1
<1>13. u < v => base + (u + 1) * B <= size
  <2> SUFFICES ASSUME u < v PROVE base + (u + 1) * B <= size
    OBVIOUS
  <2>1. u + 1 <= v
    BY <1>1, <1>6
  <2>2. (u + 1) * B <= v * B /\ (u + 1) * B \in Int
    <3> HIDE DEF v
    <3> QED BY <1>1, <1>6, <2>1
  <2> DEFINE tb == (u + 1) * B
  <2>3. tb <= vb /\ tb \in Int
    BY <2>2
  <2> HIDE DEF vb, v, tb
  <2>4. base + tb <= size
    BY <1>1, <1>2, <1>3, <1>7, <1>9, <2>3
  <2> QED BY <2>4 DEF tb
<1>14. size = base + vb + w
  <2> HIDE DEF vb, v
  <2> QED BY <1>1, <1>2, <1>3, <1>7, <1>9
<1> QED BY <1>6, <1>7, <1>8, <1>11, <1>12, <1>13, <1>14, Zenon DEF B, s, n, base, lb, v, w, vb

\* A place in a cluster that the file fills.
LEMMA FullPlace ==
    ASSUME NEW p, Len(p) \in Nat, NEW size \in Nat \ {0}, Fits(p, size),
           NEW k \in 0 .. Len(p) - 1, k # Len(p) - 1 \/ size % ClusterBytes = 0,
           NEW u \in 0 .. SectorsPerCluster
    PROVE  /\ u < SectorsPerCluster => k * ClusterBytes + (u + 1) * SectorBytes <= size
           /\ u = SectorsPerCluster /\ k = Len(p) - 1 =>
                k * ClusterBytes + u * SectorBytes = size /\ size % SectorBytes = 0
<1> DEFINE B == SectorBytes
           s == SectorsPerCluster
           n == ClusterBytes
           l == Len(p)
<1>1. B \in Nat \ {0} /\ s \in Nat \ {0} /\ n \in Nat \ {0} /\ n = B * s /\ l \in Nat /\ k \in 0 .. l - 1 /\ u \in 0 .. s
  BY Sizes DEF ClusterBytes
<1>2. (k + 1) * n <= size
  <2>1. CASE k # l - 1
    <3>1. (l - 1) * n < size
      BY DEF Fits
    <3>2. k + 1 <= l - 1
      BY <1>1, <2>1
    <3> HIDE DEF l, n
    <3>3. (k + 1) * n <= (l - 1) * n
      BY <1>1, <3>2
    <3> DEFINE a == (k + 1) * n
               c == (l - 1) * n
    <3>4. a \in Int /\ c \in Int /\ a <= c /\ c < size
      BY <1>1, <3>1, <3>3
    <3> HIDE DEF a, c
    <3>5. a <= size
      BY <3>4
    <3> QED BY <3>5 DEF a
  <2>2. CASE k = l - 1
    <3>1. size = l * n
      BY <2>2, FitsEnd
    <3>2. k + 1 = l
      BY <1>1, <2>2
    <3> HIDE DEF l, n
    <3> QED BY <3>1, <3>2
  <2> QED BY <2>1, <2>2
<1> HIDE DEF B, s, n, l
<1>3. (k + 1) * n = k * n + n
  BY <1>1
<1>4. u < s => k * n + (u + 1) * B <= size
  <2> SUFFICES ASSUME u < s PROVE k * n + (u + 1) * B <= size
    OBVIOUS
  <2>1. (u + 1) * B <= s * B
    <3>1. u + 1 <= s
      BY <1>1
    <3> QED BY <1>1, <3>1
  <2>2. s * B = n
    BY <1>1
  <2> DEFINE kn == k * n
             tb == (u + 1) * B
  <2>3. kn \in Int /\ tb \in Int /\ tb <= n /\ kn + n <= size
    BY <1>1, <1>2, <1>3, <2>1, <2>2
  <2> HIDE DEF kn, tb
  <2>4. kn + tb <= size
    BY <1>1, <2>3
  <2> QED BY <2>4 DEF kn, tb
<1>5. ASSUME u = s, k = l - 1 PROVE k * n + u * B = size /\ size % B = 0
  <2>1. size = l * n
    <3>1. size % ClusterBytes = 0
      BY <1>5 DEF l
    <3> QED BY <3>1, FitsEnd DEF l, n
  <2>2. u * B = n
    BY <1>1, <1>5
  <2>3. k + 1 = l
    BY <1>1, <1>5
  <2>4. k * n + n = size
    BY <1>1, <1>3, <2>1, <2>3
  <2>5. size = (l * s) * B + 0
    BY <1>1, <2>1
  <2>6. ((l * s) * B + 0) % B = 0
    <3> DEFINE q == l * s
    <3>1. q \in Int
      BY <1>1
    <3> HIDE DEF q
    <3>2. 0 \in 0 .. B - 1
      BY <1>1
    <3>3. (q * B + 0) % B = 0
      BY <1>1, <3>1, <3>2, Quotient
    <3> QED BY <3>3 DEF q
  <2> QED BY <2>2, <2>4, <2>5, <2>6
<1> QED BY <1>4, <1>5 DEF B, s, n, l

-------------------------------------------------------------------------------
\* The read has taken the last byte of a file that ends inside its last cluster.
AtEnd(p, h) ==
    /\ h.pos = h.size /\ h.size % ClusterBytes # 0
    /\ h.cur = p[Len(p)] /\ h.up = (h.size % ClusterBytes) \div SectorBytes + 1

\* The read is over.
Ended(p, h) ==
    /\ h.pos \in Nat /\ \E i \in 1 .. Len(p) : h.cur = p[i]
    /\ IF StaleAfterRead(h) THEN StaleHandle(p, h) ELSE PlacedHandle(p, h)

\* A read that ends in front of the end of the file ends at its position.
LEMMA EndedInside ==
    ASSUME NEW p, Len(p) \in Nat, NEW h, NEW k \in 0 .. Len(p) - 1, NEW u \in 0 .. SectorsPerCluster - 1,
           NEW c \in 0 .. SectorBytes - 1, h.size \in Nat,
           h.cur = p[1 + k], h.up = u, h.pos = k * ClusterBytes + u * SectorBytes + c, h.pos < h.size
    PROVE  Ended(p, h)
<1> DEFINE y == k * ClusterBytes + u * SectorBytes + c
<1>1. k \in Nat
  OBVIOUS
<1>2. y \in Int
  <2>1. k * ClusterBytes \in Int /\ u * SectorBytes \in Int /\ c \in Int
    BY Sizes
  <2> QED BY <2>1
<1>3. /\ y \div SectorBytes = k * SectorsPerCluster + u
      /\ (y \div SectorBytes) \div SectorsPerCluster = k
      /\ (y \div SectorBytes) % SectorsPerCluster = u /\ y \in Nat
  BY <1>1, <1>2, SectorAt
<1>4. h.pos = y
  OBVIOUS
<1> HIDE DEF y
<1>5. Place(h) = y \div SectorBytes /\ y \div SectorBytes \in Nat
  BY <1>3, <1>4, Sizes, DivNat DEF Place
<1>6. AtSector(h, p, Place(h))
  BY <1>1, <1>3, <1>5 DEF AtSector
<1>7. ~(h.pos > h.size) /\ h.pos # h.size
  BY <1>3, <1>4
<1>8. PlacedHandle(p, h)
  BY <1>6, <1>7, Zenon DEF PlacedHandle
<1>9. 1 + k \in 1 .. Len(p)
  BY <1>1
<1> QED BY <1>3, <1>4, <1>7, <1>8, <1>9 DEF Ended, StaleAfterRead

\* At the end of a file that fills its last cluster.
LEMMA EndedFull ==
    ASSUME NEW p, Len(p) \in Nat \ {0}, NEW h, h.size \in Nat \ {0}, Fits(p, h.size),
           h.size % ClusterBytes = 0, h.size % SectorBytes = 0,
           h.cur = p[Len(p)], h.up = SectorsPerCluster, h.pos = h.size
    PROVE  Ended(p, h)
<1>1. h.size \div ClusterBytes = Len(p)
  BY FitsEnd
<1>2. Old(h) = Len(p) - 1
  <2>1. h.pos % ClusterBytes = 0 /\ h.pos # 0 /\ h.up # 0
    BY Sizes
  <2> QED BY <1>1, <2>1 DEF Old
<1>3. StaleHandle(p, h)
  BY <1>2, Sizes DEF StaleHandle
<1> QED BY <1>3 DEF Ended, StaleAfterRead

\* At the end of a file that ends inside its last cluster.
LEMMA EndedCut ==
    ASSUME NEW p, Len(p) \in Nat \ {0}, NEW h, h.size \in Nat \ {0}, Fits(p, h.size),
           h.size % ClusterBytes # 0,
           h.cur = p[Len(p)], h.up = (h.size % ClusterBytes) \div SectorBytes, h.pos = h.size
    PROVE  Ended(p, h)
<1> DEFINE k == h.size \div SectorBytes
<1>1. h.size \div ClusterBytes = Len(p) - 1
  BY FitsEnd
<1>2. /\ h.up = k % SectorsPerCluster /\ k \div SectorsPerCluster = Len(p) - 1
      /\ k % SectorsPerCluster \in 0 .. SectorsPerCluster - 1 /\ k \in Nat
  <2> DEFINE z == h.size
  <2>1. z \in Nat
    OBVIOUS
  <2> HIDE DEF z
  <2>2. LET y == z \div SectorBytes
        IN  /\ y \in Nat /\ y % SectorsPerCluster \in 0 .. SectorsPerCluster - 1
            /\ z \div ClusterBytes = y \div SectorsPerCluster
            /\ (z % ClusterBytes) \div SectorBytes = y % SectorsPerCluster
    BY <2>1, InSectors
  <2> QED BY <1>1, <2>2 DEF z
<1>3. h.cur = p[1 + (Len(p) - 1)] /\ Len(p) - 1 \in 0 .. Len(p) - 1
  OBVIOUS
<1> HIDE DEF k
<1>4. CASE h.size % SectorBytes = 0
  <2>1. Old(h) = Len(p) - 1
    BY <1>1 DEF Old
  <2>2. h.up \in 0 .. SectorsPerCluster
    BY <1>2, Sizes
  <2>3. StaleHandle(p, h)
    BY <1>3, <1>4, <2>1, <2>2 DEF StaleHandle
  <2> QED BY <1>3, <1>4, <2>3 DEF Ended, StaleAfterRead
<1>5. CASE h.size % SectorBytes # 0
  <2>1. Place(h) = k
    <3>1. (h.size - 1) \div SectorBytes = h.size \div SectorBytes
      BY <1>5, Sizes, SameSector
    <3> QED BY <3>1 DEF Place, k
  <2>2. AtSector(h, p, Place(h))
    BY <1>2, <1>3, <2>1 DEF AtSector
  <2>3. PlacedHandle(p, h)
    BY <1>5, <2>2, Zenon DEF PlacedHandle
  <2> QED BY <1>3, <1>5, <2>3 DEF Ended, StaleAfterRead
<1> QED BY <1>4, <1>5

-------------------------------------------------------------------------------
\* What a round takes.
Taken(n, b, c) ==
    [n EXCEPT !.bytes = @ \o SubSeq(ReadSector(n), b + 1, b + c), !.h.pos = @ + c]

\* What a round that takes c bytes leaves.
Took(x, p, m, want, n, c, t) ==
    /\ AtRead(x, p, m, want, t) /\ Len(t.bytes) = Len(n.bytes) + c
    /\ t.h.cur = n.h.cur /\ t.h.up = n.h.up /\ t.h.pos = n.h.pos + c /\ t.h.size = n.h.size

\* One sequence of bytes behind another.
LEMMA Joined ==
    ASSUME NEW s \in Seq(Int), NEW q \in Seq(Int)
    PROVE  s \o q \in Seq(Int) /\ Len(s \o q) = Len(s) + Len(q)
OBVIOUS

\* c bytes are read and the position moves by c.
LEMMA TakenIs ==
    ASSUME NEW x, NEW p, NEW m, NEW want \in Nat, NEW n, AtRead(x, p, m, want, n),
           NEW b \in 0 .. SectorBytes - 1, NEW c \in Nat, b + c <= SectorBytes,
           Len(n.bytes) + c <= want
    PROVE  Took(x, p, m, want, n, c, Taken(n, b, c))
<1> DEFINE part == SubSeq(ReadSector(n), b + 1, b + c)
           bytes == n.bytes \o part
           pos == n.h.pos + c
           t == [n EXCEPT !.bytes = bytes, !.h.pos = pos]
<1>1. Whole(n) /\ n.bytes \in Seq(Int) /\ n.h.pos \in Int /\ HandleFields(n.h) /\ Images(n.img)
  BY SafeDisk DEF AtRead, Whole, HandleFields
<1>2. part \in Seq(Int) /\ Len(part) = c
  <2> DEFINE s == ReadSector(n)
             i == b + 1
             j == b + c
  <2>1. s \in Seq(Int) /\ Len(s) = SectorBytes
    BY <1>1, ReadBuffer, BufferSeq
  <2>2. i \in Nat \ {0} /\ j \in Int /\ j <= Len(s) /\ (IF i <= j THEN j - i + 1 ELSE 0) = c
    BY <2>1, Sizes
  <2> HIDE DEF s, i, j
  <2>3. SubSeq(s, i, j) \in Seq(Int) /\ Len(SubSeq(s, i, j)) = c
    BY <2>1, <2>2, Part
  <2> QED BY <2>3 DEF s, i, j
<1> HIDE DEF part
<1>3. bytes \in Seq(Int) /\ Len(bytes) = Len(n.bytes) + c /\ pos \in Int
  <2> DEFINE s == n.bytes
  <2>1. s \in Seq(Int)
    BY <1>1
  <2> HIDE DEF s
  <2>2. s \o part \in Seq(Int) /\ Len(s \o part) = Len(s) + c
    BY <1>2, <2>1, Joined
  <2>3. pos \in Int
    BY <1>1
  <2> QED BY <2>2, <2>3 DEF s
<1> HIDE DEF bytes, pos
<1>4. SameDisk(n, t)
  BY <1>1, <1>3, FieldChanges
<1>5. t.bytes = bytes /\ t.panic = n.panic /\ t.h = [n.h EXCEPT !.pos = pos]
  BY <1>1 DEF Whole, Fields
<1> HIDE DEF t
<1>6. /\ t.h.start = n.h.start /\ t.h.size = n.h.size /\ t.h.stale = n.h.stale /\ t.h.pos = pos
      /\ t.h.cur = n.h.cur /\ t.h.up = n.h.up /\ t.h.next = n.h.next
  BY <1>1, <1>5 DEF HandleFields
<1>7. Safe(x, t) /\ Disk(t) = Disk(n)
  BY <1>4, SafeSame DEF AtRead
<1>8. Took(x, p, m, want, n, c, t)
  BY <1>3, <1>5, <1>6, <1>7 DEF AtRead, Took, pos
<1>9. Taken(n, b, c) = t
  BY Zenon DEF Taken, t, bytes, part, pos
<1> QED BY <1>8, <1>9, Zenon

\* Only sectorUpto is another.
Upped(x, p, m, want, n, u, t) ==
    /\ AtRead(x, p, m, want, t) /\ t.bytes = n.bytes
    /\ t.h.cur = n.h.cur /\ t.h.up = u /\ t.h.pos = n.h.pos /\ t.h.size = n.h.size

\* The handle goes to another sector of its cluster.
LEMMA UpSet ==
    ASSUME NEW x, NEW p, NEW m, NEW want, NEW n, AtRead(x, p, m, want, n), NEW u
    PROVE  Upped(x, p, m, want, n, u, [n EXCEPT !.h.up = u])
<1> DEFINE t == [n EXCEPT !.h.up = u]
<1>1. Whole(n) /\ HandleFields(n.h)
  BY SafeDisk DEF AtRead, Whole
<1>2. SameDisk(n, t) /\ t.h = [n.h EXCEPT !.up = u] /\ t.bytes = n.bytes /\ t.panic = n.panic
  BY <1>1, FieldChange DEF Whole, Fields
<1> HIDE DEF t
<1>3. /\ t.h.start = n.h.start /\ t.h.size = n.h.size /\ t.h.stale = n.h.stale /\ t.h.pos = n.h.pos
      /\ t.h.cur = n.h.cur /\ t.h.up = u /\ t.h.next = n.h.next
  BY <1>1, <1>2 DEF HandleFields
<1>4. Safe(x, t) /\ Disk(t) = Disk(n)
  BY <1>2, SafeSame DEF AtRead
<1>5. Upped(x, p, m, want, n, u, t)
  BY <1>2, <1>3, <1>4 DEF AtRead, Upped
<1> QED BY <1>5 DEF t

\* The sector a read is at, and what a round takes of it.
LEMMA HereIs ==
    ASSUME NEW d, d.type \in Types, NEW p, IsPath(Links(d), EndMark(d.type), p), NEW n, Disk(n) = d,
           NEW k, NEW u, NEW b, In(p, n.h, k, u, b), n.h.size \in Nat \ {0}, Fits(p, n.h.size),
           n.h.next = Links(d)[n.h.cur],
           u = SectorsPerCluster => k = Len(p) - 1
    PROVE  LET last == fatEndCluster(Disk(n), n.h.next)
               lastBytes == n.h.size % ClusterBytes
               cut == last /\ lastBytes # 0
               avail == IF last /\ n.h.size = 0 THEN 0
                        ELSE IF cut THEN lastBytes \div SectorBytes + 1 ELSE SectorsPerCluster
               bytes == IF cut /\ n.h.up = lastBytes \div SectorBytes
                        THEN lastBytes % SectorBytes ELSE SectorBytes
               base == k * ClusterBytes + u * SectorBytes
           IN  /\ bytes \in 0 .. SectorBytes /\ b <= bytes
               /\ IF n.h.up = avail
                  THEN /\ ~cut /\ n.h.pos = n.h.size /\ n.h.size % ClusterBytes = 0
                       /\ n.h.size % SectorBytes = 0
                       /\ n.h.cur = p[Len(p)] /\ u = SectorsPerCluster
                  ELSE /\ u < SectorsPerCluster /\ base + bytes <= n.h.size
                       /\ bytes # SectorBytes =>
                             /\ base + bytes = n.h.size /\ lastBytes # 0
                             /\ k = Len(p) - 1 /\ u = lastBytes \div SectorBytes
<1> DEFINE size == n.h.size
           last == fatEndCluster(Disk(n), n.h.next)
           lb == size % ClusterBytes
           cut == last /\ lb # 0
           v == lb \div SectorBytes
           w == lb % SectorBytes
           avail == IF last /\ size = 0 THEN 0 ELSE IF cut THEN v + 1 ELSE SectorsPerCluster
           bytes == IF cut /\ n.h.up = v THEN w ELSE SectorBytes
           base == k * ClusterBytes + u * SectorBytes
           B == SectorBytes
           S == SectorsPerCluster
           pos == n.h.pos
<1>0. p \in Seq(Cluster) /\ Len(p) \in Nat
  BY DEF IsPath
<1>1. /\ k \in 0 .. Len(p) - 1 /\ u \in 0 .. S /\ b \in 0 .. B - 1
      /\ n.h.cur = p[1 + k] /\ n.h.up = u /\ pos = base + b /\ base + b <= size
  BY DEF In
<1>2. last <=> k = Len(p) - 1
  <2>1. n.h.next = Links(d)[p[1 + k]]
    BY <1>1
  <2> QED BY <1>1, <2>1, NextEnd
<1>3. size \in Nat \ {0} /\ B \in Nat \ {0} /\ S \in Nat \ {0} /\ Fits(p, size)
  BY Sizes
<1>4. base \in Int
  <2>1. k \in Int /\ u \in Int /\ ClusterBytes \in Int /\ SectorBytes \in Int
    BY <1>1, Sizes
  <2> QED BY <2>1
<1>5. CASE cut
  <2>1. k = Len(p) - 1 /\ lb # 0
    BY <1>2, <1>5
  <2>2. (Len(p) - 1) * ClusterBytes + u * SectorBytes + b <= size
    BY <1>1, <2>1
  <2>3. /\ v \in 0 .. S - 1 /\ u <= v /\ w \in 0 .. B - 1
        /\ u = v => b <= w
        /\ u < v => (Len(p) - 1) * ClusterBytes + (u + 1) * SectorBytes <= size
        /\ size = (Len(p) - 1) * ClusterBytes + v * SectorBytes + w
    <3> HIDE DEF size
    <3> QED BY <1>0, <1>1, <1>3, <2>1, <2>2, CutPlace
  <2>12. v \in 0 .. S - 1
    BY <2>3
  <2>4. avail = v + 1
    BY <1>3, <1>5
  <2>5. bytes = IF u = v THEN w ELSE B
    BY <1>1, <1>5
  <2>6. u < v => base + B <= size
    <3>1. (u + 1) * SectorBytes = u * SectorBytes + SectorBytes
      BY <1>1, Sizes
    <3> DEFINE kn == k * ClusterBytes
               ub == u * SectorBytes
    <3>2. kn \in Int /\ ub \in Int
      BY <1>1, Sizes
    <3>3. u < v => kn + (ub + B) <= size
      BY <2>1, <2>3, <3>1
    <3> HIDE DEF kn, ub, size
    <3>4. u < v => kn + ub + B <= size
      BY <1>3, <3>2, <3>3
    <3> QED BY <3>4 DEF kn, ub
  <2>7. u = v => base + w = size
    BY <2>1, <2>3
  <2> HIDE DEF last, lb, v, w, cut, avail, bytes, base, size
  <2>8. bytes \in 0 .. B /\ b <= bytes
    BY <1>1, <1>3, <2>3, <2>5
  <2>9. n.h.up # avail
    BY <1>1, <2>3, <2>4
  <2>10. u < S /\ base + bytes <= size
    <3>1. CASE u = v
      <4>1. base + bytes = size
        BY <2>5, <2>7, <3>1
      <4>2. v < S
        BY <1>3, <2>12
      <4>3. size <= size
        BY <1>3
      <4>4. u < S
        BY <3>1, <4>2
      <4>5. base + bytes <= size
        BY <4>1, <4>3
      <4> QED BY <4>4, <4>5
    <3>2. CASE u < v
      <4>1. bytes = B /\ base + B <= size
        BY <1>1, <2>5, <2>6, <2>12, <3>2
      <4>2. u < S
        BY <1>1, <1>3, <2>12, <3>2
      <4> QED BY <4>1, <4>2
    <3> QED BY <1>1, <2>3, <3>1, <3>2
  <2>11. bytes # B => base + bytes = size /\ u = v
    BY <2>5, <2>7
  <2> QED BY <1>5, <2>1, <2>8, <2>9, <2>10, <2>11, Zenon DEF last, lb, v, w, cut, avail, bytes, base, size, B, S
<1>6. CASE ~cut
  <2>1. k # Len(p) - 1 \/ lb = 0
    BY <1>2, <1>6
  <2>2. avail = S
    BY <1>3, <1>6
  <2>3. bytes = B
    BY <1>6
  <2>4. /\ u < S => k * ClusterBytes + (u + 1) * SectorBytes <= size
        /\ u = S /\ k = Len(p) - 1 => base = size /\ size % SectorBytes = 0
    <3> HIDE DEF size
    <3> QED BY <1>0, <1>1, <1>3, <2>1, FullPlace, SMTT(60)
  <2>5. u < S => base + B <= size
    <3>1. (u + 1) * SectorBytes = u * SectorBytes + SectorBytes
      BY <1>1, Sizes
    <3> DEFINE kn == k * ClusterBytes
               ub == u * SectorBytes
    <3>2. kn \in Int /\ ub \in Int
      BY <1>1, Sizes
    <3>3. u < S => kn + (ub + B) <= size
      BY <2>4, <3>1
    <3> HIDE DEF kn, ub, size
    <3>4. u < S => kn + ub + B <= size
      BY <1>3, <3>2, <3>3
    <3> QED BY <3>4 DEF kn, ub
  <2> HIDE DEF last, v, w, cut, avail, bytes, base
  <2>6. CASE u = S
    <3>1. k = Len(p) - 1 /\ base = size /\ size % SectorBytes = 0
      BY <2>4, <2>6
    <3>2. lb = 0
      BY <2>1, <3>1
    <3>3. pos = size
      <4> HIDE DEF pos, size
      <4> QED BY <1>1, <1>3, <1>4, <3>1
    <3>4. n.h.cur = p[Len(p)]
      <4>1. 1 + k = Len(p)
        BY <1>0, <3>1
      <4> QED BY <1>1, <4>1
    <3>5. bytes \in 0 .. B /\ b <= bytes /\ n.h.up = avail
      BY <1>1, <1>3, <2>2, <2>3, <2>6
    <3> QED BY <1>6, <2>6, <3>1, <3>2, <3>3, <3>4, <3>5, Zenon DEF last, lb, v, w, cut, avail, bytes, base, size, B, S, pos
  <2>7. CASE u # S
    <3>1. u < S
      BY <1>1, <1>3, <2>7
    <3>2. bytes \in 0 .. B /\ b <= bytes /\ n.h.up # avail
      BY <1>1, <1>3, <2>2, <2>3, <2>7
    <3>3. base + bytes <= size /\ bytes = B
      BY <2>3, <2>5, <3>1
    <3> QED BY <3>1, <3>2, <3>3, Zenon DEF last, lb, v, w, cut, avail, bytes, base, size, B, S
  <2> QED BY <2>6, <2>7
<1> QED BY <1>5, <1>6

-------------------------------------------------------------------------------
\* A round of fatReadFile: it ends the read, or reads the rest of a sector, or is at the end
\* of the file.
LEMMA ReadHereIs ==
    ASSUME NEW x, Context(x), NEW m, Safe(x, m), NEW p, IsPath(Links(Disk(m)), EndMark(x.d.type), p),
           NEW want \in Nat, NEW n, AtRead(x, p, m, want, n), NEW k, NEW u, NEW b, In(p, n.h, k, u, b),
           n.h.size # 0, Fits(p, n.h.size), u = SectorsPerCluster => k = Len(p) - 1
    PROVE  LET r == ReadHere(n, b, want)
           IN  /\ AtRead(x, p, m, want, r.m)
               /\ \/ r.done /\ Ended(p, r.m.h)
                  \/ /\ ~r.done /\ r.b = 0 /\ In(p, r.m.h, k, u + 1, 0)
                     /\ Len(r.m.bytes) = Len(n.bytes) + (SectorBytes - b)
                  \/ /\ ~r.done /\ r.b = 0 /\ AtEnd(p, r.m.h) /\ Len(r.m.bytes) >= Len(n.bytes)
<1> DEFINE last == fatEndCluster(Disk(n), n.h.next)
           lastBytes == n.h.size % ClusterBytes
           cut == last /\ lastBytes # 0
           avail == IF last /\ n.h.size = 0 THEN 0
                    ELSE IF cut THEN lastBytes \div SectorBytes + 1 ELSE SectorsPerCluster
           bytes == IF cut /\ n.h.up = lastBytes \div SectorBytes
                    THEN lastBytes % SectorBytes ELSE SectorBytes
           base == k * ClusterBytes + u * SectorBytes
           c == Min({bytes - b, want - Len(n.bytes)})
           t == Taken(n, b, c)
           e == [t EXCEPT !.h.up = u + 1]
           size == n.h.size
           r == ReadHere(n, b, want)
<1>1. Disk(m).type = x.d.type /\ Disk(m).type \in Types /\ Disk(n) = Disk(m)
  BY SafeDisk DEF Keeps, Context, Typed, AtRead
<1>2. Whole(n) /\ size \in Nat \ {0} /\ n.bytes \in Seq(Int) /\ Len(n.bytes) \in Nat
      /\ Len(n.bytes) <= want /\ n.h.size \in Nat \ {0}
  BY SafeDisk DEF AtRead, Whole, HandleFields
<1>3. /\ k \in 0 .. Len(p) - 1 /\ u \in 0 .. SectorsPerCluster /\ b \in 0 .. SectorBytes - 1
      /\ n.h.cur = p[1 + k] /\ n.h.up = u /\ n.h.pos = base + b
  BY DEF In
<1>4. p \in Seq(Cluster) /\ Len(p) \in Nat \ {0}
  BY <1>3 DEF IsPath
<1>5. /\ bytes \in 0 .. SectorBytes /\ b <= bytes
      /\ IF n.h.up = avail
         THEN /\ ~cut /\ n.h.pos = n.h.size /\ n.h.size % ClusterBytes = 0
              /\ n.h.size % SectorBytes = 0
              /\ n.h.cur = p[Len(p)] /\ u = SectorsPerCluster
         ELSE /\ u < SectorsPerCluster /\ base + bytes <= n.h.size
              /\ bytes # SectorBytes =>
                    /\ base + bytes = n.h.size /\ lastBytes # 0
                    /\ k = Len(p) - 1 /\ u = lastBytes \div SectorBytes
  <2> DEFINE d == Disk(m)
  <2>1. d.type \in Types /\ IsPath(Links(d), EndMark(d.type), p) /\ Disk(n) = d
        /\ n.h.next = Links(d)[n.h.cur]
    BY <1>1 DEF AtRead
  <2> HIDE DEF d
  <2> QED BY <1>2, <2>1, HereIs
<1>6. r = IF n.h.up = avail
          THEN [m |-> IF cut THEN [n EXCEPT !.h.up = (n.h.pos % ClusterBytes) \div SectorBytes] ELSE n,
                b |-> b, done |-> TRUE]
          ELSE IF bytes - b > c THEN [m |-> t, b |-> b + c, done |-> TRUE]
          ELSE [m |-> [t EXCEPT !.h.up = @ + 1], b |-> 0, done |-> FALSE]
  BY Zenon DEF ReadHere, Taken
<1>7. c \in Nat /\ b + c <= bytes /\ Len(n.bytes) + c <= want
      /\ (bytes - b > c \/ c = bytes - b)
  <2> DEFINE y == bytes - b
             z == want - Len(n.bytes)
  <2>1. y \in Nat /\ z \in Nat
    <3> HIDE DEF bytes
    <3> QED BY <1>2, <1>3, <1>5
  <2>2. c = IF y <= z THEN y ELSE z
    <3>1. c = Min({y, z})
      OBVIOUS
    <3> HIDE DEF y, z, c
    <3> QED BY <2>1, <3>1, MinOfTwo
  <2>3. y = bytes - b /\ z = want - Len(n.bytes) /\ bytes \in Int /\ b \in Int
    <3> HIDE DEF bytes
    <3> QED BY <1>3, <1>5
  <2> DEFINE len == Len(n.bytes)
  <2>4. len \in Nat /\ z = want - len
    BY <1>2, <2>3
  <2> HIDE DEF c, bytes, y, z, len
  <2>5. c \in Nat /\ b + c <= bytes /\ len + c <= want /\ (bytes - b > c \/ c = bytes - b)
    BY <2>1, <2>2, <2>3, <2>4
  <2> QED BY <2>3, <2>5 DEF len
<1>8. /\ base \in Int /\ bytes \in Int /\ bytes <= SectorBytes /\ SectorBytes \in Nat \ {0}
      /\ SectorsPerCluster \in Nat \ {0}
  <2>1. k \in Int /\ u \in Int /\ ClusterBytes \in Int /\ SectorBytes \in Nat \ {0}
    BY <1>3, Sizes
  <2>2. base \in Int
    BY <2>1
  <2> HIDE DEF bytes
  <2> QED BY <1>5, <2>1, <2>2, Sizes
<1>9. CASE n.h.up = avail
  <2>1. ~cut /\ n.h.pos = n.h.size /\ n.h.size % ClusterBytes = 0 /\ n.h.size % SectorBytes = 0
        /\ n.h.cur = p[Len(p)] /\ u = SectorsPerCluster
    BY <1>5, <1>9
  <2> HIDE DEF avail, cut, bytes, c, t, r
  <2>2. r.m = n /\ r.done = TRUE
    BY <1>6, <1>9, <2>1
  <2>3. Ended(p, n.h)
    BY <1>2, <1>3, <1>4, <2>1, EndedFull
  <2> QED BY <2>2, <2>3 DEF r
<1>10. CASE n.h.up # avail
  <2>1. /\ u < SectorsPerCluster /\ base + bytes <= n.h.size
        /\ bytes # SectorBytes =>
              /\ base + bytes = n.h.size /\ lastBytes # 0
              /\ k = Len(p) - 1 /\ u = lastBytes \div SectorBytes
    BY <1>5, <1>10
  <2> HIDE DEF avail, cut, bytes, c, r, lastBytes
  <2>2. /\ AtRead(x, p, m, want, t) /\ Len(t.bytes) = Len(n.bytes) + c
        /\ t.h.cur = n.h.cur /\ t.h.up = n.h.up /\ t.h.pos = n.h.pos + c /\ t.h.size = n.h.size
    <3>1. b + c <= SectorBytes
      BY <1>3, <1>7, <1>8
    <3>2. b \in 0 .. SectorBytes - 1 /\ c \in Nat /\ Len(n.bytes) + c <= want
      BY <1>3, <1>7
    <3>3. AtRead(x, p, m, want, n) /\ want \in Nat
      OBVIOUS
    <3>4. Took(x, p, m, want, n, c, t)
      BY <3>1, <3>2, <3>3, TakenIs
    <3> HIDE DEF t
    <3> QED BY <3>4, Zenon DEF Took
  <2> HIDE DEF t
  <2>3. CASE bytes - b > c
    <3>1. r.m = t /\ r.done = TRUE
      BY <1>6, <1>10, <2>3
    <3> DEFINE y == b + c
               pos == t.h.pos
               w == k * ClusterBytes + u * SectorBytes + y
    <3>2. y \in 0 .. SectorBytes - 1 /\ u \in 0 .. SectorsPerCluster - 1
      BY <1>3, <1>7, <1>8, <2>1, <2>3
    <3>3. pos = base + y /\ pos < size
      <4> HIDE DEF base
      <4> QED BY <1>2, <1>3, <1>7, <1>8, <2>1, <2>2, <2>3
    <3>4. t.h.pos = w /\ t.h.pos < t.h.size
      BY <2>2, <3>3
    <3> HIDE DEF y, w
    <3>5. Ended(p, t.h)
      BY <1>2, <1>3, <1>4, <2>2, <3>2, <3>4, EndedInside DEF w
    <3> QED BY <2>2, <3>1, <3>5 DEF r
  <2>4. CASE c = bytes - b
    <3>0. ~(bytes - b > c)
      BY <1>3, <1>7, <1>8, <2>4
    <3>1. [t EXCEPT !.h.up = @ + 1] = e
      <4> DEFINE v == u + 1
      <4>1. t.h.up + 1 = v
        BY <1>3, <2>2
      <4> HIDE DEF v
      <4>2. [t EXCEPT !.h.up = t.h.up + 1] = [t EXCEPT !.h.up = v]
        BY <4>1
      <4> QED BY <4>2 DEF v
    <3>2. r.m = e /\ r.done = FALSE /\ r.b = 0
      <4> DEFINE e1 == [t EXCEPT !.h.up = @ + 1]
      <4>1. r = [m |-> e1, b |-> 0, done |-> FALSE]
        BY <1>6, <1>10, <3>0
      <4>2. e1 = e
        BY <3>1
      <4> HIDE DEF e1, e
      <4> QED BY <4>1, <4>2
    <3>3. /\ AtRead(x, p, m, want, e) /\ e.bytes = t.bytes
          /\ e.h.cur = t.h.cur /\ e.h.up = u + 1 /\ e.h.pos = t.h.pos /\ e.h.size = t.h.size
      <4> DEFINE v == u + 1
      <4>1. Upped(x, p, m, want, t, v, [t EXCEPT !.h.up = v])
        <5> HIDE DEF v
        <5> QED BY <2>2, UpSet
      <4> QED BY <4>1, Zenon DEF Upped
    <3> HIDE DEF e
    <3>4. e.h.pos = base + bytes
      <4> HIDE DEF base
      <4> QED BY <1>3, <1>7, <1>8, <2>2, <2>4, <3>3
    <3>5. CASE bytes = SectorBytes
      <4>1. e.h.pos = k * ClusterBytes + (u + 1) * SectorBytes + 0
        <5>1. (u + 1) * SectorBytes = u * SectorBytes + SectorBytes
          BY <1>3, Sizes
        <5> DEFINE kn == k * ClusterBytes
                   ub == u * SectorBytes
        <5>2. kn \in Int /\ ub \in Int
          BY <1>3, Sizes
        <5>3. e.h.pos = kn + ub + SectorBytes
          BY <3>4, <3>5
        <5> HIDE DEF kn, ub
        <5>4. e.h.pos = kn + (ub + SectorBytes) + 0
          BY <1>8, <5>2, <5>3
        <5> QED BY <5>1, <5>4 DEF kn, ub
      <4>2. e.h.pos <= e.h.size
        BY <2>1, <2>2, <3>3, <3>4
      <4>3. u + 1 \in 0 .. SectorsPerCluster /\ 0 \in 0 .. SectorBytes - 1
        BY <1>3, <1>8, <2>1
      <4>4. e.h.cur = p[1 + k] /\ e.h.up = u + 1
        BY <1>3, <2>2, <3>3
      <4>5. In(p, e.h, k, u + 1, 0)
        BY <1>3, <4>1, <4>2, <4>3, <4>4, Zenon DEF In
      <4>6. Len(e.bytes) = Len(n.bytes) + (SectorBytes - b)
        BY <2>2, <2>4, <3>3, <3>5
      <4> QED BY <3>2, <3>3, <4>5, <4>6 DEF r
    <3>6. CASE bytes # SectorBytes
      <4>1. base + bytes = n.h.size /\ lastBytes # 0 /\ k = Len(p) - 1 /\ u = lastBytes \div SectorBytes
        BY <2>1, <3>6
      <4>2. 1 + k = Len(p)
        BY <1>3, <1>4, <4>1
      <4>3. e.h.pos = e.h.size /\ e.h.cur = p[Len(p)]
        BY <1>3, <2>2, <3>3, <3>4, <4>1, <4>2
      <4>4. e.h.up = lastBytes \div SectorBytes + 1
        BY <3>3, <4>1
      <4>5. AtEnd(p, e.h)
        BY <2>2, <3>3, <4>1, <4>3, <4>4 DEF AtEnd, lastBytes
      <4>6. Len(e.bytes) >= Len(n.bytes)
        BY <1>2, <1>7, <2>2, <3>3
      <4> QED BY <3>2, <3>3, <4>5, <4>6 DEF r
    <3> QED BY <3>5, <3>6
  <2> QED BY <1>7, <2>3, <2>4
<1> QED BY <1>9, <1>10

\* The round after the last byte.
LEMMA EndRound ==
    ASSUME NEW x, Context(x), NEW m, Safe(x, m), NEW p, IsPath(Links(Disk(m)), EndMark(x.d.type), p),
           NEW want \in Nat, NEW n, AtRead(x, p, m, want, n), AtEnd(p, n.h),
           n.h.size # 0, Fits(p, n.h.size), NEW b
    PROVE  LET r == ReadHere(Turned(n), b, want)
           IN  r.done /\ AtRead(x, p, m, want, r.m) /\ Ended(p, r.m.h)
<1> DEFINE d == Disk(m)
           lastBytes == n.h.size % ClusterBytes
           last == fatEndCluster(Disk(n), n.h.next)
           cut == last /\ lastBytes # 0
           avail == IF last /\ n.h.size = 0 THEN 0
                    ELSE IF cut THEN lastBytes \div SectorBytes + 1 ELSE SectorsPerCluster
           up == (n.h.pos % ClusterBytes) \div SectorBytes
           e == [n EXCEPT !.h.up = up]
           r == ReadHere(n, b, want)
<1>1. d.type = x.d.type /\ d.type \in Types /\ Disk(n) = d
  BY SafeDisk DEF Keeps, Context, Typed, AtRead
<1>2. Whole(n) /\ n.h.size \in Nat \ {0}
  BY SafeDisk DEF AtRead, Whole, HandleFields
<1>3. p \in Seq(Cluster) /\ Len(p) \in Nat \ {0}
  <2>1. p \in Seq(Cluster) /\ Len(p) \in Nat
    BY DEF IsPath
  <2> QED BY <1>2, <2>1, FitsLast
<1>4. last
  <2> DEFINE k == Len(p) - 1
  <2>1. k \in 0 .. Len(p) - 1 /\ 1 + k = Len(p)
    BY <1>3
  <2>2. n.h.next = Links(d)[p[1 + k]]
    BY <2>1 DEF AtRead, AtEnd
  <2>3. fatEndCluster(d, Links(d)[p[1 + k]]) <=> k = Len(p) - 1
    <3> HIDE DEF d, k
    <3> QED BY <1>1, <2>1, NextEnd DEF d
  <2> QED BY <1>1, <2>2, <2>3
<1>5. Turned(n) = n
  BY <1>4 DEF Turned
<1>6. cut /\ n.h.up = avail
  BY <1>2, <1>4 DEF AtEnd
<1>7. r = [m |-> e, b |-> b, done |-> TRUE]
  <2>1. r = IF n.h.up = avail
            THEN [m |-> IF cut THEN [n EXCEPT !.h.up = (n.h.pos % ClusterBytes) \div SectorBytes] ELSE n,
                  b |-> b, done |-> TRUE]
            ELSE ReadHere(n, b, want)
    BY Zenon DEF ReadHere
  <2> HIDE DEF cut, avail, r
  <2> QED BY <1>6, <2>1
<1> HIDE DEF r
<1>8. r.m = e /\ r.done = TRUE
  <2> HIDE DEF e
  <2> QED BY <1>7
<1>9. /\ AtRead(x, p, m, want, e) /\ e.h.cur = n.h.cur /\ e.h.up = up /\ e.h.pos = n.h.pos
      /\ e.h.size = n.h.size
  <2>1. Upped(x, p, m, want, n, up, e)
    <3> HIDE DEF up
    <3> QED BY UpSet
  <2> HIDE DEF e, up
  <2> QED BY <2>1, Zenon DEF Upped
<1> HIDE DEF e
<1>10. Ended(p, e.h)
  <2>1. up = (n.h.size % ClusterBytes) \div SectorBytes
    BY DEF AtEnd
  <2> HIDE DEF up
  <2>2. e.h.up = (e.h.size % ClusterBytes) \div SectorBytes /\ e.h.pos = e.h.size /\ e.h.cur = p[Len(p)]
        /\ e.h.size % ClusterBytes # 0
    BY <1>9, <2>1 DEF AtEnd
  <2>3. e.h.size \in Nat \ {0} /\ Fits(p, e.h.size)
    BY <1>2, <1>9
  <2> QED BY <1>3, <2>2, <2>3, EndedCut
<1>11. r.done /\ AtRead(x, p, m, want, r.m) /\ Ended(p, r.m.h)
  BY <1>8, <1>9, <1>10
<1> QED BY <1>5, <1>11, Zenon DEF r

-------------------------------------------------------------------------------
\* A call reads `want` bytes of a file whose chain is p, and m is where it begins.
Reader(x, p, m, want) ==
    /\ Context(x) /\ Safe(x, m) /\ IsPath(Links(Disk(m)), EndMark(x.d.type), p)
    /\ want \in Nat /\ m.h.size \in Nat \ {0} /\ Fits(p, m.h.size)

\* What i rounds have brought.
Within(x, p, m, want, i, at) ==
    /\ at = [m |-> at.m, b |-> at.b, done |-> at.done]
    /\ AtRead(x, p, m, want, at.m)
    /\ \/ at.done /\ Ended(p, at.m.h)
       \/ ~at.done /\ AtEnd(p, at.m.h) /\ i * SectorBytes <= Len(at.m.bytes) + 2 * SectorBytes
       \/ /\ ~at.done /\ i * SectorBytes <= Len(at.m.bytes) + SectorBytes
          /\ i # 0 => at.b = 0
          /\ \E k, u : In(p, at.m.h, k, u, at.b)

\* A sector from place (k, u) and byte b on has been read.
After(x, p, m, want, n, k, u, b, r) ==
    /\ AtRead(x, p, m, want, r.m)
    /\ \/ r.done /\ Ended(p, r.m.h)
       \/ ~r.done /\ r.b = 0 /\ In(p, r.m.h, k, u + 1, 0) /\ Len(r.m.bytes) = Len(n.bytes) + (SectorBytes - b)
       \/ ~r.done /\ r.b = 0 /\ AtEnd(p, r.m.h) /\ Len(r.m.bytes) >= Len(n.bytes)

\* What a round leaves in terms of the loop.
LEMMA HereAfter ==
    ASSUME NEW x, NEW p, NEW m, NEW want, Reader(x, p, m, want), NEW n, AtRead(x, p, m, want, n),
           NEW k, NEW u, NEW b, In(p, n.h, k, u, b), u = SectorsPerCluster => k = Len(p) - 1
    PROVE  After(x, p, m, want, n, k, u, b, ReadHere(n, b, want))
<1>1. /\ Context(x) /\ Safe(x, m) /\ IsPath(Links(Disk(m)), EndMark(x.d.type), p)
      /\ want \in Nat /\ n.h.size # 0 /\ Fits(p, n.h.size)
  BY DEF Reader, AtRead
<1>2. LET r == ReadHere(n, b, want)
      IN  /\ AtRead(x, p, m, want, r.m)
          /\ \/ r.done /\ Ended(p, r.m.h)
             \/ /\ ~r.done /\ r.b = 0 /\ In(p, r.m.h, k, u + 1, 0)
                /\ Len(r.m.bytes) = Len(n.bytes) + (SectorBytes - b)
             \/ /\ ~r.done /\ r.b = 0 /\ AtEnd(p, r.m.h) /\ Len(r.m.bytes) >= Len(n.bytes)
  BY <1>1, ReadHereIs
<1> QED BY <1>2, Zenon DEF After

\* The record a round makes.
LEMMA RoundShape ==
    ASSUME NEW n, NEW b, NEW want
    PROVE  LET r == ReadHere(n, b, want) IN r = [m |-> r.m, b |-> r.b, done |-> r.done]
<1> DEFINE r == ReadHere(n, b, want)
<1>1. \E m, i, e : r = [m |-> m, b |-> i, done |-> e]
  BY Zenon DEF ReadHere
<1> HIDE DEF r
<1>2. r = [m |-> r.m, b |-> r.b, done |-> r.done]
  BY <1>1
<1> QED BY <1>2 DEF r

\* One more round of the loop.
LEMMA RoundIs ==
    ASSUME NEW x, NEW p, NEW m, NEW want, Reader(x, p, m, want),
           NEW i \in Nat, NEW at, Within(x, p, m, want, i, at)
    PROVE  Within(x, p, m, want, i + 1, ReadOne(at, want))
<1> DEFINE n == at.m
           d == Disk(m)
           to == ReadOne(at, want)
           stop == at.done \/ fatEndCluster(Disk(n), n.h.cur)
           r == ReadHere(Turned(n), at.b, want)
           more == [at EXCEPT !.done = TRUE]
           len == Len(n.bytes)
<1>0. to = IF stop THEN more ELSE r
  BY Zenon DEF ReadOne
<1>1. /\ Context(x) /\ Safe(x, m) /\ IsPath(Links(Disk(m)), EndMark(x.d.type), p)
      /\ want \in Nat /\ m.h.size \in Nat \ {0} /\ Fits(p, m.h.size)
  BY DEF Reader
<1>2. d.type = x.d.type /\ d.type \in Types /\ Typed(d)
  BY <1>1, SafeDisk DEF Keeps, Context, Typed
<1>3. AtRead(x, p, m, want, n) /\ at = [m |-> n, b |-> at.b, done |-> at.done]
  BY DEF Within
<1>4. len \in Nat /\ Disk(n) = d /\ n.h.size = m.h.size /\ SectorBytes \in Nat \ {0}
  <2>1. n.bytes \in Seq(Int)
    BY <1>3, SafeDisk DEF AtRead, Whole
  <2> QED BY <1>3, <2>1, Sizes DEF AtRead
<1>5. ASSUME NEW k \in 0 .. Len(p) - 1, n.h.cur = p[1 + k]
      PROVE  ~fatEndCluster(Disk(n), n.h.cur)
  <2>1. p[1 + k] \in Cluster
    <3>1. IsPath(Links(d), EndMark(d.type), p)
      BY <1>1, <1>2
    <3> HIDE DEF d
    <3> QED BY <1>2, <1>5, <3>1, NextEnd
  <2> QED BY <1>2, <1>4, <1>5, <2>1, NotEnd
<1>6. r = [m |-> r.m, b |-> r.b, done |-> r.done]
  BY RoundShape
<1>7. (i + 1) * SectorBytes = i * SectorBytes + SectorBytes /\ i * SectorBytes \in Nat
  BY Sizes
<1> DEFINE all == i * SectorBytes
           next == (i + 1) * SectorBytes
<1>8. CASE at.done
  <2>1. to = [at EXCEPT !.done = TRUE] /\ Ended(p, n.h)
    <3>1. stop
      BY <1>8
    <3> HIDE DEF stop, r
    <3> QED BY <1>0, <1>8, <3>1 DEF Within
  <2> HIDE DEF to
  <2>2. to.m = n /\ to = [m |-> to.m, b |-> to.b, done |-> to.done] /\ to.done
    BY <1>3, <2>1
  <2> HIDE DEF n
  <2>3. Within(x, p, m, want, i + 1, to)
    BY <1>3, <2>1, <2>2 DEF Within, n
  <2> QED BY <2>3 DEF to
<1>9. CASE ~at.done /\ AtEnd(p, n.h)
  <2>1. p # <<>> /\ Len(p) \in Nat \ {0}
    <3>1. Len(p) \in Nat
      BY <1>1 DEF IsPath
    <3> QED BY <1>1, <3>1, FitsLast
  <2>2. ~stop
    <3>1. n.h.cur = p[1 + (Len(p) - 1)] /\ Len(p) - 1 \in 0 .. Len(p) - 1
      BY <1>9, <2>1 DEF AtEnd
    <3> QED BY <1>5, <1>9, <3>1
  <2>3. r.done /\ AtRead(x, p, m, want, r.m) /\ Ended(p, r.m.h)
    <3>1. AtEnd(p, n.h) /\ n.h.size # 0 /\ Fits(p, n.h.size) /\ AtRead(x, p, m, want, n)
      BY <1>1, <1>3, <1>4, <1>9
    <3> HIDE DEF n
    <3> QED BY <1>1, <3>1, EndRound
  <2> HIDE DEF r, stop
  <2>4. to = r
    BY <1>0, <2>2
  <2> HIDE DEF to
  <2>5. Within(x, p, m, want, i + 1, to)
    BY <1>6, <2>3, <2>4 DEF Within
  <2> QED BY <2>5 DEF to
<1>10. ASSUME ~at.done, ~AtEnd(p, n.h) PROVE Within(x, p, m, want, i + 1, to)
  <2>1. /\ all <= len + SectorBytes /\ (i # 0 => at.b = 0)
        /\ \E k, u : In(p, n.h, k, u, at.b)
    BY <1>10 DEF Within
  <2>2. PICK k, u : In(p, n.h, k, u, at.b)
    BY <2>1
  <2> DEFINE b == at.b
             t == Turned(n)
  <2>3. k \in 0 .. Len(p) - 1 /\ n.h.cur = p[1 + k] /\ b \in 0 .. SectorBytes - 1
    BY <2>2 DEF In
  <2>4. ~stop
    BY <1>5, <1>10, <2>3
  <2>5. to = r
    <3> HIDE DEF to, r, stop
    <3> QED BY <1>0, <2>4
  <2>6. /\ AtRead(x, p, m, want, t) /\ t.bytes = n.bytes
        /\ IF u = SectorsPerCluster /\ k # Len(p) - 1 THEN In(p, t.h, k + 1, 0, b)
           ELSE In(p, t.h, k, u, b)
    <3> HIDE DEF n, b
    <3>1. In(p, n.h, k, u, b) /\ AtRead(x, p, m, want, n)
      BY <1>3, <2>2 DEF b
    <3> QED BY <1>1, <3>1, TurnedIs
  <2> HIDE DEF t, b, n
  <2>7. \E j, v : /\ In(p, t.h, j, v, b) /\ (v = SectorsPerCluster => j = Len(p) - 1)
    <3>1. CASE u = SectorsPerCluster /\ k # Len(p) - 1
      <4>1. In(p, t.h, k + 1, 0, b)
        BY <2>6, <3>1
      <4>2. 0 # SectorsPerCluster
        BY Sizes
      <4> QED BY <4>1, <4>2
    <3>2. CASE ~(u = SectorsPerCluster /\ k # Len(p) - 1)
      BY <2>6, <3>2
    <3> QED BY <3>1, <3>2
  <2>8. PICK j, v : In(p, t.h, j, v, b) /\ (v = SectorsPerCluster => j = Len(p) - 1)
    BY <2>7
  <2> DEFINE o == ReadHere(t, b, want)
  <2>9. After(x, p, m, want, t, j, v, b, o)
    BY <2>6, <2>8, HereAfter
  <2>10. o = r /\ o = [m |-> o.m, b |-> o.b, done |-> o.done]
    BY <1>6 DEF t, b, n
  <2> HIDE DEF o, r
  <2> DEFINE got == Len(o.m.bytes)
  <2>11. /\ AtRead(x, p, m, want, o.m)
         /\ \/ o.done /\ Ended(p, o.m.h)
            \/ ~o.done /\ o.b = 0 /\ In(p, o.m.h, j, v + 1, 0) /\ got = len + (SectorBytes - b)
            \/ ~o.done /\ o.b = 0 /\ AtEnd(p, o.m.h) /\ got >= len
    BY <2>6, <2>9, Zenon DEF After, n
  <2>12. got \in Nat
    BY <2>11, SafeDisk DEF AtRead, Whole
  <2>13. len \in Nat /\ all \in Nat /\ next = all + SectorBytes /\ SectorBytes \in Nat \ {0}
         /\ b \in 0 .. SectorBytes - 1 /\ (i # 0 => b = 0) /\ all <= len + SectorBytes
         /\ (i = 0 => all = 0)
    <3>1. i = 0 => all = 0
      BY Sizes
    <3>2. all <= len + SectorBytes /\ (i # 0 => b = 0)
      BY <2>1 DEF b, n
    <3>3. all \in Nat /\ next = all + SectorBytes
      BY <1>7
    <3>4. len \in Nat
      BY <1>4 DEF n
    <3> HIDE DEF len, all, next
    <3> QED BY <2>3, <3>1, <3>2, <3>3, <3>4, Sizes
  <2> HIDE DEF len, all, next, got
  <2>14. CASE o.done /\ Ended(p, o.m.h)
    BY <2>5, <2>10, <2>11, <2>14 DEF Within
  <2>15. CASE ~o.done /\ o.b = 0 /\ In(p, o.m.h, j, v + 1, 0) /\ got = len + (SectorBytes - b)
    <3>1. next <= got + SectorBytes
      BY <2>12, <2>13, <2>15
    <3>2. \E k1, u1 : In(p, o.m.h, k1, u1, o.b)
      BY <2>15
    <3>3. Within(x, p, m, want, i + 1, o)
      BY <2>10, <2>11, <2>15, <3>1, <3>2 DEF Within, next, got
    <3> QED BY <2>5, <2>10, <3>3
  <2>16. CASE ~o.done /\ o.b = 0 /\ AtEnd(p, o.m.h) /\ got >= len
    <3>1. next <= got + 2 * SectorBytes
      BY <2>12, <2>13, <2>16
    <3>2. Within(x, p, m, want, i + 1, o)
      BY <2>10, <2>11, <2>16, <3>1 DEF Within, next, got
    <3> QED BY <2>5, <2>10, <3>2
  <2> QED BY <2>11, <2>14, <2>15, <2>16
<1> QED BY <1>8, <1>9, <1>10

-------------------------------------------------------------------------------
\* at holds the states of k rounds.
Rounds(m, want, k, at) ==
    /\ at[0] = [m |-> m, b |-> m.h.pos % SectorBytes, done |-> FALSE]
    /\ \A i \in 1 .. k : at[i] = ReadOne(at[i - 1], want)
    /\ ReadSome(m, want, k) = at[k].m

\* The rounds of a read are a sequence of states of the call.
LEMMA RoundsAre ==
    ASSUME NEW m, NEW want, NEW k \in Nat
    PROVE  \E at : Rounds(m, want, k, at)
<1>1. \E at :
             /\ at[0] = [m |-> m, b |-> m.h.pos % SectorBytes, done |-> FALSE]
             /\ \A i \in 1 .. k : at[i] = ReadOne(at[i - 1], want)
             /\ ReadSome(m, want, k) = at[k].m
  BY ReadSteps
<1> QED BY <1>1, Zenon DEF Rounds

\* The rounds are enough: every read ends, and its handle is at its position.
LEMMA ReadOnIs ==
    ASSUME NEW x, NEW p, NEW m, NEW want, Reader(x, p, m, want), AtRead(x, p, m, want, m),
           m.bytes = <<>>, \E k, u : In(p, m.h, k, u, m.h.pos % SectorBytes)
    PROVE  AtRead(x, p, m, want, ReadOn(m, want)) /\ Ended(p, ReadOn(m, want).h)
<1> DEFINE w == want \div SectorBytes
           k == w + 3
           b == m.h.pos % SectorBytes
           base == [m |-> m, b |-> b, done |-> FALSE]
<1>1. want \in Nat /\ w \in Nat /\ SectorBytes \in Nat \ {0} /\ want < (w + 1) * SectorBytes
  <2>1. want \in Nat /\ SectorBytes \in Nat \ {0}
    BY Sizes DEF Reader
  <2>2. w \in Nat
    BY <2>1, DivNat
  <2>3. w < w + 1
    BY <2>2
  <2> DEFINE v == w + 1
  <2>4. want \in Int /\ v \in Int /\ want \div SectorBytes < v
    BY <2>1, <2>2, <2>3
  <2> HIDE DEF v
  <2>5. want < v * SectorBytes
    BY <2>1, <2>4, DivBelow
  <2> QED BY <2>1, <2>2, <2>5 DEF v
<1>2. k \in Nat /\ k # 0
  BY <1>1
<1> HIDE DEF b, k
<1>3. PICK at : Rounds(m, want, k, at)
  BY <1>2, RoundsAre
<1>4. at[0] = base
  BY <1>3, Zenon DEF b, Rounds
<1> DEFINE S == {i \in 0 .. k : Within(x, p, m, want, i, at[i])}
<1>5. 0 \in S
  <2>1. base.m = m /\ base.b = b /\ base.done = FALSE /\ base = [m |-> base.m, b |-> base.b, done |-> base.done]
    OBVIOUS
  <2> HIDE DEF base
  <2>2. 0 * SectorBytes <= Len(m.bytes) + SectorBytes
    <3>1. Len(m.bytes) = 0
      OBVIOUS
    <3> QED BY <1>1, <3>1
  <2>3. \E j, u : In(p, m.h, j, u, b)
    BY DEF b
  <2>4. Within(x, p, m, want, 0, base)
    BY <2>1, <2>2, <2>3 DEF Within
  <2> QED BY <1>2, <1>4, <2>4
<1>6. ASSUME NEW i \in 0 .. k - 1, i \in S PROVE i + 1 \in S
  <2>1. i \in Nat /\ i + 1 \in 0 .. k /\ at[i + 1] = ReadOne(at[i], want)
    <3>1. i + 1 \in 1 .. k /\ i + 1 - 1 = i /\ i \in Nat /\ i + 1 \in 0 .. k
      BY <1>2
    <3> QED BY <1>3, <3>1 DEF Rounds
  <2>2. Within(x, p, m, want, i, at[i])
    BY <1>6
  <2> DEFINE o == at[i]
  <2> HIDE DEF o
  <2>3. Within(x, p, m, want, i + 1, ReadOne(o, want))
    BY <2>1, <2>2, RoundIs DEF o
  <2> QED BY <2>1, <2>3 DEF o
<1>7. k \in S
  <2> HIDE DEF S
  <2> QED BY <1>2, <1>5, <1>6, UpTo
<1> DEFINE o == at[k]
<1>8. Within(x, p, m, want, k, o)
  BY <1>7
<1> HIDE DEF o
<1>9. AtRead(x, p, m, want, o.m)
  BY <1>8 DEF Within
<1>10. o.done
  <2> DEFINE len == Len(o.m.bytes)
             y == (w + 1) * SectorBytes
             all == k * SectorBytes
  <2>1. len \in Nat /\ len <= want
    <3>1. o.m.bytes \in Seq(Int)
      BY <1>9, SafeDisk DEF AtRead, Whole
    <3> QED BY <1>9, <3>1 DEF AtRead
  <2>2. all = y + 2 * SectorBytes
    <3>1. k = (w + 1) + 2
      BY <1>1 DEF k
    <3> DEFINE v == w + 1
    <3>2. v \in Nat /\ k = v + 2
      BY <1>1, <3>1
    <3> HIDE DEF v, k, w
    <3>3. k * SectorBytes = v * SectorBytes + 2 * SectorBytes
      BY <1>1, <3>2
    <3> QED BY <3>3 DEF v
  <2>3. y \in Int /\ want < y
    BY <1>1
  <2> HIDE DEF len, y, all
  <2>4. ~(all <= len + 2 * SectorBytes) /\ ~(all <= len + SectorBytes)
    BY <1>1, <2>1, <2>2, <2>3
  <2>5. CASE ~o.done /\ AtEnd(p, o.m.h) /\ k * SectorBytes <= Len(o.m.bytes) + 2 * SectorBytes
    BY <2>4, <2>5 DEF len, all
  <2>6. CASE ~o.done /\ k * SectorBytes <= Len(o.m.bytes) + SectorBytes
    BY <2>4, <2>6 DEF len, all
  <2> QED BY <1>8, <2>5, <2>6 DEF Within
<1>11. Ended(p, o.m.h)
  BY <1>8, <1>10 DEF Within
<1>12. ReadOn(m, want) = o.m
  <2>1. ReadOn(m, want) = ReadSome(m, want, k)
    BY Zenon DEF ReadOn, k, w
  <2> QED BY <1>3, <2>1, Zenon DEF o, Rounds
<1> QED BY <1>9, <1>11, <1>12

-------------------------------------------------------------------------------
\* Where a read finds the handle.
LEMMA ReadPlace ==
    ASSUME NEW p, Len(p) \in Nat, NEW h, h.pos \in Nat, h.size \in Nat \ {0}, Fits(p, h.size),
           PlacedHandle(p, h), h.pos < h.size \/ (h.pos = h.size /\ h.size % ClusterBytes # 0)
    PROVE  /\ h.pos \div ClusterBytes \in 0 .. Len(p) - 1 /\ h.cur = p[1 + h.pos \div ClusterBytes]
           /\ h.pos < h.size \/ h.next # 0 => h.up = (h.pos % ClusterBytes) \div SectorBytes
<1> DEFINE pos == h.pos
           last == h.size - 1
           k == pos \div SectorBytes
           j == last \div SectorBytes
           c == pos \div ClusterBytes
           u == (pos % ClusterBytes) \div SectorBytes
           at == Place(h)
<1>1. pos \in Nat /\ last \in Nat /\ h.size \in Nat \ {0}
  OBVIOUS
<1>2. at = IF pos < h.size THEN k ELSE j
  BY Zenon DEF Place
<1>3. /\ h.cur = p[1 + at \div SectorsPerCluster] /\ h.up = at % SectorsPerCluster
      /\ at \in Nat /\ at \div SectorsPerCluster < Len(p)
  BY DEF PlacedHandle, AtSector
<1>4. h.pos = h.size /\ h.next # 0 => h.size % SectorBytes # 0
  BY DEF PlacedHandle
<1>5. at \div SectorsPerCluster \in Nat
  <2> HIDE DEF at
  <2> QED BY <1>3, DivNat, Sizes
<1> HIDE DEF pos, last
<1>6. c = k \div SectorsPerCluster /\ u = k % SectorsPerCluster
  BY <1>1, InSectors
<1>7. last \div ClusterBytes = j \div SectorsPerCluster
  BY <1>1, InSectors
<1>8. ASSUME h.pos = h.size, h.size % ClusterBytes # 0 PROVE last \div ClusterBytes = c
  <2>1. (h.size - 1) \div ClusterBytes = h.size \div ClusterBytes
    BY <1>1, <1>8, SameSector, Sizes
  <2> QED BY <1>8, <2>1 DEF last, pos
<1>9. ASSUME h.pos = h.size, h.size % SectorBytes # 0 PROVE j = k
  <2>1. (h.size - 1) \div SectorBytes = h.size \div SectorBytes
    BY <1>1, <1>9, SameSector, Sizes
  <2> QED BY <1>9, <2>1 DEF last, pos
<1> HIDE DEF at, k, j, c, u
<1>10. at \div SectorsPerCluster = c
  <2>1. CASE pos < h.size
    BY <1>2, <1>6, <2>1
  <2>2. CASE h.pos = h.size /\ h.size % ClusterBytes # 0
    <3>1. ~(pos < h.size)
      BY <1>1, <2>2 DEF pos
    <3> QED BY <1>2, <1>7, <1>8, <2>2, <3>1
  <2> QED BY <2>1, <2>2 DEF pos
<1>11. h.pos < h.size \/ h.next # 0 => h.up = u
  <2>1. CASE pos < h.size
    BY <1>2, <1>3, <1>6, <2>1
  <2>2. CASE h.pos = h.size /\ h.next # 0
    <3>1. ~(pos < h.size)
      BY <1>1, <2>2 DEF pos
    <3>2. at = k
      BY <1>2, <1>4, <1>9, <2>2, <3>1
    <3> QED BY <1>3, <1>6, <3>2
  <2> QED BY <2>1, <2>2 DEF pos
<1>12. c \in 0 .. Len(p) - 1
  BY <1>3, <1>5, <1>10
<1> QED BY <1>3, <1>10, <1>11, <1>12 DEF c, u, pos

\* The handle as the loops of the call find it.
LEMMA ReadStart ==
    ASSUME NEW x, NEW p, NEW m, NEW want, Reader(x, p, m, want), m.bytes = <<>>, m.h.pos \in Nat,
           ~m.h.stale, FullHandle(Disk(m), p, m.h),
           m.h.pos < m.h.size \/ (m.h.pos = m.h.size /\ m.h.size % ClusterBytes # 0)
    PROVE  LET known == AnalyseNext(m)
               set == IF m.h.next # 0 THEN m
                      ELSE [known EXCEPT !.h.up = (m.h.pos % ClusterBytes) \div SectorBytes]
           IN  /\ AtRead(x, p, m, want, set) /\ set.bytes = <<>>
               /\ \E k, u : In(p, set.h, k, u, set.h.pos % SectorBytes)
<1> DEFINE h == m.h
           d == Disk(m)
           k == h.pos \div ClusterBytes
           u == (h.pos % ClusterBytes) \div SectorBytes
           b == h.pos % SectorBytes
           known == AnalyseNext(m)
           set == IF m.h.next # 0 THEN m
                  ELSE [known EXCEPT !.h.up = (m.h.pos % ClusterBytes) \div SectorBytes]
           e == [known EXCEPT !.h.up = u]
<1>1. /\ Context(x) /\ Safe(x, m) /\ IsPath(Links(d), EndMark(x.d.type), p)
      /\ want \in Nat /\ h.size \in Nat \ {0} /\ Fits(p, h.size) /\ h.pos \in Nat
      /\ d.type = x.d.type /\ d.type \in Types
  BY SafeDisk DEF Reader, Keeps, Context, Typed
<1>2. Whole(m) /\ Len(p) \in Nat /\ Len(m.bytes) = 0
  BY <1>1, SafeDisk DEF IsPath
<1>3. PlacedHandle(p, h) /\ h.next \in {0, Links(d)[h.cur]}
  BY DEF FullHandle
<1>4. k \in 0 .. Len(p) - 1 /\ h.cur = p[1 + k] /\ (h.pos < h.size \/ h.next # 0 => h.up = u)
  <2>1. h.pos < h.size \/ (h.pos = h.size /\ h.size % ClusterBytes # 0)
    OBVIOUS
  <2> HIDE DEF h
  <2> QED BY <1>1, <1>2, <1>3, <2>1, ReadPlace
<1>5. u \in 0 .. SectorsPerCluster - 1 /\ b \in 0 .. SectorBytes - 1
      /\ h.pos = k * ClusterBytes + u * SectorBytes + b
  <2> DEFINE pos == h.pos
             w == pos % ClusterBytes
             kc == k * ClusterBytes
             ub == u * SectorBytes
  <2>1. pos \in Nat
    BY <1>1
  <2> HIDE DEF pos
  <2>2. pos = (pos \div ClusterBytes) * ClusterBytes + (pos % ClusterBytes)
    <3>1. pos \in Int /\ ClusterBytes \in Nat \ {0}
      BY <2>1, Sizes
    <3> QED BY <3>1, Divide
  <2>3. /\ u = (pos \div SectorBytes) % SectorsPerCluster
        /\ w = ((pos \div SectorBytes) % SectorsPerCluster) * SectorBytes + b
        /\ u \in 0 .. SectorsPerCluster - 1 /\ b \in 0 .. SectorBytes - 1
    BY <2>1, InSectors DEF pos
  <2>4. pos = kc + w
    BY <2>2 DEF pos
  <2>5. w = ub + b
    BY <2>3, Zenon
  <2>6. kc \in Int /\ ub \in Int /\ b \in Int
    BY <1>4, <2>3, Sizes
  <2> HIDE DEF kc, ub, b, w, u
  <2>7. pos = kc + ub + b
    BY <2>4, <2>5, <2>6
  <2> QED BY <2>3, <2>7 DEF pos, kc, ub
<1>6. p[1 + k] \in Cluster
  <2> HIDE DEF d, k
  <2> QED BY <1>1, <1>4, NextEnd DEF d
<1>7. CASE h.next # 0
  <2>1. AtRead(x, p, m, want, m)
    BY <1>1, <1>2, <1>3, <1>7 DEF AtRead
  <2>2. In(p, h, k, u, b)
    <3>1. u \in 0 .. SectorsPerCluster
      BY <1>5, Sizes
    <3>2. h.pos <= h.size
      BY <1>1
    <3> HIDE DEF k, u, b, h
    <3> QED BY <1>1, <1>4, <1>5, <1>7, <3>1, <3>2 DEF In
  <2>3. set = m
    BY <1>7
  <2> HIDE DEF set, k, u
  <2>4. AtRead(x, p, m, want, set) /\ set.bytes = <<>> /\ In(p, set.h, k, u, set.h.pos % SectorBytes)
    BY <2>1, <2>2, <2>3
  <2> QED BY <2>4 DEF set
<1>8. CASE h.next = 0
  <2>1. h.cur \in Cluster /\ ~fatEndCluster(d, h.cur)
    BY <1>1, <1>4, <1>6, NotEnd
  <2>2. LET n == AnalyseNext(m)
        IN  /\ Safe(x, n) /\ Stays(m, n) /\ AllButNext(m.h, n.h)
            /\ n.h.next = IF fatEndCluster(Disk(m), m.h.cur) THEN m.h.next
                          ELSE Links(Disk(m))[m.h.cur]
    BY <1>1, <2>1, AnalysedNext
  <2>3. /\ Safe(x, known) /\ Stays(m, known) /\ AllButNext(h, known.h)
        /\ known.h.next = Links(d)[h.cur]
    BY <2>1, <2>2
  <2> HIDE DEF known, u
  <2>4. AtRead(x, p, m, want, known)
    BY <1>1, <1>2, <2>3 DEF AtRead, Stays, AllButNext
  <2>5. /\ AtRead(x, p, m, want, e) /\ e.bytes = known.bytes
        /\ e.h.cur = known.h.cur /\ e.h.up = u /\ e.h.pos = known.h.pos /\ e.h.size = known.h.size
    <3>1. Upped(x, p, m, want, known, u, e)
      BY <2>4, UpSet
    <3> HIDE DEF e
    <3> QED BY <3>1, Zenon DEF Upped
  <2>6. set = e
    BY <1>8 DEF u
  <2> HIDE DEF e, set, k, b
  <2>7. e.h.cur = h.cur /\ e.h.pos = h.pos /\ e.h.size = h.size /\ e.bytes = <<>>
    BY <2>3, <2>5 DEF AllButNext, Stays
  <2>8. u \in 0 .. SectorsPerCluster
    BY <1>5, Sizes
  <2>9. In(p, e.h, k, u, b)
    BY <1>1, <1>4, <1>5, <2>5, <2>7, <2>8 DEF In
  <2>10. AtRead(x, p, m, want, set) /\ set.bytes = <<>> /\ In(p, set.h, k, u, set.h.pos % SectorBytes)
    BY <2>5, <2>6, <2>7, <2>9 DEF b
  <2> QED BY <2>10 DEF set, known, u
<1> QED BY <1>7, <1>8

-------------------------------------------------------------------------------
\* The call changes nothing of the disk and leaves the handle k.
Left(x, m, f, p, n, k) ==
    Safe(x, n) /\ Disk(n) = Disk(m) /\ HandleAt(Disk(m), f, p, k) /\ HandleFields(k)

\* fatReadFile leaves a handle at its position, or one that is stale and noted as such.
LEMMA ReadIs ==
    ASSUME NEW x, Context(x), NEW m, Safe(x, m), NEW f \in File, NEW p,
           IsPath(Links(Disk(m)), EndMark(x.d.type), p), Fits(p, m.h.size),
           HandleAt(Disk(m), f, p, m.h), m.bytes = <<>>,
           NEW want \in Nat, ~m.h.stale, m.h.pos < m.h.size \/ m.h.size % ClusterBytes # 0
    PROVE  LET n == fatReadFile(m, want)
           IN  Left(x, m, f, p, n, [n.h EXCEPT !.stale = m.h.stale \/ StaleAfterRead(n.h)])
<1> DEFINE h == m.h
           known == AnalyseNext(m)
           set == IF h.next # 0 THEN m
                  ELSE [known EXCEPT !.h.up = (h.pos % ClusterBytes) \div SectorBytes]
           read == ReadOn(set, want)
           fails == [m EXCEPT !.result = Failed]
           got == Got(read.bytes)
           gets == [read EXCEPT !.result = got]
           n == fatReadFile(m, want)
           stale == m.h.stale \/ StaleAfterRead(n.h)
           k == [n.h EXCEPT !.stale = stale]
<1>0. n = IF h.pos > h.size THEN fails ELSE gets
  BY Zenon DEF fatReadFile, set, read, known, h, fails, gets, got
<1>1. Whole(m) /\ HandleFields(h) /\ h.size \in Nat /\ h.pos \in Nat /\ h.size = Disk(m).dir[f].size
  BY SafeDisk DEF Whole, HandleFields, HandleAt
<1>2. h.size # 0
  <2>1. 0 % ClusterBytes = 0
    BY Sizes
  <2> QED BY <1>1, <2>1
<1>3. FullHandle(Disk(m), p, h) /\ PlacedHandle(p, h)
  <2>1. FullHandle(Disk(m), p, h)
    BY <1>2 DEF HandleAt
  <2> QED BY <2>1 DEF FullHandle
<1>4. CASE h.pos > h.size
  <2>1. SameDisk(m, fails) /\ fails.h = h
    BY <1>1, FieldChange DEF Whole, Fields
  <2>2. n = fails
    BY <1>0, <1>4
  <2> HIDE DEF fails, n, h
  <2>3. Safe(x, n) /\ Disk(n) = Disk(m) /\ n.h = h
    BY <2>1, <2>2, SafeSame
  <2>4. ~stale
    BY <1>1, <1>4, <2>3 DEF StaleAfterRead, h
  <2> HIDE DEF stale
  <2>5. /\ k.start = h.start /\ k.size = h.size /\ k.pos = h.pos /\ k.cur = h.cur
        /\ k.up = h.up /\ k.next = h.next /\ k.stale = stale /\ HandleFields(k)
    <3>1. HandleFields(n.h)
      BY <1>1, <2>3
    <3> QED BY <2>3, <3>1, StaleSet, StaleFields
  <2> HIDE DEF k
  <2>6. Place(k) = Place(h)
    BY <2>5, Zenon DEF Place
  <2>7. PlacedHandle(p, k)
    BY <1>3, <2>5, <2>6 DEF PlacedHandle, AtSector
  <2>8. FullHandle(Disk(m), p, k)
    BY <1>3, <2>4, <2>5, <2>7 DEF FullHandle
  <2>9. HandleAt(Disk(m), f, p, k)
    BY <1>1, <1>2, <2>5, <2>8 DEF HandleAt
  <2> QED BY <2>3, <2>5, <2>9 DEF Left, k, stale, n
<1>5. CASE ~(h.pos > h.size)
  <2>1. Reader(x, p, m, want)
    BY <1>1, <1>2 DEF Reader
  <2>2. AtRead(x, p, m, want, set) /\ set.bytes = <<>>
        /\ \E i, u : In(p, set.h, i, u, set.h.pos % SectorBytes)
    <3>1. h.pos < h.size \/ (h.pos = h.size /\ h.size % ClusterBytes # 0)
      BY <1>1, <1>5
    <3>2. LET e == AnalyseNext(m)
              s == IF m.h.next # 0 THEN m
                   ELSE [e EXCEPT !.h.up = (m.h.pos % ClusterBytes) \div SectorBytes]
          IN  /\ AtRead(x, p, m, want, s) /\ s.bytes = <<>>
              /\ \E i, u : In(p, s.h, i, u, s.h.pos % SectorBytes)
      BY <1>1, <1>3, <2>1, <3>1, ReadStart
    <3> QED BY <3>2, Zenon
  <2> HIDE DEF set
  <2>3. Reader(x, p, set, want) /\ AtRead(x, p, set, want, set)
    BY <2>1, <2>2 DEF Reader, AtRead
  <2>4. AtRead(x, p, set, want, read) /\ Ended(p, read.h)
    BY <2>2, <2>3, ReadOnIs
  <2> HIDE DEF read, got
  <2>5. Whole(read)
    BY <2>4, SafeDisk DEF AtRead
  <2>6. SameDisk(read, gets) /\ gets.h = read.h
    BY <2>5, FieldChange DEF Whole, Fields
  <2>7. n = gets
    BY <1>0, <1>5
  <2> HIDE DEF gets, n
  <2> DEFINE r == read.h
  <2>8. Safe(x, n) /\ Disk(n) = Disk(m) /\ n.h = r
    BY <2>2, <2>4, <2>6, <2>7, SafeSame DEF AtRead
  <2>9. HandleFields(r) /\ r.start = h.start /\ r.size = h.size /\ r.next = Links(Disk(m))[r.cur]
        /\ Ended(p, r)
    BY <2>2, <2>4, <2>5 DEF AtRead, Whole
  <2>10. stale <=> StaleAfterRead(r)
    BY <2>8
  <2> HIDE DEF stale, r
  <2>11. /\ k.start = r.start /\ k.size = r.size /\ k.pos = r.pos /\ k.cur = r.cur
        /\ k.up = r.up /\ k.next = r.next /\ k.stale = stale /\ HandleFields(k)
    BY <2>8, <2>9, StaleSet, StaleFields
  <2> HIDE DEF k
  <2>12. Place(k) = Place(r) /\ Old(k) = Old(r)
    BY <2>11, Zenon DEF Place, Old
  <2>13. IF stale THEN StaleHandle(p, k) ELSE PlacedHandle(p, k)
    <3>1. CASE stale
      <4>1. StaleHandle(p, r)
        BY <2>9, <2>10, <3>1 DEF Ended
      <4> QED BY <2>11, <2>12, <3>1, <4>1 DEF StaleHandle
    <3>2. CASE ~stale
      <4>1. PlacedHandle(p, r)
        BY <2>9, <2>10, <3>2 DEF Ended
      <4> QED BY <2>11, <2>12, <3>2, <4>1 DEF PlacedHandle, AtSector
    <3> QED BY <3>1, <3>2
  <2>14. k.pos \in Nat /\ \E i \in 1 .. Len(p) : k.cur = p[i]
    BY <2>9, <2>11 DEF Ended
  <2>15. FullHandle(Disk(m), p, k)
    BY <1>3, <2>9, <2>11, <2>13, <2>14 DEF FullHandle
  <2>16. HandleAt(Disk(m), f, p, k)
    BY <1>1, <1>2, <2>9, <2>11, <2>14, <2>15 DEF HandleAt
  <2> QED BY <2>8, <2>11, <2>16 DEF Left, k, stale, n
<1> QED BY <1>4, <1>5

\* ReadFile keeps the invariant, for a careful caller.
LEMMA ReadChains ==
    ASSUME ChainInv, Careful, NEW f \in File, NEW q \in Amount[f], ReadFile(f, q)
    PROVE  ChainInv'
<1> DEFINE x == On(f)
           h == handle[f]
           m == Call(h)
           n == fatReadFile(m, q)
           k == [n.h EXCEPT !.stale = h.stale \/ StaleAfterRead(n.h)]
           p == ChainIn(disk, f)
<1>1. /\ f \in Opened /\ ~h.stale /\ (h.pos < h.size \/ h.size % ClusterBytes # 0)
      /\ Ends(n, f, With(f, k))
  BY Zenon DEF ReadFile
<1>2. f \in File \ damaged /\ HandleFields(h) /\ disk.dir[f] # NoEntry /\ HandleAt(disk, f, p, h)
  BY <1>1, OpenedAre
<1>3. q \in Nat
  BY FileAssumption
<1>4. Safe(x, m) /\ ~m.panic /\ m.h = h /\ Disk(m) = disk /\ m.bytes = <<>>
  BY <1>2, CallSafe
<1>5. Context(x) /\ Owns(x, disk, p) /\ FileAt(disk, f, p) /\ x.d = disk
  BY <1>2, OnContext, OnFields
<1>6. IsPath(Links(Disk(m)), EndMark(x.d.type), p) /\ Fits(p, m.h.size)
  BY <1>2, <1>4, <1>5 DEF FileAt, HandleAt
<1> HIDE DEF x, m, h, p
<1>7. LET e == fatReadFile(m, q)
      IN  Left(x, m, f, p, e, [e.h EXCEPT !.stale = m.h.stale \/ StaleAfterRead(e.h)])
  <2>1. m.h.pos < m.h.size \/ m.h.size % ClusterBytes # 0
    BY <1>1, <1>4
  <2>2. HandleAt(Disk(m), f, p, m.h) /\ ~m.h.stale
    BY <1>1, <1>2, <1>4
  <2> QED BY <1>3, <1>4, <1>5, <1>6, <2>1, <2>2, ReadIs
<1>8. Left(x, m, f, p, n, k)
  BY <1>4, <1>7, Zenon DEF n, k
<1> HIDE DEF n, k
<1>9. Safe(x, n) /\ Disk(n) = disk /\ HandleAt(disk, f, p, k) /\ HandleFields(k)
  BY <1>4, <1>8 DEF Left
<1>10. \A g \in DOMAIN With(f, k) : HandleFields(With(f, k)[g])
  BY <1>9, WithFields DEF ChainInv
<1>11. HandlesAfter(f, disk, p, With(f, k))
  BY <1>2, <1>9, WithAfter
<1> QED BY <1>1, <1>2, <1>9, <1>10, <1>11, IdleInv DEF x, p

-------------------------------------------------------------------------------
\* The sector of the last byte, and the last of it and sector j.
LastOf(size) == IF size = 0 THEN 0 ELSE (size - 1) \div SectorBytes
Reach(size, j) == IF LastOf(size) > j THEN LastOf(size) ELSE j

\* A write is at sector j of a file whose chain is p.
Going(x, m, p, j) ==
    /\ Safe(x, m) /\ ~m.panic
    /\ Owns(x, Disk(m), p) /\ StartsAt(p, Disk(m).dir[x.f].start)
    /\ AtSector(m.h, p, j) /\ Len(p) = Reach(m.h.size, j) \div SectorsPerCluster + 1
    /\ m.h.start = p[1] /\ m.h.next = 0 /\ ~m.h.stale /\ m.currcluster = m.h.cur

\* It is behind sector j, maybe at the end of the cluster.
Past(x, m, p, j) ==
    /\ Safe(x, m) /\ ~m.panic
    /\ Owns(x, Disk(m), p) /\ StartsAt(p, Disk(m).dir[x.f].start)
    /\ j \in Nat /\ j \div SectorsPerCluster < Len(p)
    /\ m.h.cur = p[1 + j \div SectorsPerCluster] /\ m.h.up = (j % SectorsPerCluster) + 1
    /\ Len(p) = Reach(m.h.size, j) \div SectorsPerCluster + 1
    /\ m.h.start = p[1] /\ m.h.next = 0 /\ ~m.h.stale /\ m.currcluster = m.h.cur

\* A sector of data is written in passing.
LEMMA GoingSector ==
    ASSUME NEW x, NEW m, NEW p, NEW j, Going(x, m, p, j), NEW buf \in Buffer
    PROVE  Going(x, WriteSector(m, buf), p, j) /\ WriteSector(m, buf).h = m.h
<1> DEFINE n == WriteSector(m, buf)
<1>1. Safe(x, m) /\ Owns(x, Disk(m), p)
  BY DEF Going
<1>2. Safe(x, n) /\ Wrote(m, n) /\ SameTable(Disk(m), Disk(n))
  BY <1>1, SectorWritten
<1> HIDE DEF n
<1>3. n.h = m.h /\ n.panic = m.panic /\ n.currcluster = m.currcluster
  BY <1>2 DEF Wrote
<1>4. Owns(x, Disk(n), p) /\ Disk(n).dir = Disk(m).dir
  <2>1. Links(Disk(n)) = Links(Disk(m)) /\ Disk(n).info = Disk(m).info /\ Disk(n).dir = Disk(m).dir
    BY <1>2 DEF SameTable
  <2> QED BY <1>1, <2>1, OwnsSame
<1>5. Going(x, n, p, j)
  BY <1>2, <1>3, <1>4 DEF Going
<1> QED BY <1>3, <1>5 DEF n

\* Fields of the handle are set.
AtPos(m, q) == [m EXCEPT !.h.pos = q]
OfSize(m, s) == [m EXCEPT !.h.size = s]
Upward(m) == [m EXCEPT !.h.up = @ + 1]

\* Only the position is set.
LEMMA GoingPos ==
    ASSUME NEW x, NEW m, NEW p, NEW j, Going(x, m, p, j), NEW q \in Int
    PROVE  LET n == AtPos(m, q)
           IN  Going(x, n, p, j) /\ n.h.pos = q /\ n.h.size = m.h.size
<1> DEFINE n == [m EXCEPT !.h.pos = q]
<1>0. AtPos(m, q) = n
  BY Zenon DEF AtPos
<1>1. Safe(x, m) /\ Whole(m)
  BY SafeDisk DEF Going
<1>2. SameDisk(m, n) /\ n.h = [m.h EXCEPT !.pos = q] /\ n.panic = m.panic /\ n.currcluster = m.currcluster
  BY <1>1, FieldChange DEF Whole, Fields
<1> HIDE DEF n
<1>3. Safe(x, n) /\ Disk(n) = Disk(m)
  BY <1>1, <1>2, SafeSame
<1>4. /\ n.h.start = m.h.start /\ n.h.size = m.h.size /\ n.h.stale = m.h.stale /\ n.h.pos = q
      /\ n.h.cur = m.h.cur /\ n.h.up = m.h.up /\ n.h.next = m.h.next
  BY <1>1, <1>2 DEF Whole, HandleFields
<1>5. Going(x, n, p, j)
  BY <1>2, <1>3, <1>4 DEF Going, AtSector
<1> QED BY <1>0, <1>4, <1>5

\* Only the size is set, and no more clusters are needed for it.
LEMMA GoingSize ==
    ASSUME NEW x, NEW m, NEW p, NEW j, Going(x, m, p, j), NEW s \in Nat,
           Reach(s, j) \div SectorsPerCluster = Reach(m.h.size, j) \div SectorsPerCluster
    PROVE  LET n == OfSize(m, s)
           IN  Going(x, n, p, j) /\ n.h.size = s /\ n.h.pos = m.h.pos
<1> DEFINE n == [m EXCEPT !.h.size = s]
<1>0. OfSize(m, s) = n
  BY Zenon DEF OfSize
<1>1. Safe(x, m) /\ Whole(m)
  BY SafeDisk DEF Going
<1>2. SameDisk(m, n) /\ n.h = [m.h EXCEPT !.size = s] /\ n.panic = m.panic /\ n.currcluster = m.currcluster
  BY <1>1, FieldChange DEF Whole, Fields
<1> HIDE DEF n
<1>3. Safe(x, n) /\ Disk(n) = Disk(m)
  BY <1>1, <1>2, SafeSame
<1>4. /\ n.h.start = m.h.start /\ n.h.size = s /\ n.h.stale = m.h.stale /\ n.h.pos = m.h.pos
      /\ n.h.cur = m.h.cur /\ n.h.up = m.h.up /\ n.h.next = m.h.next
  BY <1>1, <1>2 DEF Whole, HandleFields
<1>5. Going(x, n, p, j)
  BY <1>2, <1>3, <1>4 DEF Going, AtSector
<1> QED BY <1>0, <1>4, <1>5

\* The handle goes past its sector.
LEMMA GoingUp ==
    ASSUME NEW x, NEW m, NEW p, NEW j, Going(x, m, p, j)
    PROVE  LET n == Upward(m)
           IN  /\ Past(x, n, p, j) /\ n.h.size = m.h.size /\ n.h.pos = m.h.pos
               /\ n.h.up = m.h.up + 1
<1> DEFINE u == m.h.up + 1
           n == [m EXCEPT !.h.up = u]
<1>1. Safe(x, m) /\ Whole(m)
  BY SafeDisk DEF Going
<1>2. u = (j % SectorsPerCluster) + 1 /\ j \in Nat
  BY DEF Going, AtSector
<1>0. Upward(m) = n
  BY Zenon DEF Upward
<1> HIDE DEF u
<1>3. SameDisk(m, n) /\ n.h = [m.h EXCEPT !.up = u] /\ n.panic = m.panic /\ n.currcluster = m.currcluster
  BY <1>1, FieldChange DEF Whole, Fields
<1> HIDE DEF n
<1>4. Safe(x, n) /\ Disk(n) = Disk(m)
  BY <1>1, <1>3, SafeSame
<1>5. /\ n.h.start = m.h.start /\ n.h.size = m.h.size /\ n.h.stale = m.h.stale /\ n.h.pos = m.h.pos
      /\ n.h.cur = m.h.cur /\ n.h.up = u /\ n.h.next = m.h.next
  BY <1>1, <1>3 DEF Whole, HandleFields
<1>6. Past(x, n, p, j)
  BY <1>2, <1>3, <1>4, <1>5 DEF Going, Past, AtSector
<1> QED BY <1>0, <1>5, <1>6 DEF u

-------------------------------------------------------------------------------
\* The sector after sector j.
LEMMA NextSector ==
    ASSUME NEW j \in Nat
    PROVE  /\ j % SectorsPerCluster \in 0 .. SectorsPerCluster - 1 /\ j \div SectorsPerCluster \in Nat
           /\ IF (j % SectorsPerCluster) + 1 = SectorsPerCluster
              THEN /\ (j + 1) \div SectorsPerCluster = j \div SectorsPerCluster + 1
                   /\ (j + 1) % SectorsPerCluster = 0
              ELSE /\ (j + 1) \div SectorsPerCluster = j \div SectorsPerCluster
                   /\ (j + 1) % SectorsPerCluster = (j % SectorsPerCluster) + 1
<1> DEFINE s == SectorsPerCluster
           k == j \div s
           u == j % s
           i == j + 1
<1>1. s \in Nat \ {0} /\ k \in Nat /\ u \in 0 .. s - 1
  <2>1. s \in Nat \ {0} /\ j \in Int
    BY Sizes
  <2> QED BY <2>1, DivNat, Divide
<1>2. j = k * s + u
  <2>1. s \in Nat \ {0} /\ j \in Int
    BY Sizes
  <2> QED BY <2>1, Divide
<1> DEFINE ks == k * s
<1>3. ks \in Int
  BY <1>1
<1>4. CASE u + 1 = s
  <2> DEFINE l == k + 1
             ls == l * s
  <2>1. ls = ks + s /\ l \in Int /\ i \in Int
    BY <1>1
  <2>2. i = ls + 0
    <3> HIDE DEF ks, ls, u
    <3> QED BY <1>1, <1>2, <1>3, <1>4, <2>1 DEF ks
  <2>3. 0 \in 0 .. s - 1
    BY <1>1
  <2> HIDE DEF l, s, i, k, u
  <2>4. i \div s = l /\ i % s = 0
    BY <1>1, <2>1, <2>2, <2>3, Quotient DEF ls
  <2> QED BY <1>1, <1>4, <2>4 DEF l, s, i, k, u
<1>5. CASE u + 1 # s
  <2> DEFINE v == u + 1
  <2>1. v \in 0 .. s - 1 /\ k \in Int /\ i \in Int
    BY <1>1, <1>5
  <2>2. i = ks + v
    <3> HIDE DEF ks, u
    <3> QED BY <1>1, <1>2, <1>3 DEF ks
  <2> HIDE DEF v, s, i, k, u
  <2>3. i \div s = k /\ i % s = v
    BY <1>1, <2>1, <2>2, Quotient DEF ks
  <2> QED BY <1>1, <1>5, <2>3 DEF v, s, i, k, u
<1> QED BY <1>4, <1>5

\* How far the chain reaches when the write goes on.
LEMMA ReachNext ==
    ASSUME NEW j \in Nat, NEW size \in Nat
    PROVE  /\ LastOf(size) \in Nat /\ Reach(size, j) \in Nat /\ j <= Reach(size, j)
           /\ LastOf(size) <= j => Reach(size, j) = j /\ Reach(size, j + 1) = j + 1
           /\ LastOf(size) > j => Reach(size, j) = LastOf(size) /\ Reach(size, j + 1) = LastOf(size)
<1>1. LastOf(size) \in Nat
  <2>1. CASE size = 0
    BY <2>1 DEF LastOf
  <2>2. CASE size # 0
    <3> DEFINE y == size - 1
    <3>1. y \in Nat
      BY <2>2
    <3> HIDE DEF y
    <3>2. y \div SectorBytes \in Nat
      BY <3>1, DivNat, Sizes
    <3> QED BY <2>2, <3>2 DEF LastOf, y
  <2> QED BY <2>1, <2>2
<1> QED BY <1>1 DEF Reach

\* Past a sector inside a cluster: at the next one.
LEMMA PastInside ==
    ASSUME NEW x, NEW m, NEW p, NEW j, Past(x, m, p, j), m.h.up # SectorsPerCluster
    PROVE  Going(x, m, p, j + 1)
<1> DEFINE s == SectorsPerCluster
           i == j + 1
           size == m.h.size
<1>0. Safe(x, m) /\ Whole(m)
  BY SafeDisk DEF Past
<1>1. j \in Nat /\ m.h.up = (j % s) + 1 /\ i \in Nat /\ size \in Nat
  BY <1>0 DEF Past, Whole, HandleFields
<1>2. /\ i \div s = j \div s /\ i % s = (j % s) + 1 /\ j \div s \in Nat
  BY <1>1, NextSector
<1>3. AtSector(m.h, p, i)
  <2> HIDE DEF i, s
  <2> QED BY <1>1, <1>2 DEF Past, AtSector, s
<1>4. Reach(size, i) \div s = Reach(size, j) \div s
  <2> HIDE DEF size
  <2>3. LastOf(size) \in Nat /\ size \in Nat /\ j \in Nat
    BY <1>1, ReachNext
  <2>1. CASE LastOf(size) > j
    <3>1. Reach(size, j) = LastOf(size) /\ Reach(size, j + 1) = LastOf(size)
      BY <2>1, <2>3, ReachNext
    <3> QED BY <3>1
  <2>2. CASE LastOf(size) <= j
    <3>1. Reach(size, j) = j /\ Reach(size, j + 1) = j + 1
      BY <2>2, <2>3, ReachNext
    <3> QED BY <1>2, <3>1
  <2> QED BY <2>1, <2>2, <2>3
<1> HIDE DEF i
<1>5. Going(x, m, p, i)
  BY <1>3, <1>4 DEF Going, Past
<1> QED BY <1>5 DEF i

\* Past the last sector of a cluster that is not the last: into the next cluster.
LEMMA PastFollow ==
    ASSUME NEW x, Context(x), NEW m, NEW p, NEW j, Past(x, m, p, j), m.h.up = SectorsPerCluster,
           LastOf(m.h.size) > j
    PROVE  LET n == Follow(m)
           IN  Going(x, n, p, j + 1) /\ n.h.size = m.h.size /\ n.h.pos = m.h.pos
<1> DEFINE s == SectorsPerCluster
           i == j + 1
           size == m.h.size
           k == j \div s
           d == Disk(m)
           a == AnalyseCurrent(m, m.currcluster)
           c == a.h.cur
           n == ToCluster(a, c)
<1>1. j \in Nat /\ m.h.up = (j % s) + 1 /\ i \in Nat /\ size \in Nat /\ Safe(x, m) /\ Whole(m)
      /\ Owns(x, d, p) /\ k < Len(p) /\ m.currcluster = p[1 + k] /\ ~m.panic
  BY SafeDisk DEF Past, Whole, HandleFields
<1>2. i \div s = k + 1 /\ i % s = 0 /\ k \in Nat
  BY <1>1, NextSector
<1>3. Reach(size, i) = Reach(size, j) /\ i <= Reach(size, j) /\ Reach(size, j) \in Nat
  <2> HIDE DEF size
  <2>1. size \in Nat /\ j \in Nat /\ LastOf(size) \in Nat
    BY <1>1, ReachNext
  <2>2. Reach(size, j) = LastOf(size) /\ Reach(size, j + 1) = LastOf(size)
    BY <2>1, ReachNext DEF size
  <2>3. i <= LastOf(size)
    BY <2>1 DEF size
  <2> QED BY <2>1, <2>2, <2>3
<1>4. Len(p) = Reach(size, j) \div s + 1
  BY DEF Past
<1>5. k + 1 < Len(p)
  <2> DEFINE r == Reach(size, j)
  <2>1. i \in Int /\ r \in Int /\ i <= r /\ s \in Nat \ {0}
    BY <1>1, <1>3, Sizes
  <2> HIDE DEF r, i, s
  <2>2. i \div s <= r \div s
    BY <2>1, DivOrder
  <2>3. r \div s \in Int
    BY <2>1, Divide
  <2> HIDE DEF k
  <2> QED BY <1>2, <1>4, <2>2, <2>3 DEF r
<1>6. d.type = x.d.type /\ d.type \in Types /\ IsPath(Links(d), EndMark(d.type), p) /\ Len(p) \in Nat
  <2>1. IsPath(Links(d), EndMark(x.d.type), p)
    BY <1>1 DEF Owns
  <2> QED BY <1>1, <2>1, SafeDisk DEF Keeps, Context, Typed, IsPath
<1>7. p[1 + k] \in Cluster /\ Links(d)[p[1 + k]] = p[2 + k] /\ p[2 + k] \in Cluster
  <2>1. k \in 0 .. Len(p) - 1 /\ k # Len(p) - 1
    BY <1>2, <1>5, <1>6
  <2> HIDE DEF d, k
  <2> QED BY <1>6, <2>1, NextEnd
<1>8. /\ Safe(x, a) /\ Stays(m, a) /\ AllButCur(m.h, a.h) /\ c = p[2 + k]
  <2>1. m.currcluster \in Cluster /\ Links(d)[m.currcluster] = p[2 + k]
    BY <1>1, <1>7
  <2>2. LET e == AnalyseCurrent(m, m.currcluster)
        IN  /\ Safe(x, e) /\ Stays(m, e) /\ AllButCur(m.h, e.h)
            /\ e.h.cur = Links(Disk(m))[m.currcluster]
    BY <1>1, <2>1, AnalysedCurrent
  <2> QED BY <2>1, <2>2
<1>0. Follow(m) = n
  BY Zenon DEF Follow, ToFollowed, n, a, c
<1> HIDE DEF a, c
<1>9. Whole(a)
  BY <1>8, SafeDisk
<1> DEFINE g == [a EXCEPT !.currcluster = c, !.h.cur = c, !.h.up = 0]
<1>10. n = g
  BY Zenon DEF ToCluster
<1>11. SameDisk(a, g)
  BY <1>9, FieldChanges
<1>12. g.h = [a.h EXCEPT !.cur = c, !.up = 0] /\ g.panic = a.panic /\ g.currcluster = c
  BY <1>9 DEF Whole, Fields
<1> HIDE DEF n, g
<1>13. Safe(x, g) /\ Disk(g) = Disk(a)
  BY <1>8, <1>11, SafeSame
<1>14. /\ g.h.start = a.h.start /\ g.h.size = a.h.size /\ g.h.stale = a.h.stale /\ g.h.pos = a.h.pos
       /\ g.h.cur = c /\ g.h.up = 0 /\ g.h.next = a.h.next
  BY <1>9, <1>12 DEF Whole, HandleFields
<1>15. /\ Safe(x, g) /\ Disk(g) = Disk(m) /\ ~g.panic /\ g.currcluster = g.h.cur /\ g.h.cur = p[2 + k]
       /\ g.h.up = 0 /\ g.h.start = m.h.start /\ g.h.size = size /\ g.h.pos = m.h.pos
       /\ g.h.next = m.h.next /\ g.h.stale = m.h.stale
  BY <1>1, <1>8, <1>12, <1>13, <1>14 DEF Stays, AllButCur
<1>16. AtSector(g.h, p, i)
  <2>1. 1 + (k + 1) = 2 + k
    BY <1>2
  <2> HIDE DEF k, i, s
  <2> QED BY <1>1, <1>2, <1>5, <1>15, <2>1 DEF AtSector, s
<1> HIDE DEF i, k
<1>17. Going(x, g, p, i)
  BY <1>3, <1>15, <1>16 DEF Going, Past
<1> QED BY <1>0, <1>10, <1>15, <1>17 DEF i

-------------------------------------------------------------------------------
\* The write has come to sector j, or found the volume full.
Came(x, m, n, j) ==
    /\ Safe(x, n) /\ n.h.size = m.h.size /\ n.h.pos = m.h.pos
    /\ n.panic \/ \E q : Going(x, n, q, j)

\* Past the last sector of the chain: into a new cluster, or the volume is full.
LEMMA PastChain ==
    ASSUME NEW x, Context(x), NEW m, NEW p, NEW j, Past(x, m, p, j), m.h.up = SectorsPerCluster,
           LastOf(m.h.size) <= j
    PROVE  Came(x, m, ChainFile(m), j + 1)
<1> DEFINE s == SectorsPerCluster
           i == j + 1
           size == m.h.size
           k == j \div s
           e == fatChain(m)
           n == ChainFile(m)
<1>1. Safe(x, m) /\ Whole(m) /\ Owns(x, Disk(m), p) /\ ~m.panic
  BY SafeDisk DEF Past
<1>2. j \in Nat /\ m.h.up = (j % s) + 1 /\ i \in Nat /\ size \in Nat /\ k < Len(p)
      /\ m.currcluster = p[1 + k]
  BY <1>1 DEF Past, Whole, HandleFields
<1>3. i \div s = k + 1 /\ i % s = 0 /\ k \in Nat
  BY <1>2, NextSector
<1>4. Reach(size, j) = j /\ Reach(size, i) = i
  <2> HIDE DEF size
  <2>1. size \in Nat /\ j \in Nat
    BY <1>2
  <2>2. Reach(size, j) = j /\ Reach(size, j + 1) = j + 1
    BY <2>1, ReachNext DEF size
  <2> QED BY <2>2
<1>5. Len(p) = k + 1 /\ p \in Seq(Cluster) /\ Len(p) \in Nat /\ p # <<>>
  <2>1. Len(p) = k + 1
    BY <1>4 DEF Past
  <2>2. p \in Seq(Cluster)
    BY <1>1 DEF Owns, IsPath
  <2> HIDE DEF k
  <2> QED BY <1>3, <2>1, <2>2
<1>6. m.currcluster = p[Len(p)]
  <2>1. 1 + k = Len(p)
    BY <1>3, <1>5
  <2> QED BY <1>2, <2>1
<1>7. /\ Safe(x, e) /\ e.h = m.h
      /\ ~e.panic => \E c \in Cluster : /\ e.currcluster = c /\ Owns(x, Disk(e), Append(p, c))
                                        /\ Disk(e).dir = Disk(m).dir
  BY <1>1, <1>5, <1>6, Chained
<1>8. n = IF e.panic THEN e ELSE ToCluster(e, e.currcluster)
  BY Zenon DEF ChainFile, ToChained, e
<1> HIDE DEF n, e
<1>9. CASE e.panic
  <2>1. n = e
    BY <1>8, <1>9
  <2>2. Came(x, m, n, j + 1)
    BY <1>7, <1>9, <2>1 DEF Came
  <2> QED BY <2>2 DEF n
<1>10. CASE ~e.panic
  <2>1. PICK c \in Cluster : /\ e.currcluster = c /\ Owns(x, Disk(e), Append(p, c))
                             /\ Disk(e).dir = Disk(m).dir
    BY <1>7, <1>10
  <2> DEFINE g == [e EXCEPT !.currcluster = c, !.h.cur = c, !.h.up = 0]
             q == Append(p, c)
  <2>2. n = g
    <3>1. n = ToCluster(e, c)
      BY <1>8, <1>10, <2>1
    <3> QED BY <3>1, Zenon DEF ToCluster
  <2>3. Whole(e)
    BY <1>7, SafeDisk
  <2>4. SameDisk(e, g)
    BY <2>3, FieldChanges
  <2>5. g.h = [e.h EXCEPT !.cur = c, !.up = 0] /\ g.panic = e.panic /\ g.currcluster = c
    BY <2>3 DEF Whole, Fields
  <2> HIDE DEF g
  <2>6. Safe(x, g) /\ Disk(g) = Disk(e)
    BY <1>7, <2>4, SafeSame
  <2>7. /\ g.h.start = m.h.start /\ g.h.size = size /\ g.h.stale = m.h.stale /\ g.h.pos = m.h.pos
        /\ g.h.cur = c /\ g.h.up = 0 /\ g.h.next = m.h.next
    BY <1>7, <2>3, <2>5 DEF Whole, HandleFields
  <2>8. Len(q) = k + 2 /\ q[1] = p[1] /\ q[2 + k] = c /\ q # <<>>
    <3>1. Len(q) = Len(p) + 1 /\ q[Len(p) + 1] = c /\ q[1] = p[1]
      BY <1>5
    <3> HIDE DEF k, q
    <3>2. Len(p) + 1 = k + 2 /\ Len(p) + 1 = 2 + k
      BY <1>3, <1>5
    <3>3. Len(q) # 0
      BY <1>3, <3>1, <3>2
    <3> QED BY <3>1, <3>2, <3>3
  <2> HIDE DEF q
  <2>9. StartsAt(q, Disk(g).dir[x.f].start)
    <3>1. StartsAt(p, Disk(m).dir[x.f].start)
      BY DEF Past
    <3>2. Disk(m).dir[x.f].start = p[1]
      BY <1>5, <3>1 DEF StartsAt
    <3> QED BY <2>1, <2>6, <2>8, <3>2 DEF StartsAt
  <2>10. Owns(x, Disk(g), q)
    BY <2>1, <2>6 DEF q
  <2>11. AtSector(g.h, q, i) /\ Len(q) = Reach(size, i) \div s + 1
    <3>1. 1 + (k + 1) = 2 + k /\ k + 1 < Len(q) /\ Len(q) = (k + 1) + 1
      <4> HIDE DEF k
      <4> QED BY <1>3, <2>8
    <3> HIDE DEF k, i
    <3> QED BY <1>2, <1>3, <1>4, <2>7, <2>8, <3>1 DEF AtSector
  <2>12. m.h.start = p[1] /\ m.h.next = 0 /\ ~m.h.stale
    BY DEF Past
  <2> HIDE DEF i, k
  <2>13. Going(x, g, q, i)
    BY <1>10, <2>5, <2>6, <2>7, <2>8, <2>9, <2>10, <2>11, <2>12 DEF Going
  <2>14. Came(x, m, n, i)
    BY <2>2, <2>6, <2>7, <2>13 DEF Came
  <2> QED BY <2>14 DEF n, i
<1> QED BY <1>9, <1>10

\* Behind sector j the write goes on to the next.
LEMMA AdvanceIs ==
    ASSUME NEW x, Context(x), NEW m, NEW p, NEW j, Going(x, m, p, j),
           m.h.pos < m.h.size <=> LastOf(m.h.size) > j
    PROVE  Came(x, m, Advance(m), j + 1)
<1> DEFINE on == Upward(m)
           n == Advance(m)
<1>0. n = IF on.h.up # SectorsPerCluster THEN on
          ELSE IF on.h.pos < on.h.size THEN Follow(on) ELSE ChainFile(on)
  BY Zenon DEF Advance, Upward
<1>1. Past(x, on, p, j) /\ on.h.size = m.h.size /\ on.h.pos = m.h.pos
  BY GoingUp
<1>2. Safe(x, m) /\ Whole(m) /\ j \in Nat
  BY SafeDisk DEF Going, AtSector
<1>3. LastOf(m.h.size) \in Nat
  <2>1. m.h.size \in Nat
    BY <1>2 DEF Whole, HandleFields
  <2> QED BY <1>2, <2>1, ReachNext
<1> HIDE DEF on, n
<1>4. CASE on.h.up # SectorsPerCluster
  <2>1. Going(x, on, p, j + 1)
    BY <1>1, <1>4, PastInside
  <2>2. Came(x, m, on, j + 1)
    BY <1>1, <2>1 DEF Came, Going
  <2> QED BY <1>0, <1>4, <2>2 DEF n
<1>5. CASE on.h.up = SectorsPerCluster /\ on.h.pos < on.h.size
  <2>1. LastOf(on.h.size) > j
    BY <1>1, <1>5
  <2> DEFINE e == Follow(on)
  <2>2. Going(x, e, p, j + 1) /\ e.h.size = on.h.size /\ e.h.pos = on.h.pos
    BY <1>1, <1>5, <2>1, PastFollow
  <2> HIDE DEF e
  <2>3. Came(x, m, e, j + 1)
    BY <1>1, <2>2 DEF Came, Going
  <2> QED BY <1>0, <1>5, <2>3 DEF n, e
<1>6. CASE on.h.up = SectorsPerCluster /\ ~(on.h.pos < on.h.size)
  <2>1. LastOf(on.h.size) <= j
    BY <1>1, <1>2, <1>3, <1>6
  <2>2. Came(x, on, ChainFile(on), j + 1)
    BY <1>1, <1>6, <2>1, PastChain
  <2>3. Came(x, m, ChainFile(on), j + 1)
    BY <1>1, <2>2 DEF Came
  <2> QED BY <1>0, <1>6, <2>3 DEF n
<1> QED BY <1>4, <1>5, <1>6

-------------------------------------------------------------------------------
\* A size in sector j, and one at its end.
LEMMA InSector ==
    ASSUME NEW j \in Nat, NEW s \in Int, j * SectorBytes < s, s <= j * SectorBytes + SectorBytes
    PROVE  s \in Nat \ {0} /\ LastOf(s) = j /\ Reach(s, j) = j /\ (s - 1) \div SectorBytes = j
<1> DEFINE jb == j * SectorBytes
           y == s - 1
           r == y - jb
<1>1. jb \in Nat /\ SectorBytes \in Nat \ {0} /\ jb < s /\ s <= jb + SectorBytes
  BY Sizes
<1> HIDE DEF jb
<1>2. s \in Nat \ {0} /\ y \in Nat /\ r \in 0 .. SectorBytes - 1 /\ y = jb + r
  BY <1>1
<1> HIDE DEF r
<1>3. y \div SectorBytes = j
  <2>1. j \in Int /\ r \in 0 .. SectorBytes - 1 /\ SectorBytes \in Nat \ {0}
    BY <1>1, <1>2
  <2>2. (j * SectorBytes + r) \div SectorBytes = j
    BY <2>1, Quotient
  <2> QED BY <1>2, <2>2 DEF jb
<1>4. LastOf(s) = j
  BY <1>2, <1>3 DEF LastOf
<1> QED BY <1>2, <1>3, <1>4 DEF Reach

\* Both fields at once are one after the other.
LEMMA BothFields ==
    ASSUME NEW w, Whole(w), NEW s \in Nat
    PROVE  /\ [w EXCEPT !.h.up = @ + 1, !.h.size = s] = Upward(OfSize(w, s))
           /\ [w EXCEPT !.h.size = s, !.h.up = @ + 1] = Upward(OfSize(w, s))
<1> DEFINE g == [w EXCEPT !.h.size = s]
           u == w.h.up + 1
<1>1. g.h = [w.h EXCEPT !.size = s]
  BY DEF Whole, Fields
<1>2. g.h.up = w.h.up
  BY <1>1 DEF Whole, HandleFields
<1>3. Upward(OfSize(w, s)) = [g EXCEPT !.h.up = g.h.up + 1]
  BY Zenon DEF Upward, OfSize
<1>4. g.h.up + 1 = u
  BY <1>2
<1> HIDE DEF u
<1>5. [g EXCEPT !.h.up = u] = [w EXCEPT !.h.size = s, !.h.up = u]
  BY DEF Whole, Fields, HandleFields
<1>6. [g EXCEPT !.h.up = u] = [w EXCEPT !.h.up = u, !.h.size = s]
  BY DEF Whole, Fields, HandleFields
<1>7. [w EXCEPT !.h.up = @ + 1, !.h.size = s] = [w EXCEPT !.h.up = u, !.h.size = s]
  BY DEF u
<1>8. [w EXCEPT !.h.size = s, !.h.up = @ + 1] = [w EXCEPT !.h.size = s, !.h.up = u]
  <2>1. [w EXCEPT !.h.size = s, !.h.up = @ + 1] = [w EXCEPT !.h.size = s, !.h.up = g.h.up + 1]
    BY DEF Whole, Fields, HandleFields
  <2> QED BY <1>4, <2>1, Zenon
<1> QED BY <1>3, <1>4, <1>5, <1>6, <1>7, <1>8, Zenon

\* The size goes to the end of sector j, and the write on behind it.
LEMMA GrownIs ==
    ASSUME NEW x, Context(x), NEW m, NEW p, NEW j, Going(x, m, p, j),
           LastOf(m.h.size) <= j, NEW s \in Nat, s = j * SectorBytes + SectorBytes
    PROVE  LET on == Upward(OfSize(m, s))
               n == IF on.h.up = SectorsPerCluster THEN ChainFile(on) ELSE on
           IN  /\ Safe(x, n) /\ n.h.pos = m.h.pos /\ n.h.size = s
               /\ n.panic \/ \E q : Going(x, n, q, j + 1)
<1> DEFINE g == OfSize(m, s)
           on == Upward(g)
           n == IF on.h.up = SectorsPerCluster THEN ChainFile(on) ELSE on
<1>1. Safe(x, m) /\ Whole(m) /\ j \in Nat
  BY SafeDisk DEF Going, AtSector
<1>2. m.h.size \in Nat
  BY <1>1 DEF Whole, HandleFields
<1>3. LastOf(s) = j /\ Reach(s, j) = j
  <2> DEFINE jb == j * SectorBytes
  <2>1. jb < s /\ s <= jb + SectorBytes /\ s \in Int
    <3>1. jb \in Int /\ SectorBytes \in Nat \ {0}
      BY <1>1, Sizes
    <3> HIDE DEF jb
    <3>2. s = jb + SectorBytes
      BY DEF jb
    <3> QED BY <3>1, <3>2
  <2> QED BY <1>1, <2>1, InSector
<1>4. Reach(m.h.size, j) = j
  BY <1>1, <1>2, ReachNext
<1>5. Going(x, g, p, j) /\ g.h.size = s /\ g.h.pos = m.h.pos
  BY <1>3, <1>4, GoingSize
<1> HIDE DEF g
<1>6. Past(x, on, p, j) /\ on.h.size = s /\ on.h.pos = m.h.pos
  BY <1>5, GoingUp
<1> HIDE DEF on
<1>7. CASE on.h.up = SectorsPerCluster
  <2>1. LastOf(on.h.size) <= j
    BY <1>1, <1>3, <1>6
  <2>2. Came(x, on, ChainFile(on), j + 1)
    BY <1>6, <1>7, <2>1, PastChain
  <2>3. n = ChainFile(on)
    BY <1>7
  <2> HIDE DEF n
  <2>4. /\ Safe(x, n) /\ n.h.pos = m.h.pos /\ n.h.size = s
        /\ n.panic \/ \E q : Going(x, n, q, j + 1)
    BY <1>6, <2>2, <2>3 DEF Came
  <2> QED BY <2>4 DEF n, on, g
<1>8. CASE on.h.up # SectorsPerCluster
  <2>1. Going(x, on, p, j + 1)
    BY <1>6, <1>8, PastInside
  <2>2. n = on
    BY <1>8
  <2> HIDE DEF n
  <2>3. /\ Safe(x, n) /\ n.h.pos = m.h.pos /\ n.h.size = s
        /\ n.panic \/ \E q : Going(x, n, q, j + 1)
    BY <1>6, <2>1, <2>2 DEF Going
  <2> QED BY <2>3 DEF n, on, g
<1> QED BY <1>7, <1>8

-------------------------------------------------------------------------------
\* Sector j is full and the next one is entered.
Grow(m, s) ==
    LET on == Upward(OfSize(m, s))
    IN  IF on.h.up = SectorsPerCluster THEN ChainFile(on) ELSE on

\* The file ends before sector j, where the write is.
Zeroed(x, pos, n, j) ==
    /\ Safe(x, n) /\ n.h.pos = pos /\ j \in Nat /\ n.h.size = j * SectorBytes
    /\ n.panic \/ \E q : Going(x, n, q, j)

\* The size grows to the end of the sector, and the handle goes to the next.
LEMMA GrowIs ==
    ASSUME NEW x, Context(x), NEW m, NEW p, NEW j, Going(x, m, p, j),
           LastOf(m.h.size) <= j, NEW s \in Nat, s = j * SectorBytes + SectorBytes
    PROVE  Zeroed(x, m.h.pos, Grow(m, s), j + 1)
<1> DEFINE n == Grow(m, s)
           i == j + 1
<1>1. LET on == Upward(OfSize(m, s))
          e == IF on.h.up = SectorsPerCluster THEN ChainFile(on) ELSE on
      IN  /\ Safe(x, e) /\ e.h.pos = m.h.pos /\ e.h.size = s
          /\ e.panic \/ \E q : Going(x, e, q, j + 1)
  BY GrownIs
<1>2. /\ Safe(x, n) /\ n.h.pos = m.h.pos /\ n.h.size = s
      /\ n.panic \/ \E q : Going(x, n, q, i)
  BY <1>1, Zenon DEF Grow
<1>3. j \in Nat /\ i \in Nat
  BY DEF Going, AtSector
<1>4. s = i * SectorBytes
  BY <1>3, Sizes
<1> HIDE DEF n, i
<1>5. Zeroed(x, m.h.pos, n, i)
  BY <1>2, <1>3, <1>4 DEF Zeroed
<1> QED BY <1>5 DEF n, i

\* The last sector of j full ones comes before sector j.
LEMMA LastBefore ==
    ASSUME NEW j \in Nat
    PROVE  LastOf(j * SectorBytes) <= j
<1> DEFINE s == j * SectorBytes
           y == s - 1
           q == j + 1
<1>1. s \in Nat /\ SectorBytes \in Nat \ {0} /\ q \in Int /\ q * SectorBytes = s + SectorBytes
  BY Sizes
<1>2. CASE s = 0
  BY <1>2 DEF LastOf
<1>3. CASE s # 0
  <2>1. y \in Int /\ y < q * SectorBytes
    <3> HIDE DEF s, q
    <3> QED BY <1>1
  <2> HIDE DEF y, q
  <2>2. y \div SectorBytes < q /\ y \div SectorBytes \in Int
    BY <1>1, <2>1, DivBelow, Divide
  <2>3. LastOf(s) = y \div SectorBytes
    BY <1>3, Zenon DEF LastOf, y
  <2>4. q = j + 1 /\ j \in Int
    BY DEF q
  <2> HIDE DEF s
  <2>5. LastOf(s) <= j
    BY <2>2, <2>3, <2>4
  <2> QED BY <2>5 DEF s
<1> QED BY <1>2, <1>3

\* One sector of zeros.
LEMMA ZeroOneIs ==
    ASSUME NEW x, Context(x), NEW pos, NEW m, NEW j, Zeroed(x, pos, m, j)
    PROVE  IF m.panic \/ pos - m.h.size <= SectorBytes THEN ZeroOne(m) = m
           ELSE Zeroed(x, pos, ZeroOne(m), j + 1)
<1> DEFINE n == ZeroOne(m)
           w == WriteSector(m, Zeros(SectorBytes))
           s == m.h.size + SectorBytes
           stop == m.panic \/ m.h.pos - m.h.size <= SectorBytes
           on == [w EXCEPT !.h.up = @ + 1, !.h.size = @ + SectorBytes]
           one == [w EXCEPT !.h.up = @ + 1, !.h.size = s]
<1>0. n = IF stop THEN m ELSE IF on.h.up = SectorsPerCluster THEN ChainFile(on) ELSE on
  BY Zenon DEF ZeroOne
<1>1. m.h.pos = pos /\ Safe(x, m) /\ Whole(m) /\ j \in Nat
  BY SafeDisk DEF Zeroed
<1>2. CASE stop
  <2>1. n = m
    <3> HIDE DEF on, n, stop
    <3> QED BY <1>0, <1>2
  <2> QED BY <1>1, <1>2, <2>1
<1>3. CASE ~stop
  <2>1. m.h.size = j * SectorBytes /\ ~m.panic
    BY <1>3 DEF Zeroed
  <2>2. PICK p : Going(x, m, p, j)
    BY <1>3 DEF Zeroed
  <2>3. Going(x, w, p, j) /\ w.h = m.h
    BY <2>2, GoingSector, ZerosBuffer
  <2>4. s \in Nat /\ s = j * SectorBytes + SectorBytes /\ Whole(w) /\ m.h.size \in Nat
    <3>1. m.h.size \in Nat /\ SectorBytes \in Nat
      BY <1>1, Sizes DEF Whole, HandleFields
    <3>2. Safe(x, w)
      BY <2>3 DEF Going
    <3>3. Whole(w)
      BY <3>2, SafeDisk
    <3>4. s \in Nat
      BY <3>1
    <3> QED BY <2>1, <3>1, <3>3, <3>4
  <2> HIDE DEF w
  <2>5. on = one
    <3>1. w.h.size + SectorBytes = s
      BY <2>3
    <3> HIDE DEF s
    <3> QED BY <3>1, Zenon
  <2> HIDE DEF s, on
  <2>6. one = Upward(OfSize(w, s))
    BY <2>4, BothFields
  <2>7. n = Grow(w, s)
    <3>1. n = IF on.h.up = SectorsPerCluster THEN ChainFile(on) ELSE on
      <4> HIDE DEF n, stop
      <4> QED BY <1>0, <1>3
    <3> HIDE DEF n
    <3>2. on = Upward(OfSize(w, s))
      BY <2>5, <2>6, Zenon
    <3> QED BY <3>1, <3>2, Zenon DEF Grow
  <2>8. LastOf(w.h.size) <= j
    <3>1. LastOf(j * SectorBytes) <= j
      BY <1>1, LastBefore
    <3> QED BY <2>1, <2>3, <3>1
  <2>9. Zeroed(x, w.h.pos, Grow(w, s), j + 1)
    BY <2>3, <2>4, <2>8, GrowIs
  <2>10. Zeroed(x, pos, n, j + 1)
    BY <1>1, <2>3, <2>7, <2>9
  <2>11. ~(m.panic \/ pos - m.h.size <= SectorBytes)
    BY <1>1, <1>3
  <2> QED BY <2>10, <2>11
<1> QED BY <1>2, <1>3

-------------------------------------------------------------------------------
\* at holds the states of k rounds.
Zeroing(m, k, at) ==
    at[0] = m /\ (\A i \in 1 .. k : at[i] = ZeroOne(at[i - 1])) /\ ZeroSome(m, k) = at[k]

\* The rounds that fill a gap with zeros are a sequence of states of the call.
LEMMA ZeroingIs ==
    ASSUME NEW m, NEW k \in Nat
    PROVE  \E at : Zeroing(m, k, at)
<1>1. \E at :
             /\ at[0] = m
             /\ \A i \in 1 .. k : at[i] = ZeroOne(at[i - 1])
             /\ ZeroSome(m, k) = at[k]
  BY ZeroSteps
<1> QED BY <1>1, Zenon DEF Zeroing

\* After i rounds.
ZeroedSome(x, pos, j, i, n) ==
    \E l \in Nat : /\ Zeroed(x, pos, n, l) /\ l * SectorBytes < pos
                   /\ n.panic \/ pos <= l * SectorBytes + SectorBytes \/ j + i <= l

\* One more sector of zeros.
LEMMA ZeroAlong ==
    ASSUME NEW x, Context(x), NEW pos \in Int, NEW j \in Nat, NEW i \in Nat, NEW m,
           ZeroedSome(x, pos, j, i, m)
    PROVE  ZeroedSome(x, pos, j, i + 1, ZeroOne(m))
<1> DEFINE n == ZeroOne(m)
<1>1. PICK l \in Nat : /\ Zeroed(x, pos, m, l) /\ l * SectorBytes < pos
                       /\ m.panic \/ pos <= l * SectorBytes + SectorBytes \/ j + i <= l
  BY DEF ZeroedSome
<1> DEFINE lb == l * SectorBytes
           g == l + 1
           gb == g * SectorBytes
<1>2. lb \in Nat /\ gb = lb + SectorBytes /\ g \in Nat /\ SectorBytes \in Nat \ {0}
  BY Sizes
<1>3. m.h.size = lb
  BY <1>1 DEF Zeroed
<1>4. IF m.panic \/ pos - m.h.size <= SectorBytes THEN n = m ELSE Zeroed(x, pos, n, g)
  BY <1>1, ZeroOneIs
<1> HIDE DEF n
<1>5. CASE m.panic \/ pos - m.h.size <= SectorBytes
  <2>1. n = m
    BY <1>4, <1>5
  <2>2. m.panic \/ pos <= lb + SectorBytes
    <3> HIDE DEF lb
    <3> QED BY <1>2, <1>3, <1>5
  <2>3. ZeroedSome(x, pos, j, i + 1, n)
    BY <1>1, <2>1, <2>2 DEF ZeroedSome
  <2> QED BY <2>3 DEF n
<1>6. CASE ~(m.panic \/ pos - m.h.size <= SectorBytes)
  <2>1. Zeroed(x, pos, n, g)
    BY <1>4, <1>6
  <2>2. gb < pos
    <3> HIDE DEF lb, gb
    <3> QED BY <1>2, <1>3, <1>6
  <2>3. pos <= gb + SectorBytes \/ j + (i + 1) <= g
    <3>1. pos <= lb + SectorBytes \/ j + i <= l
      BY <1>1, <1>6
    <3>2. pos <= lb + SectorBytes => FALSE
      <4> HIDE DEF lb, gb
      <4> QED BY <1>2, <2>2
    <3> QED BY <3>1, <3>2
  <2> HIDE DEF g
  <2>4. ZeroedSome(x, pos, j, i + 1, n)
    BY <1>2, <2>1, <2>2, <2>3 DEF ZeroedSome
  <2> QED BY <2>4 DEF n
<1> QED BY <1>5, <1>6

\* Zeros up to the sector of the position, or the volume is full.
LEMMA ZeroAll ==
    ASSUME NEW x, Context(x), NEW pos \in Int, NEW j \in Nat, NEW m, Zeroed(x, pos, m, j),
           j * SectorBytes < pos
    PROVE  LET n == ZeroSome(m, (m.h.pos - m.h.size) \div SectorBytes)
           IN  \E l \in Nat : /\ Zeroed(x, pos, n, l) /\ l * SectorBytes < pos
                              /\ n.panic \/ pos <= l * SectorBytes + SectorBytes
<1> DEFINE jb == j * SectorBytes
           y == pos - jb
           k == y \div SectorBytes
           v == k + 1
           w == (m.h.pos - m.h.size) \div SectorBytes
<1>1. m.h.pos = pos /\ m.h.size = jb
  BY DEF Zeroed
<1>2. jb \in Nat /\ SectorBytes \in Nat \ {0} /\ y \in Nat
  BY Sizes
<1>3. k \in Nat /\ y < v * SectorBytes
  <2> HIDE DEF y
  <2>1. k \in Nat
    BY <1>2, DivNat
  <2>2. v \in Int /\ y \div SectorBytes < v
    BY <2>1
  <2> HIDE DEF v
  <2>3. y \in Int
    BY <1>2
  <2>4. y < v * SectorBytes
    BY <1>2, <2>2, <2>3, DivBelow
  <2> QED BY <2>1, <2>4
<1>4. w = k
  BY <1>1
<1> HIDE DEF k, w
<1>5. PICK at : Zeroing(m, k, at)
  BY <1>3, ZeroingIs
<1>6. at[0] = m /\ (\A i \in 1 .. k : at[i] = ZeroOne(at[i - 1])) /\ ZeroSome(m, k) = at[k]
  BY <1>5, Zenon DEF Zeroing
<1> DEFINE S == {i \in 0 .. k : ZeroedSome(x, pos, j, i, at[i])}
<1>7. 0 \in S
  <2>1. ZeroedSome(x, pos, j, 0, m)
    <3>1. j + 0 <= j
      OBVIOUS
    <3> QED BY <3>1 DEF ZeroedSome
  <2> QED BY <1>3, <1>6, <2>1
<1>8. ASSUME NEW i \in 0 .. k - 1, i \in S PROVE i + 1 \in S
  <2>1. i \in Nat /\ i + 1 \in 0 .. k /\ at[i + 1] = ZeroOne(at[i])
    <3>1. i + 1 \in 1 .. k /\ i + 1 - 1 = i /\ i \in Nat /\ i + 1 \in 0 .. k
      BY <1>3
    <3> QED BY <1>6, <3>1
  <2> DEFINE o == at[i]
  <2>2. ZeroedSome(x, pos, j, i, o)
    BY <1>8
  <2> HIDE DEF o
  <2>3. ZeroedSome(x, pos, j, i + 1, ZeroOne(o))
    BY <2>1, <2>2, ZeroAlong
  <2> QED BY <2>1, <2>3 DEF o
<1>9. k \in S
  <2> HIDE DEF S
  <2> QED BY <1>3, <1>7, <1>8, UpTo
<1> DEFINE n == at[k]
<1>10. PICK l \in Nat : /\ Zeroed(x, pos, n, l) /\ l * SectorBytes < pos
                        /\ n.panic \/ pos <= l * SectorBytes + SectorBytes \/ j + k <= l
  BY <1>9 DEF ZeroedSome
<1> HIDE DEF n
<1>11. n.panic \/ pos <= l * SectorBytes + SectorBytes
  <2>1. ASSUME j + k <= l PROVE pos <= l * SectorBytes + SectorBytes
    <3> DEFINE vb == v * SectorBytes
               lb == l * SectorBytes
               e == l - (j + k)
               eb == e * SectorBytes
    <3>1. e \in Nat
      BY <1>3, <2>1
    <3>2. lb + SectorBytes = jb + vb + eb
      <4>1. l + 1 = j + v + e
        BY <1>3
      <4>2. v \in Int /\ e \in Int /\ j \in Int /\ l \in Int /\ SectorBytes \in Int
        BY <1>2, <1>3, <3>1
      <4> HIDE DEF v, e
      <4>3. (l + 1) * SectorBytes = (j + v + e) * SectorBytes
        BY <4>1
      <4> QED BY <4>2, <4>3
    <3>3. eb \in Nat
      BY <3>1, <1>2
    <3>4. y < vb /\ y = pos - jb /\ vb \in Int /\ lb \in Int
      BY <1>2, <1>3
    <3> HIDE DEF jb, vb, lb, eb, y
    <3>5. pos <= lb + SectorBytes
      BY <1>2, <3>2, <3>3, <3>4
    <3> QED BY <3>5 DEF lb
  <2> QED BY <1>10, <2>1
<1>12. ZeroSome(m, w) = n
  BY <1>4, <1>6 DEF n
<1>13. \E i \in Nat : /\ Zeroed(x, pos, n, i) /\ i * SectorBytes < pos
                      /\ n.panic \/ pos <= i * SectorBytes + SectorBytes
  BY <1>10, <1>11
<1> QED BY <1>12, <1>13, Zenon DEF w

-------------------------------------------------------------------------------
\* A write at a place of the file, j the sector of it (the one before at the end of a
\* sector that is the last).
Ready(x, n, q, j) ==
    /\ Going(x, n, q, j) /\ n.h.pos \in Nat /\ n.h.pos <= n.h.size /\ n.h.size <= MaxSize
    /\ j = IF n.h.pos < n.h.size \/ n.h.pos = 0 THEN n.h.pos \div SectorBytes
           ELSE (n.h.pos - 1) \div SectorBytes

\* Zeros up to pos.
LEMMA ZeroSectorsIs ==
    ASSUME NEW x, Context(x), NEW pos \in Nat, NEW j, NEW m, Zeroed(x, pos, m, j),
           j * SectorBytes < pos, pos <= MaxSize
    PROVE  LET n == OfSize(ZeroSectors(m), pos)
           IN  Safe(x, n) /\ n.h.pos = pos /\ (n.panic \/ \E q, i : Ready(x, n, q, i))
<1> DEFINE z == ZeroSome(m, (m.h.pos - m.h.size) \div SectorBytes)
           w == WriteSector(z, Zeros(SectorBytes))
           n == OfSize(w, pos)
           e == [w EXCEPT !.h.size = pos]
<1>1. j \in Nat /\ pos \in Int
  BY DEF Zeroed
<1>2. \E l \in Nat : /\ Zeroed(x, pos, z, l) /\ l * SectorBytes < pos
                     /\ z.panic \/ pos <= l * SectorBytes + SectorBytes
  BY <1>1, ZeroAll
<1> HIDE DEF z
<1>3. PICK l \in Nat : /\ Zeroed(x, pos, z, l) /\ l * SectorBytes < pos
                       /\ z.panic \/ pos <= l * SectorBytes + SectorBytes
  BY <1>2
<1>4. Safe(x, z) /\ z.h.pos = pos
  BY <1>3 DEF Zeroed
<1>5. Safe(x, w) /\ Wrote(z, w)
  BY <1>4, SectorWritten, ZerosBuffer
<1>0. OfSize(ZeroSectors(m), pos) = n /\ n = e
  BY Zenon DEF ZeroSectors, OfSize, w, z
<1>6. Whole(w) /\ w.h = z.h /\ w.panic = z.panic
  BY <1>5, SafeDisk DEF Wrote
<1>7. CASE z.panic
  <2> HIDE DEF w, n
  <2>1. SameDisk(w, e) /\ e.h = [w.h EXCEPT !.size = pos] /\ e.panic = w.panic
    BY <1>6, FieldChange DEF Whole, Fields
  <2> HIDE DEF e
  <2>2. Safe(x, e) /\ e.h.pos = w.h.pos /\ e.panic
    <3>1. e.h.pos = w.h.pos
      BY <1>6, <2>1 DEF Whole, HandleFields
    <3> QED BY <1>5, <1>6, <1>7, <2>1, <3>1, SafeSame
  <2> QED BY <1>0, <1>4, <1>6, <2>2
<1>8. CASE ~z.panic
  <2>1. PICK q : Going(x, z, q, l)
    BY <1>3, <1>8 DEF Zeroed
  <2>2. Going(x, w, q, l)
    BY <2>1, GoingSector, ZerosBuffer
  <2>3. pos \in Nat \ {0} /\ LastOf(pos) = l /\ Reach(pos, l) = l /\ (pos - 1) \div SectorBytes = l
    <3>1. l * SectorBytes < pos /\ pos <= l * SectorBytes + SectorBytes /\ pos \in Int
      BY <1>3, <1>8
    <3> QED BY <3>1, InSector
  <2>4. w.h.size = l * SectorBytes /\ w.h.size \in Nat
    BY <1>3, <1>6 DEF Zeroed, Whole, HandleFields
  <2>5. LastOf(w.h.size) <= l
    BY <2>4, LastBefore
  <2>6. Reach(w.h.size, l) = l
    BY <2>4, <2>5, ReachNext
  <2> HIDE DEF w, e
  <2>7. Going(x, n, q, l) /\ n.h.size = pos /\ n.h.pos = w.h.pos
    BY <2>2, <2>3, <2>6, GoingSize
  <2> HIDE DEF n
  <2>8. n.h.pos = pos
    BY <1>4, <1>6, <2>7
  <2>9. Ready(x, n, q, l)
    BY <2>3, <2>7, <2>8 DEF Ready
  <2>10. Safe(x, n)
    BY <2>7 DEF Going
  <2>11. Safe(x, n) /\ n.h.pos = pos /\ (n.panic \/ \E a, b : Ready(x, n, a, b))
    BY <2>8, <2>9, <2>10
  <2> QED BY <1>0, <2>11
<1> QED BY <1>7, <1>8

\* Where the file ends in its last sector.
LEMMA EndInSector ==
    ASSUME NEW size \in Nat, size # 0 => size % SectorBytes # 0
    PROVE  size + (SectorBytes - (size % SectorBytes)) = LastOf(size) * SectorBytes + SectorBytes
<1>1. CASE size = 0
  <2>1. 0 % SectorBytes = 0 /\ 0 * SectorBytes = 0 /\ SectorBytes \in Nat
    BY Sizes
  <2> QED BY <1>1, <2>1 DEF LastOf
<1>2. CASE size # 0
  <2>1. size % SectorBytes # 0 /\ size \in Int /\ SectorBytes \in Nat \ {0}
    BY <1>2, Sizes
  <2>2. (size - 1) \div SectorBytes = size \div SectorBytes
    BY <2>1, SameSector
  <2>3. LastOf(size) = size \div SectorBytes
    BY <1>2, <2>2, Zenon DEF LastOf
  <2> DEFINE r == size % SectorBytes
             k == size \div SectorBytes
             kb == k * SectorBytes
  <2>4. size = kb + r /\ r \in Int /\ k \in Int
    BY <2>1, Divide
  <2>5. kb \in Int
    BY <2>1, <2>4
  <2> HIDE DEF kb, r
  <2>6. size + (SectorBytes - r) = kb + SectorBytes
    BY <2>1, <2>4, <2>5
  <2> QED BY <2>3, <2>6 DEF kb, r
<1> QED BY <1>1, <1>2

\* A write first brings the handle to the sector of its position, past the end of the file too.
LEMMA ExtendIs ==
    ASSUME NEW x, Context(x), NEW m, NEW p, NEW j, Going(x, m, p, j), m.h.pos \in Nat,
           m.h.pos <= MaxSize, m.h.size <= MaxSize,
           j = IF m.h.pos < m.h.size THEN m.h.pos \div SectorBytes ELSE LastOf(m.h.size),
           m.h.pos > m.h.size /\ m.h.size # 0 => m.h.size % SectorBytes # 0
    PROVE  LET n == Extend(m)
           IN  Safe(x, n) /\ n.h.pos = m.h.pos /\ (n.panic \/ \E q, i : Ready(x, n, q, i))
<1> DEFINE h == m.h
           lastBytes == h.size % SectorBytes
           rem == SectorBytes - lastBytes
           gap == h.pos - h.size
           buf == IF lastBytes # 0 THEN ReadSector(m) ELSE JunkSector
           put == Copied(buf, lastBytes, Zeros(Min({gap, rem})))
           filled == WriteSector(m, put)
           on == [filled EXCEPT !.h.size = @ + rem, !.h.up = @ + 1]
           ext == IF on.h.up = SectorsPerCluster THEN ChainFile(on) ELSE on
           pos == h.pos
           n == Extend(m)
           jb == j * SectorBytes
           s == h.size + rem
<1>0. n = IF gap <= 0 THEN m
          ELSE IF gap <= rem THEN OfSize(filled, pos) ELSE OfSize(ZeroSectors(ext), pos)
  BY Zenon DEF Extend, OfSize
<1>1. Safe(x, m) /\ Whole(m) /\ j \in Nat
  BY SafeDisk DEF Going, AtSector
<1>2. /\ h.pos \in Nat /\ h.size \in Nat /\ lastBytes \in 0 .. SectorBytes - 1
      /\ rem \in 1 .. SectorBytes /\ gap \in Int
  <2> HIDE DEF h
  <2>1. h.pos \in Nat /\ h.size \in Nat
    BY <1>1 DEF Whole, HandleFields, h
  <2> QED BY <2>1, FileAssumption
<1>3. CASE gap <= 0
  <2>1. n = m
    <3> HIDE DEF n, gap, filled, ext
    <3> QED BY <1>0, <1>3
  <2>2. h.pos <= h.size
    <3> HIDE DEF h
    <3> QED BY <1>2, <1>3
  <2>3. Ready(x, m, p, j)
    <3>1. j = IF h.pos < h.size \/ h.pos = 0 THEN h.pos \div SectorBytes ELSE (h.pos - 1) \div SectorBytes
      <4>1. CASE h.pos < h.size
        BY <4>1
      <4>2. CASE h.pos = h.size /\ h.pos = 0
        <5>1. 0 \div SectorBytes = 0
          BY Sizes
        <5> QED BY <4>2, <5>1 DEF LastOf
      <4>3. CASE h.pos = h.size /\ h.pos # 0
        BY <4>3 DEF LastOf
      <4> QED BY <1>2, <2>2, <4>1, <4>2, <4>3
    <3> QED BY <2>2, <3>1 DEF Ready
  <2> HIDE DEF n
  <2>4. Safe(x, n) /\ n.h.pos = m.h.pos /\ (n.panic \/ \E q, i : Ready(x, n, q, i))
    BY <1>1, <2>1, <2>3
  <2> QED BY <2>4 DEF n
<1>4. CASE ~(gap <= 0)
  <2>1. j = LastOf(h.size) /\ h.pos > h.size /\ (h.size # 0 => lastBytes # 0)
    <3>1. h.pos > h.size
      <4> HIDE DEF h
      <4> QED BY <1>2, <1>4
    <3>2. ~(m.h.pos < m.h.size)
      BY <1>2, <3>1
    <3> QED BY <3>1, <3>2
  <2>2. buf \in Buffer
    BY <1>1, ReadBuffer, JunkBuffer DEF Whole
  <2>3. Min({gap, rem}) \in Nat
    <3> HIDE DEF gap, rem
    <3> QED BY <1>2, <1>4, MinOfTwo
  <2>4. put \in Buffer
    <3> HIDE DEF buf, lastBytes, gap, rem
    <3> QED BY <1>2, <2>2, <2>3, ZerosSeq, CopiedBuffer
  <2>5. Going(x, filled, p, j) /\ filled.h = h
    <3> HIDE DEF put
    <3> QED BY <2>4, GoingSector
  <2>6. s = jb + SectorBytes /\ s \in Nat /\ jb \in Nat
    <3>1. h.size + (SectorBytes - lastBytes) = LastOf(h.size) * SectorBytes + SectorBytes
      <4>1. h.size \in Nat /\ (h.size # 0 => h.size % SectorBytes # 0)
        BY <1>2, <2>1
      <4> HIDE DEF h
      <4> QED BY <4>1, EndInSector
    <3>2. s \in Nat
      <4> HIDE DEF rem, h
      <4> QED BY <1>2
    <3>3. jb \in Nat
      BY <1>1, Sizes
    <3> QED BY <2>1, <3>1, <3>2, <3>3
  <2>7. Reach(h.size, j) = j /\ LastOf(filled.h.size) <= j
    <3>1. LastOf(h.size) <= j
      BY <1>1, <2>1
    <3> QED BY <1>1, <1>2, <2>5, <3>1, ReachNext
  <2>8. CASE gap <= rem
    <3>1. n = OfSize(filled, pos)
      <4> HIDE DEF n, gap, filled, ext
      <4> QED BY <1>0, <1>4, <2>8
    <3>2. jb < pos /\ pos <= jb + SectorBytes
      <4> DEFINE hs == h.size
      <4>1. hs \in Nat /\ gap = pos - hs /\ s = hs + rem /\ pos > hs /\ hs >= jb /\ pos \in Nat
        <5>1. hs = jb + SectorBytes - rem
          <6> HIDE DEF rem, h
          <6>1. s = h.size + rem /\ rem \in Int /\ h.size \in Nat
            BY <1>2
          <6> HIDE DEF s, jb
          <6> QED BY <2>6, <6>1, Sizes
        <5>2. hs >= jb
          <6> HIDE DEF rem, h, jb
          <6> QED BY <1>2, <2>6, <5>1, Sizes
        <5> QED BY <1>2, <2>1, <5>2
      <4> HIDE DEF jb, gap, rem, s, hs, pos
      <4> QED BY <1>2, <2>6, <2>8, <4>1
    <3>3. pos \in Nat \ {0} /\ LastOf(pos) = j /\ Reach(pos, j) = j /\ (pos - 1) \div SectorBytes = j
      BY <1>1, <1>2, <3>2, InSector
    <3> HIDE DEF filled, n
    <3>4. Going(x, n, p, j) /\ n.h.size = pos /\ n.h.pos = filled.h.pos
      <4>1. Reach(pos, j) \div SectorsPerCluster = Reach(filled.h.size, j) \div SectorsPerCluster
        BY <2>5, <2>7, <3>3
      <4> DEFINE o == pos
      <4>2. o \in Nat /\ Reach(o, j) \div SectorsPerCluster = Reach(filled.h.size, j) \div SectorsPerCluster
        BY <3>3, <4>1
      <4> HIDE DEF o
      <4>3. Going(x, OfSize(filled, o), p, j) /\ OfSize(filled, o).h.size = o /\ OfSize(filled, o).h.pos = filled.h.pos
        BY <2>5, <4>2, GoingSize
      <4> QED BY <3>1, <4>3 DEF o
    <3>5. Ready(x, n, p, j)
      BY <2>5, <3>3, <3>4 DEF Ready
    <3>6. Safe(x, n) /\ n.h.pos = m.h.pos /\ (n.panic \/ \E q, i : Ready(x, n, q, i))
      BY <2>5, <3>4, <3>5 DEF Going
    <3> QED BY <3>6 DEF n
  <2>9. CASE ~(gap <= rem)
    <3>1. n = OfSize(ZeroSectors(ext), pos)
      <4> HIDE DEF n, gap, filled, ext
      <4> QED BY <1>0, <1>4, <2>9
    <3>2. Whole(filled)
      <4>1. Safe(x, filled)
        BY <2>5 DEF Going
      <4> QED BY <4>1, SafeDisk
    <3>3. on = Upward(OfSize(filled, s))
      <4> DEFINE one == [filled EXCEPT !.h.size = s, !.h.up = @ + 1]
      <4>1. filled.h.size + rem = s
        BY <2>5
      <4>2. one = Upward(OfSize(filled, s))
        <5> HIDE DEF filled, s
        <5> QED BY <2>6, <3>2, BothFields
      <4>3. on = one
        <5> HIDE DEF s, filled, rem
        <5> QED BY <4>1, Zenon
      <4> HIDE DEF on, one
      <4> QED BY <4>2, <4>3
    <3>4. ext = Grow(filled, s)
      <4> HIDE DEF on, filled, s
      <4> QED BY <3>3, Zenon DEF Grow
    <3> HIDE DEF ext, on
    <3>5. Zeroed(x, filled.h.pos, Grow(filled, s), j + 1)
      <4>1. s \in Nat /\ s = j * SectorBytes + SectorBytes
        BY <2>6
      <4> HIDE DEF s, filled
      <4> QED BY <2>5, <2>7, <4>1, GrowIs
    <3>6. Zeroed(x, pos, ext, j + 1)
      BY <2>5, <3>4, <3>5
    <3>7. (j + 1) * SectorBytes < pos
      <4>1. (j + 1) * SectorBytes = jb + SectorBytes
        BY <1>1, Sizes
      <4>2. jb + SectorBytes < pos
        <5> DEFINE hs == h.size
        <5>1. hs \in Nat /\ gap = pos - hs /\ s = hs + rem /\ pos \in Nat
          BY <1>2
        <5> HIDE DEF jb, gap, rem, s, hs, pos
        <5> QED BY <1>2, <2>6, <2>9, <5>1
      <4> HIDE DEF jb
      <4> QED BY <4>1, <4>2
    <3>8. LET e == OfSize(ZeroSectors(ext), pos)
          IN  Safe(x, e) /\ e.h.pos = pos /\ (e.panic \/ \E q, i : Ready(x, e, q, i))
      <4> DEFINE i == j + 1
                 o == pos
      <4>1. o \in Nat /\ o <= MaxSize /\ Zeroed(x, o, ext, i) /\ i * SectorBytes < o
        BY <1>2, <3>6, <3>7
      <4> HIDE DEF i, o
      <4>2. LET e == OfSize(ZeroSectors(ext), o)
            IN  Safe(x, e) /\ e.h.pos = o /\ (e.panic \/ \E q, a : Ready(x, e, q, a))
        BY <4>1, ZeroSectorsIs
      <4> QED BY <4>2 DEF o
    <3> QED BY <3>1, <3>8
  <2> QED BY <2>8, <2>9
<1> QED BY <1>3, <1>4

-------------------------------------------------------------------------------
\* At the end of a sector the file goes on exactly when it has a sector more.
LEMMA Onwards ==
    ASSUME NEW j \in Nat, NEW size \in Nat
    PROVE  j * SectorBytes + SectorBytes < size <=> LastOf(size) > j
<1> DEFINE jb == j * SectorBytes
           g == j + 1
<1>1. SectorBytes \in Nat \ {0} /\ jb \in Nat /\ g \in Nat
  BY Sizes
<1>2. CASE size = 0
  <2>1. LastOf(size) = 0
    BY <1>2 DEF LastOf
  <2> HIDE DEF jb
  <2>2. ~(jb + SectorBytes < size) /\ ~(LastOf(size) > j)
    BY <1>1, <1>2, <2>1
  <2> QED BY <2>2 DEF jb
<1>3. CASE size # 0
  <2> DEFINE y == size - 1
             q == y \div SectorBytes
             gb == g * SectorBytes
  <2>1. LastOf(size) = q
    BY <1>3 DEF LastOf
  <2>2. gb = jb + SectorBytes
    BY <1>1
  <2>3. y \in Nat
    BY <1>3
  <2> HIDE DEF y
  <2>4. q \in Nat
    BY <1>1, <2>3, DivNat
  <2>5. y \in Int /\ g \in Int
    BY <1>1, <2>3
  <2> HIDE DEF g
  <2>6. q < g <=> y < gb
    BY <1>1, <2>5, DivBelow
  <2>7. q > j <=> ~(q < g)
    BY <1>1, <2>4 DEF g
  <2>8. y = size - 1
    BY DEF y
  <2> HIDE DEF q, gb, jb
  <2>9. jb + SectorBytes < size <=> ~(y < gb)
    BY <1>1, <2>2, <2>5, <2>8
  <2>10. jb + SectorBytes < size <=> LastOf(size) > j
    BY <2>1, <2>6, <2>7, <2>9
  <2> QED BY <2>10 DEF jb
<1> QED BY <1>2, <1>3

\* Between two sectors of a write, at the beginning of sector j.
Filling(x, size, n, j) ==
    /\ Safe(x, n) /\ n.h.size = size /\ j \in Nat
    /\ n.panic \/ (n.h.pos = j * SectorBytes /\ \E q : Going(x, n, q, j))

\* A sector is written at its end the handle goes on to the next.
LEMMA FillOn ==
    ASSUME NEW x, Context(x), NEW m, NEW p, NEW j, Going(x, m, p, j),
           NEW g, g = j + 1, m.h.pos = g * SectorBytes
    PROVE  Filling(x, m.h.size, Advance(m), g)
<1>0. Safe(x, m) /\ j \in Nat
  BY DEF Going, AtSector
<1>1. j \in Nat /\ g \in Nat /\ m.h.size \in Nat
  <2>1. m.h.size \in Nat
    BY <1>0, SafeDisk DEF Whole, HandleFields
  <2> QED BY <1>0, <2>1
<1>2. m.h.pos = j * SectorBytes + SectorBytes
  BY <1>1, Sizes
<1>3. m.h.pos < m.h.size <=> LastOf(m.h.size) > j
  BY <1>1, <1>2, Onwards
<1>4. Came(x, m, Advance(m), j + 1)
  BY <1>3, AdvanceIs
<1>5. Came(x, m, Advance(m), g)
  BY <1>4
<1> QED BY <1>1, <1>5 DEF Came, Filling

\* A whole sector of data is written, and the handle goes to the next.
LEMMA FillOne ==
    ASSUME NEW x, Context(x), NEW size, NEW m, NEW j, Filling(x, size, m, j),
           NEW data \in Buffer
    PROVE  Filling(x, size, WriteOne(m, data), j + 1)
<1>0. j \in Nat /\ j + 1 \in Nat /\ SectorBytes \in Nat \ {0}
  BY Sizes DEF Filling
<1>1. CASE m.panic
  <2>1. WriteOne(m, data) = m
    BY <1>1, Zenon DEF WriteOne
  <2> QED BY <1>0, <1>1, <2>1 DEF Filling
<1>2. CASE ~m.panic
  <2> DEFINE w == WriteSector(m, data)
             g == j + 1
             pos == g * SectorBytes
             n == AtPos(w, pos)
  <2>1. PICK p : Going(x, m, p, j)
    BY <1>2 DEF Filling
  <2>2. Going(x, w, p, j) /\ w.h = m.h
    BY <2>1, GoingSector
  <2>3. m.h.pos = j * SectorBytes /\ m.h.size = size
    BY <1>2 DEF Filling
  <2>4. w.h.pos + SectorBytes = pos /\ pos \in Int
    BY <1>0, <2>2, <2>3
  <2>5. WriteOne(m, data) = Advance(n)
    <3>1. WriteOne(m, data) = Advance([w EXCEPT !.h.pos = @ + SectorBytes])
      BY <1>2, Zenon DEF WriteOne
    <3>2. [w EXCEPT !.h.pos = @ + SectorBytes] = [w EXCEPT !.h.pos = w.h.pos + SectorBytes]
      <4> HIDE DEF w
      <4> QED BY Zenon
    <3>3. [w EXCEPT !.h.pos = w.h.pos + SectorBytes] = n
      <4> HIDE DEF w, pos
      <4> QED BY <2>4, Zenon DEF AtPos
    <3> HIDE DEF n
    <3> QED BY <3>1, <3>2, <3>3
  <2> HIDE DEF w, pos
  <2>6. Going(x, n, p, j) /\ n.h.pos = pos /\ n.h.size = w.h.size
    BY <2>2, <2>4, GoingPos
  <2> HIDE DEF n
  <2>7. g = j + 1 /\ n.h.pos = g * SectorBytes
    BY <2>6 DEF pos
  <2> HIDE DEF g
  <2>8. Filling(x, n.h.size, Advance(n), g)
    BY <2>6, <2>7, FillOn
  <2>9. n.h.size = size
    BY <2>2, <2>3, <2>6
  <2> QED BY <2>5, <2>7, <2>8, <2>9
<1> QED BY <1>1, <1>2

\* at holds the states of k rounds.
Writing(m, data, k, at) ==
    /\ at[0] = m
    /\ \A i \in 1 .. k : at[i] = WriteOne(at[i - 1], SubSeq(data, (i - 1) * SectorBytes + 1, i * SectorBytes))
    /\ WriteSome(m, data, k) = at[k]

\* The rounds that write whole sectors are a sequence of states of the call.
LEMMA WritingIs ==
    ASSUME NEW m, NEW data, NEW k \in Nat
    PROVE  \E at : Writing(m, data, k, at)
<1>1. \E at :
             /\ at[0] = m
             /\ \A i \in 1 .. k : at[i] = WriteOne(at[i - 1], SubSeq(data, (i - 1) * SectorBytes + 1, i * SectorBytes))
             /\ WriteSome(m, data, k) = at[k]
  BY WriteSteps
<1> QED BY <1>1, Zenon DEF Writing

\* All whole sectors but the last are written.
LEMMA FillSome ==
    ASSUME NEW x, Context(x), NEW size, NEW m, NEW j, Filling(x, size, m, j),
           NEW data \in Seq(Int), NEW k \in Nat, k <= (Len(data) - 1) \div SectorBytes
    PROVE  Filling(x, size, WriteSome(m, data, k), j + k)
<1>1. PICK at : Writing(m, data, k, at)
  BY WritingIs
<1>2. at[0] = m /\ WriteSome(m, data, k) = at[k]
  BY <1>1, Zenon DEF Writing
<1>3. j \in Nat
  BY DEF Filling
<1> DEFINE S == {i \in 0 .. k : Filling(x, size, at[i], j + i)}
<1>4. 0 \in S
  <2>1. j + 0 = j
    BY <1>3
  <2> QED BY <1>2, <2>1
<1>5. ASSUME NEW i \in 0 .. k - 1, i \in S PROVE i + 1 \in S
  <2> DEFINE g == i + 1
             part == SubSeq(data, (g - 1) * SectorBytes + 1, g * SectorBytes)
             o == at[i]
             l == j + i
  <2>1. g \in 1 .. k /\ g - 1 = i /\ g \in 0 .. k /\ g \in Nat \ {0} /\ l + 1 = j + g
    BY <1>3
  <2>0. (Len(data) - 1) \div SectorBytes \in Int
    BY Sizes
  <2>2. g <= (Len(data) - 1) \div SectorBytes
    <3> DEFINE v == (Len(data) - 1) \div SectorBytes
    <3>1. v \in Int /\ k <= v
      BY <2>0
    <3> HIDE DEF v, g
    <3>2. g <= v
      BY <2>1, <3>1
    <3> QED BY <3>2 DEF v
  <2>3. Filling(x, size, o, l)
    BY <1>5
  <2> HIDE DEF g
  <2>4. part \in Buffer
    BY <2>1, <2>2, SectorOfData
  <2>5. at[g] = WriteOne(o, part)
    <3>1. at[g] = WriteOne(at[g - 1], SubSeq(data, (g - 1) * SectorBytes + 1, g * SectorBytes))
      BY <1>1, <2>1, Zenon DEF Writing
    <3> QED BY <2>1, <3>1
  <2> HIDE DEF o, l, part
  <2>6. Filling(x, size, WriteOne(o, part), l + 1)
    BY <2>3, <2>4, FillOne
  <2>7. Filling(x, size, at[g], j + g)
    BY <2>1, <2>5, <2>6
  <2>8. g \in S
    BY <2>1, <2>7
  <2> QED BY <2>8 DEF g
<1>6. k \in S
  <2> HIDE DEF S
  <2>1. \A i \in 0 .. k : i \in S
    BY <1>4, <1>5, UpTo
  <2> QED BY <2>1
<1> QED BY <1>2, <1>6

-------------------------------------------------------------------------------
\* Where a write that began in sector j leaves the handle: in the sector i of the last
\* byte, or in the next when sectors after the first end with the data.
Stop(size, pos, j, i) ==
    \/ /\ i * SectorBytes < pos /\ pos <= i * SectorBytes + SectorBytes
       /\ pos = i * SectorBytes + SectorBytes /\ pos < size => i = j
    \/ pos = i * SectorBytes /\ pos < size /\ i > j + 1

\* All data is written, of a file of that size before, or the volume is full.
Landed(x, size, pos, j, n) ==
    /\ Safe(x, n) /\ n.h.size = size
    /\ n.panic \/ (n.h.pos = pos /\ \E p, i : Going(x, n, p, i) /\ Stop(size, pos, j, i))

\* The last sector: the handle stays in it, or goes past it when it is full.
LEMMA LastIs ==
    ASSUME NEW x, Context(x), NEW size, NEW m, NEW i, Filling(x, size, m, i), NEW j \in Nat, i > j,
           NEW data \in Seq(Int), NEW len, len = Len(data), len \in 1 .. SectorBytes,
           NEW pos, pos = i * SectorBytes + len
    PROVE  Landed(x, size, pos, j, WriteLast(m, data))
<1>0. i \in Nat /\ SectorBytes \in Nat \ {0} /\ Safe(x, m) /\ m.h.size = size
  BY Sizes DEF Filling
<1>1. CASE m.panic
  <2>1. WriteLast(m, data) = m
    BY <1>1, Zenon DEF WriteLast
  <2> QED BY <1>0, <1>1, <2>1 DEF Landed
<1>2. CASE ~m.panic
  <2> DEFINE keeps == m.h.pos + Len(data) < m.h.size
             buf == Copied(IF keeps THEN ReadSector(m) ELSE JunkSector, 0, data)
             w == WriteSector(m, buf)
             n == AtPos(w, pos)
             ib == i * SectorBytes
  <2>1. PICK p : Going(x, m, p, i)
    BY <1>2 DEF Filling
  <2>2. m.h.pos = ib /\ ib \in Nat /\ pos = ib + len /\ pos \in Nat
    <3>1. m.h.pos = ib /\ ib \in Nat
      BY <1>0, <1>2 DEF Filling
    <3> HIDE DEF ib
    <3> QED BY <3>1 DEF ib
  <2>3. buf \in Buffer
    <3>1. (IF keeps THEN ReadSector(m) ELSE JunkSector) \in Buffer
      <4>1. ReadSector(m) \in Buffer
        BY <1>0, SafeDisk, ReadBuffer DEF Whole
      <4> QED BY <4>1, JunkBuffer
    <3> HIDE DEF keeps
    <3> QED BY <3>1, CopiedBuffer
  <2> HIDE DEF ib
  <2>4. keeps <=> pos < size
    BY <1>0, <2>2
  <2> HIDE DEF buf
  <2>5. Going(x, w, p, i) /\ w.h = m.h
    BY <2>1, <2>3, GoingSector
  <2>6. w.h.pos + Len(data) = pos /\ pos \in Int
    BY <2>2, <2>5
  <2> HIDE DEF w
  <2>7. Going(x, n, p, i) /\ n.h.pos = pos /\ n.h.size = size
    <3>1. w.h.size = size
      BY <1>0, <2>5
    <3> HIDE DEF n
    <3> QED BY <2>5, <2>6, <3>1, GoingPos, ZenonT(60) DEF n
  <2>8. WriteLast(m, data) = IF keeps /\ len = SectorBytes THEN Advance(n) ELSE n
    <3> DEFINE r == [w EXCEPT !.h.pos = @ + Len(data)]
    <3>1. WriteLast(m, data) = IF keeps /\ Len(data) = SectorBytes THEN Advance(r) ELSE r
      BY <1>2, Zenon DEF WriteLast, w, buf
    <3>2. r = [w EXCEPT !.h.pos = w.h.pos + Len(data)]
      BY Zenon
    <3>3. [w EXCEPT !.h.pos = w.h.pos + Len(data)] = n
      BY <2>6, Zenon DEF AtPos
    <3> HIDE DEF r, n, keeps
    <3> QED BY <3>1, <3>2, <3>3
  <2> HIDE DEF keeps, n
  <2>9. CASE keeps /\ len = SectorBytes
    <3> DEFINE g == i + 1
    <3>1. g * SectorBytes = pos /\ g \in Nat /\ g > j + 1
      <4>1. g * SectorBytes = ib + SectorBytes
        BY <1>0 DEF ib
      <4> QED BY <1>0, <2>2, <2>9, <4>1
    <3>2. g = i + 1 /\ n.h.pos = g * SectorBytes
      BY <2>7, <3>1
    <3> HIDE DEF g
    <3>3. Filling(x, n.h.size, Advance(n), g)
      BY <2>7, <3>2, FillOn
    <3>4. Stop(size, pos, j, g)
      BY <2>4, <2>9, <3>1 DEF Stop
    <3>5. Landed(x, size, pos, j, Advance(n))
      BY <2>7, <3>1, <3>3, <3>4 DEF Filling, Landed
    <3> QED BY <2>8, <2>9, <3>5
  <2>10. CASE ~(keeps /\ len = SectorBytes)
    <3>1. ib < pos /\ pos <= ib + SectorBytes /\ (pos = ib + SectorBytes => len = SectorBytes)
      BY <1>0, <2>2
    <3>2. Stop(size, pos, j, i)
      BY <2>4, <2>10, <3>1 DEF Stop, ib
    <3>3. Landed(x, size, pos, j, n)
      BY <2>7, <3>2 DEF Going, Landed
    <3> QED BY <2>8, <2>10, <3>3
  <2> QED BY <2>9, <2>10
<1> QED BY <1>1, <1>2

\* What is behind the whole sectors but the last.
LEMMA LastPart ==
    ASSUME NEW data \in Seq(Int), data # <<>>
    PROVE  LET k == (Len(data) - 1) \div SectorBytes
               part == SubSeq(data, k * SectorBytes + 1, Len(data))
           IN  /\ k \in Nat /\ part \in Seq(Int) /\ Len(part) \in 1 .. SectorBytes
               /\ k * SectorBytes + Len(part) = Len(data)
<1> DEFINE len == Len(data)
           y == len - 1
           k == y \div SectorBytes
           kb == k * SectorBytes
           a == kb + 1
           part == SubSeq(data, a, len)
<1>1. len \in Nat \ {0} /\ SectorBytes \in Nat \ {0}
  BY Sizes
<1>2. y \in Nat
  BY <1>1
<1>3. k \in Nat
  <2> HIDE DEF y
  <2> QED BY <1>1, <1>2, DivNat
<1>4. y = kb + (y % SectorBytes) /\ y % SectorBytes \in 0 .. SectorBytes - 1
  <2> HIDE DEF y
  <2>1. y \in Int
    BY <1>2
  <2> QED BY <1>1, <2>1, Divide
<1>5. kb \in Nat
  BY <1>1, <1>3
<1>6. y % SectorBytes \in Int
  BY <1>1, <1>4
<1> DEFINE r == y % SectorBytes
<1>7. y = kb + r /\ r \in 0 .. SectorBytes - 1
  BY <1>4
<1>8. y = len - 1
  OBVIOUS
<1> HIDE DEF r, kb, k, y
<1>9. a \in Nat \ {0} /\ a <= len /\ len \in Int /\ len - a + 1 = r + 1 /\ kb + (r + 1) = len
  BY <1>1, <1>5, <1>7, <1>8
<1> HIDE DEF a
<1>10. part \in Seq(Int) /\ Len(part) = IF a <= len THEN len - a + 1 ELSE 0
  BY <1>9, Part
<1> HIDE DEF part
<1>11. Len(part) = r + 1
  BY <1>9, <1>10
<1>12. k \in Nat /\ part \in Seq(Int) /\ Len(part) \in 1 .. SectorBytes /\ kb + Len(part) = len
  BY <1>1, <1>3, <1>7, <1>9, <1>10, <1>11, SMTT(60)
<1> QED BY <1>12 DEF part, a, k, y, kb

\* The data after the first sector is written.
LEMMA WriteOnIs ==
    ASSUME NEW x, Context(x), NEW size, NEW m, NEW i, Filling(x, size, m, i), NEW j \in Nat, i > j,
           NEW data \in Seq(Int), data # <<>>,
           NEW pos, pos = i * SectorBytes + Len(data)
    PROVE  Landed(x, size, pos, j, WriteOn(m, data))
<1> DEFINE k == (Len(data) - 1) \div SectorBytes
           part == SubSeq(data, k * SectorBytes + 1, Len(data))
           len == Len(part)
           z == WriteSome(m, data, k)
           g == i + k
           kb == k * SectorBytes
           ib == i * SectorBytes
<1>1. k \in Nat /\ part \in Seq(Int) /\ len \in 1 .. SectorBytes /\ kb + len = Len(data)
  BY LastPart
<1>2. i \in Nat /\ SectorBytes \in Nat \ {0} /\ Len(data) \in Nat
  BY Sizes DEF Filling
<1>3. WriteOn(m, data) = WriteLast(z, part)
  BY Zenon DEF WriteOn
<1>4. k <= k
  <2> HIDE DEF k
  <2> QED BY <1>1
<1>5. Filling(x, size, z, g)
  <2> DEFINE c == k
  <2>1. c \in Nat /\ c <= (Len(data) - 1) \div SectorBytes
    BY <1>1, <1>4
  <2> HIDE DEF c
  <2>2. Filling(x, size, WriteSome(m, data, c), i + c)
    BY <2>1, FillSome
  <2> QED BY <2>2 DEF c
<1> HIDE DEF k, z
<1>6. g > j /\ pos = g * SectorBytes + len
  <2>1. g > j
    BY <1>1, <1>2
  <2>2. g * SectorBytes = ib + kb
    BY <1>1, <1>2
  <2>3. ib \in Nat /\ kb \in Nat /\ len \in Nat /\ pos = ib + Len(data)
    BY <1>1, <1>2
  <2> HIDE DEF ib, kb, len, g
  <2>4. pos = g * SectorBytes + len
    BY <1>1, <1>2, <2>2, <2>3, SMTT(60)
  <2> QED BY <2>1, <2>4
<1> HIDE DEF part, g
<1>7. len = Len(part)
  OBVIOUS
<1> HIDE DEF len
<1>8. Landed(x, size, pos, j, WriteLast(z, part))
  BY <1>1, <1>5, <1>6, <1>7, LastIs
<1> QED BY <1>3, <1>8

-------------------------------------------------------------------------------
\* The sector a write starts in, and the bytes of it before currpos.
FirstBytes(h) ==
    IF h.pos % SectorBytes = 0 /\ h.pos = h.size /\ h.pos # 0 THEN SectorBytes
    ELSE h.pos % SectorBytes

\* The first bytes of a write are those of a sector up to the position.
LEMMA FirstSectorIs ==
    ASSUME NEW x, NEW m, NEW p, NEW j, Ready(x, m, p, j)
    PROVE  /\ j \in Nat /\ FirstBytes(m.h) \in 0 .. SectorBytes
           /\ m.h.pos = j * SectorBytes + FirstBytes(m.h)
<1> DEFINE pos == m.h.pos
           size == m.h.size
           a == pos \div SectorBytes
           r == pos % SectorBytes
           ab == a * SectorBytes
<1>1. /\ pos \in Nat /\ SectorBytes \in Nat \ {0} /\ pos <= size
      /\ j = IF pos < size \/ pos = 0 THEN a ELSE (pos - 1) \div SectorBytes
  BY Sizes DEF Ready
<1>0. size \in Nat
  <2>1. Safe(x, m)
    BY DEF Ready, Going
  <2> QED BY <2>1, SafeDisk DEF Whole, HandleFields
<1>2. FirstBytes(m.h) = IF r = 0 /\ pos = size /\ pos # 0 THEN SectorBytes ELSE r
  BY Zenon DEF FirstBytes
<1> HIDE DEF pos, size
<1>3. pos \in Int
  BY <1>1
<1>4. pos = ab + r /\ r \in 0 .. SectorBytes - 1 /\ a \in Int
  BY <1>1, <1>3, Divide
<1>5. a \in Nat
  BY <1>1, DivNat
<1>6. ab \in Nat
  BY <1>1, <1>5
<1>7. CASE pos < size \/ pos = 0
  <2>1. j = a
    BY <1>1, <1>7
  <2>2. FirstBytes(m.h) = r
    BY <1>0, <1>1, <1>2, <1>7
  <2> HIDE DEF r
  <2> QED BY <1>1, <1>4, <1>5, <2>1, <2>2 DEF pos
<1>8. CASE ~(pos < size \/ pos = 0) /\ r # 0
  <2>1. (pos - 1) \div SectorBytes = a
    BY <1>1, <1>8, SameSector
  <2>2. j = a /\ FirstBytes(m.h) = r
    BY <1>1, <1>2, <1>8, <2>1
  <2> HIDE DEF r
  <2> QED BY <1>1, <1>4, <1>5, <2>2 DEF pos
<1>9. CASE ~(pos < size \/ pos = 0) /\ r = 0
  <2>1. pos = size /\ pos # 0
    BY <1>0, <1>1, <1>9
  <2>2. FirstBytes(m.h) = SectorBytes
    BY <1>2, <1>9, <2>1
  <2> DEFINE g == a - 1
             gb == g * SectorBytes
             e == SectorBytes - 1
  <2> HIDE DEF r
  <2>3. pos = ab
    BY <1>4, <1>6, <1>9
  <2>4. gb = ab - SectorBytes /\ a # 0
    <3>1. gb = ab - SectorBytes
      BY <1>1, <1>5
    <3>2. a # 0
      BY <1>1, <2>1, <2>3
    <3> QED BY <3>1, <3>2
  <2>5. g \in Nat /\ e \in 0 .. SectorBytes - 1 /\ g \in Int
    <3>1. g \in Nat
      BY <1>5, <2>4
    <3> QED BY <1>1, <3>1
  <2>6. gb \in Int
    BY <1>1, <2>5
  <2>7. pos - 1 = gb + e
    <3> HIDE DEF gb, ab
    <3> QED BY <1>1, <1>6, <2>3, <2>4, <2>6
  <2>8. (gb + e) \div SectorBytes = g
    <3> HIDE DEF g, e
    <3> QED BY <1>1, <2>5, Quotient
  <2>9. j = g
    <3> HIDE DEF gb, e, g
    <3> QED BY <1>1, <1>9, <2>7, <2>8
  <2>10. pos = gb + SectorBytes
    <3> HIDE DEF gb, ab
    <3> QED BY <1>1, <1>6, <2>3, <2>4, <2>6
  <2> HIDE DEF g
  <2> QED BY <1>1, <2>2, <2>5, <2>9, <2>10 DEF pos
<1> QED BY <1>7, <1>8, <1>9

\* What is written of the first sector.
FirstPart(m, data) ==
    LET lastBytes == FirstBytes(m.h)
        rem == SectorBytes - lastBytes
        n == Min({Len(data), rem})
        buf == IF m.h.pos < m.h.size \/ (lastBytes # 0 /\ rem # 0) THEN ReadSector(m) ELSE JunkSector
    IN  IF rem = 0 THEN m ELSE WriteSector(m, Copied(buf, lastBytes, SubSeq(data, 1, n)))

\* How much of the data goes to the sector of the position.
FirstLen(m, data) == Min({Len(data), SectorBytes - FirstBytes(m.h)})

\* A write is one of its first sector and one of the rest.
LEMMA DataParts ==
    ASSUME NEW m, NEW data
    PROVE  WriteData(m, data) =
             WriteRest([FirstPart(m, data) EXCEPT !.h.pos = @ + FirstLen(m, data)],
                       SubSeq(data, FirstLen(m, data) + 1, Len(data)))
BY Zenon DEF WriteData, FirstPart, FirstLen, FirstBytes

\* The first sector is written once, with what it held and the first data.
LEMMA FirstIsBuffer ==
    ASSUME NEW x, NEW m, Safe(x, m), NEW data \in Seq(Int), FirstBytes(m.h) \in 0 .. SectorBytes
    PROVE  FirstPart(m, data) = m \/ \E put \in Buffer : FirstPart(m, data) = WriteSector(m, put)
<1> DEFINE lastBytes == FirstBytes(m.h)
           rem == SectorBytes - lastBytes
           n == Min({Len(data), rem})
           buf == IF m.h.pos < m.h.size \/ (lastBytes # 0 /\ rem # 0) THEN ReadSector(m) ELSE JunkSector
           bytes == SubSeq(data, 1, n)
           put == Copied(buf, lastBytes, bytes)
<1>1. FirstPart(m, data) = IF rem = 0 THEN m ELSE WriteSector(m, put)
  BY Zenon DEF FirstPart
<1>2. SectorBytes \in Nat \ {0} /\ Len(data) \in Nat /\ lastBytes \in Int /\ rem \in Int
  <2>1. SectorBytes \in Nat \ {0} /\ lastBytes \in 0 .. SectorBytes
    BY Sizes
  <2> HIDE DEF lastBytes
  <2> QED BY <2>1
<1>3. n \in Int /\ n <= Len(data)
  <2> DEFINE l == Len(data)
  <2>1. l \in Int /\ rem \in Int
    BY <1>2
  <2> HIDE DEF rem, l
  <2>2. Min({l, rem}) = IF l <= rem THEN l ELSE rem
    BY <2>1, MinOfTwo
  <2>3. Min({l, rem}) \in Int /\ Min({l, rem}) <= l
    BY <2>1, <2>2
  <2> QED BY <2>3 DEF l
<1>4. bytes \in Seq(Int)
  <2> HIDE DEF n
  <2> QED BY <1>3, Part
<1>5. buf \in Buffer
  <2>1. ReadSector(m) \in Buffer
    BY SafeDisk, ReadBuffer DEF Whole
  <2> QED BY <2>1, JunkBuffer
<1> HIDE DEF buf, bytes, lastBytes
<1>6. put \in Buffer
  BY <1>2, <1>4, <1>5, CopiedBuffer
<1> QED BY <1>1, <1>6

\* The position is a place in its sector, its end included.
LEMMA FirstBytesRange ==
    ASSUME NEW h, h.pos \in Int
    PROVE  FirstBytes(h) \in 0 .. SectorBytes
<1> DEFINE r == h.pos % SectorBytes
<1>1. r \in 0 .. SectorBytes - 1 /\ SectorBytes \in Nat \ {0}
  BY Sizes, Divide
<1>2. FirstBytes(h) = SectorBytes \/ FirstBytes(h) = r
  BY DEF FirstBytes
<1> HIDE DEF r
<1> QED BY <1>1, <1>2

\* Nothing reaches the disk when the volume is full.
LEMMA PanicData ==
    ASSUME NEW x, NEW m, Safe(x, m), m.panic, NEW data \in Seq(Int),
           FirstBytes(m.h) \in 0 .. SectorBytes
    PROVE  Safe(x, WriteData(m, data)) /\ WriteData(m, data).panic
<1> DEFINE w == FirstPart(m, data)
           len == FirstLen(m, data)
           n == [w EXCEPT !.h.pos = @ + len]
           e == AtPos(w, w.h.pos + len)
<1>1. Safe(x, w) /\ w.h = m.h /\ w.panic
  <2>1. CASE w = m
    BY <2>1
  <2>2. CASE \E put \in Buffer : w = WriteSector(m, put)
    <3>1. PICK put \in Buffer : w = WriteSector(m, put)
      BY <2>2
    <3> HIDE DEF w
    <3> QED BY <3>1, SectorWritten DEF Wrote
  <2>3. w = m \/ \E put \in Buffer : w = WriteSector(m, put)
    BY FirstIsBuffer
  <2> HIDE DEF w
  <2> QED BY <2>1, <2>2, <2>3
<1>2. Whole(w)
  BY <1>1, SafeDisk
<1>3. len \in Int
  <2>1. SectorBytes - FirstBytes(m.h) \in Int
    <3> DEFINE b == FirstBytes(m.h)
    <3>1. b \in 0 .. SectorBytes /\ SectorBytes \in Nat
      BY Sizes
    <3> HIDE DEF b
    <3>2. SectorBytes - b \in Int
      BY <3>1
    <3> QED BY <3>2 DEF b
  <2> DEFINE y == SectorBytes - FirstBytes(m.h)
             l == Len(data)
  <2>2. y \in Int /\ l \in Int
    BY <2>1
  <2> HIDE DEF y, l
  <2>3. Min({l, y}) \in Int
    BY <2>2, MinOfTwo
  <2> QED BY <2>3 DEF FirstLen, y, l
<1> HIDE DEF w, len
<1>4. n = e
  BY Zenon DEF AtPos
<1>5. w.h.pos + len \in Int
  BY <1>2, <1>3 DEF Whole, HandleFields
<1> DEFINE y == w.h.pos + len
           f == [w EXCEPT !.h.pos = y]
<1>6. n = f
  BY <1>4, Zenon DEF AtPos
<1>7. y \in Int
  BY <1>5
<1> HIDE DEF y, n
<1>8. SameDisk(w, f) /\ f.h.size = w.h.size /\ f.panic = w.panic
  <2>1. SameDisk(w, f)
    BY <1>2, <1>7, FieldChange
  <2>2. f.h = [w.h EXCEPT !.pos = y] /\ f.panic = w.panic
    BY <1>2 DEF Whole, Fields
  <2>3. f.h.size = w.h.size
    BY <1>2, <2>2 DEF Whole, HandleFields
  <2> QED BY <2>1, <2>2, <2>3
<1> HIDE DEF f
<1>9. Safe(x, f)
  BY <1>1, <1>8, SafeSame
<1>10. Safe(x, n) /\ n.panic
  BY <1>1, <1>6, <1>8, <1>9
<1>11. WriteData(m, data) = n
  <2>1. WriteData(m, data) = WriteRest(n, SubSeq(data, len + 1, Len(data)))
    BY DataParts, Zenon DEF n, w, len
  <2>2. n.panic
    BY <1>1, <1>6, <1>8
  <2> QED BY <2>1, <2>2, Zenon DEF WriteRest
<1> QED BY <1>10, <1>11

-------------------------------------------------------------------------------
\* All data is written: the handle is where the next byte goes.
LEMMA WriteDataIs ==
    ASSUME NEW x, Context(x), NEW m, NEW p, NEW j, Ready(x, m, p, j),
           NEW data \in Seq(Int), data # <<>>
    PROVE  Landed(x, m.h.size, m.h.pos + Len(data), j, WriteData(m, data))
<1> DEFINE w == FirstPart(m, data)
           n == FirstLen(m, data)
           lastBytes == FirstBytes(m.h)
           rem == SectorBytes - lastBytes
           len == Len(data)
           a == n + 1
           rest == SubSeq(data, a, len)
           size == m.h.size
           pos == m.h.pos
           end == pos + len
           q == pos + n
           o == AtPos(w, q)
           jb == j * SectorBytes
<1>1. j \in Nat /\ lastBytes \in 0 .. SectorBytes /\ pos = jb + lastBytes
  BY FirstSectorIs
<1>2. Going(x, m, p, j) /\ pos \in Nat /\ Safe(x, m) /\ ~m.panic
  BY DEF Ready, Going
<1>3. SectorBytes \in Nat \ {0} /\ len \in Nat \ {0} /\ jb \in Nat
  BY <1>1, Sizes
<1>4. Going(x, w, p, j) /\ w.h = m.h
  <2>1. w = m \/ \E put \in Buffer : w = WriteSector(m, put)
    BY <1>1, <1>2, FirstIsBuffer
  <2> HIDE DEF w
  <2>2. CASE w = m
    BY <1>2, <2>2
  <2>3. CASE \E put \in Buffer : w = WriteSector(m, put)
    <3>1. PICK put \in Buffer : w = WriteSector(m, put)
      BY <2>3
    <3> QED BY <1>2, <3>1, GoingSector
  <2> QED BY <2>1, <2>2, <2>3
<1>5. n = (IF len <= rem THEN len ELSE rem) /\ rem \in 0 .. SectorBytes
  <2>1. rem \in 0 .. SectorBytes
    <3> HIDE DEF lastBytes
    <3> QED BY <1>1, <1>3
  <2> DEFINE l == len
             y == rem
  <2>2. l \in Int /\ y \in Int
    BY <1>3, <2>1
  <2> HIDE DEF l, y
  <2>3. Min({l, y}) = IF l <= y THEN l ELSE y
    BY <2>2, MinOfTwo
  <2> QED BY <2>1, <2>3 DEF l, y, FirstLen
<1> HIDE DEF w, n, lastBytes
<1>6. n \in Nat /\ n <= len /\ lastBytes \in Nat /\ a \in Nat \ {0} /\ q \in Int
  <2> HIDE DEF rem, len, pos
  <2>1. n \in Nat /\ n <= len
    BY <1>3, <1>5
  <2> QED BY <1>1, <1>2, <2>1
<1>7. Going(x, o, p, j) /\ o.h.pos = q /\ o.h.size = size
  <2>1. Going(x, w, p, j) /\ w.h.size = size /\ q \in Int
    BY <1>4, <1>6
  <2> HIDE DEF q, size
  <2>2. Going(x, AtPos(w, q), p, j) /\ AtPos(w, q).h.pos = q /\ AtPos(w, q).h.size = w.h.size
    BY <2>1, GoingPos
  <2> HIDE DEF o
  <2> QED BY <2>1, <2>2, Zenon DEF o
<1>8. [w EXCEPT !.h.pos = @ + n] = o
  <2>1. w.h.pos + n = q
    BY <1>4
  <2> HIDE DEF q
  <2> QED BY <2>1, Zenon DEF AtPos
<1> DEFINE e == [w EXCEPT !.h.pos = @ + n]
<1>9. WriteData(m, data) = WriteRest(o, rest)
  <2>1. WriteData(m, data) = WriteRest(e, rest)
    BY DataParts, Zenon DEF w, n
  <2> HIDE DEF e, o, rest
  <2>2. e = o
    BY <1>8 DEF e
  <2> QED BY <2>1, <2>2
<1> HIDE DEF o
<1>10. rest \in Seq(Int) /\ Len(rest) = len - n
  <2>1. len \in Int /\ len <= Len(data) /\ a \in Nat \ {0}
    BY <1>3, <1>6
  <2>2. len - a + 1 = len - n /\ (a <= len \/ len - n = 0)
    <3> HIDE DEF len
    <3> QED BY <1>3, <1>6
  <2> DEFINE l == len
  <2>3. rest = SubSeq(data, a, l) /\ l \in Int /\ l <= Len(data)
    BY <2>1
  <2> HIDE DEF a, rest, l
  <2>4. rest \in Seq(Int) /\ Len(rest) = IF a <= l THEN l - a + 1 ELSE 0
    BY <2>1, <2>3, Part
  <2>5. l = len
    BY DEF l
  <2> HIDE DEF len
  <2> QED BY <2>2, <2>4, <2>5
<1> HIDE DEF rest
<1>11. CASE len <= rem
  <2>1. n = len
    BY <1>5, <1>11
  <2>2. rest = <<>>
    <3>1. Len(rest) = 0
      <4> HIDE DEF len
      <4> QED BY <1>3, <1>10, <2>1
    <3> QED BY <1>10, <3>1
  <2>3. WriteRest(o, rest) = o
    BY <2>2, Zenon DEF WriteRest
  <2>4. q = end
    BY <2>1
  <2>5. Stop(size, end, j, j)
    <3>1. jb < end /\ end <= jb + SectorBytes
      <4> HIDE DEF jb, len, lastBytes
      <4> QED BY <1>1, <1>3, <1>6, <1>11
    <3> QED BY <3>1 DEF Stop
  <2>6. Landed(x, size, end, j, o)
    <3> HIDE DEF end, size, q
    <3>1. Safe(x, o)
      BY <1>7 DEF Going
    <3> QED BY <1>7, <2>4, <2>5, <3>1 DEF Landed
  <2> QED BY <1>9, <2>3, <2>6
<1>12. CASE ~(len <= rem)
  <2> DEFINE g == j + 1
             gb == g * SectorBytes
             z == Advance(o)
             rlen == Len(rest)
  <2>1. n = rem /\ len - n > 0
    <3>1. n = rem
      BY <1>5, <1>12
    <3> HIDE DEF len, rem
    <3> QED BY <1>3, <1>5, <1>12, <3>1
  <2>2. rest # <<>> /\ rlen \in Nat /\ rlen = len - n
    <3>1. Len(rest) > 0 /\ rlen \in Nat
      BY <1>10, <2>1
    <3> QED BY <1>10, <3>1
  <2>3. gb = jb + SectorBytes /\ g \in Nat /\ g > j
    BY <1>1, <1>3
  <2>4. q = gb
    <3>1. n = SectorBytes - lastBytes
      BY <2>1
    <3> HIDE DEF jb, gb, lastBytes, pos
    <3> QED BY <1>1, <1>3, <1>6, <2>3, <3>1
  <2>5. end = gb + rlen
    <3>1. end = pos + len /\ q = pos + n
      OBVIOUS
    <3> HIDE DEF end, pos, len, q, gb, rlen
    <3> QED BY <1>2, <1>3, <1>6, <2>2, <2>4, <3>1
  <2>6. Filling(x, size, z, g)
    <3>1. g = j + 1 /\ o.h.pos = g * SectorBytes
      BY <1>7, <2>4
    <3> HIDE DEF g, z
    <3>2. Filling(x, o.h.size, Advance(o), g)
      BY <1>7, <3>1, FillOn
    <3> QED BY <1>7, <3>2 DEF z
  <2>7. Landed(x, size, end, j, WriteOn(z, rest))
    <3> DEFINE y == end
    <3>1. y = g * SectorBytes + Len(rest) /\ j \in Nat
      BY <1>1, <2>5
    <3> HIDE DEF g, z, y, size
    <3>2. Landed(x, size, y, j, WriteOn(z, rest))
      BY <1>10, <2>2, <2>3, <2>6, <3>1, WriteOnIs
    <3> QED BY <3>2 DEF y
  <2>8. WriteRest(o, rest) = WriteOn(z, rest)
    <3>1. ~o.panic
      BY <1>7 DEF Going
    <3> QED BY <2>2, <3>1, Zenon DEF WriteRest
  <2> QED BY <1>9, <2>7, <2>8
<1> QED BY <1>11, <1>12

-------------------------------------------------------------------------------
\* The sector a write begins in.
StartPlace(h) == IF h.pos < h.size THEN h.pos \div SectorBytes ELSE LastOf(h.size)

\* The first cluster is there, and the handle is in the chain.
Begun(x, m, n) ==
    /\ n.result = m.result /\ n.h.pos = m.h.pos /\ n.h.size = m.h.size
    /\ \E p : Going(x, n, p, StartPlace(m.h))

\* A write to a file that has clusters.
LEMMA StartFull ==
    ASSUME NEW x, Context(x), NEW m, Safe(x, m), ~m.panic, NEW p, Owns(x, Disk(m), p),
           StartsAt(p, Disk(m).dir[x.f].start), m.h.size # 0, Fits(p, m.h.size), m.h.pos \in Nat,
           m.h.start = p[1], PlacedHandle(p, m.h), m.h.next = 0, ~m.h.stale
    PROVE  Begun(x, m, StartFile(m, x.f))
<1> DEFINE h == m.h
           j == StartPlace(h)
           n == [m EXCEPT !.currcluster = m.h.cur]
           d == Disk(m)
<1>0. Keeps(x, d) /\ d.type \in Types /\ Whole(m) /\ h.size \in Nat \ {0}
  <2>1. Keeps(x, d) /\ Whole(m)
    BY SafeDisk
  <2>2. d.type \in Types
    BY <2>1 DEF Keeps, Typed
  <2>3. h.size \in Nat \ {0}
    BY <2>1 DEF Whole, HandleFields
  <2> QED BY <2>1, <2>2, <2>3
<1>1. p \in Seq(Cluster) /\ Len(p) \in Nat
  BY DEF Owns, IsPath
<1>2. /\ ((h.size - 1) \div SectorBytes) \div SectorsPerCluster = Len(p) - 1 /\ Len(p) >= 1
  <2> DEFINE size == h.size
  <2>1. size \in Nat \ {0} /\ Fits(p, size)
    BY <1>0
  <2> HIDE DEF size
  <2>2. ((size - 1) \div SectorBytes) \div SectorsPerCluster = Len(p) - 1 /\ Len(p) >= 1
    BY <1>1, <2>1, FitsLast
  <2> QED BY <2>2 DEF size
<1>3. p[1] \in Cluster
  BY <1>1, <1>2
<1>4. StartFile(m, x.f) = n
  <2>1. m.h.start \notin {0, EmptyStart(d.type)}
    BY <1>0, <1>3, NotEnd
  <2> QED BY <2>1, Zenon DEF StartFile
<1>5. /\ SameDisk(m, n) /\ n.h = h /\ n.panic = m.panic /\ n.result = m.result
      /\ n.currcluster = h.cur
  <2>1. SameDisk(m, n)
    BY <1>0, FieldChange
  <2> QED BY <1>0, <2>1 DEF Whole, Fields
<1> HIDE DEF n
<1>6. Safe(x, n) /\ Disk(n) = d
  BY <1>5, SafeSame
<1>7. j = Place(h) /\ LastOf(h.size) = (h.size - 1) \div SectorBytes
  BY <1>0 DEF StartPlace, Place, LastOf
<1>8. AtSector(h, p, j) /\ j \in Nat
  <2>1. AtSector(h, p, j)
    BY <1>7 DEF PlacedHandle
  <2> QED BY <2>1 DEF AtSector
<1>9. Reach(h.size, j) = LastOf(h.size)
  <2> DEFINE l == (h.size - 1) \div SectorBytes
  <2>1. j <= l /\ l \in Int
    <3>1. CASE h.pos < h.size
      <4> DEFINE a == h.pos
                 b == h.size - 1
      <4>1. a \in Int /\ b \in Int /\ a <= b /\ SectorBytes \in Nat \ {0}
        BY <1>0, <3>1, Sizes
      <4> HIDE DEF a, b
      <4>2. a \div SectorBytes <= b \div SectorBytes /\ b \div SectorBytes \in Int
        BY <4>1, DivOrder
      <4>3. j = a \div SectorBytes /\ l = b \div SectorBytes
        BY <3>1 DEF a, b, StartPlace
      <4> QED BY <4>2, <4>3
    <3>2. CASE ~(h.pos < h.size)
      <4>1. j = l
        BY <1>7, <3>2 DEF StartPlace
      <4> HIDE DEF j, l
      <4> QED BY <1>8, <4>1
    <3> QED BY <3>1, <3>2
  <2>2. LastOf(h.size) = l
    BY <1>7
  <2> HIDE DEF l, j
  <2> QED BY <1>8, <2>1, <2>2 DEF Reach
<1>10. Len(p) = Reach(h.size, j) \div SectorsPerCluster + 1
  <2>1. Reach(h.size, j) \div SectorsPerCluster = Len(p) - 1
    BY <1>2, <1>7, <1>9
  <2> HIDE DEF j
  <2> QED BY <1>1, <2>1
<1> HIDE DEF j, d
<1>11. Going(x, n, p, j)
  <2>1. Owns(x, Disk(n), p) /\ StartsAt(p, Disk(n).dir[x.f].start)
    BY <1>6 DEF d
  <2> QED BY <1>5, <1>6, <1>8, <1>10, <2>1 DEF Going
<1> QED BY <1>4, <1>5, <1>11 DEF Begun, j

\* A cluster is marked for a file that has none.
LEMMA StartMarked ==
    ASSUME NEW x, Context(x), NEW m, Safe(x, m), ~m.panic, Owns(x, Disk(m), <<>>),
           NEW c \in Cluster, Links(Disk(m))[c] = 0
    PROVE  LET n == fatMarkCluster(m, c)
           IN  Safe(x, n) /\ Wrote(m, n) /\ Owns(x, Disk(n), <<c>>) /\ Disk(n).dir = Disk(m).dir
<1> DEFINE d == Disk(m)
           L == Links(d)
           n == fatMarkCluster(m, c)
           end == EndMark(x.d.type)
           B == [L EXCEPT ![c] = end]
           q == <<c>>
<1>0. Keeps(x, d) /\ d.type = x.d.type /\ x.d.type \in Types /\ Typed(d) /\ Whole(m)
  BY SafeDisk DEF Keeps, Context, Typed
<1>1. \A b \in x.rest : L[b] # 0
  BY <1>0, RestTaken
<1>2. c \notin x.rest
  BY <1>1
<1>3. LET k == fatMarkCluster(m, c)
      IN  /\ Safe(x, k) /\ Wrote(m, k)
          /\ Links(Disk(k)) = [Links(Disk(m)) EXCEPT ![c] = EndMark(x.d.type)]
          /\ Disk(k).dir = Disk(m).dir /\ Owed(x, Disk(k), 0)
  BY <1>2, Marked DEF Owns
<1>4. Safe(x, n) /\ Wrote(m, n) /\ Links(Disk(n)) = B /\ Disk(n).dir = d.dir /\ Owed(x, Disk(n), 0)
  BY <1>3, Zenon
<1>5. Cluster \subseteq Numbered /\ end \in Nat /\ end # 0 /\ L \in [Numbered -> 0 .. end]
  BY <1>0, NotEnd, Kinds, LinksAre
<1>6. L \in [Numbered -> Nat]
  <2> HIDE DEF end, L
  <2> QED BY <1>5
<1>7. IsPath(B, end, q)
  <2> HIDE DEF L, end
  <2> QED BY <1>6, PathStart
<1>8. \A i \in 1 .. Len(q) : q[i] \notin x.rest
  BY <1>2
<1>9. Used(x, B, q)
  <2>1. Range(q) = {c} /\ Range(<<>>) = {}
    <3>1. <<>> \in Seq(Cluster)
      OBVIOUS
    <3> QED BY <3>1, RangeAppend, EmptyRange
  <2>2. B[c] = end /\ \A b \in Cluster : b # c => B[b] = L[b]
    <3> HIDE DEF L, end
    <3> QED BY <1>5, <1>6
  <2>3. Used(x, L, <<>>)
    BY DEF Owns
  <2> HIDE DEF B, q, L, end
  <2> SUFFICES ASSUME x.damaged = {}, NEW b \in Cluster
               PROVE  B[b] = 0 <=> (b \notin x.rest /\ b \notin Range(q))
    BY DEF Used
  <2>4. L[b] = 0 <=> (b \notin x.rest /\ b \notin Range(<<>>))
    BY <2>3 DEF Used
  <2>5. CASE b = c
    BY <1>5, <2>1, <2>2, <2>5
  <2>6. CASE b # c
    BY <2>1, <2>2, <2>4, <2>6
  <2> QED BY <2>5, <2>6
<1> HIDE DEF n, B, q, end, d
<1>10. Owns(x, Disk(n), q)
  BY <1>4, <1>7, <1>8, <1>9, Zenon DEF Owns, end
<1>11. Safe(x, n) /\ Wrote(m, n) /\ Owns(x, Disk(n), q) /\ Disk(n).dir = Disk(m).dir
  BY <1>4, <1>10 DEF d
<1> QED BY <1>11 DEF n, q

-------------------------------------------------------------------------------
\* The handle at its first cluster c.
AtFirst(m, c) == [ToCluster(m, c) EXCEPT !.h.start = c]

\* The first cluster of an empty file becomes that of its handle.
LEMMA FirstHandle ==
    ASSUME NEW m, Whole(m), NEW c
    PROVE  LET n == AtFirst(m, c)
           IN  /\ SameDisk(m, n) /\ n.panic = m.panic /\ n.result = m.result /\ n.currcluster = c
               /\ n.h.start = c /\ n.h.cur = c /\ n.h.up = 0
               /\ n.h.size = m.h.size /\ n.h.pos = m.h.pos /\ n.h.next = m.h.next
               /\ n.h.stale = m.h.stale
<1> DEFINE t == [m EXCEPT !.currcluster = c, !.h.cur = c, !.h.up = 0]
           n == [t EXCEPT !.h.start = c]
<1>1. AtFirst(m, c) = n
  BY Zenon DEF AtFirst, ToCluster
<1>2. SameDisk(m, t)
  BY FieldChanges
<1>3. /\ t.h = [m.h EXCEPT !.cur = c, !.up = 0] /\ t.panic = m.panic /\ t.result = m.result
      /\ t.currcluster = c
  BY DEF Whole, Fields
<1> HIDE DEF t
<1>4. Whole(t)
  BY <1>2, SameWhole
<1>5. SameDisk(t, n)
  BY <1>4, FieldChange
<1>6. /\ n.h = [t.h EXCEPT !.start = c] /\ n.panic = t.panic /\ n.result = t.result
      /\ n.currcluster = t.currcluster
  BY <1>4 DEF Whole, Fields
<1> HIDE DEF n
<1>7. /\ t.h.cur = c /\ t.h.up = 0 /\ t.h.size = m.h.size /\ t.h.pos = m.h.pos /\ t.h.next = m.h.next
      /\ t.h.stale = m.h.stale
  BY <1>3 DEF Whole, HandleFields
<1>8. /\ n.h.start = c /\ n.h.cur = t.h.cur /\ n.h.up = t.h.up
      /\ n.h.size = t.h.size /\ n.h.pos = t.h.pos /\ n.h.next = t.h.next
      /\ n.h.stale = t.h.stale
  BY <1>4, <1>6 DEF Whole, HandleFields
<1>9. SameDisk(m, n)
  BY <1>2, <1>5 DEF SameDisk
<1> QED BY <1>1, <1>3, <1>6, <1>7, <1>8, <1>9

\* A write to an empty file makes its first cluster, or fails.
LEMMA StartEmpty ==
    ASSUME NEW x, Context(x), NEW m, Safe(x, m), ~m.panic, Owns(x, Disk(m), <<>>),
           m.h.size = 0, m.h.pos \in Nat, m.h.start \in {0, EmptyStart(x.d.type)},
           m.h.next = 0, ~m.h.stale
    PROVE  \/ StartFile(m, x.f) = [m EXCEPT !.result = Failed]
           \/ Begun(x, m, StartFile(m, x.f))
<1> DEFINE d == Disk(m)
           c == fatFindFreeCluster(d)
           k == fatMarkCluster(m, c)
           n == AtFirst(k, c)
           e == [d.dir[x.f] EXCEPT !.start = c]
           w == WriteDir(n, x.f, e)
           q == <<c>>
<1>0. Keeps(x, d) /\ d.type = x.d.type /\ x.d.type \in Types /\ Typed(d) /\ Whole(m) /\ x.f \in File
  BY SafeDisk DEF Keeps, Context, Typed
<1>1. StartFile(m, x.f) = IF c = 0 THEN [m EXCEPT !.result = Failed] ELSE w
  <2>1. ~(m.h.start \notin {0, EmptyStart(d.type)})
    BY <1>0
  <2> QED BY <2>1, Zenon DEF StartFile, AtFirst
<1>2. CASE c = 0
  BY <1>1, <1>2
<1>3. CASE c # 0
  <2>1. c \in Cluster /\ Links(d)[c] = 0
    <3>1. \A b \in x.rest : Links(d)[b] # 0
      BY <1>0, RestTaken
    <3>2. Links(d)[0] # 0 /\ Links(d)[1] # 0
      BY <3>1 DEF Context
    <3>3. c = 0 \/ (c \in Cluster /\ Links(d)[c] = 0)
      BY <1>0, <3>2, FoundFree
    <3> QED BY <1>3, <3>3
  <2>2. StartFile(m, x.f) = w
    BY <1>1, <1>3
  <2> HIDE DEF c
  <2>3. Safe(x, k) /\ Wrote(m, k) /\ Owns(x, Disk(k), q) /\ Disk(k).dir = d.dir
    BY <2>1, StartMarked
  <2> HIDE DEF k
  <2>4. Whole(k)
    BY <2>3, SafeDisk
  <2>5. /\ SameDisk(k, n) /\ n.panic = k.panic /\ n.result = k.result /\ n.currcluster = c
        /\ n.h.start = c /\ n.h.cur = c /\ n.h.up = 0
        /\ n.h.size = k.h.size /\ n.h.pos = k.h.pos /\ n.h.next = k.h.next
        /\ n.h.stale = k.h.stale
    BY <2>4, FirstHandle
  <2> HIDE DEF n
  <2>6. Safe(x, n) /\ Disk(n) = Disk(k)
    BY <2>3, <2>5, SafeSame
  <2>7. e = [start |-> e.start, size |-> e.size] /\ e.start = c /\ e.size \in 0 .. MaxSize
    <3> DEFINE o == d.dir[x.f]
    <3>1. o = [start |-> o.start, size |-> o.size] /\ o.size \in Nat /\ o.size \in 0 .. MaxSize
      <4>1. DiskFields(d) /\ d.dir[x.f].size \in 0 .. MaxSize
        BY <1>0 DEF Keeps
      <4> HIDE DEF d
      <4> QED BY <1>0, <4>1, EntryFields
    <3> HIDE DEF o
    <3>2. LET y == [o EXCEPT !.start = c]
          IN  y = [start |-> y.start, size |-> y.size] /\ y.size = o.size /\ y.start = c
      BY <3>1, EntryChanges
    <3> QED BY <3>1, <3>2 DEF o
  <2>8. c \in -1 .. NumClusters - 1
    <3>1. Cluster \subseteq Numbered
      BY <1>0, NotEnd
    <3>2. c \in 0 .. NumClusters - 1
      BY <2>1, <3>1 DEF Numbered
    <3> QED BY <3>2
  <2> HIDE DEF e
  <2>9. /\ Safe(x, w) /\ Wrote(n, w)
        /\ Links(Disk(w)) = Links(Disk(n)) /\ Disk(w).info = Disk(n).info
        /\ ~n.panic => Disk(w).dir[x.f] = e
    BY <2>6, <2>7, <2>8, DirWritten
  <2> HIDE DEF w
  <2>10. ~n.panic /\ n.h.size = 0 /\ n.h.pos = m.h.pos /\ n.h.next = 0 /\ ~n.h.stale /\ n.result = m.result
    BY <2>3, <2>5 DEF Wrote
  <2>11. Owns(x, Disk(w), q)
    BY <2>3, <2>6, <2>9, OwnsSame
  <2>12. StartsAt(q, Disk(w).dir[x.f].start)
    <3>1. Disk(w).dir[x.f].start = c
      BY <2>7, <2>9, <2>10
    <3>2. q[1] = c /\ q # <<>>
      OBVIOUS
    <3> HIDE DEF q
    <3> QED BY <3>1, <3>2 DEF StartsAt
  <2>13. StartPlace(m.h) = 0
    <3>1. ~(m.h.pos < m.h.size)
      OBVIOUS
    <3> QED BY <3>1 DEF StartPlace, LastOf
  <2>14. 0 \div SectorsPerCluster = 0 /\ 0 % SectorsPerCluster = 0
    BY Sizes
  <2>15. AtSector(w.h, q, 0) /\ Len(q) = Reach(w.h.size, 0) \div SectorsPerCluster + 1
    <3>1. Len(q) = 1 /\ q[1 + 0] = c
      OBVIOUS
    <3>2. w.h.cur = c /\ w.h.up = 0 /\ w.h.size = 0
      BY <2>5, <2>9, <2>10 DEF Wrote
    <3>3. Reach(w.h.size, 0) = 0
      BY <3>2 DEF Reach, LastOf
    <3>4. AtSector(w.h, q, 0)
      <4> HIDE DEF q
      <4> QED BY <2>14, <3>1, <3>2 DEF AtSector
    <3> HIDE DEF q
    <3> QED BY <2>14, <3>1, <3>3, <3>4
  <2>16. Going(x, w, q, 0)
    <3>1. w.h.start = c /\ w.h.next = 0 /\ ~w.h.stale /\ w.currcluster = w.h.cur /\ ~w.panic
      BY <2>5, <2>9, <2>10 DEF Wrote
    <3>2. q[1] = c
      OBVIOUS
    <3> HIDE DEF q
    <3> QED BY <2>9, <2>11, <2>12, <2>15, <3>1, <3>2 DEF Going
  <2>17. w.result = m.result /\ w.h.pos = m.h.pos /\ w.h.size = m.h.size
    BY <2>9, <2>10 DEF Wrote
  <2>18. Begun(x, m, w)
    BY <2>13, <2>16, <2>17 DEF Begun
  <2> QED BY <2>2, <2>18
<1> QED BY <1>2, <1>3

-------------------------------------------------------------------------------
\* A larger file does not end in an earlier sector.
LEMMA LastOrder ==
    ASSUME NEW a \in Nat, NEW b \in Nat, a <= b
    PROVE  LastOf(a) <= LastOf(b) /\ LastOf(a) \in Nat /\ LastOf(b) \in Nat
<1> DEFINE y == a - 1
           z == b - 1
<1>1. SectorBytes \in Nat \ {0}
  BY Sizes
<1>2. LastOf(a) \in Nat /\ LastOf(b) \in Nat
  <2>1. 0 \in Nat
    OBVIOUS
  <2> QED BY <2>1, ReachNext
<1>3. CASE a = 0
  <2>1. LastOf(a) = 0
    BY <1>3 DEF LastOf
  <2> QED BY <1>2, <2>1
<1>4. CASE a # 0
  <2>1. y \in Int /\ z \in Int /\ y <= z /\ b # 0
    BY <1>4
  <2> HIDE DEF y, z
  <2>2. y \div SectorBytes <= z \div SectorBytes
    BY <1>1, <2>1, DivOrder
  <2> QED BY <1>2, <1>4, <2>1, <2>2 DEF LastOf, y, z
<1> QED BY <1>3, <1>4

\* Inside sector i, and at its beginning.
LEMMA InsideOf ==
    ASSUME NEW i \in Nat, NEW pos \in Nat, i * SectorBytes < pos, pos < i * SectorBytes + SectorBytes
    PROVE  pos \div SectorBytes = i /\ pos % SectorBytes # 0
<1> DEFINE ib == i * SectorBytes
           r == pos - ib
<1>1. SectorBytes \in Nat \ {0} /\ ib \in Nat /\ i \in Int
  BY Sizes
<1>2. r \in 1 .. SectorBytes - 1 /\ pos = ib + r /\ r \in 0 .. SectorBytes - 1
  <2>1. ib < pos /\ pos < ib + SectorBytes
    OBVIOUS
  <2> HIDE DEF ib
  <2> QED BY <1>1, <2>1
<1> HIDE DEF r
<1>3. (i * SectorBytes + r) \div SectorBytes = i /\ (i * SectorBytes + r) % SectorBytes = r
  BY <1>1, <1>2, Quotient
<1> HIDE DEF ib
<1>4. pos \div SectorBytes = i /\ pos % SectorBytes = r
  BY <1>2, <1>3 DEF ib
<1> QED BY <1>2, <1>4

\* Where a sector begins.
LEMMA BeginOf ==
    ASSUME NEW i \in Nat \ {0}, NEW pos, pos = i * SectorBytes
    PROVE  /\ pos \in Nat \ {0} /\ pos \div SectorBytes = i /\ pos % SectorBytes = 0
           /\ (pos - 1) \div SectorBytes = i - 1
<1> DEFINE g == i - 1
           gb == g * SectorBytes
           e == SectorBytes - 1
           ib == i * SectorBytes
<1>1. SectorBytes \in Nat \ {0} /\ g \in Int /\ i \in Int /\ e \in 0 .. SectorBytes - 1
      /\ 0 \in 0 .. SectorBytes - 1
  BY Sizes
<1>2. (i * SectorBytes + 0) \div SectorBytes = i /\ (i * SectorBytes + 0) % SectorBytes = 0
  BY <1>1, Quotient
<1>3. ib \in Nat /\ ib # 0 /\ gb = ib - SectorBytes /\ gb \in Int
  BY <1>1
<1>4. (g * SectorBytes + e) \div SectorBytes = g
  <2> HIDE DEF g, e
  <2> QED BY <1>1, Quotient
<1>5. pos + 0 = ib + 0 /\ pos = ib + 0 /\ pos - 1 = gb + e
  <2> HIDE DEF ib, gb
  <2>1. pos = ib
    BY DEF ib
  <2> QED BY <1>1, <1>3, <2>1
<1>6. pos \div SectorBytes = i /\ pos % SectorBytes = 0
  <2> HIDE DEF ib
  <2> QED BY <1>2, <1>5 DEF ib
<1>7. (pos - 1) \div SectorBytes = g
  <2> HIDE DEF gb, e, g
  <2>1. pos - 1 = g * SectorBytes + e
    BY <1>5 DEF gb
  <2> QED BY <1>4, <2>1
<1> QED BY <1>3, <1>6, <1>7

\* The chain is as long as the new size needs.
LEMMA NewLast ==
    ASSUME NEW size \in Nat, NEW pos \in Nat, NEW j \in Nat, NEW i \in Nat, Stop(size, pos, j, i)
    PROVE  LET new == IF size >= pos THEN size ELSE pos
           IN  new \in Nat \ {0} /\ LastOf(new) = Reach(size, i)
<1> DEFINE new == IF size >= pos THEN size ELSE pos
           ib == i * SectorBytes
<1>0. SectorBytes \in Nat \ {0} /\ ib \in Nat
  BY Sizes
<1>1. CASE ib < pos /\ pos <= ib + SectorBytes
  <2>1. pos \in Nat \ {0} /\ LastOf(pos) = i
    BY <1>1, InSector
  <2>2. CASE size >= pos
    <3>1. i <= LastOf(size) /\ LastOf(size) \in Nat
      BY <2>1, <2>2, LastOrder
    <3>2. new = size /\ new \in Nat \ {0}
      BY <2>1, <2>2
    <3>3. LastOf(size) = Reach(size, i)
      BY <3>1 DEF Reach
    <3> QED BY <3>2, <3>3
  <2>3. CASE ~(size >= pos)
    <3>1. size <= pos
      BY <2>3
    <3>2. LastOf(size) <= i /\ LastOf(size) \in Nat
      BY <2>1, <3>1, LastOrder
    <3>3. new = pos
      BY <2>3
    <3>4. Reach(size, i) = i
      BY <3>2 DEF Reach
    <3> QED BY <2>1, <3>3, <3>4
  <2> QED BY <2>2, <2>3
<1>2. CASE pos = ib /\ pos < size
  <2> DEFINE y == size - 1
             q == y \div SectorBytes
  <2>1. new = size /\ size \in Nat \ {0} /\ y \in Int /\ y >= ib /\ i \in Int
    <3> HIDE DEF ib
    <3> QED BY <1>0, <1>2
  <2>2. LastOf(size) = q
    BY <2>1 DEF LastOf
  <2> HIDE DEF y
  <2>3. q < i <=> y < ib
    BY <1>0, <2>1, DivBelow
  <2>4. q \in Int
    BY <1>0, <2>1, Divide
  <2>5. q >= i
    <3> HIDE DEF ib, q
    <3> QED BY <1>0, <2>1, <2>3, <2>4
  <2> HIDE DEF q
  <2>6. Reach(size, i) = LastOf(size)
    BY <2>2, <2>4, <2>5 DEF Reach
  <2> QED BY <2>1, <2>6
<1>3. (ib < pos /\ pos <= ib + SectorBytes) \/ (pos = ib /\ pos < size)
  BY DEF Stop
<1> HIDE DEF new
<1>4. new \in Nat \ {0} /\ LastOf(new) = Reach(size, i)
  BY <1>1, <1>2, <1>3 DEF new
<1> QED BY <1>4 DEF new

\* A chain that reaches the last sector of a file fits its size.
LEMMA ReachFits ==
    ASSUME NEW p, Len(p) \in Nat, NEW size \in Nat \ {0},
           Len(p) = LastOf(size) \div SectorsPerCluster + 1
    PROVE  Fits(p, size)
<1> DEFINE y == size - 1
           q == y \div ClusterBytes
           qb == q * ClusterBytes
           g == q + 1
           gb == g * ClusterBytes
           r == y % ClusterBytes
<1>1. y \in Nat /\ ClusterBytes \in Nat \ {0} /\ LastOf(size) = y \div SectorBytes
  BY Sizes DEF LastOf
<1>2. size = y + 1
  OBVIOUS
<1> HIDE DEF y
<1>3. q = (y \div SectorBytes) \div SectorsPerCluster
  BY <1>1, InSectors
<1>4. y \in Int
  BY <1>1
<1>5. y = qb + r /\ r \in 0 .. ClusterBytes - 1 /\ q \in Int
  BY <1>1, <1>4, Divide
<1>6. Len(p) = g
  BY <1>1, <1>3
<1>7. qb \in Int /\ gb = qb + ClusterBytes /\ Len(p) - 1 = q
  BY <1>1, <1>5, <1>6
<1> HIDE DEF q, r, g
<1>8. qb < size /\ size <= gb
  <2> HIDE DEF qb, gb
  <2> QED BY <1>1, <1>2, <1>5, <1>7
<1> QED BY <1>6, <1>7, <1>8 DEF Fits

-------------------------------------------------------------------------------
\* Behind the last byte of sector i, with the handle still in it.
LEMMA BehindSector ==
    ASSUME SectorsPerCluster > 1, NEW i \in Nat, NEW p, Len(p) \in Nat, NEW h, AtSector(h, p, i),
           h.pos = (i + 1) * SectorBytes, h.pos <= h.size
    PROVE  StaleHandle(p, h)
<1> DEFINE s == SectorsPerCluster
           g == i + 1
           pos == h.pos
           a == i \div s
           c == pos \div ClusterBytes
           r == pos % ClusterBytes
           u == i % s
<1>1. SectorBytes \in Nat \ {0} /\ s \in Nat \ {0} /\ g \in Nat \ {0}
  BY Sizes
<1>2. pos \in Nat \ {0} /\ pos \div SectorBytes = g /\ pos % SectorBytes = 0
  <2>1. pos = g * SectorBytes
    OBVIOUS
  <2> HIDE DEF g, pos
  <2> QED BY <1>1, <2>1, BeginOf
<1>3. a < Len(p) /\ h.cur = p[1 + a] /\ h.up = u
  BY DEF AtSector
<1>4. /\ u \in 0 .. s - 1 /\ a \in Nat
      /\ IF u + 1 = s THEN g \div s = a + 1 /\ g % s = 0
         ELSE g \div s = a /\ g % s = u + 1
  BY NextSector
<1>5. c = g \div s /\ r = (g % s) * SectorBytes + 0
  <2>1. pos \in Nat
    BY <1>2
  <2> HIDE DEF pos, g
  <2>2. /\ pos \div ClusterBytes = (pos \div SectorBytes) \div SectorsPerCluster
        /\ pos % ClusterBytes = ((pos \div SectorBytes) % SectorsPerCluster) * SectorBytes + (pos % SectorBytes)
    BY <2>1, InSectors
  <2> QED BY <1>2, <2>2
<1>6. Old(h) = a
  <2>1. Old(h) = c - (IF r = 0 /\ h.pos # 0 /\ h.up # 0 THEN 1 ELSE 0)
    BY Zenon DEF Old
  <2>2. CASE u + 1 = s
    <3>1. c = a + 1 /\ r = 0
      <4>1. 0 * SectorBytes + 0 = 0
        BY <1>1
      <4> QED BY <1>4, <1>5, <2>2, <4>1
    <3>2. h.up # 0
      <4> HIDE DEF u
      <4> QED BY <1>1, <1>3, <1>4, <2>2
    <3>3. Old(h) = c - 1
      BY <1>2, <2>1, <3>1, <3>2
    <3> HIDE DEF a, c
    <3> QED BY <1>4, <3>1, <3>3
  <2>3. CASE u + 1 # s
    <3>1. c = a /\ r = (u + 1) * SectorBytes + 0
      BY <1>4, <1>5, <2>3
    <3> DEFINE v == u + 1
    <3>2. v \in Nat \ {0}
      <4> HIDE DEF u
      <4> QED BY <1>4
    <3> HIDE DEF v
    <3>3. v * SectorBytes + 0 # 0
      <4>1. v * SectorBytes \in Nat \ {0}
        BY <1>1, <3>2
      <4> QED BY <4>1
    <3>4. r # 0
      BY <3>1, <3>3 DEF v
    <3>5. Old(h) = c - 0
      BY <2>1, <3>4
    <3> HIDE DEF a, c
    <3> QED BY <1>4, <3>1, <3>5
  <2> QED BY <2>2, <2>3
<1>7. Old(h) \in 0 .. Len(p) - 1 /\ h.cur = p[1 + Old(h)]
  <2> HIDE DEF a
  <2> QED BY <1>3, <1>4, <1>6
<1>8. h.up \in 0 .. SectorsPerCluster
  <2> HIDE DEF u
  <2> QED BY <1>1, <1>3, <1>4
<1> QED BY <1>2, <1>7, <1>8 DEF StaleHandle

\* After a write the handle is placed, but for the writes StaleAfterWrite names.
LEMMA HandleEnds ==
    ASSUME SectorsPerCluster > 1, NEW p, Len(p) \in Nat, NEW h, NEW i \in Nat, NEW j \in Nat,
           AtSector(h, p, i), NEW size \in Nat, NEW pos \in Nat, Stop(size, pos, j, i),
           h.pos = pos, h.size = IF size >= pos THEN size ELSE pos, h.next = 0,
           NEW old, pos < size => j = old.pos \div SectorBytes
    PROVE  IF StaleAfterWrite(old, h) THEN StaleHandle(p, h) ELSE PlacedHandle(p, h)
<1> DEFINE ib == i * SectorBytes
<1>0. SectorBytes \in Nat \ {0} /\ ib \in Nat
  BY Sizes
<1>1. ASSUME Place(h) = i PROVE PlacedHandle(p, h)
  <2>1. ~(h.pos > h.size) /\ h.next = 0
    OBVIOUS
  <2> QED BY <1>1, <2>1 DEF PlacedHandle
<1>2. CASE ib < pos /\ pos <= ib + SectorBytes /\ ~(pos < size)
  <2>1. h.size = pos /\ ~(h.pos < h.size)
    BY <1>2
  <2>2. (pos - 1) \div SectorBytes = i
    BY <1>2, InSector
  <2>3. Place(h) = i
    BY <2>1, <2>2 DEF Place
  <2>4. ~StaleAfterWrite(old, h)
    BY <2>1 DEF StaleAfterWrite
  <2> QED BY <1>1, <2>3, <2>4
<1>3. CASE ib < pos /\ pos < ib + SectorBytes /\ pos < size
  <2>1. pos \div SectorBytes = i /\ pos % SectorBytes # 0
    BY <1>3, InsideOf
  <2>2. Place(h) = i
    BY <1>3, <2>1 DEF Place
  <2>3. ~StaleAfterWrite(old, h)
    BY <2>1 DEF StaleAfterWrite
  <2> QED BY <1>1, <2>2, <2>3
<1>4. CASE pos = ib + SectorBytes /\ pos < size /\ i = j
  <2> DEFINE g == i + 1
  <2>1. pos = g * SectorBytes /\ g \in Nat \ {0} /\ g - 1 = i
    BY <1>0, <1>4
  <2>2. pos % SectorBytes = 0 /\ (pos - 1) \div SectorBytes = i
    <3> HIDE DEF g
    <3> QED BY <2>1, BeginOf
  <2>3. StaleAfterWrite(old, h)
    BY <1>4, <2>2 DEF StaleAfterWrite
  <2>4. StaleHandle(p, h)
    <3>1. h.pos = (i + 1) * SectorBytes /\ h.pos <= h.size
      BY <1>4, <2>1
    <3> QED BY <3>1, BehindSector
  <2> QED BY <2>3, <2>4
<1>5. CASE pos = ib /\ pos < size /\ i > j + 1
  <2>1. i \in Nat \ {0}
    BY <1>5
  <2>2. pos \div SectorBytes = i /\ (pos - 1) \div SectorBytes = i - 1
    BY <1>5, <2>1, BeginOf
  <2>3. Place(h) = i
    BY <1>5, <2>2 DEF Place
  <2>4. i - 1 # j
    BY <1>5
  <2>5. ~StaleAfterWrite(old, h)
    BY <1>5, <2>2, <2>4 DEF StaleAfterWrite
  <2> QED BY <1>1, <2>3, <2>5
<1>6. \/ ib < pos /\ pos <= ib + SectorBytes /\ ~(pos < size)
      \/ ib < pos /\ pos < ib + SectorBytes /\ pos < size
      \/ pos = ib + SectorBytes /\ pos < size /\ i = j
      \/ pos = ib /\ pos < size /\ i > j + 1
  <2>1. \/ ib < pos /\ pos <= ib + SectorBytes /\ (pos = ib + SectorBytes /\ pos < size => i = j)
        \/ pos = ib /\ pos < size /\ i > j + 1
    BY DEF Stop
  <2> HIDE DEF ib
  <2> QED BY <1>0, <2>1
<1> QED BY <1>2, <1>3, <1>4, <1>5, <1>6

-------------------------------------------------------------------------------
\* A call on the file x.f ends well, with k for its handle.
Finished(x, w, k) ==
    /\ Safe(x, w)
    /\ ~w.panic => \E p : /\ Owns(x, Disk(w), p) /\ StartsAt(p, Disk(w).dir[x.f].start)
                          /\ Fits(p, Disk(w).dir[x.f].size)
                          /\ Disk(w).dir[x.f] # NoEntry /\ HandleAt(Disk(w), x.f, p, k)

\* The last step of a write, when the volume is full.
LEMMA PanicSize ==
    ASSUME NEW x, NEW n, Safe(x, n), n.panic, NEW size \in Nat, NEW done
    PROVE  LET w == WriteSize(n, x.f, size, done)
           IN  Safe(x, w) /\ w.panic
<1> DEFINE e == [n EXCEPT !.h.size = size, !.result = Done(done)]
           r == Done(done)
           g == [n EXCEPT !.h.size = size, !.result = r]
           w == WriteSize(n, x.f, size, done)
<1>1. Whole(n)
  BY SafeDisk
<1> HIDE DEF r
<1>2. SameDisk(n, g) /\ g.panic = n.panic
  BY <1>1, FieldChanges DEF Whole, Fields
<1>3. e = g
  BY Zenon DEF r
<1> HIDE DEF e, g
<1>4. Safe(x, e) /\ e.panic
  BY <1>2, <1>3, SafeSame
<1>5. w = e
  BY <1>4, Zenon DEF WriteSize, WriteDir, fatWriteLogical, e
<1> HIDE DEF w
<1>6. Safe(x, w) /\ w.panic
  BY <1>4, <1>5
<1> QED BY <1>6 DEF w

\* The size of the entry and of the handle.
LEMMA SizePut ==
    ASSUME NEW x, Context(x), NEW n, Safe(x, n), ~n.panic, NEW size \in Nat \ {0}, size <= MaxSize, NEW done
    PROVE  LET w == WriteSize(n, x.f, size, done)
           IN  /\ Safe(x, w) /\ ~w.panic /\ Links(Disk(w)) = Links(Disk(n)) /\ Disk(w).info = Disk(n).info
               /\ Disk(w).dir[x.f].start = Disk(n).dir[x.f].start /\ Disk(w).dir[x.f].size = size
               /\ Disk(w).dir[x.f] # NoEntry
               /\ w.h.start = n.h.start /\ w.h.size = size /\ w.h.pos = n.h.pos /\ w.h.cur = n.h.cur
               /\ w.h.up = n.h.up /\ w.h.next = n.h.next /\ w.h.stale = n.h.stale
<1> DEFINE r == Done(done)
           g == [n EXCEPT !.h.size = size, !.result = r]
           d == Disk(n)
           o == d.dir[x.f]
           e == [o EXCEPT !.size = size]
           w == WriteSize(n, x.f, size, done)
           v == WriteDir(g, x.f, e)
<1>1. Whole(n) /\ Keeps(x, d) /\ x.f \in File
  BY SafeDisk DEF Context
<1>2. w = v
  BY Zenon DEF WriteSize
<1> HIDE DEF r
<1>3. SameDisk(n, g) /\ g.panic = n.panic /\ g.h = [n.h EXCEPT !.size = size]
  BY <1>1, FieldChanges DEF Whole, Fields
<1> HIDE DEF g
<1>4. Safe(x, g) /\ Disk(g) = d
  BY <1>3, SafeSame
<1>5. /\ g.h.start = n.h.start /\ g.h.size = size /\ g.h.pos = n.h.pos /\ g.h.cur = n.h.cur
      /\ g.h.up = n.h.up /\ g.h.next = n.h.next /\ g.h.stale = n.h.stale
  BY <1>1, <1>3 DEF Whole, HandleFields
<1>6. o = [start |-> o.start, size |-> o.size] /\ o.size \in Nat /\ o.start \in -1 .. NumClusters - 1
  <2>1. DiskFields(d) /\ d.dir[x.f].start \in -1 .. NumClusters - 1
    BY <1>1 DEF Keeps
  <2> HIDE DEF d
  <2> QED BY <1>1, <2>1, EntryFields
<1> HIDE DEF o
<1>7. e = [start |-> e.start, size |-> e.size] /\ e.start = o.start /\ e.size = size
  <2>1. LET y == [o EXCEPT !.size = size]
        IN  y = [start |-> y.start, size |-> y.size] /\ y.size = size /\ y.start = o.start
    BY <1>6, EntryChanges
  <2> QED BY <2>1, Zenon
<1> HIDE DEF e
<1>8. e.start \in -1 .. NumClusters - 1 /\ e.size \in 0 .. MaxSize
  <2>1. size \in 0 .. MaxSize
    BY FileAssumption
  <2> QED BY <1>6, <1>7, <2>1
<1> HIDE DEF v
<1>9. /\ Safe(x, v) /\ Wrote(g, v)
      /\ Links(Disk(v)) = Links(Disk(g)) /\ Disk(v).info = Disk(g).info
      /\ ~g.panic => Disk(v).dir[x.f] = e
  BY <1>4, <1>7, <1>8, DirWritten DEF v
<1>10. e # NoEntry
  <2>1. NoEntry.size = 0
    BY DEF NoEntry
  <2> QED BY <1>7, <2>1
<1> HIDE DEF w
<1>11. /\ Safe(x, w) /\ ~w.panic /\ Links(Disk(w)) = Links(d) /\ Disk(w).info = d.info
       /\ Disk(w).dir[x.f].start = o.start /\ Disk(w).dir[x.f].size = size
       /\ Disk(w).dir[x.f] # NoEntry /\ w.h = g.h
  BY <1>2, <1>3, <1>4, <1>7, <1>9, <1>10 DEF Wrote
<1>12. /\ w.h.start = n.h.start /\ w.h.size = size /\ w.h.pos = n.h.pos /\ w.h.cur = n.h.cur
       /\ w.h.up = n.h.up /\ w.h.next = n.h.next /\ w.h.stale = n.h.stale
  BY <1>5, <1>11
<1> QED BY <1>11, <1>12 DEF w, d, o

\* The handle of a write that ends, with what the model notes of it.
LEMMA NotedHandle ==
    ASSUME SectorsPerCluster > 1, NEW d, NEW f, NEW p, Len(p) \in Nat, NEW h, HandleFields(h),
           NEW i \in Nat, NEW j \in Nat,
           AtSector(h, p, i), NEW size \in Nat, NEW pos \in Nat, Stop(size, pos, j, i),
           h.pos = pos, h.size = IF size >= pos THEN size ELSE pos, h.size # 0, h.next = 0,
           h.start = p[1], d.dir[f].size = h.size,
           NEW old, ~old.stale, pos < size => j = old.pos \div SectorBytes
    PROVE  HandleAt(d, f, p, [h EXCEPT !.stale = old.stale \/ StaleAfterWrite(old, h)])
<1> DEFINE stale == old.stale \/ StaleAfterWrite(old, h)
           k == [h EXCEPT !.stale = stale]
<1>0. stale <=> StaleAfterWrite(old, h)
  OBVIOUS
<1> HIDE DEF stale
<1>1. /\ k.start = h.start /\ k.size = h.size /\ k.pos = h.pos /\ k.cur = h.cur
      /\ k.up = h.up /\ k.next = h.next /\ k.stale = stale
  BY StaleSet
<1> HIDE DEF k
<1>2. IF StaleAfterWrite(old, h) THEN StaleHandle(p, h) ELSE PlacedHandle(p, h)
  BY HandleEnds
<1>3. Place(k) = Place(h) /\ Old(k) = Old(h)
  BY <1>1, Zenon DEF Place, Old
<1>4. IF k.stale THEN StaleHandle(p, k) ELSE PlacedHandle(p, k)
  <2>1. CASE StaleAfterWrite(old, h)
    <3>1. StaleHandle(p, k)
      BY <1>1, <1>2, <1>3, <2>1 DEF StaleHandle
    <3>2. k.stale
      BY <1>0, <1>1, <2>1
    <3> QED BY <3>1, <3>2
  <2>2. CASE ~StaleAfterWrite(old, h)
    <3>1. PlacedHandle(p, k)
      BY <1>1, <1>2, <1>3, <2>2 DEF PlacedHandle, AtSector
    <3>2. ~k.stale
      BY <1>0, <1>1, <2>2
    <3> QED BY <3>1, <3>2
  <2> QED BY <2>1, <2>2
<1>5. \E b \in 1 .. Len(p) : k.cur = p[b]
  <2> DEFINE a == i \div SectorsPerCluster
  <2>1. a \in Nat
    BY Sizes, DivNat
  <2>2. a < Len(p) /\ k.cur = p[1 + a]
    BY <1>1 DEF AtSector
  <2> HIDE DEF a
  <2>3. 1 + a \in 1 .. Len(p)
    BY <2>1, <2>2
  <2> QED BY <2>2, <2>3
<1>6. FullHandle(d, p, k)
  BY <1>1, <1>4, <1>5 DEF FullHandle
<1>7. HandleAt(d, f, p, k)
  BY <1>1, <1>6 DEF HandleAt
<1> QED BY <1>7 DEF k, stale

-------------------------------------------------------------------------------
\* The larger of two sizes is one.
LEMMA MaxNat ==
    ASSUME NEW a \in Nat, NEW b \in Int
    PROVE  Max({a, b}) \in Nat
<1>1. a \in Int /\ b \in Int
  OBVIOUS
<1>2. Max({a, b}) = IF a >= b THEN a ELSE b
  BY <1>1, MaxOfTwo
<1> QED BY <1>2

\* When the size is in the directory entry, a handle is at its position, or it is stale and noted
\* as such: a write that ends with a sector leaves it in the cluster behind.
LEMMA LandedEnds ==
    ASSUME SectorsPerCluster > 1, NEW x, Context(x), NEW n, ~n.panic, NEW size \in Nat, size <= MaxSize,
           NEW pos \in Nat, pos <= MaxSize, NEW j \in Nat, Landed(x, size, pos, j, n),
           NEW old, ~old.stale, pos < size => j = old.pos \div SectorBytes, NEW done
    PROVE  LET w == WriteSize(n, x.f, Max({n.h.size, n.h.pos}), done)
           IN  Finished(x, w, [w.h EXCEPT !.stale = old.stale \/ StaleAfterWrite(old, w.h)])
<1> DEFINE new == IF size >= pos THEN size ELSE pos
           max == Max({n.h.size, n.h.pos})
           w == WriteSize(n, x.f, new, done)
           v == WriteSize(n, x.f, max, done)
           h == w.h
           k == [h EXCEPT !.stale = old.stale \/ StaleAfterWrite(old, h)]
           d == Disk(w)
<1>1. n.h.size = size /\ n.h.pos = pos /\ \E p, i : Going(x, n, p, i) /\ Stop(size, pos, j, i)
  BY DEF Landed
<1>2. PICK p, i : Going(x, n, p, i) /\ Stop(size, pos, j, i)
  BY <1>1
<1>3. max = new
  <2>1. Max({size, pos}) = new
    BY MaxOfTwo
  <2> QED BY <1>1, <2>1
<1>4. i \in Nat /\ AtSector(n.h, p, i) /\ Safe(x, n)
  BY <1>2 DEF Going, AtSector
<1>5. new \in Nat \ {0} /\ LastOf(new) = Reach(size, i)
  BY <1>2, <1>4, NewLast
<1>6. new <= MaxSize
  OBVIOUS
<1> HIDE DEF new, max
<1>7. /\ Safe(x, w) /\ ~w.panic /\ Links(Disk(w)) = Links(Disk(n)) /\ Disk(w).info = Disk(n).info
      /\ Disk(w).dir[x.f].start = Disk(n).dir[x.f].start /\ Disk(w).dir[x.f].size = new
      /\ Disk(w).dir[x.f] # NoEntry
      /\ w.h.start = n.h.start /\ w.h.size = new /\ w.h.pos = n.h.pos /\ w.h.cur = n.h.cur
      /\ w.h.up = n.h.up /\ w.h.next = n.h.next /\ w.h.stale = n.h.stale
  BY <1>4, <1>5, <1>6, SizePut
<1>8. v = w
  BY <1>3
<1> HIDE DEF w, v
<1>9. HandleFields(h)
  BY <1>7, SafeDisk DEF Whole
<1>10. /\ Owns(x, Disk(n), p) /\ StartsAt(p, Disk(n).dir[x.f].start)
       /\ Len(p) = Reach(n.h.size, i) \div SectorsPerCluster + 1
       /\ n.h.start = p[1] /\ n.h.next = 0
  BY <1>2 DEF Going
<1>11. Owns(x, d, p)
  BY <1>7, <1>10, OwnsSame
<1>12. StartsAt(p, d.dir[x.f].start)
  BY <1>7, <1>10
<1>13. p \in Seq(Cluster) /\ Len(p) \in Nat
  BY <1>10 DEF Owns, IsPath
<1>14. Fits(p, d.dir[x.f].size)
  <2>1. Len(p) = LastOf(new) \div SectorsPerCluster + 1
    BY <1>1, <1>5, <1>10
  <2>2. Fits(p, new)
    BY <1>5, <1>13, <2>1, ReachFits
  <2> QED BY <1>7, <2>2
<1>15. AtSector(h, p, i)
  BY <1>4, <1>7 DEF AtSector
<1>16. /\ h.pos = pos /\ h.size = (IF size >= pos THEN size ELSE pos) /\ h.size # 0 /\ h.next = 0
       /\ h.start = p[1] /\ d.dir[x.f].size = h.size
  BY <1>1, <1>5, <1>7, <1>10 DEF new
<1> HIDE DEF h, d
<1>17. HandleAt(d, x.f, p, k)
  BY <1>2, <1>4, <1>9, <1>13, <1>15, <1>16, NotedHandle
<1>18. d.dir[x.f] # NoEntry
  BY <1>7 DEF d
<1> HIDE DEF k
<1>19. Finished(x, w, k)
  BY <1>7, <1>11, <1>12, <1>14, <1>17, <1>18 DEF Finished, d
<1> QED BY <1>8, <1>19, Zenon DEF k, h, v, max

\* The rest of a write, from the handle the call began with.
LEMMA WriteStartedIs ==
    ASSUME SectorsPerCluster > 1, NEW x, Context(x), NEW m, NEW n, Begun(x, m, n), m.result = Done(0),
           m.h.pos \in Nat, m.h.size <= MaxSize, NEW data \in Seq(Int), data # <<>>,
           m.h.pos + Len(data) <= MaxSize,
           m.h.pos > m.h.size /\ m.h.size # 0 => m.h.size % SectorBytes # 0,
           NEW old, ~old.stale, old.pos = m.h.pos
    PROVE  LET w == WriteStarted(n, x.f, data)
           IN  Finished(x, w, [w.h EXCEPT !.stale = old.stale \/ StaleAfterWrite(old, w.h)])
<1> DEFINE e == Extend(n)
           g == WriteData(e, data)
           w == WriteStarted(n, x.f, data)
           z == WriteSize(g, x.f, Max({g.h.size, g.h.pos}), Len(data))
           k == [w.h EXCEPT !.stale = old.stale \/ StaleAfterWrite(old, w.h)]
           len == Len(data)
           end == m.h.pos + len
<1>1. PICK p : Going(x, n, p, StartPlace(m.h))
  BY DEF Begun
<1>2. n.result = Done(0) /\ n.h.pos = m.h.pos /\ n.h.size = m.h.size
  BY DEF Begun
<1>3. w = z
  <2>1. n.result # Failed
    <3>1. Done(0) # Failed
      BY DEF Done, Failed
    <3> QED BY <1>2, <3>1
  <2> QED BY <2>1, Zenon DEF WriteStarted
<1>4. len \in Nat \ {0} /\ end \in Nat /\ end <= MaxSize /\ m.h.pos < end /\ n.h.pos <= MaxSize
      /\ MaxSize \in Nat
  <2>1. len \in Nat \ {0} /\ MaxSize \in Nat
    BY FileAssumption
  <2> HIDE DEF len
  <2>2. end <= MaxSize
    BY DEF len
  <2> QED BY <1>2, <2>1, <2>2
<1>5. Safe(x, e) /\ e.h.pos = n.h.pos /\ (e.panic \/ \E q, i : Ready(x, e, q, i))
  <2> DEFINE j == StartPlace(m.h)
  <2>1. j = IF n.h.pos < n.h.size THEN n.h.pos \div SectorBytes ELSE LastOf(n.h.size)
    BY <1>2 DEF StartPlace
  <2>2. /\ n.h.pos \in Nat /\ n.h.pos <= MaxSize /\ n.h.size <= MaxSize
        /\ (n.h.pos > n.h.size /\ n.h.size # 0 => n.h.size % SectorBytes # 0)
        /\ Going(x, n, p, j)
    BY <1>1, <1>2, <1>4
  <2> HIDE DEF j, e
  <2>3. LET y == Extend(n)
        IN  Safe(x, y) /\ y.h.pos = n.h.pos /\ (y.panic \/ \E q, i : Ready(x, y, q, i))
    BY <2>1, <2>2, ExtendIs
  <2> QED BY <2>3, Zenon DEF e
<1> HIDE DEF e, w
<1>6. CASE e.panic
  <2>1. FirstBytes(e.h) \in 0 .. SectorBytes
    <3>1. e.h.pos \in Int
      BY <1>2, <1>5
    <3> QED BY <3>1, FirstBytesRange
  <2>2. Safe(x, g) /\ g.panic
    BY <1>5, <1>6, <2>1, PanicData
  <2> HIDE DEF g
  <2>3. Max({g.h.size, g.h.pos}) \in Nat
    <3> DEFINE a == g.h.size
               b == g.h.pos
    <3>1. a \in Nat /\ b \in Int
      BY <2>2, SafeDisk DEF Whole, HandleFields
    <3> HIDE DEF a, b
    <3>2. Max({a, b}) \in Nat
      BY <3>1, MaxNat
    <3> QED BY <3>2 DEF a, b
  <2> DEFINE max == Max({g.h.size, g.h.pos})
             y == WriteSize(g, x.f, max, len)
  <2>4. y = z
    OBVIOUS
  <2> HIDE DEF max, len
  <2>5. Safe(x, y) /\ y.panic
    BY <2>2, <2>3, PanicSize DEF max
  <2> HIDE DEF y, z, k
  <2>6. Finished(x, w, k)
    BY <1>3, <2>4, <2>5 DEF Finished
  <2> QED BY <2>6 DEF k, w
<1>7. CASE ~e.panic
  <2>1. PICK q, j : Ready(x, e, q, j)
    BY <1>5, <1>7
  <2> DEFINE size == e.h.size
  <2>2. Landed(x, size, e.h.pos + Len(data), j, g)
    BY <2>1, WriteDataIs
  <2>3. e.h.pos + Len(data) = end
    BY <1>2, <1>5
  <2>4. j \in Nat /\ size <= MaxSize /\ size \in Nat
    <3>1. j \in Nat
      BY <2>1, FirstSectorIs
    <3>2. size \in Nat
      BY <1>5, SafeDisk DEF Whole, HandleFields
    <3> QED BY <2>1, <3>1, <3>2 DEF Ready
  <2>5. end < size => j = old.pos \div SectorBytes
    <3>1. ASSUME end < size PROVE j = old.pos \div SectorBytes
      <4>1. e.h.pos < e.h.size
        <5>1. e.h.pos = m.h.pos
          BY <1>2, <1>5
        <5> HIDE DEF end
        <5> QED BY <1>4, <2>4, <3>1, <5>1
      <4>2. j = e.h.pos \div SectorBytes
        BY <2>1, <4>1 DEF Ready
      <4> QED BY <1>2, <1>5, <4>2
    <3> QED BY <3>1
  <2> HIDE DEF g, size, end
  <2>6. Landed(x, size, end, j, g)
    BY <2>2, <2>3
  <2>7. CASE g.panic
    <3>1. Safe(x, g)
      BY <2>6 DEF Landed
    <3>2. Max({g.h.size, g.h.pos}) \in Nat
      <4> DEFINE a == g.h.size
                 b == g.h.pos
      <4>1. a \in Nat /\ b \in Int
        BY <3>1, SafeDisk DEF Whole, HandleFields
      <4> HIDE DEF a, b
      <4>2. Max({a, b}) \in Nat
        BY <4>1, MaxNat
      <4> QED BY <4>2 DEF a, b
    <3> DEFINE max == Max({g.h.size, g.h.pos})
               y == WriteSize(g, x.f, max, len)
    <3>3. y = z
      OBVIOUS
    <3> HIDE DEF max, len
    <3>4. Safe(x, y) /\ y.panic
      BY <2>7, <3>1, <3>2, PanicSize DEF max
    <3> HIDE DEF y, z, k
    <3>5. Finished(x, w, k)
      BY <1>3, <3>3, <3>4 DEF Finished
    <3> QED BY <3>5 DEF k, w
  <2>8. CASE ~g.panic
    <3>1. LET y == WriteSize(g, x.f, Max({g.h.size, g.h.pos}), len)
          IN  Finished(x, y, [y.h EXCEPT !.stale = old.stale \/ StaleAfterWrite(old, y.h)])
      <4> HIDE DEF len
      <4> QED BY <1>4, <2>4, <2>5, <2>6, <2>8, LandedEnds
    <3>2. Finished(x, w, k)
      BY <1>3, <3>1, Zenon
    <3> QED BY <3>2, Zenon DEF k, w
  <2> QED BY <2>7, <2>8
<1> QED BY <1>6, <1>7

-------------------------------------------------------------------------------
\* Nothing written is no stale handle.
LEMMA NotStale ==
    ASSUME NEW h, h.pos \in Nat
    PROVE  ~StaleAfterWrite(h, h)
<1> SUFFICES ASSUME h.pos % SectorBytes = 0 PROVE h.pos \div SectorBytes # (h.pos - 1) \div SectorBytes
  BY DEF StaleAfterWrite
<1> DEFINE pos == h.pos
           a == pos \div SectorBytes
           g == a - 1
           e == SectorBytes - 1
           ab == a * SectorBytes
           gb == g * SectorBytes
<1>1. SectorBytes \in Nat \ {0} /\ pos \in Int
  BY Sizes
<1> HIDE DEF pos
<1>2. pos = ab + (pos % SectorBytes) /\ a \in Int
  BY <1>1, Divide
<1>3. pos % SectorBytes = 0
  BY DEF pos
<1>4. gb = ab - SectorBytes /\ ab \in Int /\ gb \in Int /\ g \in Int /\ e \in 0 .. SectorBytes - 1
  BY <1>1, <1>2
<1>5. pos - 1 = gb + e
  <2> HIDE DEF ab, gb
  <2> QED BY <1>1, <1>2, <1>3, <1>4
<1>6. (g * SectorBytes + e) \div SectorBytes = g
  <2> HIDE DEF g, e
  <2> QED BY <1>1, <1>4, Quotient
<1>7. (pos - 1) \div SectorBytes = g
  <2> HIDE DEF g, e
  <2> QED BY <1>5, <1>6
<1>8. a # g
  <2> HIDE DEF a
  <2> QED BY <1>2
<1> QED BY <1>7, <1>8 DEF pos

\* The handle with nextCluster forgotten.
Forgetting(m) == [m EXCEPT !.h.next = 0]

\* The cached next cluster is forgotten at the end of the file.
LEMMA ForgettingIs ==
    ASSUME NEW x, NEW m, Safe(x, m)
    PROVE  LET n == Forgetting(m)
           IN  /\ Safe(x, n) /\ Disk(n) = Disk(m) /\ n.panic = m.panic /\ n.result = m.result
               /\ AllButNext(m.h, n.h) /\ n.h.next = 0
<1> DEFINE n == [m EXCEPT !.h.next = 0]
<1>1. Whole(m)
  BY SafeDisk
<1>2. SameDisk(m, n) /\ n.panic = m.panic /\ n.result = m.result /\ n.h = [m.h EXCEPT !.next = 0]
  BY <1>1, FieldChange DEF Whole, Fields
<1> HIDE DEF n
<1>3. Safe(x, n) /\ Disk(n) = Disk(m)
  BY <1>2, SafeSame
<1>4. AllButNext(m.h, n.h) /\ n.h.next = 0
  BY <1>1, <1>2 DEF Whole, HandleFields, AllButNext
<1>5. Forgetting(m) = n
  BY Zenon DEF Forgetting, n
<1> QED BY <1>2, <1>3, <1>4, <1>5

\* How a write of some bytes ends.
LEMMA WriteIs ==
    ASSUME SectorsPerCluster > 1, NEW x, Context(x), NEW m, Safe(x, m), ~m.panic, m.result = Done(0),
           NEW p, Owns(x, Disk(m), p), FileAt(Disk(m), x.f, p), HandleAt(Disk(m), x.f, p, m.h),
           ~m.h.stale, NEW data \in Seq(Int), data # <<>>, m.h.pos + Len(data) <= MaxSize
    PROVE  LET w == fatWriteFile(m, x.f, data)
           IN  \/ w = [Forgetting(m) EXCEPT !.result = Failed] /\ m.h.size = 0
               \/ Finished(x, w, [w.h EXCEPT !.stale = m.h.stale \/ StaleAfterWrite(m.h, w.h)])
<1> DEFINE h == m.h
           g == Forgetting(m)
           n == StartFile(g, x.f)
           w == fatWriteFile(m, x.f, data)
           k == [w.h EXCEPT !.stale = h.stale \/ StaleAfterWrite(h, w.h)]
           fails == [g EXCEPT !.result = Failed]
<1>1. w = WriteStarted(n, x.f, data)
  BY Zenon DEF fatWriteFile, Forgetting
<1>2. /\ Safe(x, g) /\ Disk(g) = Disk(m) /\ ~g.panic /\ g.result = Done(0)
      /\ AllButNext(h, g.h) /\ g.h.next = 0
  BY ForgettingIs
<1>3. Keeps(x, Disk(m)) /\ Disk(m).type = x.d.type /\ Whole(m) /\ x.f \in File
  BY SafeDisk DEF Keeps, Context
<1>4. h.pos \in Nat /\ h.size = Disk(m).dir[x.f].size /\ h.size <= MaxSize /\ h.size \in Nat
  <2>1. Disk(m).dir[x.f].size \in 0 .. MaxSize
    BY <1>3 DEF Keeps
  <2>2. h.pos \in Nat /\ h.size = Disk(m).dir[x.f].size
    BY DEF HandleAt
  <2> HIDE DEF h
  <2> QED BY <2>1, <2>2, FileAssumption
<1>5. StartsAt(p, Disk(g).dir[x.f].start) /\ Fits(p, g.h.size) /\ Owns(x, Disk(g), p)
  BY <1>2, <1>4 DEF FileAt, AllButNext
<1> HIDE DEF g, h
<1>6. g.h.size = h.size /\ g.h.pos = h.pos /\ g.h.start = h.start /\ ~g.h.stale
  BY <1>2 DEF AllButNext, h
<1>7. (n = fails /\ h.size = 0) \/ (Begun(x, g, n) /\ (h.pos > h.size /\ h.size # 0 => h.size % SectorBytes # 0))
  <2>1. CASE h.size = 0
    <3>1. EmptyHandle(Disk(m), h)
      BY <2>1 DEF HandleAt, h
    <3>2. g.h.start \in {0, EmptyStart(x.d.type)}
      BY <1>3, <1>6, <3>1 DEF EmptyHandle
    <3>3. p = <<>>
      BY <1>5, <1>6, <2>1 DEF Fits
    <3>4. Owns(x, Disk(g), <<>>)
      BY <1>5, <3>3
    <3>5. n = fails \/ Begun(x, g, n)
      BY <1>2, <1>4, <1>6, <2>1, <3>2, <3>4, StartEmpty
    <3> QED BY <2>1, <3>5
  <2>2. CASE h.size # 0
    <3>1. FullHandle(Disk(m), p, h)
      BY <2>2 DEF HandleAt, h
    <3>2. PlacedHandle(p, h) /\ h.start = p[1]
      BY <3>1 DEF FullHandle, h
    <3>3. Place(g.h) = Place(h)
      BY <1>6, Zenon DEF Place
    <3>4. PlacedHandle(p, g.h)
      BY <1>2, <3>2, <3>3 DEF PlacedHandle, AtSector, AllButNext, h
    <3>5. Begun(x, g, n)
      BY <1>2, <1>4, <1>5, <1>6, <2>2, <3>2, <3>4, StartFull
    <3>6. h.pos > h.size => h.size % SectorBytes # 0
      BY <3>2 DEF PlacedHandle
    <3> QED BY <3>5, <3>6
  <2> QED BY <2>1, <2>2
<1> HIDE DEF n
<1>8. CASE n = fails /\ h.size = 0
  <2>1. fails.result = Failed
    BY <1>2, SafeDisk DEF Whole, Fields
  <2>2. n.result = Failed
    BY <1>8, <2>1
  <2> HIDE DEF fails, w
  <2>3. w = n
    BY <1>1, <2>2, Zenon DEF WriteStarted
  <2>4. w = fails /\ h.size = 0
    BY <1>8, <2>3
  <2> QED BY <2>4, Zenon DEF fails, g, h, w
<1>9. CASE Begun(x, g, n) /\ (h.pos > h.size /\ h.size # 0 => h.size % SectorBytes # 0)
  <2>1. /\ g.h.pos \in Nat /\ g.h.size <= MaxSize /\ g.h.pos + Len(data) <= MaxSize
        /\ (g.h.pos > g.h.size /\ g.h.size # 0 => g.h.size % SectorBytes # 0)
        /\ h.pos = g.h.pos /\ ~h.stale
    BY <1>4, <1>6, <1>9 DEF h
  <2>2. LET y == WriteStarted(n, x.f, data)
        IN  Finished(x, y, [y.h EXCEPT !.stale = h.stale \/ StaleAfterWrite(h, y.h)])
    BY <1>2, <1>9, <2>1, WriteStartedIs
  <2> HIDE DEF w
  <2>3. Finished(x, w, k)
    BY <1>1, <2>2, Zenon
  <2> QED BY <2>3, Zenon DEF k, h, w
<1> QED BY <1>7, <1>8, <1>9

-------------------------------------------------------------------------------
\* The place of a handle is that of its position and size.
LEMMA SamePlace ==
    ASSUME NEW h, NEW k, k.pos = h.pos, k.size = h.size
    PROVE  Place(k) = Place(h)
BY Zenon DEF Place

\* A call that leaves the disk and the place of the handle alone.
LEMMA IdleWrite ==
    ASSUME ChainInv, NEW f \in Opened, ~handle[f].stale,
           NEW n, Safe(On(f), n), Disk(n) = disk, AllButNext(handle[f], n.h),
           n.h.next = handle[f].next \/ (handle[f].size = 0 /\ n.h.next = 0),
           NEW k, k = [n.h EXCEPT !.stale = handle[f].stale \/ StaleAfterWrite(handle[f], n.h)],
           Ends(n, f, With(f, k))
    PROVE  ChainInv'
<1> DEFINE h == handle[f]
           p == ChainIn(disk, f)
           stale == h.stale \/ StaleAfterWrite(h, n.h)
<1>1. f \in File \ damaged /\ HandleFields(h) /\ disk.dir[f] # NoEntry /\ HandleAt(disk, f, p, h)
  BY OpenedAre
<1>2. h.pos \in Nat
  BY <1>1 DEF HandleAt
<1>3. ~StaleAfterWrite(h, n.h)
  <2>1. ~StaleAfterWrite(h, h)
    BY <1>2, NotStale
  <2>2. n.h.pos = h.pos /\ n.h.size = h.size
    BY DEF AllButNext
  <2> QED BY <2>1, <2>2 DEF StaleAfterWrite
<1>4. ~stale
  BY <1>3
<1>5. HandleFields(n.h)
  BY SafeDisk DEF Whole
<1> HIDE DEF stale, h
<1>6. /\ k.start = h.start /\ k.size = h.size /\ k.pos = h.pos /\ k.cur = h.cur
      /\ k.up = h.up /\ k.next = n.h.next /\ k.stale = stale /\ HandleFields(k)
  <2>1. /\ k.start = n.h.start /\ k.size = n.h.size /\ k.pos = n.h.pos /\ k.cur = n.h.cur
        /\ k.up = n.h.up /\ k.next = n.h.next /\ k.stale = stale /\ HandleFields(k)
    <3>1. k = [n.h EXCEPT !.stale = stale]
      BY DEF stale, h
    <3> DEFINE y == n.h
               z == [y EXCEPT !.stale = stale]
    <3>2. HandleFields(y) /\ k = z
      BY <1>5, <3>1
    <3> HIDE DEF y
    <3>3. HandleFields(z)
      BY <3>2, StaleFields
    <3>4. /\ z.start = y.start /\ z.size = y.size /\ z.pos = y.pos /\ z.cur = y.cur
          /\ z.up = y.up /\ z.next = y.next /\ z.stale = stale
      BY <3>2, StaleSet
    <3> HIDE DEF z
    <3>5. /\ k.start = y.start /\ k.size = y.size /\ k.pos = y.pos /\ k.cur = y.cur
          /\ k.up = y.up /\ k.next = y.next /\ k.stale = stale /\ HandleFields(k)
      BY <3>2, <3>3, <3>4
    <3> QED BY <3>5 DEF y
  <2> QED BY <2>1 DEF AllButNext, h
<1>7. n.h.next = h.next \/ (h.size = 0 /\ n.h.next = 0)
  BY DEF h
<1>8. HandleAt(disk, f, p, k)
  <2>1. CASE h.size = 0
    <3>1. EmptyHandle(disk, h)
      BY <1>1, <2>1 DEF HandleAt
    <3>2. EmptyHandle(disk, k)
      BY <1>4, <1>6, <1>7, <3>1 DEF EmptyHandle
    <3> QED BY <1>1, <1>6, <2>1, <3>2 DEF HandleAt
  <2>2. CASE h.size # 0
    <3>1. FullHandle(disk, p, h) /\ k.next = h.next /\ ~h.stale
      BY <1>1, <1>6, <1>7, <2>2 DEF HandleAt, h
    <3>2. PlacedHandle(p, h)
      BY <3>1 DEF FullHandle
    <3>3. Place(k) = Place(h)
      <4>1. k.pos = h.pos /\ k.size = h.size
        BY <1>6
      <4> QED BY <4>1, SamePlace
    <3>4. PlacedHandle(p, k)
      BY <1>6, <3>1, <3>2, <3>3 DEF PlacedHandle, AtSector
    <3>5. FullHandle(disk, p, k)
      BY <1>4, <1>6, <3>1, <3>4 DEF FullHandle
    <3> QED BY <1>1, <1>6, <2>2, <3>5 DEF HandleAt
  <2> QED BY <2>1, <2>2
<1>9. \A g \in DOMAIN With(f, k) : HandleFields(With(f, k)[g])
  BY <1>6, WithFields DEF ChainInv
<1>10. HandlesAfter(f, disk, p, With(f, k))
  BY <1>1, <1>8, WithAfter
<1> QED BY <1>1, <1>9, <1>10, IdleInv DEF p

\* WriteFile keeps the invariant, for a careful caller.
LEMMA WriteChains ==
    ASSUME ChainInv, Careful, SectorsPerCluster > 1, NEW f \in File, NEW data \in Data[f], WriteFile(f, data)
    PROVE  ChainInv'
<1> DEFINE x == On(f)
           h == handle[f]
           m == Call(h)
           w == fatWriteFile(m, f, data)
           k == [w.h EXCEPT !.stale = h.stale \/ StaleAfterWrite(h, w.h)]
           p == ChainIn(disk, f)
<1>1. /\ f \in Opened /\ ~h.stale /\ h.pos + Len(data) <= MaxSize
      /\ Ends(w, f, With(f, k))
  BY Zenon DEF WriteFile
<1>2. f \in File \ damaged /\ HandleFields(h) /\ disk.dir[f] # NoEntry /\ HandleAt(disk, f, p, h)
  BY <1>1, OpenedAre
<1>3. data \in Seq(Int)
  BY FileAssumption
<1>4. Safe(x, m) /\ ~m.panic /\ m.h = h /\ Disk(m) = disk /\ m.bytes = <<>>
  BY <1>2, CallSafe
<1>5. m.result = Done(0)
  BY DEF Call
<1>6. Context(x) /\ Owns(x, disk, p) /\ FileAt(disk, f, p) /\ x.f = f
  BY <1>2, OnContext, OnFields
<1> HIDE DEF x, m, h, p
<1>7. CASE data = <<>>
  <2> DEFINE r == Done(0)
             e == [m EXCEPT !.result = r]
  <2>1. w = e
    BY <1>7, Zenon DEF fatWriteFile
  <2> HIDE DEF r
  <2>0. Whole(m)
    BY <1>4, SafeDisk
  <2>2. SameDisk(m, e) /\ e.h = m.h
    BY <2>0, FieldChange DEF Whole, Fields
  <2> HIDE DEF e, w
  <2>3. Safe(x, w) /\ Disk(w) = disk /\ w.h = h
    BY <1>4, <2>1, <2>2, SafeSame
  <2>4. AllButNext(h, w.h) /\ w.h.next = h.next
    BY <2>3 DEF AllButNext
  <2> HIDE DEF k
  <2>5. k = [w.h EXCEPT !.stale = h.stale \/ StaleAfterWrite(h, w.h)]
    BY DEF k
  <2>6. /\ f \in Opened /\ ~handle[f].stale /\ Safe(On(f), w) /\ Disk(w) = disk
        /\ AllButNext(handle[f], w.h)
        /\ w.h.next = handle[f].next \/ (handle[f].size = 0 /\ w.h.next = 0)
        /\ k = [w.h EXCEPT !.stale = handle[f].stale \/ StaleAfterWrite(handle[f], w.h)]
        /\ Ends(w, f, With(f, k))
    BY <1>1, <2>3, <2>4, <2>5 DEF x, h
  <2> QED BY <2>6, IdleWrite
<1>8. CASE data # <<>>
  <2>1. LET v == fatWriteFile(m, x.f, data)
        IN  \/ v = [Forgetting(m) EXCEPT !.result = Failed] /\ m.h.size = 0
            \/ Finished(x, v, [v.h EXCEPT !.stale = m.h.stale \/ StaleAfterWrite(m.h, v.h)])
    <3>1. /\ Owns(x, Disk(m), p) /\ FileAt(Disk(m), x.f, p) /\ HandleAt(Disk(m), x.f, p, m.h)
          /\ ~m.h.stale /\ m.h.pos + Len(data) <= MaxSize
      BY <1>1, <1>2, <1>4, <1>6
    <3> QED BY <1>3, <1>4, <1>5, <1>6, <1>8, <3>1, WriteIs
  <2>2. (w = [Forgetting(m) EXCEPT !.result = Failed] /\ h.size = 0) \/ Finished(x, w, k)
    BY <1>4, <1>6, <2>1, Zenon
  <2> HIDE DEF w
  <2>3. k = [w.h EXCEPT !.stale = h.stale \/ StaleAfterWrite(h, w.h)]
    OBVIOUS
  <2> HIDE DEF k
  <2>4. CASE w = [Forgetting(m) EXCEPT !.result = Failed] /\ h.size = 0
    <3> DEFINE g == Forgetting(m)
               e == [g EXCEPT !.result = Failed]
    <3>1. Safe(x, g) /\ Disk(g) = disk /\ AllButNext(h, g.h) /\ g.h.next = 0
      BY <1>4, ForgettingIs
    <3>2. w = e
      BY <2>4
    <3> HIDE DEF g
    <3>0. Whole(g)
      BY <3>1, SafeDisk
    <3>3. SameDisk(g, e) /\ e.h = g.h
      BY <3>0, FieldChange DEF Whole, Fields
    <3> HIDE DEF e
    <3>4. Safe(x, w) /\ Disk(w) = disk /\ AllButNext(h, w.h) /\ w.h.next = 0
      BY <3>1, <3>2, <3>3, SafeSame
    <3>5. /\ f \in Opened /\ ~handle[f].stale /\ Safe(On(f), w) /\ Disk(w) = disk
          /\ AllButNext(handle[f], w.h)
          /\ w.h.next = handle[f].next \/ (handle[f].size = 0 /\ w.h.next = 0)
          /\ k = [w.h EXCEPT !.stale = handle[f].stale \/ StaleAfterWrite(handle[f], w.h)]
          /\ Ends(w, f, With(f, k))
      BY <1>1, <2>3, <2>4, <3>4 DEF x, h
    <3> QED BY <3>5, IdleWrite
  <2>5. CASE Finished(x, w, k)
    <3>1. Safe(x, w)
      BY <2>5 DEF Finished
    <3>2. HandleFields(k)
      <4>1. HandleFields(w.h)
        BY <3>1, SafeDisk DEF Whole
      <4> DEFINE stale == h.stale \/ StaleAfterWrite(h, w.h)
      <4>2. k = [w.h EXCEPT !.stale = stale]
        BY <2>3
      <4> HIDE DEF stale
      <4> QED BY <4>1, <4>2, StaleFields
    <3>3. \A g \in DOMAIN With(f, k) : HandleFields(With(f, k)[g])
      BY <3>2, WithFields DEF ChainInv
    <3>4. ~w.panic => \E q : /\ Owns(x, Disk(w), q)
                             /\ StartsAt(q, Disk(w).dir[f].start) /\ Fits(q, Disk(w).dir[f].size)
                             /\ HandlesAfter(f, Disk(w), q, With(f, k))
      <4> SUFFICES ASSUME ~w.panic
                   PROVE  \E q : /\ Owns(x, Disk(w), q)
                                 /\ StartsAt(q, Disk(w).dir[f].start) /\ Fits(q, Disk(w).dir[f].size)
                                 /\ HandlesAfter(f, Disk(w), q, With(f, k))
        OBVIOUS
      <4>1. PICK q : /\ Owns(x, Disk(w), q) /\ StartsAt(q, Disk(w).dir[f].start)
                     /\ Fits(q, Disk(w).dir[f].size)
                     /\ Disk(w).dir[f] # NoEntry /\ HandleAt(Disk(w), f, q, k)
        BY <1>6, <2>5 DEF Finished
      <4>2. HandlesAfter(f, Disk(w), q, With(f, k))
        BY <4>1, WithAfter
      <4> QED BY <4>1, <4>2
    <3> QED BY <1>1, <1>2, <3>1, <3>3, <3>4, EndsInv DEF x
  <2> QED BY <2>2, <2>4, <2>5
<1> QED BY <1>7, <1>8

-------------------------------------------------------------------------------
\* Every step keeps it.
LEMMA NextChains == ChainInv /\ [Next]_vars /\ Careful /\ SectorsPerCluster > 1 => ChainInv'
<1> SUFFICES ASSUME ChainInv, [Next]_vars, Careful, SectorsPerCluster > 1 PROVE ChainInv'
  OBVIOUS
<1>1. CASE UNCHANGED vars
  <2>1. /\ disk' = disk /\ cached' = cached /\ handle' = handle
        /\ damaged' = damaged /\ stops' = stops
    BY <1>1 DEF vars
  <2> QED BY <2>1 DEF ChainInv, CacheInv, Opened, CacheCoherent, HandlesOK, DiskOK
<1>2. ASSUME NEW f \in File, CreatFile(f) PROVE ChainInv'
  BY <1>2, CreatChains
<1>3. ASSUME NEW f \in File, CreatNewFile(f) PROVE ChainInv'
  BY <1>3, CreatNewChains
<1>4. ASSUME NEW f \in File, OpenFile(f) PROVE ChainInv'
  BY <1>4, OpenChains
<1>5. ASSUME NEW f \in File, CloseFile(f) PROVE ChainInv'
  BY <1>5, CloseChains
<1>6. ASSUME NEW f \in File, DeleteFile(f) PROVE ChainInv'
  BY <1>6, DeleteChains
<1>7. ASSUME NEW f \in File, NEW n \in Amount[f], ReadFile(f, n) PROVE ChainInv'
  BY <1>7, ReadChains
<1>8. ASSUME NEW f \in File, NEW n \in Amount[f], SeekFile(f, n) PROVE ChainInv'
  BY <1>8, SeekChains
<1>9. ASSUME NEW f \in File, NEW data \in Data[f], WriteFile(f, data) PROVE ChainInv'
  BY <1>9, WriteChains
<1>10. ASSUME Halt PROVE ChainInv'
  BY <1>10, HaltChains
<1> QED BY <1>1, <1>2, <1>3, <1>4, <1>5, <1>6, <1>7, <1>8, <1>9, <1>10 DEF Next

\* The clusters a size needs.
LEMMA FitsLength ==
    ASSUME NEW p, Len(p) \in Nat, p = <<>> <=> Len(p) = 0, NEW size \in Nat, Fits(p, size)
    PROVE  Len(p) = (size + ClusterBytes - 1) \div ClusterBytes
<1> DEFINE cb == ClusterBytes
           l == Len(p)
           y == size + cb - 1
           lb == l * cb
           r == y - lb
<1>1. cb \in Nat \ {0}
  BY Sizes
<1>2. (l - 1) * cb = lb - cb /\ lb \in Nat /\ l \in Int
  BY <1>1
<1>3. r \in 0 .. cb - 1 /\ y = lb + r
  <2>1. CASE size = 0
    <3>1. l = 0
      BY <2>1 DEF Fits
    <3>2. lb = 0
      BY <1>1, <3>1
    <3> HIDE DEF lb, cb
    <3> QED BY <1>1, <2>1, <3>2
  <2>2. CASE size # 0
    <3>1. (l - 1) * cb < size /\ size <= lb
      BY <2>2 DEF Fits
    <3>2. lb - cb < size
      BY <1>2, <3>1
    <3> HIDE DEF lb, cb
    <3> QED BY <1>1, <1>2, <3>1, <3>2
  <2> QED BY <2>1, <2>2
<1> HIDE DEF r, y, cb, l
<1>4. (l * cb + r) \div cb = l
  BY <1>1, <1>2, <1>3, Quotient
<1>5. y \div cb = l
  BY <1>3, <1>4 DEF lb
<1> QED BY <1>5 DEF y, cb, l

\* It bounds every variable.
LEMMA ChainsTyped == ChainInv => TypeOK
<1> SUFFICES ASSUME ChainInv PROVE TypeOK
  OBVIOUS
<1>1. Typed(disk) /\ disk.info \in [free : Int, last : Nat] /\ DiskFields(disk) /\ CachePlaced(cached)
      /\ damaged \subseteq File /\ stops \in 0 .. MaxStops
  BY DEF ChainInv, CacheInv, DiskOK
<1>2. \A f \in File : disk.dir[f].start \in -1 .. NumClusters - 1 /\ disk.dir[f].size \in 0 .. MaxSize
  BY DEF ChainInv, DiskOK
<1>3. Opened \cap damaged = {}
  BY DEF ChainInv, HandlesOK, Opened
<1>4. \A a \in Sector : Len(disk.data[a]) = SectorBytes
  <2>1. \A a \in Sector : disk.data[a] \in Buffer
    BY <1>1 DEF DiskFields
  <2> QED BY <2>1, BufferSeq
<1>5. \A s \in 1 .. FatSectors : disk.fat[s] \in [0 .. SectorNibbles - 1 -> 0 .. 15]
  BY <1>1 DEF Typed, Nibbles
<1> QED BY <1>1, <1>2, <1>3, <1>4, <1>5 DEF TypeOK, Typed, CachePlaced

\* The chains of files that no stop cut short are sound.
LEMMA ChainsAreSound == ChainInv => ChainsSound
<1> SUFFICES ASSUME ChainInv PROVE ChainsSound
  OBVIOUS
<1>1. TypeOK
  BY ChainsTyped
<1>2. ASSUME NEW f \in Sound
      PROVE  LET chain == ChainOf(f)
             IN  /\ Range(chain) \subseteq Cluster
                 /\ Cardinality(Range(chain)) = Len(chain)
                 /\ Len(chain) = (disk.dir[f].size + ClusterBytes - 1) \div ClusterBytes
  <2> DEFINE chain == ChainIn(disk, f)
  <2>1. FileAt(disk, f, chain) /\ f \in File
    BY DEF ChainInv, DiskOK, Sound
  <2>2. disk.dir[f].size \in Nat
    BY <2>1 DEF ChainInv, CacheInv, DiskFields, DirFields
  <2>3. IsPath(Links(disk), EndMark(disk.type), chain) /\ Fits(chain, disk.dir[f].size)
    BY <2>1 DEF FileAt
  <2> HIDE DEF chain
  <2>4. Len(chain) \in Nat /\ Cardinality(Range(chain)) = Len(chain) /\ Range(chain) \subseteq Cluster
    BY <2>3, PathLength
  <2>5. chain = <<>> <=> Len(chain) = 0
    BY <2>3 DEF IsPath
  <2>6. Len(chain) = (disk.dir[f].size + ClusterBytes - 1) \div ClusterBytes
    <3> DEFINE size == disk.dir[f].size
    <3>1. size \in Nat /\ Fits(chain, size)
      BY <2>2, <2>3
    <3> HIDE DEF size
    <3>2. Len(chain) = (size + ClusterBytes - 1) \div ClusterBytes
      BY <2>4, <2>5, <3>1, FitsLength
    <3> QED BY <3>2 DEF size
  <2> QED BY <2>4, <2>6 DEF chain, ChainOf
<1>3. \A f, g \in Sound : f # g => Range(ChainOf(f)) \cap Range(ChainOf(g)) = {}
  BY DEF ChainInv, DiskOK, Sound, ChainOf
<1> QED BY <1>1, <1>2, <1>3 DEF ChainsSound

\* With no stop so far, no cluster is lost, and FSInfo counts the free ones.
LEMMA NothingIsLost == ChainInv => NothingLost
<1> SUFFICES ASSUME ChainInv, damaged = {}
             PROVE  /\ Cluster \cap FreeEntries(disk) = Cluster \ UNION {Range(ChainOf(f)) : f \in File}
                    /\ disk.type = 32 => disk.info.free = Cardinality(Cluster \cap FreeEntries(disk))
  BY DEF NothingLost
<1>1. /\ Typed(disk)
      /\ \A c \in Cluster : Links(disk)[c] = 0 <=> \A f \in File : c \notin Range(ChainIn(disk, f))
      /\ disk.type = 32 => disk.info.free = Cardinality(Free(Links(disk)))
  BY DEF ChainInv, DiskOK
<1>2. Cluster \cap FreeEntries(disk) = Free(Links(disk))
  BY <1>1, FreeLinks
<1>3. Free(Links(disk)) = Cluster \ UNION {Range(ChainOf(f)) : f \in File}
  BY <1>1, Zenon DEF Free, ChainOf
<1> QED BY <1>1, <1>2, <1>3

\* A careful caller finds every file that no stop cut short with as many clusters as its
\* size needs, none of them shared: every write of fatWriteFile goes to a cluster of its
\* own, and fatNukeChain frees no other.
THEOREM ChainsStaySound ==
    ASSUME Careful, SectorsPerCluster > 1
    PROVE  Spec => []ChainsSound
<1>1. Init => ChainInv
  BY InitChains
<1>2. ChainInv /\ [Next]_vars => ChainInv'
  BY NextChains
<1>3. ChainInv => ChainsSound
  BY ChainsAreSound
<1> QED BY <1>1, <1>2, <1>3, PTL DEF Spec

\* While no call was cut short, a cluster in use belongs to a file, and fatFindFreeCluster
\* and fatNukeChain keep the count of free clusters in FSInfo right.
THEOREM ClustersAreNotLost ==
    ASSUME Careful, SectorsPerCluster > 1
    PROVE  Spec => []NothingLost
<1>1. Init => ChainInv
  BY InitChains
<1>2. ChainInv /\ [Next]_vars => ChainInv'
  BY NextChains
<1>3. ChainInv => NothingLost
  BY NothingIsLost
<1> QED BY <1>1, <1>2, <1>3, PTL DEF Spec

===============================================================================
