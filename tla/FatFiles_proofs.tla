---------------------------- MODULE FatFiles_proofs ----------------------------
(***************************************************************************)
(* The file calls of fat.c, proved for volumes of every size, any files,   *)
(* callers careful or not, and machines that stop at any write: the cached *)
(* sector of the table is never older than the one on the disk.            *)
(***************************************************************************)
EXTENDS FatFiles, FiniteSetTheorems, WellFoundedInduction, TLAPS

Buffer == [1 .. SectorBytes -> Int]

\* A call, a handle and a disk have their fields, and sizes, positions and bytes are
\* numbers.
Fields(m) ==
    m = [img |-> m.img, cached |-> m.cached, currcluster |-> m.currcluster, next |-> m.next,
         panic |-> m.panic, h |-> m.h, bytes |-> m.bytes, result |-> m.result]

HandleFields(h) ==
    /\ h = [start |-> h.start, size |-> h.size, pos |-> h.pos, cur |-> h.cur, up |-> h.up,
            next |-> h.next, stale |-> h.stale]
    /\ h.pos \in Int /\ h.size \in Nat

DirFields(dir) ==
    /\ dir = [f \in File |-> dir[f]]
    /\ \A f \in File : /\ dir[f] = [start |-> dir[f].start, size |-> dir[f].size]
                       /\ dir[f].size \in Nat

DiskFields(d) ==
    /\ d = [type |-> d.type, fat |-> d.fat, info |-> d.info, data |-> d.data, dir |-> d.dir]
    /\ d.data \in [Sector -> Buffer]
    /\ DirFields(d.dir)

Images(img) ==
    /\ Len(img) \in Nat \ {0}
    /\ \E S : img \in Seq(S)
    /\ \A i \in 1 .. Len(img) : DiskFields(img[i])

Coherent(m) == m.cached.sector # 0 => m.cached.buf = Disk(m).fat[m.cached.sector]

Whole(m) ==
    /\ Fields(m) /\ HandleFields(m.h) /\ Images(m.img) /\ Coherent(m)
    /\ m.bytes \in Seq(Int)

\* One more image.
LEMMA OneImage ==
    ASSUME NEW img, Images(img), NEW d, DiskFields(d)
    PROVE  /\ Images(Append(img, d)) /\ Len(Append(img, d)) = Len(img) + 1
           /\ Last(Append(img, d)) = d
           /\ \A i \in 1 .. Len(img) : Append(img, d)[i] = img[i]
<1>1. PICK S : img \in Seq(S)
  BY DEF Images
<1>2. img \in Seq(S \cup {d}) /\ d \in S \cup {d}
  BY <1>1
<1>3. /\ Append(img, d) \in Seq(S \cup {d}) /\ Len(Append(img, d)) = Len(img) + 1
      /\ \A i \in 1 .. Len(img) : Append(img, d)[i] = img[i]
      /\ Append(img, d)[Len(img) + 1] = d
  BY <1>2
<1>4. Len(img) \in Nat /\ \A i \in 1 .. Len(img) : DiskFields(img[i])
  BY DEF Images
<1> DEFINE more == Append(img, d)
<1> HIDE DEF more
<1>5. /\ more \in Seq(S \cup {d}) /\ Len(more) = Len(img) + 1
      /\ \A i \in 1 .. Len(img) : more[i] = img[i]
      /\ more[Len(img) + 1] = d
  BY <1>3 DEF more
<1>6. \A i \in 1 .. Len(more) : DiskFields(more[i])
  BY <1>4, <1>5
<1>7. Images(more) /\ Last(more) = d
  BY <1>4, <1>5, <1>6 DEF Images, Last
<1> QED BY <1>5, <1>7 DEF more

\* The disk is an image.
LEMMA DiskIs ==
    ASSUME NEW m, Images(m.img)
    PROVE  DiskFields(Disk(m)) /\ Disk(m) = m.img[Len(m.img)] /\ Len(m.img) \in 1 .. Len(m.img)
<1>1. Len(m.img) \in Nat \ {0}
  BY DEF Images
<1> QED BY <1>1 DEF Images, Disk, Last

\* Fields of a changed disk.
LEMMA DiskChanges ==
    ASSUME NEW d, DiskFields(d), NEW x, NEW y
    PROVE  /\ DiskFields([d EXCEPT !.fat[x] = y])
           /\ DiskFields([d EXCEPT !.info = x])
           /\ x \in Sector /\ y \in Buffer => DiskFields([d EXCEPT !.data[x] = y])
           /\ x \in [Sector -> Buffer] => DiskFields([d EXCEPT !.data = x])
           /\ DirFields(x) => DiskFields([d EXCEPT !.dir = x])
<1>1. DiskFields([d EXCEPT !.fat[x] = y])
  BY DEF DiskFields
<1>2. DiskFields([d EXCEPT !.info = x])
  BY DEF DiskFields
<1>3. ASSUME x \in Sector, y \in Buffer PROVE DiskFields([d EXCEPT !.data[x] = y])
  BY <1>3 DEF DiskFields
<1>4. ASSUME x \in [Sector -> Buffer] PROVE DiskFields([d EXCEPT !.data = x])
  BY <1>4 DEF DiskFields
<1>5. ASSUME DirFields(x) PROVE DiskFields([d EXCEPT !.dir = x])
  BY <1>5 DEF DiskFields
<1> QED BY <1>1, <1>2, <1>3, <1>4, <1>5

\* A directory with a new entry.
LEMMA DirChange ==
    ASSUME NEW d, DiskFields(d), NEW f \in File,
           NEW e, e = [start |-> e.start, size |-> e.size], e.size \in Nat
    PROVE  DiskFields([d EXCEPT !.dir[f] = e])
<1> DEFINE x == [d.dir EXCEPT ![f] = e]
<1>0. d.dir = [g \in File |-> d.dir[g]] /\ DirFields(d.dir)
  BY DEF DiskFields, DirFields
<1>1. x = [g \in File |-> x[g]] /\ \A g \in File : x[g] = IF g = f THEN e ELSE d.dir[g]
  BY <1>0
<1> HIDE DEF x
<1>2. DirFields(x)
  BY <1>0, <1>1 DEF DirFields
<1>3. [d EXCEPT !.dir[f] = e] = [d EXCEPT !.dir = x]
  BY DEF x
<1>4. DiskFields([d EXCEPT !.dir = x])
  BY <1>2, DiskChanges
<1> QED BY <1>3, <1>4, Zenon

\* What a write does.
LEMMA WriteLogical ==
    ASSUME NEW m, Fields(m), Images(m.img), NEW d, DiskFields(d)
    PROVE  LET n == fatWriteLogical(m, d)
           IN  /\ Fields(n) /\ Images(n.img)
               /\ n.h = m.h /\ n.currcluster = m.currcluster /\ n.next = m.next
               /\ n.panic = m.panic /\ n.bytes = m.bytes /\ n.result = m.result
               /\ IF m.panic THEN n = m
                  ELSE n.img = Append(m.img, d) /\ n.cached = NoCache /\ Disk(n) = d
<1> DEFINE n == fatWriteLogical(m, d)
<1>1. CASE m.panic
  BY <1>1 DEF fatWriteLogical
<1>2. CASE ~m.panic
  <2> DEFINE a == Append(m.img, d)
  <2>1. Images(a) /\ Last(a) = d
    BY OneImage
  <2> HIDE DEF a
  <2>2. n = [m EXCEPT !.img = a, !.cached = NoCache]
    BY <1>2 DEF fatWriteLogical, a
  <2> HIDE DEF n
  <2>3. /\ Fields(n) /\ n.img = a /\ n.cached = NoCache
        /\ n.h = m.h /\ n.currcluster = m.currcluster /\ n.next = m.next
        /\ n.panic = m.panic /\ n.bytes = m.bytes /\ n.result = m.result
    BY <2>2 DEF Fields
  <2>4. n.img = Append(m.img, d)
    BY <2>3 DEF a
  <2>5. Images(n.img) /\ Disk(n) = d
    BY <2>1, <2>3 DEF Disk
  <2>6. /\ Fields(n) /\ Images(n.img)
        /\ n.h = m.h /\ n.currcluster = m.currcluster /\ n.next = m.next
        /\ n.panic = m.panic /\ n.bytes = m.bytes /\ n.result = m.result
        /\ n.img = Append(m.img, d) /\ n.cached = NoCache /\ Disk(n) = d
    BY <2>3, <2>4, <2>5
  <2> QED BY <2>6, <1>2 DEF n
<1> QED BY <1>1, <1>2

\* A write drops the cache.
LEMMA WriteWhole ==
    ASSUME NEW m, Whole(m), NEW d, DiskFields(d)
    PROVE  Whole(fatWriteLogical(m, d))
<1> DEFINE n == fatWriteLogical(m, d)
<1>1. /\ Fields(n) /\ Images(n.img) /\ n.h = m.h /\ n.bytes = m.bytes
      /\ IF m.panic THEN n = m ELSE n.cached = NoCache
  BY WriteLogical DEF Whole
<1>2. Coherent(n)
  BY <1>1 DEF Whole, Coherent, NoCache
<1> QED BY <1>1, <1>2 DEF Whole

\* A sector of the table is written.
LEMMA WriteFatWhole ==
    ASSUME NEW m, Whole(m), NEW s, NEW buf
    PROVE  Whole(WriteFat(m, s, buf))
  BY WriteWhole, DiskIs, DiskChanges DEF WriteFat, Whole

\* An entry is written, in one sector or in two.
LEMMA WriteEntryWhole ==
    ASSUME NEW m, Whole(m), NEW c, NEW v
    PROVE  Whole(WriteEntry(m, c, v))
  BY WriteFatWhole, Zenon DEF WriteEntry

\* FSInfo is written.
LEMMA WriteInfoWhole ==
    ASSUME NEW m, Whole(m), NEW n, NEW c
    PROVE  Whole(WriteInfo(m, n, c))
<1> DEFINE free == Disk(m).info.free
           info == [free |-> IF free = Unknown THEN Unknown ELSE free + n, last |-> c]
<1>1. WriteInfo(m, n, c) = fatWriteLogical(m, [Disk(m) EXCEPT !.info = info])
  BY Zenon DEF WriteInfo
<1> HIDE DEF info
<1> QED BY <1>1, WriteWhole, DiskIs, DiskChanges DEF Whole

\* A cluster is marked as the end of a chain.
LEMMA MarkWhole ==
    ASSUME NEW m, Whole(m), NEW c
    PROVE  Whole(fatMarkCluster(m, c))
  BY WriteEntryWhole, WriteInfoWhole, Zenon DEF fatMarkCluster

\* What changes neither the disk nor the cache.
SameDisk(m, n) ==
    /\ Fields(n) /\ HandleFields(n.h) /\ n.bytes \in Seq(Int)
    /\ n.img = m.img /\ n.cached = m.cached

\* A record with the images and the cache of a whole one.
LEMMA SameWhole ==
    ASSUME NEW m, Whole(m), NEW n, SameDisk(m, n)
    PROVE  Whole(n)
  BY DEF Whole, SameDisk, Coherent, Disk

\* Setting a field of a call leaves the disk and the cache.
LEMMA FieldChange ==
    ASSUME NEW m, Whole(m), NEW x
    PROVE  /\ SameDisk(m, [m EXCEPT !.panic = x])
           /\ SameDisk(m, [m EXCEPT !.currcluster = x])
           /\ SameDisk(m, [m EXCEPT !.next = x])
           /\ SameDisk(m, [m EXCEPT !.result = x])
           /\ x \in Seq(Int) => SameDisk(m, [m EXCEPT !.bytes = x])
           /\ SameDisk(m, [m EXCEPT !.h.next = x])
           /\ SameDisk(m, [m EXCEPT !.h.cur = x])
           /\ SameDisk(m, [m EXCEPT !.h.up = x])
           /\ x \in Int => SameDisk(m, [m EXCEPT !.h.pos = x])
           /\ SameDisk(m, [m EXCEPT !.h.start = x])
           /\ x \in Nat => SameDisk(m, [m EXCEPT !.h.size = x])
<1>1. SameDisk(m, [m EXCEPT !.panic = x])
  BY DEF Whole, SameDisk, Fields, HandleFields
<1>2. SameDisk(m, [m EXCEPT !.currcluster = x])
  BY DEF Whole, SameDisk, Fields, HandleFields
<1>3. SameDisk(m, [m EXCEPT !.next = x])
  BY DEF Whole, SameDisk, Fields, HandleFields
<1>4. SameDisk(m, [m EXCEPT !.result = x])
  BY DEF Whole, SameDisk, Fields, HandleFields
<1>5. ASSUME x \in Seq(Int) PROVE SameDisk(m, [m EXCEPT !.bytes = x])
  BY <1>5 DEF Whole, SameDisk, Fields, HandleFields
<1>6. SameDisk(m, [m EXCEPT !.h.next = x])
  BY DEF Whole, SameDisk, Fields, HandleFields
<1>7. SameDisk(m, [m EXCEPT !.h.cur = x])
  BY DEF Whole, SameDisk, Fields, HandleFields
<1>8. SameDisk(m, [m EXCEPT !.h.up = x])
  BY DEF Whole, SameDisk, Fields, HandleFields
<1>9. ASSUME x \in Int PROVE SameDisk(m, [m EXCEPT !.h.pos = x])
  BY <1>9 DEF Whole, SameDisk, Fields, HandleFields
<1>10. SameDisk(m, [m EXCEPT !.h.start = x])
  BY SMTT(60) DEF Whole, SameDisk, Fields, HandleFields
<1>11. ASSUME x \in Nat PROVE SameDisk(m, [m EXCEPT !.h.size = x])
  <2> DEFINE h == [m.h EXCEPT !.size = x]
             n == [m EXCEPT !.h = h]
  <2>1. HandleFields(h)
    BY <1>11 DEF Whole, HandleFields
  <2> HIDE DEF h
  <2>2. SameDisk(m, n)
    BY <2>1 DEF Whole, SameDisk, Fields
  <2> QED BY <2>2 DEF h
<1> QED BY <1>1, <1>2, <1>3, <1>4, <1>5, <1>6, <1>7, <1>8, <1>9, <1>10, <1>11

\* So does setting several.
LEMMA FieldChanges ==
    ASSUME NEW m, Whole(m), NEW x, NEW y, NEW z
    PROVE  /\ SameDisk(m, [m EXCEPT !.h.cur = x, !.h.up = y])
           /\ SameDisk(m, [m EXCEPT !.h.up = x, !.h.cur = y])
           /\ SameDisk(m, [m EXCEPT !.currcluster = x, !.h.cur = y, !.h.up = z])
           /\ x \in Seq(Int) /\ y \in Int => SameDisk(m, [m EXCEPT !.bytes = x, !.h.pos = y])
           /\ y \in Nat => SameDisk(m, [m EXCEPT !.h.up = x, !.h.size = y])
           /\ x \in Nat => SameDisk(m, [m EXCEPT !.h.size = x, !.h.up = y])
           /\ x \in Nat => SameDisk(m, [m EXCEPT !.h.size = x, !.result = y])
           /\ x \in Int => SameDisk(m, [m EXCEPT !.h.pos = x, !.h.next = y, !.result = z])
<1>1. SameDisk(m, [m EXCEPT !.h.cur = x, !.h.up = y])
  <2> DEFINE n == [m EXCEPT !.h.cur = x]
  <2>1. Whole(n) /\ SameDisk(m, n)
    BY FieldChange, SameWhole
  <2>2. [m EXCEPT !.h.cur = x, !.h.up = y] = [n EXCEPT !.h.up = y]
    OBVIOUS
  <2> HIDE DEF n
  <2>3. SameDisk(n, [n EXCEPT !.h.up = y])
    BY <2>1, FieldChange
  <2> QED BY <2>1, <2>2, <2>3 DEF SameDisk
<1>2. SameDisk(m, [m EXCEPT !.h.up = x, !.h.cur = y])
  <2> DEFINE n == [m EXCEPT !.h.up = x]
  <2>1. Whole(n) /\ SameDisk(m, n)
    BY FieldChange, SameWhole
  <2>2. [m EXCEPT !.h.up = x, !.h.cur = y] = [n EXCEPT !.h.cur = y]
    OBVIOUS
  <2> HIDE DEF n
  <2>3. SameDisk(n, [n EXCEPT !.h.cur = y])
    BY <2>1, FieldChange
  <2> QED BY <2>1, <2>2, <2>3 DEF SameDisk
<1>3. SameDisk(m, [m EXCEPT !.currcluster = x, !.h.cur = y, !.h.up = z])
  <2> DEFINE n == [m EXCEPT !.currcluster = x]
             o == [n EXCEPT !.h.cur = y]
  <2>1. Whole(n) /\ SameDisk(m, n)
    BY FieldChange, SameWhole
  <2>2. [m EXCEPT !.currcluster = x, !.h.cur = y, !.h.up = z] = [o EXCEPT !.h.up = z]
    OBVIOUS
  <2> HIDE DEF n
  <2>3. Whole(o) /\ SameDisk(n, o)
    BY <2>1, FieldChange, SameWhole
  <2> HIDE DEF o
  <2>4. SameDisk(o, [o EXCEPT !.h.up = z])
    BY <2>3, FieldChange
  <2> QED BY <2>1, <2>2, <2>3, <2>4 DEF SameDisk
<1>4. ASSUME x \in Seq(Int), y \in Int PROVE SameDisk(m, [m EXCEPT !.bytes = x, !.h.pos = y])
  <2> DEFINE n == [m EXCEPT !.bytes = x]
  <2>1. Whole(n) /\ SameDisk(m, n)
    BY <1>4, FieldChange, SameWhole
  <2>2. [m EXCEPT !.bytes = x, !.h.pos = y] = [n EXCEPT !.h.pos = y]
    OBVIOUS
  <2> HIDE DEF n
  <2>3. SameDisk(n, [n EXCEPT !.h.pos = y])
    BY <1>4, <2>1, FieldChange
  <2> QED BY <2>1, <2>2, <2>3 DEF SameDisk
<1>5. ASSUME y \in Nat PROVE SameDisk(m, [m EXCEPT !.h.up = x, !.h.size = y])
  <2> DEFINE n == [m EXCEPT !.h.up = x]
  <2>1. Whole(n) /\ SameDisk(m, n)
    BY <1>5, FieldChange, SameWhole
  <2>2. [m EXCEPT !.h.up = x, !.h.size = y] = [n EXCEPT !.h.size = y]
    OBVIOUS
  <2> HIDE DEF n
  <2>3. SameDisk(n, [n EXCEPT !.h.size = y])
    BY <1>5, <2>1, FieldChange
  <2> QED BY <2>1, <2>2, <2>3 DEF SameDisk
<1>6. ASSUME x \in Nat PROVE SameDisk(m, [m EXCEPT !.h.size = x, !.h.up = y])
  <2> DEFINE n == [m EXCEPT !.h.size = x]
  <2>1. Whole(n) /\ SameDisk(m, n)
    BY <1>6, FieldChange, SameWhole
  <2>2. [m EXCEPT !.h.size = x, !.h.up = y] = [n EXCEPT !.h.up = y]
    OBVIOUS
  <2> HIDE DEF n
  <2>3. SameDisk(n, [n EXCEPT !.h.up = y])
    BY <1>6, <2>1, FieldChange
  <2> QED BY <2>1, <2>2, <2>3 DEF SameDisk
<1>7. ASSUME x \in Nat PROVE SameDisk(m, [m EXCEPT !.h.size = x, !.result = y])
  <2> DEFINE n == [m EXCEPT !.h.size = x]
  <2>1. Whole(n) /\ SameDisk(m, n)
    BY <1>7, FieldChange, SameWhole
  <2>2. [m EXCEPT !.h.size = x, !.result = y] = [n EXCEPT !.result = y]
    OBVIOUS
  <2> HIDE DEF n
  <2>3. SameDisk(n, [n EXCEPT !.result = y])
    BY <1>7, <2>1, FieldChange
  <2> QED BY <2>1, <2>2, <2>3 DEF SameDisk
<1>8. ASSUME x \in Int PROVE SameDisk(m, [m EXCEPT !.h.pos = x, !.h.next = y, !.result = z])
  <2> DEFINE n == [m EXCEPT !.h.pos = x]
             o == [n EXCEPT !.h.next = y]
  <2>1. Whole(n) /\ SameDisk(m, n)
    BY <1>8, FieldChange, SameWhole
  <2>2. [m EXCEPT !.h.pos = x, !.h.next = y, !.result = z] = [o EXCEPT !.result = z]
    OBVIOUS
  <2> HIDE DEF n
  <2>3. Whole(o) /\ SameDisk(n, o)
    BY <1>8, <2>1, FieldChange, SameWhole
  <2> HIDE DEF o
  <2>4. SameDisk(o, [o EXCEPT !.result = z])
    BY <1>8, <2>3, FieldChange
  <2> QED BY <2>1, <2>2, <2>3, <2>4 DEF SameDisk
<1> QED BY <1>1, <1>2, <1>3, <1>4, <1>5, <1>6, <1>7, <1>8

\* Fields other than the images and the cache are set.
LEMMA SetWhole ==
    ASSUME NEW m, Whole(m), NEW x, NEW y, NEW z
    PROVE  /\ Whole([m EXCEPT !.panic = x])
           /\ Whole([m EXCEPT !.currcluster = x])
           /\ Whole([m EXCEPT !.next = x])
           /\ Whole([m EXCEPT !.result = x])
           /\ x \in Seq(Int) => Whole([m EXCEPT !.bytes = x])
           /\ Whole([m EXCEPT !.h.next = x])
           /\ Whole([m EXCEPT !.h.cur = x])
           /\ Whole([m EXCEPT !.h.up = x])
           /\ x \in Int => Whole([m EXCEPT !.h.pos = x])
           /\ Whole([m EXCEPT !.h.start = x])
           /\ x \in Nat => Whole([m EXCEPT !.h.size = x])
           /\ Whole([m EXCEPT !.h.cur = x, !.h.up = y])
           /\ Whole([m EXCEPT !.h.up = x, !.h.cur = y])
           /\ Whole([m EXCEPT !.currcluster = x, !.h.cur = y, !.h.up = z])
           /\ x \in Seq(Int) /\ y \in Int => Whole([m EXCEPT !.bytes = x, !.h.pos = y])
           /\ y \in Nat => Whole([m EXCEPT !.h.up = x, !.h.size = y])
           /\ x \in Nat => Whole([m EXCEPT !.h.size = x, !.h.up = y])
           /\ x \in Nat => Whole([m EXCEPT !.h.size = x, !.result = y])
           /\ x \in Int => Whole([m EXCEPT !.h.pos = x, !.h.next = y, !.result = z])
  BY FieldChange, FieldChanges, SameWhole

\* A sector is read through the cache.
LEMMA ReadCachedWhole ==
    ASSUME NEW m, Whole(m), NEW s
    PROVE  Whole(fatReadLogicalCached(m, s)) /\ Disk(fatReadLogicalCached(m, s)) = Disk(m)
<1> DEFINE buf == Disk(m).fat[s]
           n == [m EXCEPT !.cached = [sector |-> s, buf |-> buf]]
<1>1. CASE m.cached.sector = s
  BY <1>1 DEF fatReadLogicalCached
<1>2. CASE m.cached.sector # s
  <2>1. /\ Fields(n) /\ n.img = m.img /\ n.h = m.h /\ n.bytes = m.bytes
        /\ n.cached.sector = s /\ n.cached.buf = buf
    <3> HIDE DEF buf
    <3> QED BY DEF Whole, Fields
  <2>2. fatReadLogicalCached(m, s) = n
    BY <1>2 DEF fatReadLogicalCached
  <2> HIDE DEF n
  <2>3. Disk(n) = Disk(m)
    BY <2>1 DEF Disk
  <2>4. Whole(n)
    BY <2>1, <2>3 DEF Whole, Coherent
  <2> QED BY <2>2, <2>3, <2>4
<1> QED BY <1>1, <1>2

\* The next cluster is looked up.
LEMMA AnalyseWhole ==
    ASSUME NEW m, Whole(m), NEW c
    PROVE  Whole(fatClusterAnalyse(m, c))
<1> DEFINE d == Disk(m)
           s == FirstSector(d, c)
           t == LastSector(d, c)
           one == fatReadLogicalCached(m, s)
           two == fatReadLogicalCached(one, t)
           seen == [d EXCEPT !.fat[s] = one.cached.buf, !.fat[t] = two.cached.buf]
<1>1. fatClusterAnalyse(m, c) = IF fatEndCluster(d, c) THEN m ELSE [two EXCEPT !.next = Entry(seen, c)]
  BY Zenon DEF fatClusterAnalyse
<1> DEFINE e == Entry(seen, c)
<1> HIDE DEF e
<1>2. fatClusterAnalyse(m, c) = IF fatEndCluster(d, c) THEN m ELSE [two EXCEPT !.next = e]
  BY <1>1, Zenon DEF e
<1>3. Whole(one)
  BY ReadCachedWhole
<1>4. Whole(two)
  <2> HIDE DEF one
  <2> QED BY <1>3, ReadCachedWhole
<1>5. Whole([two EXCEPT !.next = e])
  <2> HIDE DEF two
  <2> QED BY <1>4, SetWhole
<1> HIDE DEF two
<1> QED BY <1>2, <1>5

\* A cluster is appended to the chain.
LEMMA ChainToWhole ==
    ASSUME NEW m, Whole(m), NEW c
    PROVE  Whole(ChainTo(m, c))
<1> DEFINE n == fatMarkCluster(WriteEntry(m, m.currcluster, c), c)
<1>1. Whole(n)
  BY WriteEntryWhole, MarkWhole, Zenon
<1>2. Whole([n EXCEPT !.currcluster = c])
  <2> HIDE DEF n
  <2> QED BY <1>1, SetWhole
<1>3. Whole([m EXCEPT !.panic = TRUE])
  BY SetWhole
<1> QED BY <1>2, <1>3, Zenon DEF ChainTo

\* A free cluster is appended, or the volume is full.
LEMMA ChainWhole == ASSUME NEW m, Whole(m) PROVE Whole(fatChain(m))
  BY ChainToWhole, Zenon DEF fatChain

-------------------------------------------------------------------------------
Below == {p \in Nat \X Nat : p[1] < p[2]}

\* The order of the naturals is well founded.
LEMMA BelowWellFounded == IsWellFoundedOn(Below, Nat)
<1>1. OpToRel(<, Nat) = Below
  BY DEF OpToRel, Below
<1> QED BY <1>1, NatLessThanWellFounded

\* Every set of numbers has a least one.
LEMMA LeastNumber ==
    ASSUME NEW S \in SUBSET Nat, S # {}
    PROVE  \E x \in S : \A y \in S : x <= y
<1>1. PICK x \in S : \A y \in S : ~(<<y, x>> \in Below)
  BY BelowWellFounded, WFMin
<1>2. ASSUME NEW y \in S PROVE x <= y
  <2>1. x \in Nat /\ y \in Nat
    OBVIOUS
  <2>2. ~(y < x)
    BY <1>1, <2>1 DEF Below
  <2> QED BY <2>1, <2>2
<1> QED BY <1>2

\* Induction, stated with a set.
LEMMA SetInduction ==
    ASSUME NEW S, 0 \in S, \A n \in Nat : n \in S => n + 1 \in S
    PROVE  Nat \subseteq S
<1> SUFFICES ASSUME Nat \ S # {} PROVE FALSE
  OBVIOUS
<1> DEFINE T == Nat \ S
<1>1. T \in SUBSET Nat /\ T # {}
  OBVIOUS
<1>2. \E x \in T : \A n \in T : x <= n
  <2> HIDE DEF T
  <2> QED BY <1>1, LeastNumber
<1>3. PICK x \in Nat \ S : \A n \in Nat \ S : x <= n
  BY <1>2
<1>4. x # 0 /\ x - 1 \in Nat
  BY <1>3
<1> QED BY <1>3, <1>4

\* What holds of the first k and is kept by each step holds up to n.
LEMMA UpTo ==
    ASSUME NEW S, NEW n \in Nat, 0 \in S, \A i \in 0 .. n - 1 : i \in S => i + 1 \in S
    PROVE  \A i \in 0 .. n : i \in S
<1> DEFINE T == {i \in Nat : i <= n => i \in S}
<1>1. 0 \in T /\ \A i \in Nat : i \in T => i + 1 \in T
  OBVIOUS
<1>2. Nat \subseteq T
  <2> HIDE DEF T
  <2> QED BY <1>1, SetInduction
<1> QED BY <1>2

\* The states of freeing a chain.
LEMMA NukeSteps ==
    ASSUME NEW m, NEW c, NEW k \in Nat
    PROVE  \E at :
             /\ at[0] = [m |-> m, c |-> c, buffered |-> 0, buf |-> <<>>, n |-> 0]
             /\ \A i \in 1 .. k : at[i] = NukeOne(at[i - 1])
             /\ NukeSome(m, c, k) = at[k]
<1> DEFINE S == {n \in Nat : \E f : f = [i \in 0 .. n |-> IF i = 0 THEN [m |-> m, c |-> c, buffered |-> 0, buf |-> <<>>, n |-> 0] ELSE NukeOne(f[i - 1])]}
<1>1. 0 \in S
  <2> DEFINE g == [i \in 0 .. 0 |-> [m |-> m, c |-> c, buffered |-> 0, buf |-> <<>>, n |-> 0]]
  <2>1. g = [i \in 0 .. 0 |-> IF i = 0 THEN [m |-> m, c |-> c, buffered |-> 0, buf |-> <<>>, n |-> 0] ELSE NukeOne(g[i - 1])]
    OBVIOUS
  <2> QED BY <2>1, Zenon
<1>2. ASSUME NEW n \in Nat, n \in S PROVE n + 1 \in S
  <2>1. PICK f : f = [i \in 0 .. n |-> IF i = 0 THEN [m |-> m, c |-> c, buffered |-> 0, buf |-> <<>>, n |-> 0] ELSE NukeOne(f[i - 1])]
    BY <1>2, Zenon
  <2> DEFINE g == [i \in 0 .. n + 1 |-> IF i = n + 1 THEN NukeOne(f[n]) ELSE f[i]]
  <2>2. f[0] = [m |-> m, c |-> c, buffered |-> 0, buf |-> <<>>, n |-> 0] /\ \A i \in 1 .. n : f[i] = NukeOne(f[i - 1])
    BY <2>1
  <2>3. g[0] = [m |-> m, c |-> c, buffered |-> 0, buf |-> <<>>, n |-> 0] /\ \A i \in 1 .. n + 1 : g[i] = NukeOne(g[i - 1])
    BY <2>2
  <2>4. \A i \in 0 .. n + 1 : g[i] = IF i = 0 THEN [m |-> m, c |-> c, buffered |-> 0, buf |-> <<>>, n |-> 0] ELSE NukeOne(g[i - 1])
    <3> HIDE DEF g
    <3> QED BY <2>3
  <2>5. g = [i \in 0 .. n + 1 |-> g[i]]
    OBVIOUS
  <2> HIDE DEF g
  <2>6. g = [i \in 0 .. n + 1 |-> IF i = 0 THEN [m |-> m, c |-> c, buffered |-> 0, buf |-> <<>>, n |-> 0] ELSE NukeOne(g[i - 1])]
    BY <2>4, <2>5
  <2> QED BY <2>6
<1>3. Nat \subseteq S
  <2> HIDE DEF S
  <2> QED BY <1>1, <1>2, SetInduction
<1>4. \E f : f = [i \in 0 .. k |-> IF i = 0 THEN [m |-> m, c |-> c, buffered |-> 0, buf |-> <<>>, n |-> 0] ELSE NukeOne(f[i - 1])]
  BY <1>3
<1> DEFINE at == CHOOSE f : f = [i \in 0 .. k |-> IF i = 0 THEN [m |-> m, c |-> c, buffered |-> 0, buf |-> <<>>, n |-> 0] ELSE NukeOne(f[i - 1])]
<1>5. at = [i \in 0 .. k |-> IF i = 0 THEN [m |-> m, c |-> c, buffered |-> 0, buf |-> <<>>, n |-> 0] ELSE NukeOne(at[i - 1])]
  BY <1>4, Zenon
<1>6. NukeSome(m, c, k) = at[k]
  BY Zenon DEF NukeSome
<1> HIDE DEF at
<1>7. at[0] = [m |-> m, c |-> c, buffered |-> 0, buf |-> <<>>, n |-> 0] /\ \A i \in 1 .. k : at[i] = NukeOne(at[i - 1])
  BY <1>5
<1> QED BY <1>6, <1>7

\* The rounds of a read.
LEMMA ReadSteps ==
    ASSUME NEW m, NEW want, NEW k \in Nat
    PROVE  \E at :
             /\ at[0] = [m |-> m, b |-> m.h.pos % SectorBytes, done |-> FALSE]
             /\ \A i \in 1 .. k : at[i] = ReadOne(at[i - 1], want)
             /\ ReadSome(m, want, k) = at[k].m
<1> DEFINE base == [m |-> m, b |-> m.h.pos % SectorBytes, done |-> FALSE]
<1> HIDE DEF base
<1> DEFINE S == {n \in Nat : \E f : f = [i \in 0 .. n |-> IF i = 0 THEN base ELSE ReadOne(f[i - 1], want)]}
<1>1. 0 \in S
  <2> DEFINE g == [i \in 0 .. 0 |-> base]
  <2>1. g = [i \in 0 .. 0 |-> IF i = 0 THEN base ELSE ReadOne(g[i - 1], want)]
    OBVIOUS
  <2> QED BY <2>1, Zenon
<1>2. ASSUME NEW n \in Nat, n \in S PROVE n + 1 \in S
  <2>1. PICK f : f = [i \in 0 .. n |-> IF i = 0 THEN base ELSE ReadOne(f[i - 1], want)]
    BY <1>2, Zenon
  <2> DEFINE g == [i \in 0 .. n + 1 |-> IF i = n + 1 THEN ReadOne(f[n], want) ELSE f[i]]
  <2>2. f[0] = base /\ \A i \in 1 .. n : f[i] = ReadOne(f[i - 1], want)
    BY <2>1
  <2>3. g[0] = base /\ \A i \in 1 .. n + 1 : g[i] = ReadOne(g[i - 1], want)
    BY <2>2
  <2>4. \A i \in 0 .. n + 1 : g[i] = IF i = 0 THEN base ELSE ReadOne(g[i - 1], want)
    <3> HIDE DEF g
    <3> QED BY <2>3
  <2>5. g = [i \in 0 .. n + 1 |-> g[i]]
    OBVIOUS
  <2> HIDE DEF g
  <2>6. g = [i \in 0 .. n + 1 |-> IF i = 0 THEN base ELSE ReadOne(g[i - 1], want)]
    BY <2>4, <2>5
  <2> QED BY <2>6
<1>3. Nat \subseteq S
  <2> HIDE DEF S
  <2> QED BY <1>1, <1>2, SetInduction
<1>4. \E f : f = [i \in 0 .. k |-> IF i = 0 THEN base ELSE ReadOne(f[i - 1], want)]
  BY <1>3
<1> DEFINE at == CHOOSE f : f = [i \in 0 .. k |-> IF i = 0 THEN base ELSE ReadOne(f[i - 1], want)]
<1>5. at = [i \in 0 .. k |-> IF i = 0 THEN base ELSE ReadOne(at[i - 1], want)]
  BY <1>4, Zenon
<1>6. ReadSome(m, want, k) = at[k].m
  BY Zenon DEF ReadSome, base
<1> HIDE DEF at
<1>7. at[0] = base /\ \A i \in 1 .. k : at[i] = ReadOne(at[i - 1], want)
  BY <1>5
<1> QED BY <1>6, <1>7, Zenon DEF base

\* The sectors of zeros one after the other.
LEMMA ZeroSteps ==
    ASSUME NEW m, NEW k \in Nat
    PROVE  \E at :
             /\ at[0] = m
             /\ \A i \in 1 .. k : at[i] = ZeroOne(at[i - 1])
             /\ ZeroSome(m, k) = at[k]
<1> DEFINE S == {n \in Nat : \E f : f = [i \in 0 .. n |-> IF i = 0 THEN m ELSE ZeroOne(f[i - 1])]}
<1>1. 0 \in S
  <2> DEFINE g == [i \in 0 .. 0 |-> m]
  <2>1. g = [i \in 0 .. 0 |-> IF i = 0 THEN m ELSE ZeroOne(g[i - 1])]
    OBVIOUS
  <2> QED BY <2>1, Zenon
<1>2. ASSUME NEW n \in Nat, n \in S PROVE n + 1 \in S
  <2>1. PICK f : f = [i \in 0 .. n |-> IF i = 0 THEN m ELSE ZeroOne(f[i - 1])]
    BY <1>2, Zenon
  <2> DEFINE g == [i \in 0 .. n + 1 |-> IF i = n + 1 THEN ZeroOne(f[n]) ELSE f[i]]
  <2>2. f[0] = m /\ \A i \in 1 .. n : f[i] = ZeroOne(f[i - 1])
    BY <2>1
  <2>3. g[0] = m /\ \A i \in 1 .. n + 1 : g[i] = ZeroOne(g[i - 1])
    BY <2>2
  <2>4. \A i \in 0 .. n + 1 : g[i] = IF i = 0 THEN m ELSE ZeroOne(g[i - 1])
    <3> HIDE DEF g
    <3> QED BY <2>3
  <2>5. g = [i \in 0 .. n + 1 |-> g[i]]
    OBVIOUS
  <2> HIDE DEF g
  <2>6. g = [i \in 0 .. n + 1 |-> IF i = 0 THEN m ELSE ZeroOne(g[i - 1])]
    BY <2>4, <2>5
  <2> QED BY <2>6
<1>3. Nat \subseteq S
  <2> HIDE DEF S
  <2> QED BY <1>1, <1>2, SetInduction
<1>4. \E f : f = [i \in 0 .. k |-> IF i = 0 THEN m ELSE ZeroOne(f[i - 1])]
  BY <1>3
<1> DEFINE at == CHOOSE f : f = [i \in 0 .. k |-> IF i = 0 THEN m ELSE ZeroOne(f[i - 1])]
<1>5. at = [i \in 0 .. k |-> IF i = 0 THEN m ELSE ZeroOne(at[i - 1])]
  BY <1>4, Zenon
<1>6. ZeroSome(m, k) = at[k]
  BY Zenon DEF ZeroSome
<1> HIDE DEF at
<1>7. at[0] = m /\ \A i \in 1 .. k : at[i] = ZeroOne(at[i - 1])
  BY <1>5
<1> QED BY <1>6, <1>7

\* The whole sectors written one after the other.
LEMMA WriteSteps ==
    ASSUME NEW m, NEW data, NEW k \in Nat
    PROVE  \E at :
             /\ at[0] = m
             /\ \A i \in 1 .. k : at[i] = WriteOne(at[i - 1], SubSeq(data, (i - 1) * SectorBytes + 1, i * SectorBytes))
             /\ WriteSome(m, data, k) = at[k]
<1> DEFINE S == {n \in Nat : \E f : f = [i \in 0 .. n |-> IF i = 0 THEN m ELSE WriteOne(f[i - 1], SubSeq(data, (i - 1) * SectorBytes + 1, i * SectorBytes))]}
<1>1. 0 \in S
  <2> DEFINE g == [i \in 0 .. 0 |-> m]
  <2>1. g = [i \in 0 .. 0 |-> IF i = 0 THEN m ELSE WriteOne(g[i - 1], SubSeq(data, (i - 1) * SectorBytes + 1, i * SectorBytes))]
    OBVIOUS
  <2> QED BY <2>1, Zenon
<1>2. ASSUME NEW n \in Nat, n \in S PROVE n + 1 \in S
  <2>1. PICK f : f = [i \in 0 .. n |-> IF i = 0 THEN m ELSE WriteOne(f[i - 1], SubSeq(data, (i - 1) * SectorBytes + 1, i * SectorBytes))]
    BY <1>2, Zenon
  <2> DEFINE g == [i \in 0 .. n + 1 |-> IF i = n + 1 THEN WriteOne(f[n], SubSeq(data, ((n + 1) - 1) * SectorBytes + 1, (n + 1) * SectorBytes)) ELSE f[i]]
  <2>2. f[0] = m /\ \A i \in 1 .. n : f[i] = WriteOne(f[i - 1], SubSeq(data, (i - 1) * SectorBytes + 1, i * SectorBytes))
    BY <2>1
  <2>3. g[0] = m /\ \A i \in 1 .. n + 1 : g[i] = WriteOne(g[i - 1], SubSeq(data, (i - 1) * SectorBytes + 1, i * SectorBytes))
    BY <2>2
  <2>4. \A i \in 0 .. n + 1 : g[i] = IF i = 0 THEN m ELSE WriteOne(g[i - 1], SubSeq(data, (i - 1) * SectorBytes + 1, i * SectorBytes))
    <3> HIDE DEF g
    <3> QED BY <2>3
  <2>5. g = [i \in 0 .. n + 1 |-> g[i]]
    OBVIOUS
  <2> HIDE DEF g
  <2>6. g = [i \in 0 .. n + 1 |-> IF i = 0 THEN m ELSE WriteOne(g[i - 1], SubSeq(data, (i - 1) * SectorBytes + 1, i * SectorBytes))]
    BY <2>4, <2>5
  <2> QED BY <2>6
<1>3. Nat \subseteq S
  <2> HIDE DEF S
  <2> QED BY <1>1, <1>2, SetInduction
<1>4. \E f : f = [i \in 0 .. k |-> IF i = 0 THEN m ELSE WriteOne(f[i - 1], SubSeq(data, (i - 1) * SectorBytes + 1, i * SectorBytes))]
  BY <1>3
<1> DEFINE at == CHOOSE f : f = [i \in 0 .. k |-> IF i = 0 THEN m ELSE WriteOne(f[i - 1], SubSeq(data, (i - 1) * SectorBytes + 1, i * SectorBytes))]
<1>5. at = [i \in 0 .. k |-> IF i = 0 THEN m ELSE WriteOne(at[i - 1], SubSeq(data, (i - 1) * SectorBytes + 1, i * SectorBytes))]
  BY <1>4, Zenon
<1>6. WriteSome(m, data, k) = at[k]
  BY Zenon DEF WriteSome
<1> HIDE DEF at
<1>7. at[0] = m /\ \A i \in 1 .. k : at[i] = WriteOne(at[i - 1], SubSeq(data, (i - 1) * SectorBytes + 1, i * SectorBytes))
  BY <1>5
<1> QED BY <1>6, <1>7

\* The clusters passed one after the other.
LEMMA SeekSteps ==
    ASSUME NEW m, NEW k \in Nat
    PROVE  \E at :
             /\ at[0] = m
             /\ \A i \in 1 .. k : at[i] = SeekOne(at[i - 1])
             /\ SeekClusters(m, k) = at[k]
<1> DEFINE S == {n \in Nat : \E f : f = [i \in 0 .. n |-> IF i = 0 THEN m ELSE SeekOne(f[i - 1])]}
<1>1. 0 \in S
  <2> DEFINE g == [i \in 0 .. 0 |-> m]
  <2>1. g = [i \in 0 .. 0 |-> IF i = 0 THEN m ELSE SeekOne(g[i - 1])]
    OBVIOUS
  <2> QED BY <2>1, Zenon
<1>2. ASSUME NEW n \in Nat, n \in S PROVE n + 1 \in S
  <2>1. PICK f : f = [i \in 0 .. n |-> IF i = 0 THEN m ELSE SeekOne(f[i - 1])]
    BY <1>2, Zenon
  <2> DEFINE g == [i \in 0 .. n + 1 |-> IF i = n + 1 THEN SeekOne(f[n]) ELSE f[i]]
  <2>2. f[0] = m /\ \A i \in 1 .. n : f[i] = SeekOne(f[i - 1])
    BY <2>1
  <2>3. g[0] = m /\ \A i \in 1 .. n + 1 : g[i] = SeekOne(g[i - 1])
    BY <2>2
  <2>4. \A i \in 0 .. n + 1 : g[i] = IF i = 0 THEN m ELSE SeekOne(g[i - 1])
    <3> HIDE DEF g
    <3> QED BY <2>3
  <2>5. g = [i \in 0 .. n + 1 |-> g[i]]
    OBVIOUS
  <2> HIDE DEF g
  <2>6. g = [i \in 0 .. n + 1 |-> IF i = 0 THEN m ELSE SeekOne(g[i - 1])]
    BY <2>4, <2>5
  <2> QED BY <2>6
<1>3. Nat \subseteq S
  <2> HIDE DEF S
  <2> QED BY <1>1, <1>2, SetInduction
<1>4. \E f : f = [i \in 0 .. k |-> IF i = 0 THEN m ELSE SeekOne(f[i - 1])]
  BY <1>3
<1> DEFINE at == CHOOSE f : f = [i \in 0 .. k |-> IF i = 0 THEN m ELSE SeekOne(f[i - 1])]
<1>5. at = [i \in 0 .. k |-> IF i = 0 THEN m ELSE SeekOne(at[i - 1])]
  BY <1>4, Zenon
<1>6. SeekClusters(m, k) = at[k]
  BY Zenon DEF SeekClusters
<1> HIDE DEF at
<1>7. at[0] = m /\ \A i \in 1 .. k : at[i] = SeekOne(at[i - 1])
  BY <1>5
<1> QED BY <1>6, <1>7

\* The clusters of a chain one after the other.
LEMMA ChainSteps ==
    ASSUME NEW d, NEW c, NEW k \in Nat
    PROVE  \E at :
             /\ at[0] = <<>>
             /\ \A i \in 1 .. k : at[i] = ChainOne(d, c, at[i - 1])
             /\ Chain(d, c, k) = at[k]
<1> DEFINE S == {n \in Nat : \E f : f = [i \in 0 .. n |-> IF i = 0 THEN <<>> ELSE ChainOne(d, c, f[i - 1])]}
<1>1. 0 \in S
  <2> DEFINE g == [i \in 0 .. 0 |-> <<>>]
  <2>1. g = [i \in 0 .. 0 |-> IF i = 0 THEN <<>> ELSE ChainOne(d, c, g[i - 1])]
    OBVIOUS
  <2> QED BY <2>1, Zenon
<1>2. ASSUME NEW n \in Nat, n \in S PROVE n + 1 \in S
  <2>1. PICK f : f = [i \in 0 .. n |-> IF i = 0 THEN <<>> ELSE ChainOne(d, c, f[i - 1])]
    BY <1>2, Zenon
  <2> DEFINE g == [i \in 0 .. n + 1 |-> IF i = n + 1 THEN ChainOne(d, c, f[n]) ELSE f[i]]
  <2>2. f[0] = <<>> /\ \A i \in 1 .. n : f[i] = ChainOne(d, c, f[i - 1])
    BY <2>1
  <2>3. g[0] = <<>> /\ \A i \in 1 .. n + 1 : g[i] = ChainOne(d, c, g[i - 1])
    BY <2>2
  <2>4. \A i \in 0 .. n + 1 : g[i] = IF i = 0 THEN <<>> ELSE ChainOne(d, c, g[i - 1])
    <3> HIDE DEF g
    <3> QED BY <2>3
  <2>5. g = [i \in 0 .. n + 1 |-> g[i]]
    OBVIOUS
  <2> HIDE DEF g
  <2>6. g = [i \in 0 .. n + 1 |-> IF i = 0 THEN <<>> ELSE ChainOne(d, c, g[i - 1])]
    BY <2>4, <2>5
  <2> QED BY <2>6
<1>3. Nat \subseteq S
  <2> HIDE DEF S
  <2> QED BY <1>1, <1>2, SetInduction
<1>4. \E f : f = [i \in 0 .. k |-> IF i = 0 THEN <<>> ELSE ChainOne(d, c, f[i - 1])]
  BY <1>3
<1> DEFINE at == CHOOSE f : f = [i \in 0 .. k |-> IF i = 0 THEN <<>> ELSE ChainOne(d, c, f[i - 1])]
<1>5. at = [i \in 0 .. k |-> IF i = 0 THEN <<>> ELSE ChainOne(d, c, at[i - 1])]
  BY <1>4, Zenon
<1>6. Chain(d, c, k) = at[k]
  BY Zenon DEF Chain
<1> HIDE DEF at
<1>7. at[0] = <<>> /\ \A i \in 1 .. k : at[i] = ChainOne(d, c, at[i - 1])
  BY <1>5
<1> QED BY <1>6, <1>7

\* The lesser of two numbers.
LEMMA MinOfTwo ==
    ASSUME NEW a \in Int, NEW b \in Int
    PROVE  Min({a, b}) = IF a <= b THEN a ELSE b
<1> DEFINE l == IF a <= b THEN a ELSE b
<1>1. \A x \in {a, b} : (\A y \in {a, b} : x <= y) => x = l
  OBVIOUS
<1>2. \E x \in {a, b} : \A y \in {a, b} : x <= y
  OBVIOUS
<1>3. LET z == CHOOSE x \in {a, b} : \A y \in {a, b} : x <= y
      IN  z \in {a, b} /\ \A y \in {a, b} : z <= y
  BY <1>2, Zenon
<1> HIDE DEF l
<1>4. Min({a, b}) \in {a, b} /\ \A y \in {a, b} : Min({a, b}) <= y
  BY <1>3, Zenon DEF Min
<1> QED BY <1>1, <1>4 DEF l

\* The greater of two numbers.
LEMMA MaxOfTwo ==
    ASSUME NEW a \in Int, NEW b \in Int
    PROVE  Max({a, b}) = IF a >= b THEN a ELSE b
<1> DEFINE l == IF a >= b THEN a ELSE b
<1>1. \A x \in {a, b} : (\A y \in {a, b} : x >= y) => x = l
  OBVIOUS
<1>2. \E x \in {a, b} : \A y \in {a, b} : x >= y
  OBVIOUS
<1>3. LET z == CHOOSE x \in {a, b} : \A y \in {a, b} : x >= y
      IN  z \in {a, b} /\ \A y \in {a, b} : z >= y
  BY <1>2, Zenon
<1> HIDE DEF l
<1>4. Max({a, b}) \in {a, b} /\ \A y \in {a, b} : Max({a, b}) >= y
  BY <1>3, Zenon DEF Max
<1> QED BY <1>1, <1>4 DEF l

\* Part of a sequence.
LEMMA Part ==
    ASSUME NEW s \in Seq(Int), NEW a \in Nat \ {0}, NEW b \in Int, b <= Len(s)
    PROVE  /\ SubSeq(s, a, b) \in Seq(Int)
           /\ Len(SubSeq(s, a, b)) = IF a <= b THEN b - a + 1 ELSE 0
           /\ \A i \in 1 .. b - a + 1 : SubSeq(s, a, b)[i] = s[a + i - 1]
<1>1. CASE a <= b
  BY <1>1
<1>2. CASE a > b
  BY <1>2
<1> QED BY <1>1, <1>2

\* Buffers are the sequences of a sector's length.
LEMMA BufferSeq ==
    ASSUME NEW s \in Buffer
    PROVE  s \in Seq(Int) /\ Len(s) = SectorBytes /\ DOMAIN s = 1 .. SectorBytes
  BY FileAssumption DEF Buffer

\* A sequence as long as a sector is one.
LEMMA SeqBuffer ==
    ASSUME NEW s \in Seq(Int), Len(s) = SectorBytes
    PROVE  s \in Buffer
  BY FileAssumption DEF Buffer

\* The buffers the calls write and read.
LEMMA CopiedBuffer ==
    ASSUME NEW buf \in Buffer, NEW from \in Int, NEW bytes \in Seq(Int)
    PROVE  Copied(buf, from, bytes) \in Buffer
<1> DEFINE c == Copied(buf, from, bytes)
<1>1. c = [i \in 1 .. SectorBytes |-> IF i \in from + 1 .. from + Len(bytes) THEN bytes[i - from] ELSE buf[i]]
  BY BufferSeq DEF Copied
<1>2. SectorBytes \in Nat /\ Len(bytes) \in Nat
  BY FileAssumption
<1>3. \A i \in 1 .. SectorBytes : i \in from + 1 .. from + Len(bytes) => bytes[i - from] \in Int
  BY <1>2
<1>4. \A i \in 1 .. SectorBytes : buf[i] \in Int
  BY DEF Buffer
<1> HIDE DEF c
<1>5. c \in [1 .. SectorBytes -> Int]
  BY <1>1, <1>3, <1>4
<1> QED BY <1>5 DEF Buffer, c

\* A sector of zeros.
LEMMA ZerosBuffer == Zeros(SectorBytes) \in Buffer
  BY DEF Zeros, Buffer

\* Zeros are bytes.
LEMMA ZerosSeq == ASSUME NEW n \in Nat PROVE Zeros(n) \in Seq(Int) /\ Len(Zeros(n)) = n
  BY DEF Zeros

\* What a static buffer held is a sector.
LEMMA JunkBuffer == JunkSector \in Buffer
  BY DEF JunkSector, Junk, Buffer

\* Whatever is read of the data area is a sector.
LEMMA ReadBuffer == ASSUME NEW m, Images(m.img) PROVE ReadSector(m) \in Buffer
<1>1. Disk(m).data \in [Sector -> Buffer]
  BY DiskIs DEF DiskFields
<1> QED BY <1>1, JunkBuffer, Zenon DEF ReadSector

-------------------------------------------------------------------------------
\* One cluster of a chain is freed.
LEMMA NukeOneWhole ==
    ASSUME NEW at, Whole(at.m)
    PROVE  Whole(NukeOne(at).m)
<1> DEFINE d == Disk(at.m)
           s == FirstSector(d, at.c)
           t == LastSector(d, at.c)
           left == IF at.buffered \notin {0, s} THEN WriteFat(at.m, at.buffered, at.buf) ELSE at.m
           cur == IF at.buffered = s THEN at.buf ELSE Disk(left).fat[s]
           next == Entry([Disk(left) EXCEPT !.fat[s] = cur], at.c)
           zeroed == PutEntry(d, cur, s, at.c, 0)
           written == WriteFat(left, s, zeroed)
           put == PutEntry(d, Disk(left).fat[t], t, at.c, 0)
<1>1. Whole(left)
  BY WriteFatWhole, Zenon
<1>2. Whole(written)
  <2> HIDE DEF left, zeroed
  <2> QED BY <1>1, WriteFatWhole, Zenon
<1>3. NukeOne(at) = IF fatEndCluster(d, at.c) THEN at
                    ELSE IF t = s
                    THEN [m |-> left, c |-> next, buffered |-> s, buf |-> zeroed, n |-> at.n + 1]
                    ELSE [m |-> written, c |-> next, buffered |-> t, buf |-> put, n |-> at.n + 1]
  BY Zenon DEF NukeOne
<1> HIDE DEF d, s, t, left, cur, next, zeroed, written, put
<1>4. NukeOne(at).m \in {at.m, left, written}
  BY <1>3
<1> QED BY <1>1, <1>2, <1>4

\* A chain is freed.
LEMMA NukeWhole ==
    ASSUME NEW m, Whole(m), NEW c
    PROVE  Whole(fatNuke(m, c))
<1>1. NumClusters \in Nat
  BY TableAssumption
<1>2. PICK at : /\ at[0] = [m |-> m, c |-> c, buffered |-> 0, buf |-> <<>>, n |-> 0]
                /\ \A i \in 1 .. NumClusters : at[i] = NukeOne(at[i - 1])
                /\ NukeSome(m, c, NumClusters) = at[NumClusters]
  BY <1>1, NukeSteps
<1> DEFINE S == {i \in 0 .. NumClusters : Whole(at[i].m)}
<1>3. 0 \in S
  BY <1>1, <1>2
<1>4. ASSUME NEW i \in 0 .. NumClusters - 1, i \in S PROVE i + 1 \in S
  <2>1. at[i + 1] = NukeOne(at[i]) /\ i + 1 \in 0 .. NumClusters
    BY <1>1, <1>2
  <2>2. Whole(NukeOne(at[i]).m)
    BY <1>4, NukeOneWhole
  <2> QED BY <2>1, <2>2
<1>5. NumClusters \in S
  <2> HIDE DEF S
  <2> QED BY <1>1, <1>3, <1>4, UpTo
<1> DEFINE end == NukeSome(m, c, NumClusters)
           done == IF end.buffered = 0 THEN end.m ELSE WriteFat(end.m, end.buffered, end.buf)
<1>6. Whole(end.m)
  BY <1>2, <1>5
<1> HIDE DEF end
<1>7. Whole(done)
  BY <1>6, WriteFatWhole, Zenon
<1>8. NukeEnd(end) = IF Disk(end.m).type = 32 THEN WriteInfo(done, end.n, Disk(end.m).info.last) ELSE done
  BY Zenon DEF NukeEnd
<1> HIDE DEF done
<1>9. Whole(NukeEnd(end))
  BY <1>7, <1>8, WriteInfoWhole, Zenon
<1> QED BY <1>9, Zenon DEF fatNuke, end

\* A sector of the file is written.
LEMMA WriteSectorWhole ==
    ASSUME NEW m, Whole(m), NEW buf \in Buffer
    PROVE  Whole(WriteSector(m, buf))
<1> DEFINE a == Address(m.h)
           d == Disk(m)
           n == IF a \in Sector THEN [d EXCEPT !.data[a] = buf] ELSE d
<1>1. DiskFields(d)
  BY DiskIs DEF Whole
<1>2. DiskFields(n)
  <2> HIDE DEF a, d
  <2> QED BY <1>1, DiskChanges
<1>3. WriteSector(m, buf) = fatWriteLogical(m, n)
  BY Zenon DEF WriteSector
<1> HIDE DEF n
<1> QED BY <1>2, <1>3, WriteWhole

\* A directory entry is written.
LEMMA WriteDirWhole ==
    ASSUME NEW m, Whole(m), NEW f \in File,
           NEW e, e = [start |-> e.start, size |-> e.size], e.size \in Nat
    PROVE  Whole(WriteDir(m, f, e))
<1>1. DiskFields(Disk(m))
  BY DiskIs DEF Whole
<1>2. DiskFields([Disk(m) EXCEPT !.dir[f] = e])
  BY <1>1, DirChange
<1> QED BY <1>2, WriteWhole, Zenon DEF WriteDir

\* The cluster after that of the handle is looked up.
LEMMA AnalyseNextWhole ==
    ASSUME NEW m, Whole(m)
    PROVE  Whole(AnalyseNext(m))
<1> DEFINE n == [m EXCEPT !.next = m.h.next]
           a == fatClusterAnalyse(n, m.h.cur)
           x == a.next
<1>1. Whole(n)
  BY SetWhole
<1>2. Whole(a)
  <2> HIDE DEF n
  <2> QED BY <1>1, AnalyseWhole
<1>3. AnalyseNext(m) = [a EXCEPT !.h.next = x]
  BY Zenon DEF AnalyseNext
<1> HIDE DEF a, x
<1>4. Whole([a EXCEPT !.h.next = x])
  BY <1>2, SetWhole
<1> QED BY <1>3, <1>4, Zenon

\* The handle goes to the cluster after c.
LEMMA AnalyseCurrentWhole ==
    ASSUME NEW m, Whole(m), NEW c
    PROVE  Whole(AnalyseCurrent(m, c))
<1> DEFINE n == [m EXCEPT !.next = m.h.cur]
           a == fatClusterAnalyse(n, c)
           x == a.next
<1>1. Whole(n)
  BY SetWhole
<1>2. Whole(a)
  <2> HIDE DEF n
  <2> QED BY <1>1, AnalyseWhole
<1>3. AnalyseCurrent(m, c) = [a EXCEPT !.h.cur = x]
  BY Zenon DEF AnalyseCurrent
<1> HIDE DEF a, x
<1>4. Whole([a EXCEPT !.h.cur = x])
  BY <1>2, SetWhole
<1> QED BY <1>3, <1>4, Zenon

\* The handle goes to the start of a cluster.
LEMMA ToClusterWhole ==
    ASSUME NEW m, Whole(m), NEW c
    PROVE  Whole(ToCluster(m, c))
<1>1. ToCluster(m, c) = [m EXCEPT !.currcluster = c, !.h.cur = c, !.h.up = 0]
  BY Zenon DEF ToCluster
<1>2. Whole([m EXCEPT !.currcluster = c, !.h.cur = c, !.h.up = 0])
  BY SetWhole
<1> QED BY <1>1, <1>2, Zenon

\* The file gets one more cluster.
LEMMA ChainFileWhole == ASSUME NEW m, Whole(m) PROVE Whole(ChainFile(m))
  BY ChainWhole, ToClusterWhole, Zenon DEF ChainFile, ToChained

\* The handle follows the chain.
LEMMA FollowWhole == ASSUME NEW m, Whole(m) PROVE Whole(Follow(m))
  BY AnalyseCurrentWhole, ToClusterWhole, Zenon DEF Follow, ToFollowed

\* The handle goes to the next sector.
LEMMA AdvanceWhole == ASSUME NEW m, Whole(m) PROVE Whole(Advance(m))
<1> DEFINE on == [m EXCEPT !.h.up = @ + 1]
<1>1. Whole(on)
  BY SetWhole
<1>2. Advance(m) = IF on.h.up # SectorsPerCluster THEN on
                   ELSE IF on.h.pos < on.h.size THEN Follow(on) ELSE ChainFile(on)
  BY Zenon DEF Advance
<1> HIDE DEF on
<1> QED BY <1>1, <1>2, FollowWhole, ChainFileWhole, Zenon

\* The handle turns to the next cluster of a read.
LEMMA TurnedWhole == ASSUME NEW m, Whole(m) PROVE Whole(Turned(m))
<1> DEFINE n == [m EXCEPT !.h.cur = m.h.next]
           a == AnalyseNext(n)
<1>1. Whole(n)
  BY SetWhole
<1>2. Whole(a)
  <2> HIDE DEF n
  <2> QED BY <1>1, AnalyseNextWhole
<1>3. Whole([a EXCEPT !.h.up = 0])
  <2> HIDE DEF a
  <2> QED BY <1>2, SetWhole
<1>4. Turned(m) = IF m.h.up # SectorsPerCluster \/ fatEndCluster(Disk(m), m.h.next) THEN m
                  ELSE [a EXCEPT !.h.up = 0]
  BY Zenon DEF Turned
<1> HIDE DEF a
<1> QED BY <1>3, <1>4

\* A state of the reading loop.
Reading(at) ==
    /\ at = [m |-> at.m, b |-> at.b, done |-> at.done]
    /\ Whole(at.m)
    /\ at.done \/ at.b \in 0 .. SectorBytes - 1

\* A round of a read.
LEMMA ReadOneWhole ==
    ASSUME NEW at, Reading(at), NEW want \in Nat
    PROVE  Reading(ReadOne(at, want))
<1> DEFINE m == Turned(at.m)
           h == m.h
           last == fatEndCluster(Disk(m), h.next)
           lastBytes == h.size % ClusterBytes
           cut == last /\ lastBytes # 0
           avail == IF last /\ h.size = 0 THEN 0
                    ELSE IF cut THEN lastBytes \div SectorBytes + 1 ELSE SectorsPerCluster
           bytes == IF cut /\ h.up = lastBytes \div SectorBytes
                    THEN lastBytes % SectorBytes ELSE SectorBytes
           n == Min({bytes - at.b, want - Len(m.bytes)})
           part == SubSeq(ReadSector(m), at.b + 1, at.b + n)
           got == m.bytes \o part
           up == (h.pos % ClusterBytes) \div SectorBytes
           pos == h.pos + n
           taken == [m EXCEPT !.bytes = got, !.h.pos = pos]
           sector == [taken EXCEPT !.h.up = @ + 1]
           back == [m EXCEPT !.h.up = up]
           to == ReadOne(at, want)
<1>1. Whole(m)
  BY TurnedWhole DEF Reading
<1>2. to = IF at.done \/ fatEndCluster(Disk(at.m), at.m.h.cur) THEN [at EXCEPT !.done = TRUE]
           ELSE IF h.up = avail
           THEN [m |-> IF cut THEN back ELSE m, b |-> at.b, done |-> TRUE]
           ELSE IF bytes - at.b > n
           THEN [m |-> taken, b |-> at.b + n, done |-> TRUE]
           ELSE [m |-> sector, b |-> 0, done |-> FALSE]
  BY Zenon DEF ReadOne, ReadHere
<1>3. Whole(back)
  <2> HIDE DEF m, up
  <2> QED BY <1>1, SetWhole
<1>4. ASSUME ~at.done PROVE Whole(taken) /\ Whole(sector)
  <2>1. bytes \in 0 .. SectorBytes /\ SectorBytes \in Nat \ {0}
    <3>1. lastBytes \in Nat
      <4>1. h.size \in Nat
        <5> HIDE DEF m
        <5> QED BY <1>1 DEF Whole, HandleFields
      <4>2. ClusterBytes \in Nat \ {0}
        BY FileAssumption DEF ClusterBytes
      <4> HIDE DEF h
      <4> QED BY <4>1, <4>2
    <3> HIDE DEF lastBytes, cut, h
    <3> QED BY <3>1, FileAssumption
  <2>2. at.b \in 0 .. SectorBytes - 1
    BY <1>4 DEF Reading
  <2>3. Len(m.bytes) \in Nat /\ m.bytes \in Seq(Int) /\ h.pos \in Int
    <3> HIDE DEF m
    <3> QED BY <1>1 DEF Whole, HandleFields
  <2> HIDE DEF bytes, h
  <2>4. n \in Int /\ n <= bytes - at.b
    <3> DEFINE x == bytes - at.b
               y == want - Len(m.bytes)
    <3>1. x \in Int /\ y \in Int
      BY <2>1, <2>2, <2>3
    <3> HIDE DEF x, y
    <3>2. Min({x, y}) \in Int /\ Min({x, y}) <= x
      BY <3>1, MinOfTwo
    <3> QED BY <3>2 DEF x, y
  <2> HIDE DEF n
  <2>5. ReadSector(m) \in Seq(Int) /\ Len(ReadSector(m)) = SectorBytes
    <3>1. Images(m.img)
      BY <1>1 DEF Whole
    <3> QED BY <3>1, ReadBuffer, BufferSeq
  <2>6. part \in Seq(Int)
    <3> DEFINE r == ReadSector(m)
    <3> HIDE DEF r
    <3>1. r \in Seq(Int) /\ at.b + 1 \in Nat \ {0} /\ at.b + n \in Int /\ at.b + n <= Len(r)
      BY <2>1, <2>2, <2>4, <2>5 DEF r
    <3>2. SubSeq(r, at.b + 1, at.b + n) \in Seq(Int)
      BY <3>1, Part
    <3> QED BY <3>2 DEF r
  <2> HIDE DEF part
  <2>7. got \in Seq(Int) /\ pos \in Int
    BY <2>3, <2>4, <2>6
  <2> HIDE DEF got, pos, m
  <2>8. Whole(taken)
    BY <2>7, <1>1, SetWhole
  <2> HIDE DEF taken
  <2> QED BY <2>8, SetWhole
<1>5. 0 \in 0 .. SectorBytes - 1
  BY FileAssumption
<1> HIDE DEF m, last, lastBytes, cut, avail, bytes, n, got, up, taken, sector, back, to
<1>6. CASE at.done \/ fatEndCluster(Disk(at.m), at.m.h.cur)
  <2>1. to = [at EXCEPT !.done = TRUE]
    BY <1>2, <1>6
  <2>2. to.m = at.m /\ to = [m |-> to.m, b |-> to.b, done |-> to.done] /\ to.done
    BY <2>1 DEF Reading
  <2> QED BY <2>2 DEF to, Reading
<1>7. CASE ~(at.done \/ fatEndCluster(Disk(at.m), at.m.h.cur))
  <2>1. \E x \in {m, back, taken, sector} : \E y, z :
            to = [m |-> x, b |-> y, done |-> z] /\ (z \/ y = 0)
    BY <1>2, <1>7, Zenon
  <2>2. PICK x \in {m, back, taken, sector} :
            \E y, z : to = [m |-> x, b |-> y, done |-> z] /\ (z \/ y = 0)
    BY <2>1
  <2>4. PICK y, z : to = [m |-> x, b |-> y, done |-> z] /\ (z \/ y = 0)
    BY <2>2
  <2>3. to.m = x /\ to = [m |-> to.m, b |-> to.b, done |-> to.done] /\ (to.done \/ to.b = 0)
    BY <2>4
  <2> QED BY <2>3, <1>1, <1>3, <1>4, <1>5, <1>7 DEF to, Reading
<1> QED BY <1>6, <1>7

\* All rounds of a read.
LEMMA ReadOnWhole ==
    ASSUME NEW m, Whole(m), NEW want \in Nat
    PROVE  Whole(ReadOn(m, want))
<1> DEFINE k == want \div SectorBytes + 3
           b == m.h.pos % SectorBytes
<1>0. b \in 0 .. SectorBytes - 1
  BY FileAssumption DEF Whole, HandleFields
<1>1. k \in Nat
  BY FileAssumption
<1> HIDE DEF k
<1>2. PICK at : /\ at[0] = [m |-> m, b |-> m.h.pos % SectorBytes, done |-> FALSE]
                /\ \A i \in 1 .. k : at[i] = ReadOne(at[i - 1], want)
                /\ ReadSome(m, want, k) = at[k].m
  BY <1>1, ReadSteps
<1> DEFINE S == {i \in 0 .. k : Reading(at[i])}
<1>3. 0 \in S
  <2>1. at[0] = [m |-> m, b |-> b, done |-> FALSE]
    BY <1>2
  <2> HIDE DEF b
  <2>2. at[0].m = m /\ at[0].b = b /\ at[0] = [m |-> at[0].m, b |-> at[0].b, done |-> at[0].done]
    BY <2>1
  <2>3. Reading(at[0])
    BY <1>0, <2>2 DEF Reading
  <2> QED BY <1>1, <2>3
<1>4. ASSUME NEW i \in 0 .. k - 1, i \in S PROVE i + 1 \in S
  <2>1. at[i + 1] = ReadOne(at[i], want) /\ i + 1 \in 0 .. k
    BY <1>1, <1>2
  <2>2. Reading(ReadOne(at[i], want))
    BY <1>4, ReadOneWhole
  <2> QED BY <2>1, <2>2
<1>5. k \in S
  <2> HIDE DEF S
  <2> QED BY <1>1, <1>3, <1>4, UpTo
<1>6. Whole(ReadSome(m, want, k))
  BY <1>2, <1>5 DEF Reading
<1> QED BY <1>6, Zenon DEF ReadOn, k

-------------------------------------------------------------------------------
\* Writing leaves the fields of the call.
Wrote(m, n) ==
    /\ n.h = m.h /\ n.currcluster = m.currcluster /\ n.next = m.next
    /\ n.panic = m.panic /\ n.bytes = m.bytes /\ n.result = m.result

\* The table is written: directory and data stay.
LEMMA WriteFatKeeps ==
    ASSUME NEW m, Whole(m), NEW s, NEW buf
    PROVE  Wrote(m, WriteFat(m, s, buf))
<1> DEFINE d == [Disk(m) EXCEPT !.fat[s] = buf]
<1>1. DiskFields(d)
  BY DiskIs, DiskChanges DEF Whole
<1> HIDE DEF d
<1>2. Wrote(m, fatWriteLogical(m, d))
  BY <1>1, WriteLogical DEF Whole, Wrote
<1> QED BY <1>2, Zenon DEF WriteFat, d

\* An entry is written: directory and data stay.
LEMMA WriteEntryKeeps ==
    ASSUME NEW m, Whole(m), NEW c, NEW v
    PROVE  Wrote(m, WriteEntry(m, c, v))
<1> DEFINE d == Disk(m)
           s == FirstSector(d, c)
           t == LastSector(d, c)
           x == PutEntry(d, d.fat[s], s, c, v)
           y == PutEntry(d, d.fat[t], t, c, v)
           first == WriteFat(m, s, x)
           second == WriteFat(first, t, y)
<1>1. WriteEntry(m, c, v) = IF t = s THEN first ELSE second
  BY Zenon DEF WriteEntry
<1>2. Whole(first) /\ Wrote(m, first)
  BY WriteFatWhole, WriteFatKeeps
<1>3. Wrote(first, second)
  <2> HIDE DEF first
  <2> QED BY <1>2, WriteFatKeeps
<1> HIDE DEF first, second
<1> QED BY <1>1, <1>2, <1>3 DEF Wrote

\* FSInfo is written: directory and data stay.
LEMMA WriteInfoKeeps ==
    ASSUME NEW m, Whole(m), NEW n, NEW c
    PROVE  Wrote(m, WriteInfo(m, n, c))
<1> DEFINE free == Disk(m).info.free
           info == [free |-> IF free = Unknown THEN Unknown ELSE free + n, last |-> c]
           d == [Disk(m) EXCEPT !.info = info]
<1>1. WriteInfo(m, n, c) = fatWriteLogical(m, d)
  BY Zenon DEF WriteInfo
<1> HIDE DEF info
<1>2. DiskFields(d)
  BY DiskIs, DiskChanges DEF Whole
<1> HIDE DEF d
<1>3. Wrote(m, fatWriteLogical(m, d))
  BY <1>2, WriteLogical DEF Whole, Wrote
<1> QED BY <1>1, <1>3

\* A cluster is marked: directory and data stay.
LEMMA MarkKeeps ==
    ASSUME NEW m, Whole(m), NEW c
    PROVE  Wrote(m, fatMarkCluster(m, c))
<1> DEFINE marked == WriteEntry(m, c, EndMark(Disk(m).type))
           info == WriteInfo(marked, -1, c)
<1>1. Whole(marked) /\ Wrote(m, marked)
  BY WriteEntryWhole, WriteEntryKeeps
<1>2. Wrote(marked, info)
  <2> HIDE DEF marked
  <2> QED BY <1>1, WriteInfoKeeps
<1>3. fatMarkCluster(m, c) = IF Disk(m).type = 32 THEN info ELSE marked
  BY Zenon DEF fatMarkCluster
<1> HIDE DEF marked, info
<1> QED BY <1>1, <1>2, <1>3 DEF Wrote

\* A sector of the file is written: the directory stays.
LEMMA WriteSectorKeeps ==
    ASSUME NEW m, Whole(m), NEW buf \in Buffer
    PROVE  Wrote(m, WriteSector(m, buf))
<1> DEFINE a == Address(m.h)
           d == Disk(m)
           n == IF a \in Sector THEN [d EXCEPT !.data[a] = buf] ELSE d
<1>1. DiskFields(d)
  BY DiskIs DEF Whole
<1>2. DiskFields(n)
  <2> HIDE DEF a, d
  <2> QED BY <1>1, DiskChanges
<1>3. WriteSector(m, buf) = fatWriteLogical(m, n)
  BY Zenon DEF WriteSector
<1> HIDE DEF n
<1>4. Wrote(m, fatWriteLogical(m, n))
  BY <1>2, WriteLogical DEF Whole, Wrote
<1> QED BY <1>3, <1>4

\* A directory entry is written: the others stay.
LEMMA WriteDirKeeps ==
    ASSUME NEW m, Whole(m), NEW f \in File,
           NEW e, e = [start |-> e.start, size |-> e.size], e.size \in Nat
    PROVE  Wrote(m, WriteDir(m, f, e))
<1> DEFINE d == [Disk(m) EXCEPT !.dir[f] = e]
<1>1. DiskFields(Disk(m))
  BY DiskIs DEF Whole
<1>2. DiskFields(d)
  BY <1>1, DirChange
<1> HIDE DEF d
<1>3. Wrote(m, fatWriteLogical(m, d))
  BY <1>2, WriteLogical DEF Whole, Wrote
<1> QED BY <1>3, Zenon DEF WriteDir, d

\* A cluster is appended: the directory stays.
LEMMA ChainKeeps ==
    ASSUME NEW m, Whole(m)
    PROVE  LET n == fatChain(m)
           IN  n.h = m.h /\ n.next = m.next /\ n.bytes = m.bytes /\ n.result = m.result
<1> DEFINE c == fatFindFreeCluster(Disk(m))
           w == WriteEntry(m, m.currcluster, c)
           n == fatMarkCluster(w, c)
<1>1. Whole(w) /\ Wrote(m, w)
  BY WriteEntryWhole, WriteEntryKeeps
<1>2. Whole(n) /\ Wrote(w, n)
  <2> HIDE DEF w
  <2> QED BY <1>1, MarkWhole, MarkKeeps
<1>3. fatChain(m) = IF c = 0 \/ fatEndCluster(Disk(m), m.currcluster)
                    THEN [m EXCEPT !.panic = TRUE] ELSE [n EXCEPT !.currcluster = c]
  BY Zenon DEF fatChain, ChainTo
<1> HIDE DEF c, w, n
<1>4. LET x == [m EXCEPT !.panic = TRUE]
      IN  x.h = m.h /\ x.next = m.next /\ x.bytes = m.bytes /\ x.result = m.result
  BY DEF Whole, Fields
<1>5. LET x == [n EXCEPT !.currcluster = c]
      IN  x.h = m.h /\ x.next = m.next /\ x.bytes = m.bytes /\ x.result = m.result
  BY <1>1, <1>2 DEF Whole, Fields, Wrote
<1> QED BY <1>3, <1>4, <1>5

\* A chained cluster moves the handle only.
LEMMA ChainFileKeeps ==
    ASSUME NEW m, Whole(m)
    PROVE  LET n == ChainFile(m)
           IN  /\ n.h.pos = m.h.pos /\ n.h.size = m.h.size /\ n.h.start = m.h.start
               /\ n.h.next = m.h.next /\ n.h.stale = m.h.stale
               /\ n.bytes = m.bytes /\ n.result = m.result
<1> DEFINE a == fatChain(m)
           c == a.currcluster
<1>1. /\ Whole(a) /\ a.h = m.h /\ a.next = m.next /\ a.bytes = m.bytes /\ a.result = m.result
  BY ChainWhole, ChainKeeps
<1>2. ChainFile(m) = IF a.panic THEN a ELSE [a EXCEPT !.currcluster = c, !.h.cur = c, !.h.up = 0]
  BY Zenon DEF ChainFile, ToChained, ToCluster
<1> HIDE DEF a, c
<1>3. LET n == [a EXCEPT !.currcluster = c, !.h.cur = c, !.h.up = 0]
      IN  /\ n.h.pos = m.h.pos /\ n.h.size = m.h.size /\ n.h.start = m.h.start
          /\ n.h.next = m.h.next /\ n.h.stale = m.h.stale
          /\ n.bytes = m.bytes /\ n.result = m.result
  BY <1>1 DEF Whole, Fields, HandleFields
<1> QED BY <1>1, <1>2, <1>3

-------------------------------------------------------------------------------
\* The fields of an entry of the directory.
LEMMA EntryFields ==
    ASSUME NEW d, DiskFields(d), NEW f \in File
    PROVE  /\ d.dir[f] = [start |-> d.dir[f].start, size |-> d.dir[f].size]
           /\ d.dir[f].size \in Nat
  BY Zenon DEF DiskFields, DirFields

\* A directory entry with another start or size.
LEMMA EntryChanges ==
    ASSUME NEW e, e = [start |-> e.start, size |-> e.size], e.size \in Nat, NEW c, NEW n \in Nat
    PROVE  /\ [e EXCEPT !.start = c] = [start |-> c, size |-> e.size]
           /\ [e EXCEPT !.size = n] = [start |-> e.start, size |-> n]
           /\ LET x == [e EXCEPT !.start = c]
              IN  x = [start |-> x.start, size |-> x.size] /\ x.size = e.size /\ x.start = c
           /\ LET x == [e EXCEPT !.size = n]
              IN  x = [start |-> x.start, size |-> x.size] /\ x.size = n /\ x.start = e.start
  OBVIOUS

\* fatReadFile.
LEMMA ReadFileWhole ==
    ASSUME NEW m, Whole(m), NEW want \in Nat
    PROVE  Whole(fatReadFile(m, want))
<1> DEFINE h == m.h
           known == AnalyseNext(m)
           up == (h.pos % ClusterBytes) \div SectorBytes
           set == IF h.next # 0 THEN m ELSE [known EXCEPT !.h.up = up]
           read == ReadOn(set, want)
           got == Got(read.bytes)
<1>1. Whole(set)
  <2>1. Whole(known)
    BY AnalyseNextWhole
  <2>2. Whole([known EXCEPT !.h.up = up])
    <3> HIDE DEF known, up
    <3> QED BY <2>1, SetWhole
  <2> HIDE DEF known, up
  <2> QED BY <2>2
<1> HIDE DEF set
<1>2. Whole(read)
  BY <1>1, ReadOnWhole
<1> HIDE DEF read, got
<1>3. Whole([read EXCEPT !.result = got]) /\ Whole([m EXCEPT !.result = Failed])
  BY <1>2, SetWhole
<1>4. fatReadFile(m, want) = IF h.pos > h.size THEN [m EXCEPT !.result = Failed]
                             ELSE [read EXCEPT !.result = got]
  BY Zenon DEF fatReadFile, set, read, got
<1> QED BY <1>3, <1>4

\* The first cluster of an empty file.
LEMMA StartWhole ==
    ASSUME NEW m, Whole(m), NEW f \in File
    PROVE  /\ Whole(StartFile(m, f))
           /\ StartFile(m, f).h.pos = m.h.pos /\ StartFile(m, f).h.size = m.h.size
<1> DEFINE d == Disk(m)
           c == fatFindFreeCluster(d)
           mark == fatMarkCluster(m, c)
           marked == ToCluster(mark, c)
           e == [d.dir[f] EXCEPT !.start = c]
           n == [marked EXCEPT !.h.start = c]
           w == WriteDir(n, f, e)
           old == [m EXCEPT !.currcluster = m.h.cur]
           full == [m EXCEPT !.result = Failed]
<1>1. Whole(mark) /\ mark.h = m.h
  BY MarkWhole, MarkKeeps DEF Wrote
<1>2. Whole(marked) /\ marked.h.pos = m.h.pos /\ marked.h.size = m.h.size
  <2>1. marked = [mark EXCEPT !.currcluster = c, !.h.cur = c, !.h.up = 0]
    BY Zenon DEF ToCluster
  <2> HIDE DEF mark, c
  <2>2. Whole([mark EXCEPT !.currcluster = c, !.h.cur = c, !.h.up = 0])
    BY <1>1, SetWhole
  <2>3. LET x == [mark EXCEPT !.currcluster = c, !.h.cur = c, !.h.up = 0]
        IN  x.h.pos = m.h.pos /\ x.h.size = m.h.size
    BY <1>1 DEF Whole, Fields, HandleFields
  <2> HIDE DEF marked
  <2> QED BY <2>1, <2>2, <2>3
<1>3. Whole(n) /\ n.h.pos = m.h.pos /\ n.h.size = m.h.size
  <2> HIDE DEF marked, c
  <2>1. Whole(n)
    BY <1>2, SetWhole
  <2>2. n.h.pos = m.h.pos /\ n.h.size = m.h.size
    BY <1>2 DEF Whole, Fields, HandleFields
  <2> QED BY <2>1, <2>2
<1>4. e = [start |-> e.start, size |-> e.size] /\ e.size \in Nat
  <2>1. DiskFields(d)
    BY DiskIs DEF Whole
  <2> DEFINE o == d.dir[f]
  <2>2. o = [start |-> o.start, size |-> o.size] /\ o.size \in Nat
    <3> HIDE DEF d
    <3> QED BY <2>1, EntryFields
  <2> HIDE DEF o, c
  <2>3. LET x == [o EXCEPT !.start = c]
        IN  x = [start |-> x.start, size |-> x.size] /\ x.size = o.size
    BY <2>2, EntryChanges
  <2> QED BY <2>2, <2>3 DEF o
<1>5. Whole(w) /\ w.h.pos = m.h.pos /\ w.h.size = m.h.size
  <2> HIDE DEF n, e
  <2> QED BY <1>3, <1>4, WriteDirWhole, WriteDirKeeps DEF Wrote
<1>6. /\ Whole(old) /\ old.h.pos = m.h.pos /\ old.h.size = m.h.size
      /\ Whole(full) /\ full.h.pos = m.h.pos /\ full.h.size = m.h.size
  <2>1. Whole(old) /\ Whole(full)
    BY SetWhole
  <2> QED BY <2>1 DEF Whole, Fields, HandleFields
<1>7. StartFile(m, f) = IF m.h.start \notin {0, EmptyStart(d.type)} THEN old
                        ELSE IF c = 0 THEN full ELSE w
  BY Zenon DEF StartFile
<1> HIDE DEF c, w, old, full, d
<1> QED BY <1>5, <1>6, <1>7

\* A sector of zeros is written.
LEMMA ZeroOneWhole ==
    ASSUME NEW m, Whole(m)
    PROVE  Whole(ZeroOne(m)) /\ ZeroOne(m).h.pos = m.h.pos
<1> DEFINE w == WriteSector(m, Zeros(SectorBytes))
           up == w.h.up + 1
           size == w.h.size + SectorBytes
           on == [w EXCEPT !.h.up = up, !.h.size = size]
           grown == ChainFile(on)
<1>1. Whole(w) /\ w.h = m.h
  BY ZerosBuffer, WriteSectorWhole, WriteSectorKeeps DEF Wrote
<1> HIDE DEF w
<1>2. size \in Nat
  BY <1>1, FileAssumption DEF Whole, HandleFields
<1> HIDE DEF up, size
<1>3. Whole(on) /\ on.h.pos = m.h.pos
  <2>1. Whole(on)
    BY <1>1, <1>2, SetWhole
  <2> QED BY <2>1, <1>1 DEF Whole, Fields, HandleFields
<1> HIDE DEF on
<1>4. Whole(grown) /\ grown.h.pos = m.h.pos
  BY <1>3, ChainFileWhole, ChainFileKeeps
<1> HIDE DEF grown
<1>5. ZeroOne(m) = IF m.panic \/ m.h.pos - m.h.size <= SectorBytes THEN m
                   ELSE IF on.h.up = SectorsPerCluster THEN grown ELSE on
  BY Zenon DEF ZeroOne, on, grown, w, up, size
<1> QED BY <1>3, <1>4, <1>5

\* All sectors of zeros are written.
LEMMA ZerosWhole ==
    ASSUME NEW m, Whole(m), m.h.pos >= m.h.size
    PROVE  Whole(ZeroSectors(m))
<1> DEFINE k == (m.h.pos - m.h.size) \div SectorBytes
<1>1. k \in Nat
  <2>1. m.h.pos - m.h.size \in Nat
    BY DEF Whole, HandleFields
  <2> DEFINE x == m.h.pos - m.h.size
  <2> HIDE DEF x
  <2>2. x \div SectorBytes \in Nat
    BY <2>1, FileAssumption DEF x
  <2> QED BY <2>2 DEF x
<1> HIDE DEF k
<1>2. PICK at : /\ at[0] = m
                /\ \A i \in 1 .. k : at[i] = ZeroOne(at[i - 1])
                /\ ZeroSome(m, k) = at[k]
  BY <1>1, ZeroSteps
<1> DEFINE S == {i \in 0 .. k : Whole(at[i])}
<1>3. 0 \in S
  BY <1>1, <1>2
<1>4. ASSUME NEW i \in 0 .. k - 1, i \in S PROVE i + 1 \in S
  <2>1. at[i + 1] = ZeroOne(at[i]) /\ i + 1 \in 0 .. k
    BY <1>1, <1>2
  <2>2. Whole(ZeroOne(at[i]))
    BY <1>4, ZeroOneWhole
  <2> QED BY <2>1, <2>2
<1>5. k \in S
  <2> HIDE DEF S
  <2> QED BY <1>1, <1>3, <1>4, UpTo
<1> DEFINE z == ZeroSome(m, k)
<1>6. Whole(z)
  BY <1>2, <1>5
<1> HIDE DEF z
<1>7. Whole(WriteSector(z, Zeros(SectorBytes)))
  BY <1>6, ZerosBuffer, WriteSectorWhole
<1> QED BY <1>7, Zenon DEF ZeroSectors, z, k

\* The gap before the position is filled.
LEMMA ExtendWhole ==
    ASSUME NEW m, Whole(m)
    PROVE  Whole(Extend(m))
<1> DEFINE h == m.h
           lastBytes == h.size % SectorBytes
           rem == SectorBytes - lastBytes
           gap == h.pos - h.size
           buf == IF lastBytes # 0 THEN ReadSector(m) ELSE JunkSector
           put == Copied(buf, lastBytes, Zeros(Min({gap, rem})))
           filled == WriteSector(m, put)
           size == filled.h.size + rem
           up == filled.h.up + 1
           on == [filled EXCEPT !.h.size = size, !.h.up = up]
           grown == ChainFile(on)
           ext == IF on.h.up = SectorsPerCluster THEN grown ELSE on
           zeros == ZeroSectors(ext)
           pos == h.pos
<1>1. /\ h.pos \in Int /\ h.size \in Nat /\ lastBytes \in 0 .. SectorBytes - 1
      /\ rem \in 1 .. SectorBytes /\ gap \in Int
  <2> HIDE DEF h
  <2>1. h.pos \in Int /\ h.size \in Nat
    BY DEF Whole, HandleFields, h
  <2> QED BY <2>1, FileAssumption
<1>2. Extend(m) = IF gap <= 0 THEN m
                  ELSE IF gap <= rem THEN [filled EXCEPT !.h.size = pos]
                  ELSE [zeros EXCEPT !.h.size = pos]
  BY Zenon DEF Extend
<1>3. ASSUME gap > 0 PROVE Whole([filled EXCEPT !.h.size = pos])
                           /\ (gap > rem => Whole([zeros EXCEPT !.h.size = pos]))
  <2>1. buf \in Buffer
    BY ReadBuffer, JunkBuffer DEF Whole
  <2>2. Min({gap, rem}) \in Nat
    <3> HIDE DEF gap, rem
    <3> QED BY <1>1, <1>3, MinOfTwo
  <2>3. put \in Buffer
    <3> HIDE DEF buf, lastBytes, gap, rem
    <3> QED BY <1>1, <2>1, <2>2, ZerosSeq, CopiedBuffer
  <2>4. Whole(filled) /\ filled.h = m.h
    <3> HIDE DEF put
    <3> QED BY <2>3, WriteSectorWhole, WriteSectorKeeps DEF Wrote
  <2>5. pos \in Nat
    BY <1>1, <1>3
  <2>6. Whole([filled EXCEPT !.h.size = pos])
    <3> HIDE DEF filled, pos
    <3> QED BY <2>4, <2>5, SetWhole
  <2>7. ASSUME gap > rem PROVE Whole([zeros EXCEPT !.h.size = pos])
    <3>1. size \in Nat /\ size = h.size + rem /\ h.pos >= size
      <4>1. size = h.size + rem
        BY <2>4
      <4> HIDE DEF size, rem, h
      <4> QED BY <4>1, <1>1, <2>7
    <3> HIDE DEF filled, size, up
    <3>2. Whole(on) /\ on.h.pos = pos /\ on.h.size = size
      <4>1. Whole(on)
        BY <2>4, <3>1, SetWhole
      <4> QED BY <4>1, <2>4 DEF Whole, Fields, HandleFields
    <3> HIDE DEF on
    <3>3. Whole(grown) /\ grown.h.pos = pos /\ grown.h.size = size
      BY <3>2, ChainFileWhole, ChainFileKeeps
    <3> HIDE DEF grown
    <3>4. Whole(ext) /\ ext.h.pos >= ext.h.size
      BY <3>1, <3>2, <3>3
    <3> HIDE DEF ext, pos
    <3>5. Whole(zeros)
      BY <3>4, ZerosWhole
    <3> HIDE DEF zeros
    <3> QED BY <3>5, <2>5, SetWhole
  <2> QED BY <2>6, <2>7
<1> HIDE DEF h, gap, rem, filled, zeros, pos
<1> QED BY <1>1, <1>2, <1>3

\* A whole sector of data is written.
LEMMA WriteOneWhole ==
    ASSUME NEW m, Whole(m), NEW data \in Buffer
    PROVE  Whole(WriteOne(m, data))
<1> DEFINE w == WriteSector(m, data)
           pos == w.h.pos + SectorBytes
           n == [w EXCEPT !.h.pos = pos]
<1>1. Whole(w)
  BY WriteSectorWhole
<1> HIDE DEF w
<1>2. pos \in Int
  BY <1>1, FileAssumption DEF Whole, HandleFields
<1> HIDE DEF pos
<1>3. Whole(n)
  BY <1>1, <1>2, SetWhole
<1> HIDE DEF n
<1>4. Whole(Advance(n))
  BY <1>3, AdvanceWhole
<1>5. WriteOne(m, data) = IF m.panic THEN m ELSE Advance(n)
  BY Zenon DEF WriteOne, n, pos, w
<1> QED BY <1>4, <1>5

\* The last sector of data is written.
LEMMA WriteLastWhole ==
    ASSUME NEW m, Whole(m), NEW data \in Seq(Int)
    PROVE  Whole(WriteLast(m, data))
<1> DEFINE keeps == m.h.pos + Len(data) < m.h.size
           buf == Copied(IF keeps THEN ReadSector(m) ELSE JunkSector, 0, data)
           w == WriteSector(m, buf)
           pos == w.h.pos + Len(data)
           rest == [w EXCEPT !.h.pos = pos]
<1>1. buf \in Buffer
  <2> DEFINE old == IF keeps THEN ReadSector(m) ELSE JunkSector
  <2>1. old \in Buffer
    BY ReadBuffer, JunkBuffer DEF Whole
  <2> HIDE DEF old
  <2>2. Copied(old, 0, data) \in Buffer
    BY <2>1, CopiedBuffer
  <2> QED BY <2>2 DEF old
<1> HIDE DEF buf
<1>2. Whole(w)
  BY <1>1, WriteSectorWhole
<1> HIDE DEF w
<1>3. pos \in Int
  BY <1>2 DEF Whole, HandleFields
<1> HIDE DEF pos
<1>4. Whole(rest)
  BY <1>2, <1>3, SetWhole
<1> HIDE DEF rest
<1>5. Whole(Advance(rest))
  BY <1>4, AdvanceWhole
<1>6. WriteLast(m, data) = IF m.panic THEN m
                           ELSE IF keeps /\ Len(data) = SectorBytes THEN Advance(rest) ELSE rest
  BY Zenon DEF WriteLast, rest, pos, w, buf
<1> QED BY <1>4, <1>5, <1>6

\* The k-th whole sector of data.
LEMMA SectorOfData ==
    ASSUME NEW data \in Seq(Int), NEW i \in Nat \ {0}, i <= (Len(data) - 1) \div SectorBytes
    PROVE  /\ SubSeq(data, (i - 1) * SectorBytes + 1, i * SectorBytes) \in Buffer
           /\ i * SectorBytes < Len(data)
<1> DEFINE n == Len(data)
           S == SectorBytes
           q == (n - 1) \div S
<1>1. S \in Nat \ {0} /\ n \in Nat
  BY FileAssumption
<1>2. q * S <= n - 1 /\ q \in Int
  <2> HIDE DEF n, S
  <2> QED BY <1>1
<1>3. i * S <= q * S
  <2>1. q - i \in Nat
    BY <1>2
  <2> HIDE DEF q, n, S
  <2>2. (q - i) * S \in Nat /\ (q - i) * S = q * S - i * S
    BY <2>1, <1>1, <1>2
  <2> QED BY <2>2, <1>1, <1>2
<1> DEFINE a == (i - 1) * S + 1
           b == i * S
<1>4. a \in Nat \ {0} /\ b \in Nat /\ b = a + S - 1 /\ b < n
  <2> HIDE DEF n, S
  <2>1. i * S \in Nat /\ (i - 1) * S \in Nat /\ (i - 1) * S = i * S - S
    BY <1>1
  <2> DEFINE x == i * S
             y == (i - 1) * S
  <2> HIDE DEF x, y
  <2>2. x \in Nat /\ y \in Nat /\ y = x - S /\ x <= n - 1
    <3>1. i * S <= n - 1
      <4> DEFINE u == i * S
                 v == q * S
      <4>1. u \in Int /\ v \in Int /\ u <= v /\ v <= n - 1
        BY <1>1, <1>2, <1>3
      <4> HIDE DEF u, v
      <4>2. u <= n - 1
        BY <4>1, <1>1
      <4> QED BY <4>2 DEF u
    <3> QED BY <2>1, <3>1 DEF x, y
  <2>3. y + 1 \in Nat \ {0} /\ x \in Nat /\ x = (y + 1) + S - 1 /\ x < n
    BY <2>2, <1>1
  <2> QED BY <2>3 DEF x, y
<1> HIDE DEF a, b
<1>5. SubSeq(data, a, b) \in Seq(Int) /\ Len(SubSeq(data, a, b)) = S
  <2>1. b <= Len(data) /\ a <= b /\ b - a + 1 = S
    BY <1>1, <1>4
  <2> QED BY <2>1, <1>4, Part
<1>6. SubSeq(data, a, b) \in Buffer
  BY <1>5, SeqBuffer
<1> QED BY <1>4, <1>6 DEF a, b, n, S

\* The sectors after the first are written.
LEMMA WriteOnWhole ==
    ASSUME NEW m, Whole(m), NEW data \in Seq(Int), data # <<>>
    PROVE  Whole(WriteOn(m, data))
<1> DEFINE k == (Len(data) - 1) \div SectorBytes
<1>1. k \in Nat /\ Len(data) \in Nat
  <2>1. Len(data) \in Nat \ {0}
    OBVIOUS
  <2> QED BY <2>1, FileAssumption
<1>0. \A i \in Nat \ {0} : i <= k =>
        SubSeq(data, (i - 1) * SectorBytes + 1, i * SectorBytes) \in Buffer
  BY SectorOfData
<1> HIDE DEF k
<1>2. PICK at : /\ at[0] = m
                /\ \A i \in 1 .. k :
                     at[i] = WriteOne(at[i - 1], SubSeq(data, (i - 1) * SectorBytes + 1, i * SectorBytes))
                /\ WriteSome(m, data, k) = at[k]
  BY <1>1, WriteSteps
<1> DEFINE S == {i \in 0 .. k : Whole(at[i])}
<1>3. 0 \in S
  BY <1>1, <1>2
<1>4. ASSUME NEW i \in 0 .. k - 1, i \in S PROVE i + 1 \in S
  <2> DEFINE part == SubSeq(data, ((i + 1) - 1) * SectorBytes + 1, (i + 1) * SectorBytes)
  <2>1. i + 1 \in 1 .. k /\ i + 1 \in 0 .. k /\ i + 1 \in Nat \ {0}
    BY <1>1
  <2>2. part \in Buffer
    BY <2>1, <1>0
  <2> HIDE DEF part
  <2>3. at[i + 1] = WriteOne(at[(i + 1) - 1], part)
    BY <1>2, <2>1 DEF part
  <2>4. Whole(at[(i + 1) - 1])
    BY <1>4
  <2> QED BY <2>1, <2>2, <2>3, <2>4, WriteOneWhole
<1>5. k \in S
  <2> HIDE DEF S
  <2>1. \A i \in 0 .. k - 1 : i \in S => i + 1 \in S
    BY <1>4
  <2>2. k \in Nat /\ 0 \in S
    BY <1>1, <1>3
  <2>3. \A i \in 0 .. k : i \in S
    BY <2>1, <2>2, UpTo
  <2> QED BY <2>2, <2>3
<1> DEFINE w == WriteSome(m, data, k)
           last == SubSeq(data, k * SectorBytes + 1, Len(data))
<1>6. Whole(w)
  BY <1>2, <1>5
<1>7. last \in Seq(Int)
  <2>1. k * SectorBytes \in Nat
    BY <1>1, FileAssumption
  <2> DEFINE x == k * SectorBytes
  <2> HIDE DEF x
  <2>2. x + 1 \in Nat \ {0}
    BY <2>1 DEF x
  <2>3. SubSeq(data, x + 1, Len(data)) \in Seq(Int)
    BY <2>2, Part
  <2> QED BY <2>3 DEF x
<1> HIDE DEF w, last
<1>8. Whole(WriteLast(w, last))
  BY <1>6, <1>7, WriteLastWhole
<1> QED BY <1>8, Zenon DEF WriteOn, w, last, k

\* All data is written.
LEMMA WriteDataWhole ==
    ASSUME NEW m, Whole(m), NEW data \in Seq(Int)
    PROVE  Whole(WriteData(m, data))
<1> DEFINE h == m.h
           atEnd == h.pos % SectorBytes = 0 /\ h.pos = h.size /\ h.pos # 0
           lastBytes == IF atEnd THEN SectorBytes ELSE h.pos % SectorBytes
           rem == SectorBytes - lastBytes
           n == Min({Len(data), rem})
           buf == IF h.pos < h.size \/ (lastBytes # 0 /\ rem # 0) THEN ReadSector(m) ELSE JunkSector
           part == SubSeq(data, 1, n)
           put == Copied(buf, lastBytes, part)
           w == WriteSector(m, put)
           first == IF rem = 0 THEN m ELSE w
           pos == first.h.pos + n
           to == [first EXCEPT !.h.pos = pos]
           rest == SubSeq(data, n + 1, Len(data))
<1>1. lastBytes \in 0 .. SectorBytes /\ rem \in Nat /\ Len(data) \in Nat
  <2>1. h.pos \in Int
    BY DEF Whole, HandleFields
  <2> HIDE DEF h
  <2> QED BY <2>1, FileAssumption
<1>2. n \in Nat /\ n <= Len(data)
  <2> HIDE DEF rem
  <2> QED BY <1>1, MinOfTwo
<1>3. buf \in Buffer
  BY ReadBuffer, JunkBuffer DEF Whole
<1> HIDE DEF n, lastBytes, buf, rem
<1>4. part \in Seq(Int) /\ rest \in Seq(Int)
  <2>1. 1 \in Nat \ {0} /\ n + 1 \in Nat \ {0} /\ n \in Int /\ Len(data) \in Int
    BY <1>1, <1>2
  <2> QED BY <2>1, <1>2, Part
<1> HIDE DEF part, rest
<1>5. put \in Buffer
  BY <1>1, <1>3, <1>4, CopiedBuffer
<1> HIDE DEF put
<1>6. Whole(first)
  BY <1>5, WriteSectorWhole
<1> HIDE DEF first
<1>7. pos \in Int
  BY <1>2, <1>6 DEF Whole, HandleFields
<1> HIDE DEF pos
<1>8. Whole(to)
  BY <1>6, <1>7, SetWhole
<1> HIDE DEF to
<1>9. Whole(Advance(to))
  BY <1>8, AdvanceWhole
<1>10. Whole(WriteRest(to, rest))
  BY <1>4, <1>8, <1>9, WriteOnWhole DEF WriteRest
<1> QED BY <1>10, Zenon DEF WriteData, to, rest, pos, first, w, put, part, buf, n, rem, lastBytes

\* The directory entry gets the size.
LEMMA WriteSizeWhole ==
    ASSUME NEW m, Whole(m), NEW f \in File, NEW size \in Nat, NEW done
    PROVE  Whole(WriteSize(m, f, size, done))
<1> DEFINE ok == Done(done)
           n == [m EXCEPT !.h.size = size, !.result = ok]
           e == [Disk(m).dir[f] EXCEPT !.size = size]
<1>1. e = [start |-> e.start, size |-> e.size] /\ e.size \in Nat
  <2> DEFINE d == Disk(m)
  <2>1. DiskFields(d)
    BY DiskIs DEF Whole
  <2> DEFINE o == d.dir[f]
  <2>2. o = [start |-> o.start, size |-> o.size] /\ o.size \in Nat
    <3> HIDE DEF d
    <3> QED BY <2>1, EntryFields
  <2> HIDE DEF o
  <2>3. LET x == [o EXCEPT !.size = size]
        IN  x = [start |-> x.start, size |-> x.size] /\ x.size = size
    BY <2>2, EntryChanges
  <2> QED BY <2>3 DEF o
<1> HIDE DEF ok, e
<1>2. Whole(n)
  BY SetWhole
<1> HIDE DEF n
<1>3. Whole(WriteDir(n, f, e))
  BY <1>1, <1>2, WriteDirWhole
<1> QED BY <1>3, Zenon DEF WriteSize, n, e, ok

\* fatWriteFile.
LEMMA WriteFileWhole ==
    ASSUME NEW m, Whole(m), NEW f \in File, NEW data \in Seq(Int)
    PROVE  Whole(fatWriteFile(m, f, data))
<1> DEFINE zero == [m EXCEPT !.h.next = 0]
           s == StartFile(zero, f)
           ext == Extend(s)
           w == WriteData(ext, data)
           size == Max({w.h.size, w.h.pos})
           none == Done(0)
<1>1. Whole(zero) /\ Whole([m EXCEPT !.result = none])
  <2> HIDE DEF none
  <2> QED BY SetWhole
<1> HIDE DEF zero
<1>2. Whole(s)
  BY <1>1, StartWhole
<1> HIDE DEF s
<1>3. Whole(ext)
  BY <1>2, ExtendWhole
<1> HIDE DEF ext
<1>4. Whole(w)
  BY <1>3, WriteDataWhole
<1> HIDE DEF w
<1>5. size \in Nat
  <2>1. w.h.size \in Nat /\ w.h.pos \in Int
    BY <1>4 DEF Whole, HandleFields
  <2> QED BY <2>1, MaxOfTwo
<1> HIDE DEF size
<1>6. Whole(WriteSize(w, f, size, Len(data)))
  BY <1>4, <1>5, WriteSizeWhole
<1>7. Whole(WriteStarted(s, f, data))
  BY <1>2, <1>6, Zenon DEF WriteStarted, w, ext, size
<1>8. fatWriteFile(m, f, data) = IF data = <<>> THEN [m EXCEPT !.result = none]
                                 ELSE WriteStarted(s, f, data)
  BY Zenon DEF fatWriteFile, s, zero
<1> QED BY <1>1, <1>7, <1>8

-------------------------------------------------------------------------------
\* A seek over clusters.
LEMMA SeekClustersWhole ==
    ASSUME NEW m, Whole(m), NEW k \in Nat
    PROVE  Whole(SeekClusters(m, k))
<1>1. PICK at : /\ at[0] = m
                /\ \A i \in 1 .. k : at[i] = SeekOne(at[i - 1])
                /\ SeekClusters(m, k) = at[k]
  BY SeekSteps
<1> DEFINE S == {i \in 0 .. k : Whole(at[i])}
<1>2. 0 \in S
  BY <1>1
<1>3. ASSUME NEW i \in 0 .. k - 1, i \in S PROVE i + 1 \in S
  <2> DEFINE a == at[i]
             c == a.h.cur
             n == [a EXCEPT !.currcluster = c]
  <2>1. at[i + 1] = SeekOne(a) /\ i + 1 \in 0 .. k
    BY <1>1
  <2>2. Whole(a)
    BY <1>3
  <2>3. SeekOne(a) = AnalyseCurrent(n, c)
    BY Zenon DEF SeekOne
  <2> HIDE DEF a, c
  <2>4. Whole(n)
    BY <2>2, SetWhole
  <2> HIDE DEF n
  <2>5. Whole(AnalyseCurrent(n, c))
    BY <2>4, AnalyseCurrentWhole
  <2> QED BY <2>1, <2>3, <2>5
<1>4. \A i \in 0 .. k : i \in S
  <2> HIDE DEF S
  <2> QED BY <1>2, <1>3, UpTo
<1> QED BY <1>1, <1>4

\* A seek to a place that is not the start.
LEMMA SeekInsideWhole ==
    ASSUME NEW m, Whole(m), NEW newpos \in Nat \ {0}
    PROVE  Whole(SeekInside(m, newpos))
<1> DEFINE h == m.h
           one == IF h.pos % ClusterBytes = 0 /\ h.pos # 0 /\ h.up # 0 THEN 1 ELSE 0
           old == h.pos \div ClusterBytes - one
           least == Min({h.size, newpos})
           real == least - (IF h.size = newpos THEN 1 ELSE 0)
           new == real \div ClusterBytes
           here == new >= old /\ ~fatEndCluster(Disk(m), h.cur)
           up == (real % ClusterBytes) \div SectorBytes
           cur == IF here THEN h.cur ELSE h.start
           at == [m EXCEPT !.h.up = up, !.h.cur = cur]
           k == IF here THEN new - old ELSE new
<1>1. SeekInside(m, newpos) = SeekClusters(at, k)
  BY Zenon DEF SeekInside
<1>2. ClusterBytes \in Nat \ {0}
  BY FileAssumption DEF ClusterBytes
<1>3. h.pos \in Int /\ h.size \in Nat
  BY DEF Whole, HandleFields
<1>4. old \in Int
  <2> DEFINE q == h.pos \div ClusterBytes
  <2>1. q \in Int
    <3> HIDE DEF h
    <3> QED BY <1>2, <1>3
  <2> HIDE DEF q, h
  <2> QED BY <2>1 DEF q
<1>5. real \in Nat
  <2>1. least = IF h.size <= newpos THEN h.size ELSE newpos
    <3> HIDE DEF h
    <3> QED BY <1>3, MinOfTwo
  <2> HIDE DEF least, h
  <2> QED BY <1>3, <2>1
<1>6. new \in Nat
  <2> HIDE DEF real
  <2> QED BY <1>2, <1>5
<1>7. k \in Nat
  <2> HIDE DEF new, old
  <2> QED BY <1>4, <1>6
<1>8. Whole(at)
  <2> HIDE DEF up, cur
  <2> QED BY SetWhole
<1> HIDE DEF at, k
<1> QED BY <1>1, <1>7, <1>8, SeekClustersWhole

\* fatSeek.
LEMMA SeekWhole ==
    ASSUME NEW m, Whole(m), NEW newpos \in Nat
    PROVE  Whole(fatSeek(m, newpos))
<1> DEFINE h == m.h
           start == h.start
           back == [m EXCEPT !.h.cur = start, !.h.up = 0]
           in == SeekInside(m, newpos)
           moved == IF newpos >= h.size /\ h.pos >= h.size THEN m
                    ELSE IF newpos = 0 THEN back ELSE in
           ok == Done(newpos)
<1>1. Whole(back)
  <2> HIDE DEF start
  <2> QED BY SetWhole
<1>2. newpos # 0 => Whole(in)
  BY SeekInsideWhole
<1>3. Whole(moved)
  <2> HIDE DEF back, in
  <2> QED BY <1>1, <1>2
<1> HIDE DEF moved, ok
<1>4. Whole([moved EXCEPT !.h.pos = newpos, !.h.next = 0, !.result = ok])
  <2>1. newpos \in Int
    OBVIOUS
  <2>2. \A x, y, z : x \in Int => Whole([moved EXCEPT !.h.pos = x, !.h.next = y, !.result = z])
    <3> TAKE x, y, z
    <3>1. /\ Whole(moved)
          /\ x \in Int => Whole([moved EXCEPT !.h.pos = x, !.h.next = y, !.result = z])
      BY <1>3, SetWhole
    <3> QED BY <3>1
  <2> QED BY <2>1, <2>2, Zenon
<1>5. fatSeek(m, newpos) = [moved EXCEPT !.h.pos = newpos, !.h.next = 0, !.result = ok]
  BY Zenon DEF fatSeek, moved, ok
<1> QED BY <1>4, <1>5, Zenon

-------------------------------------------------------------------------------
\* The cache and what the records between two calls are.
CacheInv ==
    /\ DiskFields(disk)
    /\ \A f \in Opened : HandleFields(handle[f])
    /\ CacheCoherent

\* Every call starts with a whole record.
LEMMA CallWhole ==
    ASSUME CacheInv, NEW h, HandleFields(h)
    PROVE  Whole(Call(h)) /\ Call(h).h = h /\ Call(h).img = <<disk>> /\ Disk(Call(h)) = disk
<1> DEFINE m == Call(h)
<1>0. <<disk>> \in Seq({disk}) /\ Len(<<disk>>) = 1 /\ <<disk>>[1] = disk
  OBVIOUS
<1>1. Fields(m) /\ m.h = h /\ m.img = <<disk>> /\ m.cached = cached /\ m.bytes = <<>>
  BY DEF Call, Fields
<1>2. Images(m.img)
  <2>1. \E S : <<disk>> \in Seq(S)
    BY <1>0
  <2>2. \A i \in 1 .. Len(<<disk>>) : DiskFields(<<disk>>[i])
    BY <1>0 DEF CacheInv
  <2>3. Images(<<disk>>)
    BY <1>0, <2>1, <2>2 DEF Images
  <2> QED BY <1>1, <2>3
<1> HIDE DEF m
<1>3. Disk(m) = disk
  BY <1>0, <1>1 DEF Disk, Last
<1>4. Whole(m)
  BY <1>1, <1>2, <1>3 DEF Whole, Coherent, CacheInv, CacheCoherent
<1> QED BY <1>1, <1>3, <1>4 DEF m

\* The handle of a new file has its fields.
LEMMA NewHandleFields == HandleFields(NewHandle)
  BY DEF NewHandle, HandleFields

\* So has that of a file fatCreatFile has made.
LEMMA HandleWithFields == ASSUME NEW c PROVE HandleFields(HandleWith(c))
  BY DEF HandleWith, HandleFields

\* The clusters of no file are forgotten: nothing but data changes.
LEMMA ForgetFields ==
    ASSUME NEW d, DiskFields(d), NEW files
    PROVE  /\ DiskFields(Forget(d, files))
           /\ LET n == Forget(d, files)
              IN  n.type = d.type /\ n.fat = d.fat /\ n.info = d.info /\ n.dir = d.dir
<1> DEFINE owned == UNION {Range(ChainIn(d, f)) : f \in files}
           data == [a \in Sector |-> IF 2 + (a \div SectorsPerCluster) \in owned THEN d.data[a] ELSE JunkSector]
<1>1. Forget(d, files) = [d EXCEPT !.data = data]
  BY Zenon DEF Forget
<1>2. data \in [Sector -> Buffer]
  <2> HIDE DEF owned
  <2> QED BY JunkBuffer DEF DiskFields
<1> HIDE DEF data
<1>3. DiskFields([d EXCEPT !.data = data])
  BY <1>2, DiskChanges
<1>4. LET n == [d EXCEPT !.data = data]
      IN  n.type = d.type /\ n.fat = d.fat /\ n.info = d.info /\ n.dir = d.dir
  BY DEF DiskFields
<1> QED BY <1>1, <1>3, <1>4

\* However a call ends.
LEMMA EndsCache ==
    ASSUME NEW m, Whole(m), NEW f, NEW handles, Ends(m, f, handles),
           \A g \in DOMAIN handles : HandleFields(handles[g])
    PROVE  CacheInv'
<1> DEFINE d == Disk(m)
<1>1. DiskFields(d)
  BY DiskIs DEF Whole
<1>2. CASE /\ disk' = Forget(Disk(m), Sound)
           /\ cached' = m.cached
           /\ handle' = handles
  <2> DEFINE e == Forget(d, Sound)
  <2> HIDE DEF d
  <2>1. DiskFields(e) /\ e.fat = d.fat
    BY <1>1, ForgetFields
  <2> HIDE DEF e
  <2>2. disk' = e /\ cached' = m.cached /\ handle' = handles
    BY <1>2 DEF e, d
  <2>3. (DiskFields(disk))'
    BY <2>1, <2>2 DEF DiskFields, DirFields
  <2>4. (\A g \in Opened : HandleFields(handle[g]))'
    BY <2>2 DEF Opened, HandleFields
  <2>5. CacheCoherent'
    BY <2>1, <2>2 DEF CacheCoherent, Whole, Coherent, d
  <2> QED BY <2>3, <2>4, <2>5 DEF CacheInv
<1>3. CASE /\ \E k \in (IF m.panic THEN 1 ELSE 2) .. Len(m.img) :
                disk' = Forget(m.img[k], Sound \ {f})
           /\ cached' = NoCache
           /\ handle' = <<>>
  <2>1. PICK k \in (IF m.panic THEN 1 ELSE 2) .. Len(m.img) : disk' = Forget(m.img[k], Sound \ {f})
    BY <1>3
  <2> DEFINE i == m.img[k]
             e == Forget(i, Sound \ {f})
  <2>2. DiskFields(i)
    BY DEF Whole, Images
  <2> HIDE DEF i
  <2>3. DiskFields(e)
    BY <2>2, ForgetFields
  <2>4. disk' = e
    BY <2>1 DEF i
  <2> HIDE DEF e
  <2>5. (DiskFields(disk))'
    BY <2>3, <2>4 DEF DiskFields, DirFields
  <2>6. (\A g \in Opened : HandleFields(handle[g]))'
    BY <1>3 DEF Opened, HandleFields
  <2>7. CacheCoherent'
    BY <1>3 DEF CacheCoherent, NoCache
  <2> QED BY <2>5, <2>6, <2>7 DEF CacheInv
<1>4. \/ disk' = Forget(Disk(m), Sound) /\ cached' = m.cached /\ handle' = handles
      \/ /\ \E k \in (IF m.panic THEN 1 ELSE 2) .. Len(m.img) : disk' = Forget(m.img[k], Sound \ {f})
         /\ cached' = NoCache /\ handle' = <<>>
  BY Zenon DEF Ends
<1> QED BY <1>2, <1>3, <1>4

\* One more handle, or another in its place.
LEMMA WithFields ==
    ASSUME CacheInv, NEW f, NEW h, HandleFields(h)
    PROVE  \A g \in DOMAIN With(f, h) : HandleFields(With(f, h)[g])
  BY DEF With, CacheInv

\* A handle marked as stale or not.
LEMMA StaleFields ==
    ASSUME NEW h, HandleFields(h), NEW x
    PROVE  HandleFields([h EXCEPT !.stale = x])
  BY DEF HandleFields

\* The other fields.
LEMMA PlaceFields ==
    ASSUME NEW h, HandleFields(h), NEW x
    PROVE  /\ HandleFields([h EXCEPT !.start = x])
           /\ HandleFields([h EXCEPT !.cur = x])
           /\ x \in Nat => HandleFields([h EXCEPT !.size = x])
  BY DEF HandleFields

\* Each action keeps the invariant: here CreatFile.
LEMMA CreatCache == ASSUME CacheInv, NEW f \in File, CreatFile(f) PROVE CacheInv'
<1> DEFINE c == IF Exists(f) THEN disk.dir[f].start ELSE 0
           call == Call(NewHandle)
           nuked == fatNuke(call, c)
           m == WriteDir(nuked, f, [start |-> 0, size |-> 0])
<1>1. Whole(call)
  BY CallWhole, NewHandleFields
<1> HIDE DEF call, c
<1>2. Whole(nuked)
  BY <1>1, NukeWhole
<1> HIDE DEF nuked
<1>3. Whole(m)
  BY <1>2, WriteDirWhole
<1>4. PICK old \in Leftover : Ends(m, f, With(f, HandleWith(old)))
  BY Zenon DEF CreatFile, m, nuked, call, c
<1> HIDE DEF m
<1> QED BY <1>3, <1>4, EndsCache, WithFields, HandleWithFields

\* CreatNewFile keeps it.
LEMMA CreatNewCache == ASSUME CacheInv, NEW f \in File, CreatNewFile(f) PROVE CacheInv'
<1> DEFINE m == Call(NewHandle)
           fail == [m EXCEPT !.result = Failed]
           w == WriteDir(m, f, [start |-> 0, size |-> 0])
<1>1. Whole(m)
  BY CallWhole, NewHandleFields
<1>2. IF Exists(f) THEN Ends(fail, f, handle) ELSE Ends(w, f, handle)
  BY Zenon DEF CreatNewFile
<1> HIDE DEF m
<1>3. Whole(fail) /\ Whole(w)
  BY <1>1, SetWhole, WriteDirWhole
<1>4. \A g \in DOMAIN handle : HandleFields(handle[g])
  BY DEF CacheInv, Opened
<1> HIDE DEF fail, w
<1> QED BY <1>2, <1>3, <1>4, EndsCache

\* OpenFile keeps it.
LEMMA OpenCache == ASSUME CacheInv, NEW f \in File, OpenFile(f) PROVE CacheInv'
<1> DEFINE entry == disk.dir[f]
           start == IF entry.size = 0 /\ entry.start = 0 THEN EmptyStart(disk.type) ELSE entry.start
           size == entry.size
           h == [NewHandle EXCEPT !.start = start, !.size = size, !.cur = start]
           call == Call(h)
           m == AnalyseNext(call)
           none == Call(NewHandle)
           fail == [none EXCEPT !.result = Failed]
<1>1. IF Exists(f) THEN Ends(m, f, With(f, m.h)) ELSE Ends(fail, f, handle)
  BY Zenon DEF OpenFile
<1>2. size \in Nat
  BY EntryFields DEF CacheInv
<1> HIDE DEF start, size, entry
<1>3. HandleFields(h)
  <2>1. h = [[[NewHandle EXCEPT !.start = start] EXCEPT !.size = size] EXCEPT !.cur = start]
    BY Zenon
  <2> QED BY <1>2, <2>1, NewHandleFields, PlaceFields
<1> HIDE DEF h
<1>4. Whole(call)
  BY <1>3, CallWhole
<1> HIDE DEF call
<1>5. Whole(m)
  BY <1>4, AnalyseNextWhole
<1>6. Whole(none)
  BY CallWhole, NewHandleFields
<1> HIDE DEF none, m
<1>7. Whole(fail)
  BY <1>6, SetWhole
<1> HIDE DEF fail
<1>8. \A g \in DOMAIN handle : HandleFields(handle[g])
  BY DEF CacheInv, Opened
<1>9. HandleFields(m.h)
  BY <1>5 DEF Whole
<1> QED BY <1>1, <1>5, <1>7, <1>8, <1>9, EndsCache, WithFields

\* CloseFile keeps it.
LEMMA CloseCache == ASSUME CacheInv, NEW f \in File, CloseFile(f) PROVE CacheInv'
<1>1. /\ handle' = [g \in Opened \ {f} |-> handle[g]]
      /\ disk' = disk /\ cached' = cached
  BY Zenon DEF CloseFile
<1>2. (\A g \in Opened : HandleFields(handle[g]))'
  BY <1>1 DEF Opened, CacheInv, HandleFields
<1> QED BY <1>1, <1>2 DEF CacheInv, CacheCoherent, DiskFields, DirFields

\* ReadFile keeps it.
LEMMA ReadCache ==
    ASSUME CacheInv, NEW f \in File, NEW n \in Amount[f], ReadFile(f, n) PROVE CacheInv'
<1> DEFINE h == handle[f]
           call == Call(h)
           m == fatReadFile(call, n)
           stale == h.stale \/ StaleAfterRead(m.h)
           to == [m.h EXCEPT !.stale = stale]
<1>0. f \in Opened /\ Ends(m, f, With(f, to))
  BY Zenon DEF ReadFile
<1>1. HandleFields(h) /\ n \in Nat
  BY <1>0, FileAssumption DEF CacheInv
<1> HIDE DEF h
<1>2. Whole(call)
  BY <1>1, CallWhole
<1> HIDE DEF call
<1>3. Whole(m)
  BY <1>1, <1>2, ReadFileWhole
<1> HIDE DEF m, stale
<1>4. HandleFields(to)
  BY <1>3, StaleFields DEF Whole
<1> HIDE DEF to
<1> QED BY <1>0, <1>3, <1>4, EndsCache, WithFields

\* WriteFile keeps it.
LEMMA WriteCache ==
    ASSUME CacheInv, NEW f \in File, NEW data \in Data[f], WriteFile(f, data) PROVE CacheInv'
<1> DEFINE h == handle[f]
           call == Call(h)
           m == fatWriteFile(call, f, data)
           stale == h.stale \/ StaleAfterWrite(h, m.h)
           to == [m.h EXCEPT !.stale = stale]
<1>0. f \in Opened /\ Ends(m, f, With(f, to))
  BY Zenon DEF WriteFile
<1>1. HandleFields(h) /\ data \in Seq(Int)
  BY <1>0, FileAssumption DEF CacheInv
<1> HIDE DEF h
<1>2. Whole(call)
  BY <1>1, CallWhole
<1> HIDE DEF call
<1>3. Whole(m)
  BY <1>1, <1>2, WriteFileWhole
<1> HIDE DEF m, stale
<1>4. HandleFields(to)
  BY <1>3, StaleFields DEF Whole
<1> HIDE DEF to
<1> QED BY <1>0, <1>3, <1>4, EndsCache, WithFields

\* SeekFile keeps it.
LEMMA SeekCache ==
    ASSUME CacheInv, NEW f \in File, NEW p \in Amount[f], SeekFile(f, p) PROVE CacheInv'
<1> DEFINE h == handle[f]
           call == Call(h)
           m == fatSeek(call, p)
           stale == StaleAfterSeek(h, m.h)
           to == [m.h EXCEPT !.stale = stale]
<1>0. f \in Opened /\ Ends(m, f, With(f, to))
  BY Zenon DEF SeekFile
<1>1. HandleFields(h) /\ p \in Nat
  BY <1>0, FileAssumption DEF CacheInv
<1> HIDE DEF h
<1>2. Whole(call)
  BY <1>1, CallWhole
<1> HIDE DEF call
<1>3. Whole(m)
  BY <1>1, <1>2, SeekWhole
<1> HIDE DEF m, stale
<1>4. HandleFields(to)
  BY <1>3, StaleFields DEF Whole
<1> HIDE DEF to
<1> QED BY <1>0, <1>3, <1>4, EndsCache, WithFields

\* DeleteFile keeps it.
LEMMA DeleteCache == ASSUME CacheInv, NEW f \in File, DeleteFile(f) PROVE CacheInv'
<1> DEFINE m == Call(NewHandle)
           nuked == fatNuke(m, disk.dir[f].start)
           w == WriteDir(nuked, f, NoEntry)
           fail == [m EXCEPT !.result = Failed]
<1>1. IF Exists(f) THEN Ends(w, f, handle) ELSE Ends(fail, f, handle)
  BY Zenon DEF DeleteFile
<1>2. Whole(m)
  BY CallWhole, NewHandleFields
<1> HIDE DEF m
<1>3. Whole(nuked) /\ Whole(fail)
  BY <1>2, NukeWhole, SetWhole
<1> HIDE DEF nuked, fail
<1>4. Whole(w)
  BY <1>3, WriteDirWhole DEF NoEntry
<1> HIDE DEF w
<1>5. \A g \in DOMAIN handle : HandleFields(handle[g])
  BY DEF CacheInv, Opened
<1> QED BY <1>1, <1>3, <1>4, <1>5, EndsCache

\* A stop of the machine keeps it.
LEMMA HaltCache == ASSUME CacheInv, Halt PROVE CacheInv'
<1>1. cached' = NoCache /\ handle' = <<>> /\ disk' = disk
  BY Zenon DEF Halt
<1>2. (\A g \in Opened : HandleFields(handle[g]))'
  BY <1>1 DEF Opened, HandleFields
<1>3. CacheCoherent'
  BY <1>1 DEF CacheCoherent, NoCache
<1> QED BY <1>1, <1>2, <1>3 DEF CacheInv, DiskFields, DirFields

\* It holds at the start.
LEMMA InitCache == Init => CacheInv
<1> SUFFICES ASSUME Init PROVE CacheInv
  OBVIOUS
<1>1. PICK type \in Types :
        disk = [type |-> type, fat |-> EmptyTable(type),
                info |-> [free |-> NumClusters - 2, last |-> 2],
                data |-> [a \in Sector |-> JunkSector],
                dir |-> [f \in File |-> NoEntry]]
  BY DEF Init
<1>2. DirFields([f \in File |-> NoEntry])
  BY DEF DirFields, NoEntry
<1>3. [a \in Sector |-> JunkSector] \in [Sector -> Buffer]
  BY JunkBuffer
<1> DEFINE dir == [f \in File |-> NoEntry]
           data == [a \in Sector |-> JunkSector]
           fat == EmptyTable(type)
           info == [free |-> NumClusters - 2, last |-> 2]
<1> HIDE DEF dir, data, fat, info
<1>4. disk = [type |-> type, fat |-> fat, info |-> info, data |-> data, dir |-> dir]
  BY <1>1 DEF dir, data, fat, info
<1>5. disk.data = data /\ disk.dir = dir
      /\ disk = [type |-> disk.type, fat |-> disk.fat, info |-> disk.info, data |-> disk.data, dir |-> disk.dir]
  BY <1>4
<1>6. DiskFields(disk)
  BY <1>2, <1>3, <1>5 DEF DiskFields, dir, data
<1>7. \A f \in Opened : HandleFields(handle[f])
  BY DEF Init, Opened
<1>8. CacheCoherent
  BY DEF Init, NoCache, CacheCoherent
<1> QED BY <1>6, <1>7, <1>8 DEF CacheInv

\* Every step keeps it.
LEMMA NextCache == CacheInv /\ [Next]_vars => CacheInv'
<1> SUFFICES ASSUME CacheInv, [Next]_vars PROVE CacheInv'
  OBVIOUS
<1>1. CASE UNCHANGED vars
  BY <1>1 DEF vars, CacheInv, Opened, CacheCoherent, DiskFields, DirFields, HandleFields
<1>2. CASE Halt
  BY <1>2, HaltCache
<1>3. CASE \E f \in File :
        \/ CreatFile(f) \/ CreatNewFile(f) \/ OpenFile(f) \/ CloseFile(f) \/ DeleteFile(f)
        \/ \E n \in Amount[f] : ReadFile(f, n) \/ SeekFile(f, n)
        \/ \E data \in Data[f] : WriteFile(f, data)
  BY <1>3, CreatCache, CreatNewCache, OpenCache, CloseCache, DeleteCache, ReadCache, SeekCache, WriteCache
<1> QED BY <1>1, <1>2, <1>3, Zenon DEF Next

\* The one-sector cache in front of the table is coherent in every state, for all
\* volumes and callers, careful or not, and machines that stop at any write.
THEOREM CacheStaysCoherent == Spec => []CacheCoherent
<1>1. CacheInv => CacheCoherent
  BY DEF CacheInv
<1> QED BY <1>1, InitCache, NextCache, PTL DEF Spec

===============================================================================
