------------------------------ MODULE FatTable ------------------------------
(***************************************************************************)
(* The allocation table of fat.c on the disk: entries of 12, 16 or 32 bits *)
(* packed in sectors, the one-sector cache in front of it, and the         *)
(* routines that look for, mark, chain and free clusters.  A byte is two   *)
(* nibbles, low one first, so that an entry is a run of nibbles: one of 12 *)
(* bits may lie in two sectors.                                            *)
(*                                                                         *)
(* A call of the driver is an operator on a record m:                      *)
(*   img          the disk after each sector written so far, oldest first  *)
(*   cached       fat->cachedSector (0: none) and fat->cachedBuf           *)
(*   currcluster  fat->currcluster                                         *)
(*   next         *nextCluster of the last fatClusterAnalyse               *)
(*   panic        PosMonitor() was called, which ends the program          *)
(***************************************************************************)
EXTENDS Integers, Sequences, SequencesExt, FiniteSets

CONSTANTS SectorNibbles,    \* nibbles in a sector of the table
          FatSectors,       \* fat->fatsize
          NumClusters       \* fat->num_clusters

\* An entry lies in two sectors at most, and 0 and 1 are no clusters.
ASSUME TableAssumption ==
    /\ SectorNibbles \in Nat /\ SectorNibbles >= 8
    /\ FatSectors \in Nat \ {0}
    /\ NumClusters \in Nat /\ NumClusters >= 2

Disk(m) == Last(m.img)

NoCache == [sector |-> 0, buf |-> <<>>]

\* Mutant: a write leaves the cached copy of the sector as it is.
fatWriteLogical_KeepCache(m, d) ==
    IF m.panic THEN m ELSE [m EXCEPT !.img = Append(@, d)]

\* A sector is written, d is the disk with it; the cache is dropped.
fatWriteLogical(m, d) ==
    IF m.panic THEN m ELSE [m EXCEPT !.img = Append(@, d), !.cached = NoCache]

Width(type) == type \div 4
EntryNibbles(type) == IF type = 32 THEN 7 ELSE Width(type)  \* 4 bits are reserved
EndMark(type) == 16 ^ EntryNibbles(type) - 1
EmptyStart(type) == EndMark(type) - 7       \* the start of an empty file once open

fatEndCluster(d, c) ==
    c < 2 \/ c >= EmptyStart(d.type) \/ (d.type = 12 /\ c = 4080)

\* The sectors of the first and the last nibble of an entry.
FirstSector(d, c) == 1 + (Width(d.type) * c) \div SectorNibbles
LastSector(d, c) == 1 + (Width(d.type) * c + EntryNibbles(d.type) - 1) \div SectorNibbles

Nibble(d, c, i) ==
    LET k == Width(d.type) * c + i IN d.fat[1 + k \div SectorNibbles][k % SectorNibbles]

Entry(d, c) ==
    LET sum[i \in 0 .. EntryNibbles(d.type)] ==
            IF i = EntryNibbles(d.type) THEN 0 ELSE Nibble(d, c, i) + 16 * sum[i + 1]
    IN  sum[0]

\* Sector s with the part of the entry of c that lies in it set to v.
PutEntry(d, buf, s, c, v) ==
    [k \in 0 .. SectorNibbles - 1 |->
        LET i == (s - 1) * SectorNibbles + k - Width(d.type) * c
        IN  IF i \in 0 .. EntryNibbles(d.type) - 1 THEN (v \div 16 ^ i) % 16 ELSE buf[k]]

WriteFat(m, s, buf) == fatWriteLogical(m, [Disk(m) EXCEPT !.fat[s] = buf])

WriteEntry(m, c, v) ==
    LET d == Disk(m)
        s == FirstSector(d, c)
        t == LastSector(d, c)
        first == WriteFat(m, s, PutEntry(d, d.fat[s], s, c, v))
    IN  IF t = s THEN first ELSE WriteFat(first, t, PutEntry(d, d.fat[t], t, c, v))

fatReadLogicalCached(m, s) ==
    IF m.cached.sector = s
    THEN m
    ELSE [m EXCEPT !.cached = [sector |-> s, buf |-> Disk(m).fat[s]]]

\* *nextCluster stays as it was when c is an end.
fatClusterAnalyse(m, c) ==
    LET d == Disk(m)
        s == FirstSector(d, c)
        t == LastSector(d, c)
        one == fatReadLogicalCached(m, s)
        two == fatReadLogicalCached(one, t)
        seen == [d EXCEPT !.fat[s] = one.cached.buf, !.fat[t] = two.cached.buf]
    IN  IF fatEndCluster(d, c) THEN m ELSE [two EXCEPT !.next = Entry(seen, c)]

-------------------------------------------------------------------------------
\* FSInfo of FAT32 volumes: the free count (Unknown when not kept) and the last
\* cluster allocated.
Unknown == -1

WriteInfo(m, delta, last) ==
    LET free == Disk(m).info.free
    IN  fatWriteLogical(m, [Disk(m) EXCEPT !.info =
            [free |-> IF free = Unknown THEN Unknown ELSE free + delta, last |-> last]])

fatMarkCluster(m, c) ==
    LET marked == WriteEntry(m, c, EndMark(Disk(m).type))
    IN  IF Disk(m).type = 32 THEN WriteInfo(marked, -1, c) ELSE marked

FreeEntries(d) ==
    {c \in 0 .. (FatSectors * SectorNibbles) \div Width(d.type) - 1 : Entry(d, c) = 0}

FirstFree(entries) ==
    IF entries = {} THEN NumClusters ELSE CHOOSE c \in entries : \A e \in entries : c <= e

\* The first free entry, on FAT32 from the last allocated cluster on and then
\* from the start; 0 when it is not below the number of clusters.
fatFindFreeCluster(d) ==
    LET last == IF d.type = 32 /\ d.info.last < NumClusters THEN d.info.last ELSE 0
        onwards == FirstFree({c \in FreeEntries(d) : c >= last})
        again == IF last = 0 THEN NumClusters ELSE FirstFree(FreeEntries(d))
    IN  IF onwards < NumClusters THEN onwards
        ELSE IF again < NumClusters THEN again ELSE 0

\* Mutant: the new cluster is not marked as the end of the chain.
ChainTo_NoMark(m, new) ==
    IF new = 0 \/ fatEndCluster(Disk(m), m.currcluster)
    THEN [m EXCEPT !.panic = TRUE]
    ELSE [WriteEntry(m, m.currcluster, new) EXCEPT !.currcluster = new]

\* The chain grows: the old end points to the new cluster, which is then marked.
ChainTo(m, new) ==
    IF new = 0 \/ fatEndCluster(Disk(m), m.currcluster)
    THEN [m EXCEPT !.panic = TRUE]
    ELSE [fatMarkCluster(WriteEntry(m, m.currcluster, new), new) EXCEPT !.currcluster = new]

fatChain(m) == ChainTo(m, fatFindFreeCluster(Disk(m)))

\* Free the cluster at.c of a chain and go on to the next.  at.buf is the sector
\* at.buffered with the entries freed so far, written when the chain leaves the
\* sector; at.n counts them.
NukeOne(at) ==
    LET d == Disk(at.m)
        s == FirstSector(d, at.c)
        t == LastSector(d, at.c)
        left == IF at.buffered \notin {0, s} THEN WriteFat(at.m, at.buffered, at.buf) ELSE at.m
        cur == IF at.buffered = s THEN at.buf ELSE Disk(left).fat[s]
        next == Entry([Disk(left) EXCEPT !.fat[s] = cur], at.c)
        zeroed == PutEntry(d, cur, s, at.c, 0)
    IN  IF fatEndCluster(d, at.c) THEN at
        ELSE IF t = s
        THEN [m |-> left, c |-> next, buffered |-> s, buf |-> zeroed, n |-> at.n + 1]
        ELSE [m |-> WriteFat(left, s, zeroed), c |-> next, buffered |-> t,
              buf |-> PutEntry(d, Disk(left).fat[t], t, at.c, 0), n |-> at.n + 1]

\* The chain from c on after k of its clusters.
NukeSome(m, c, k) ==
    LET at[i \in 0 .. k] ==
            IF i = 0 THEN [m |-> m, c |-> c, buffered |-> 0, buf |-> <<>>, n |-> 0]
            ELSE NukeOne(at[i - 1])
    IN  at[k]

NukeEnd(at) ==
    LET done == IF at.buffered = 0 THEN at.m ELSE WriteFat(at.m, at.buffered, at.buf)
    IN  IF Disk(at.m).type = 32 THEN WriteInfo(done, at.n, Disk(at.m).info.last) ELSE done

fatNuke(m, c) == IF c = 0 THEN m ELSE NukeEnd(NukeSome(m, c, NumClusters))

=============================================================================
