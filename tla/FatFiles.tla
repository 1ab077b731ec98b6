------------------------------ MODULE FatFiles ------------------------------
(***************************************************************************)
(* The file calls of fat.c: create, open, read, write, seek and delete, on *)
(* a volume of NumClusters - 2 data clusters.  Each call is one action     *)
(* whose record m (see FatTable) carries the handle h and the bytes got;   *)
(* the disk goes through the images m.img, and the machine may stop with   *)
(* any of them on the disk.  Looking up a name is left to FatDirectory:    *)
(* here every file has its own place in dir.                               *)
(*                                                                         *)
(* A handle holds startcluster, fileSize, currpos, currentCluster,         *)
(* sectorUpto and nextCluster (0: not known).  byteUpto, lastBytes and     *)
(* lastSectors are computed again by every call, and sectorStart is that   *)
(* of currentCluster whenever a sector is read or written.  `stale` is no field of the code: it says that  *)
(* the sector the handle points to may not be the one of currpos.          *)
(***************************************************************************)
EXTENDS FatTable, FileValues, FiniteSetsExt, Functions

CONSTANTS File,
          Amount,               \* of each file: numbers of bytes read and positions
          Data,                 \* of each file: the sequences of bytes written
          SectorBytes,          \* fat->sector_size
          SectorsPerCluster,    \* fat->sectors_per_cluster
          Types,                \* the kinds of table: some of 12, 16, 32
          Leftover,             \* clusters the FATFILE of a caller may still hold
          MaxSize,              \* bound: no file grows beyond
          MaxStops,             \* bound: how often the machine stops
          Careful               \* whether callers avoid the stale handles below

ASSUME FileAssumption ==
    /\ SectorBytes \in Nat \ {0} /\ SectorsPerCluster \in Nat \ {0}
    /\ Types \subseteq {12, 16, 32} /\ Leftover \subseteq Nat
    /\ MaxSize \in Nat /\ MaxStops \in Nat /\ Careful \in BOOLEAN
    /\ \A f \in File : Amount[f] \subseteq Nat /\ Data[f] \subseteq Seq(Int)

\* The table has an entry for every cluster, and no cluster has the number of an
\* end mark: fatEndCluster takes 4080 for one where entries have 12 bits.
ASSUME VolumeAssumption ==
    \A type \in Types :
        /\ NumClusters * Width(type) <= FatSectors * SectorNibbles
        /\ NumClusters <= (IF type = 12 THEN 4080 ELSE EmptyStart(type))

VARIABLES disk,         \* type, fat, info, data: sectors, dir: start and size
          cached,       \* fat->cachedSector and fat->cachedBuf
          handle,       \* the open files
          result,       \* what the last call returned
          held,         \* what the disk holds of each file, read along the chains
          damaged,      \* the files in whose calls the machine stopped
          stops

vars == <<disk, cached, held, handle, result, damaged, stops>>

ClusterBytes == SectorBytes * SectorsPerCluster
Cluster == 2 .. NumClusters - 1
Sector == 0 .. (NumClusters - 2) * SectorsPerCluster - 1
Junk == -1                      \* what a static buffer held before
JunkSector == [i \in 1 .. SectorBytes |-> Junk]
NoEntry == [start |-> -1, size |-> 0]

EmptyTable(type) ==
    [s \in 1 .. FatSectors |-> [k \in 0 .. SectorNibbles - 1 |->
        IF (s - 1) * SectorNibbles + k < 2 * Width(type) THEN 15 ELSE 0]]

Init ==
    /\ \E type \in Types :
        disk = [type |-> type, fat |-> EmptyTable(type),
                info |-> [free |-> NumClusters - 2, last |-> 2],
                data |-> [a \in Sector |-> JunkSector],
                dir |-> [f \in File |-> NoEntry]]
    /\ cached = NoCache
    /\ held = [f \in File |-> Absent]
    /\ handle = <<>>
    /\ result = Done(0)
    /\ damaged = {}
    /\ stops = 0

-------------------------------------------------------------------------------
\* Sectors of the file.  One outside the data area is nobody's.
Address(h) == (h.cur - 2) * SectorsPerCluster + h.up

ReadSector(m) ==
    IF Address(m.h) \in Sector THEN Disk(m).data[Address(m.h)] ELSE JunkSector

WriteSector(m, buf) ==
    fatWriteLogical(m, IF Address(m.h) \in Sector
                       THEN [Disk(m) EXCEPT !.data[Address(m.h)] = buf] ELSE Disk(m))

\* buf with bytes copied over it from byte `from` on.
Copied(buf, from, bytes) ==
    [i \in DOMAIN buf |-> IF i \in from + 1 .. from + Len(bytes) THEN bytes[i - from] ELSE buf[i]]

WriteDir(m, f, entry) == fatWriteLogical(m, [Disk(m) EXCEPT !.dir[f] = entry])

\* fatClusterAnalyse with the field of the handle as *nextCluster.
AnalyseNext(m) ==
    LET a == fatClusterAnalyse([m EXCEPT !.next = m.h.next], m.h.cur)
    IN  [a EXCEPT !.h.next = a.next]

AnalyseCurrent(m, c) ==
    LET a == fatClusterAnalyse([m EXCEPT !.next = m.h.cur], c)
    IN  [a EXCEPT !.h.cur = a.next]

ToCluster(m, c) == [m EXCEPT !.currcluster = c, !.h.cur = c, !.h.up = 0]

ToChained(m) == IF m.panic THEN m ELSE ToCluster(m, m.currcluster)

ChainFile(m) == ToChained(fatChain(m))

ToFollowed(m) == ToCluster(m, m.h.cur)

Follow(m) == ToFollowed(AnalyseCurrent(m, m.currcluster))

\* Mutant: a new cluster is made although the file goes on.
Advance_AlwaysChain(m) ==
    LET on == [m EXCEPT !.h.up = @ + 1]
    IN  IF on.h.up # SectorsPerCluster THEN on ELSE ChainFile(on)

\* sectorUpto goes on; at the end of the cluster the next one is found or made.
Advance(m) ==
    LET on == [m EXCEPT !.h.up = @ + 1]
    IN  IF on.h.up # SectorsPerCluster THEN on
        ELSE IF on.h.pos < on.h.size THEN Follow(on) ELSE ChainFile(on)

-------------------------------------------------------------------------------
\* The cluster is used up and the chain goes on: the next one is entered.
Turned(m) ==
    IF m.h.up # SectorsPerCluster \/ fatEndCluster(Disk(m), m.h.next) THEN m
    ELSE [AnalyseNext([m EXCEPT !.h.cur = m.h.next]) EXCEPT !.h.up = 0]

\* What is left of the sector from byte b on is read, of a call that wants `want`
\* bytes in all.
ReadHere(m, b, want) ==
    LET h == m.h
        last == fatEndCluster(Disk(m), h.next)
        lastBytes == h.size % ClusterBytes
        cut == last /\ lastBytes # 0
        avail == IF last /\ h.size = 0 THEN 0
                 ELSE IF cut THEN lastBytes \div SectorBytes + 1 ELSE SectorsPerCluster
        bytes == IF cut /\ h.up = lastBytes \div SectorBytes
                 THEN lastBytes % SectorBytes ELSE SectorBytes
        n == Min({bytes - b, want - Len(m.bytes)})
        taken == [m EXCEPT !.bytes = @ \o SubSeq(ReadSector(m), b + 1, b + n),
                           !.h.pos = @ + n]
    IN  IF h.up = avail
        THEN [m |-> IF cut THEN [m EXCEPT !.h.up = (h.pos % ClusterBytes) \div SectorBytes] ELSE m,
              b |-> b, done |-> TRUE]
        ELSE IF bytes - b > n
        THEN [m |-> taken, b |-> b + n, done |-> TRUE]
        ELSE [m |-> [taken EXCEPT !.h.up = @ + 1], b |-> 0, done |-> FALSE]

\* A round of the loops of fatReadFile: one sector.
ReadOne(at, want) ==
    IF at.done \/ fatEndCluster(Disk(at.m), at.m.h.cur) THEN [at EXCEPT !.done = TRUE]
    ELSE ReadHere(Turned(at.m), at.b, want)

\* After k rounds.
ReadSome(m, want, k) ==
    LET at[i \in 0 .. k] ==
            IF i = 0 THEN [m |-> m, b |-> m.h.pos % SectorBytes, done |-> FALSE]
            ELSE ReadOne(at[i - 1], want)
    IN  at[k].m

\* Every round but the first and the last two takes a whole sector.
ReadOn(m, want) == ReadSome(m, want, want \div SectorBytes + 3)

fatReadFile(m, want) ==
    LET h == m.h
        known == AnalyseNext(m)
        set == IF h.next # 0 THEN m
               ELSE [known EXCEPT !.h.up = (h.pos % ClusterBytes) \div SectorBytes]
        read == ReadOn(set, want)
    IN  IF h.pos > h.size THEN [m EXCEPT !.result = Failed]
        ELSE [read EXCEPT !.result = Got(read.bytes)]

-------------------------------------------------------------------------------
\* The first cluster of an empty file, marked and put in its directory entry.
StartFile(m, f) ==
    LET d == Disk(m)
        c == fatFindFreeCluster(d)
        marked == ToCluster(fatMarkCluster(m, c), c)
    IN  IF m.h.start \notin {0, EmptyStart(d.type)}
        THEN [m EXCEPT !.currcluster = m.h.cur]
        ELSE IF c = 0 THEN [m EXCEPT !.result = Failed]
        ELSE WriteDir([marked EXCEPT !.h.start = c], f, [d.dir[f] EXCEPT !.start = c])

Zeros(n) == [i \in 1 .. n |-> 0]

\* A whole sector of zeros while more than one is missing; past the end every new
\* cluster is chained.
ZeroOne(m) ==
    LET on == [WriteSector(m, Zeros(SectorBytes)) EXCEPT
                  !.h.up = @ + 1, !.h.size = @ + SectorBytes]
    IN  IF m.panic \/ m.h.pos - m.h.size <= SectorBytes THEN m
        ELSE IF on.h.up = SectorsPerCluster THEN ChainFile(on) ELSE on

ZeroSome(m, k) ==
    LET at[i \in 0 .. k] == IF i = 0 THEN m ELSE ZeroOne(at[i - 1])
    IN  at[k]

\* Whole sectors of zeros up to currpos.
ZeroSectors(m) ==
    WriteSector(ZeroSome(m, (m.h.pos - m.h.size) \div SectorBytes), Zeros(SectorBytes))

\* The gap between the end of the file and currpos is filled with zeros.
Extend(m) ==
    LET h == m.h
        lastBytes == h.size % SectorBytes
        rem == SectorBytes - lastBytes
        gap == h.pos - h.size
        buf == IF lastBytes # 0 THEN ReadSector(m) ELSE JunkSector
        filled == WriteSector(m, Copied(buf, lastBytes, Zeros(Min({gap, rem}))))
        on == [filled EXCEPT !.h.size = @ + rem, !.h.up = @ + 1]
    IN  IF gap <= 0 THEN m
        ELSE IF gap <= rem THEN [filled EXCEPT !.h.size = h.pos]
        ELSE [ZeroSectors(IF on.h.up = SectorsPerCluster THEN ChainFile(on) ELSE on)
                 EXCEPT !.h.size = h.pos]

\* A whole sector, written without reading it, with more to follow.
WriteOne(m, data) ==
    IF m.panic THEN m
    ELSE Advance([WriteSector(m, data) EXCEPT !.h.pos = @ + SectorBytes])

\* k whole sectors of data.
WriteSome(m, data, k) ==
    LET at[i \in 0 .. k] ==
            IF i = 0 THEN m
            ELSE WriteOne(at[i - 1], SubSeq(data, (i - 1) * SectorBytes + 1, i * SectorBytes))
    IN  at[k]

\* The last sector: what it has behind the data is kept when the file goes on.
WriteLast(m, data) ==
    LET keeps == m.h.pos + Len(data) < m.h.size
        rest == [WriteSector(m, Copied(IF keeps THEN ReadSector(m) ELSE JunkSector, 0, data))
                    EXCEPT !.h.pos = @ + Len(data)]
    IN  IF m.panic THEN m
        ELSE IF keeps /\ Len(data) = SectorBytes THEN Advance(rest) ELSE rest

\* The sectors after the first.
WriteOn(m, data) ==
    LET whole == (Len(data) - 1) \div SectorBytes
    IN  WriteLast(WriteSome(m, data, whole), SubSeq(data, whole * SectorBytes + 1, Len(data)))

WriteRest(m, data) == IF m.panic \/ data = <<>> THEN m ELSE WriteOn(Advance(m), data)

\* The sector currpos is in, and those after it.
WriteData(m, data) ==
    LET h == m.h
        atEnd == h.pos % SectorBytes = 0 /\ h.pos = h.size /\ h.pos # 0
        lastBytes == IF atEnd THEN SectorBytes ELSE h.pos % SectorBytes
        rem == SectorBytes - lastBytes
        n == Min({Len(data), rem})
        buf == IF h.pos < h.size \/ (lastBytes # 0 /\ rem # 0) THEN ReadSector(m) ELSE JunkSector
        first == IF rem = 0 THEN m
                 ELSE WriteSector(m, Copied(buf, lastBytes, SubSeq(data, 1, n)))
    IN  WriteRest([first EXCEPT !.h.pos = @ + n], SubSeq(data, n + 1, Len(data)))

\* The directory entry gets the new size.
WriteSize(m, f, size, done) ==
    WriteDir([m EXCEPT !.h.size = size, !.result = Done(done)], f,
             [Disk(m).dir[f] EXCEPT !.size = size])

WriteStarted(m, f, data) ==
    LET written == WriteData(Extend(m), data)
    IN  IF m.result = Failed THEN m
        ELSE WriteSize(written, f, Max({written.h.size, written.h.pos}), Len(data))

fatWriteFile(m, f, data) ==
    IF data = <<>> THEN [m EXCEPT !.result = Done(0)]
    ELSE WriteStarted(StartFile([m EXCEPT !.h.next = 0], f), f, data)

-------------------------------------------------------------------------------
SeekOne(m) == AnalyseCurrent([m EXCEPT !.currcluster = m.h.cur], m.h.cur)

\* n clusters on.
SeekClusters(m, n) ==
    LET at[i \in 0 .. n] == IF i = 0 THEN m ELSE SeekOne(at[i - 1])
    IN  at[n]

\* From the cluster the handle is in when the new position is not before it.
SeekInside(m, newpos) ==
    LET h == m.h
        old == h.pos \div ClusterBytes
               - (IF h.pos % ClusterBytes = 0 /\ h.pos # 0 /\ h.up # 0 THEN 1 ELSE 0)
        real == Min({h.size, newpos}) - (IF h.size = newpos THEN 1 ELSE 0)
        new == real \div ClusterBytes
        here == new >= old /\ ~fatEndCluster(Disk(m), h.cur)
        at == [m EXCEPT !.h.up = (real % ClusterBytes) \div SectorBytes,
                        !.h.cur = IF here THEN @ ELSE h.start]
    IN  SeekClusters(at, IF here THEN new - old ELSE new)

fatSeek(m, newpos) ==
    LET h == m.h
        moved == IF newpos >= h.size /\ h.pos >= h.size THEN m
                 ELSE IF newpos = 0 THEN [m EXCEPT !.h.cur = h.start, !.h.up = 0]
                 ELSE SeekInside(m, newpos)
    IN  [moved EXCEPT !.h.pos = newpos, !.h.next = 0, !.result = Done(newpos)]

-------------------------------------------------------------------------------
Opened == DOMAIN handle

Call(h) ==
    [img |-> <<disk>>, cached |-> cached, currcluster |-> 0, next |-> 0, panic |-> FALSE,
     h |-> h, bytes |-> <<>>, result |-> Done(0)]

NewHandle == [start |-> 0, size |-> 0, pos |-> 0, cur |-> 0, up |-> 0, next |-> 0,
              stale |-> FALSE]

\* One more cluster of the chain from c on, unless it has ended.
ChainOne(d, c, chain) ==
    LET next == IF chain = <<>> THEN c ELSE Entry(d, Last(chain))
    IN  IF fatEndCluster(d, next) THEN chain ELSE Append(chain, next)

\* The first n clusters of the chain from c on.
Chain(d, c, n) ==
    LET upto[i \in 0 .. n] == IF i = 0 THEN <<>> ELSE ChainOne(d, c, upto[i - 1])
    IN  upto[n]

ChainIn(d, f) ==
    IF d.dir[f] = NoEntry THEN <<>> ELSE Chain(d, d.dir[f].start, NumClusters)

Sound == File \ damaged

BytesIn(d, f) ==
    LET chain == ChainIn(d, f)
        sector(k) == d.data[(chain[1 + k \div SectorsPerCluster] - 2) * SectorsPerCluster
                               + (k % SectorsPerCluster)]
    IN  IF d.dir[f].size > Len(chain) * ClusterBytes THEN <<>>
        ELSE [i \in 1 .. d.dir[f].size |->
                 sector((i - 1) \div SectorBytes)[1 + ((i - 1) % SectorBytes)]]

Contents(d, lost) ==
    [f \in File |-> IF f \in lost THEN Lost
                    ELSE IF d.dir[f] = NoEntry THEN Absent ELSE Present(BytesIn(d, f))]

\* What the clusters hold that are of none of the files is of no interest.
Forget(d, files) ==
    LET owned == UNION {Range(ChainIn(d, f)) : f \in files}
    IN  [d EXCEPT !.data = [a \in Sector |->
            IF 2 + (a \div SectorsPerCluster) \in owned THEN d.data[a] ELSE JunkSector]]

\* The call m on f ends, or the machine stops after one of its writes; a volume
\* that is full ends the program (PosMonitor).
Ends(m, f, handles) ==
    \/ /\ ~m.panic
       /\ disk' = Forget(Disk(m), Sound)
       /\ cached' = m.cached
       /\ held' = Contents(Disk(m), damaged)
       /\ handle' = handles
       /\ result' = m.result
       /\ UNCHANGED <<damaged, stops>>
    \/ /\ stops < MaxStops
       /\ \E k \in (IF m.panic THEN 1 ELSE 2) .. Len(m.img) :
            /\ disk' = Forget(m.img[k], Sound \ {f})
            /\ held' = Contents(m.img[k], damaged \cup {f})
       /\ cached' = NoCache
       /\ handle' = <<>>
       /\ result' = Failed
       /\ damaged' = damaged \cup {f}
       /\ stops' = stops + 1

With(f, h) == [g \in Opened \cup {f} |-> IF g = f THEN h ELSE handle[g]]

\* Reads that stop at the end of the last sector and writes that end with a
\* sector before the end of the file leave the handle one sector behind or ahead;
\* a seek to a place before the end, or from one, sets it right.
StaleAfterRead(h) == h.pos = h.size /\ h.size # 0 /\ h.size % SectorBytes = 0
StaleAfterWrite(old, h) ==
    /\ h.pos < h.size /\ h.pos % SectorBytes = 0
    /\ old.pos \div SectorBytes = (h.pos - 1) \div SectorBytes
StaleAfterSeek(old, h) == old.stale /\ h.pos >= h.size /\ old.pos >= h.size

Exists(f) == disk.dir[f] # NoEntry

\* A new file's handle whose currentCluster is left as it was.
HandleWith(c) == [start |-> 0, size |-> 0, pos |-> 0, cur |-> c, up |-> 0, next |-> 0,
                  stale |-> FALSE]

\* Mutant: the clusters the file had are not freed.
CreatFile_NoNuke(f) ==
    LET m == WriteDir(Call(NewHandle), f, [start |-> 0, size |-> 0])
    IN  f \notin Opened \cup damaged /\ \E c \in Leftover : Ends(m, f, With(f, HandleWith(c)))

\* fatCreatFile leaves currentCluster, sectorUpto and sectorStart as the caller's
\* FATFILE holds them.  The first write sets all three; only a read of the file
\* while it is empty, which careful callers do not ask for, looks at currentCluster.
CreatFile(f) ==
    LET nuked == fatNuke(Call(NewHandle), IF Exists(f) THEN disk.dir[f].start ELSE 0)
        m == WriteDir(nuked, f, [start |-> 0, size |-> 0])
    IN  f \notin Opened \cup damaged /\ \E c \in Leftover : Ends(m, f, With(f, HandleWith(c)))

CreatNewFile(f) ==
    LET m == Call(NewHandle)
    IN  /\ f \notin Opened \cup damaged
        /\ IF Exists(f)
           THEN Ends([m EXCEPT !.result = Failed], f, handle)
           ELSE Ends(WriteDir(m, f, [start |-> 0, size |-> 0]), f, handle)

OpenFile(f) ==
    LET entry == disk.dir[f]
        start == IF entry.size = 0 /\ entry.start = 0 THEN EmptyStart(disk.type) ELSE entry.start
        h == [NewHandle EXCEPT !.start = start, !.size = entry.size, !.cur = start]
        m == AnalyseNext(Call(h))
    IN  /\ f \notin Opened \cup damaged
        /\ IF Exists(f) THEN Ends(m, f, With(f, m.h))
           ELSE Ends([Call(NewHandle) EXCEPT !.result = Failed], f, handle)

\* fat.c has no close: the caller forgets the handle.
CloseFile(f) ==
    /\ f \in Opened
    /\ handle' = [g \in Opened \ {f} |-> handle[g]]
    /\ result' = Done(0)
    /\ UNCHANGED <<disk, cached, held, damaged, stops>>

ReadFile(f, n) ==
    LET h == handle[f]
        m == fatReadFile(Call(h), n)
    IN  /\ f \in Opened
        /\ Careful => ~h.stale /\ (h.pos < h.size \/ h.size % ClusterBytes # 0)
        /\ Ends(m, f, With(f, [m.h EXCEPT !.stale = h.stale \/ StaleAfterRead(m.h)]))

WriteFile(f, data) ==
    LET h == handle[f]
        m == fatWriteFile(Call(h), f, data)
    IN  /\ f \in Opened
        /\ h.pos + Len(data) <= MaxSize
        /\ Careful => ~h.stale
        /\ Ends(m, f, With(f, [m.h EXCEPT !.stale = h.stale \/ StaleAfterWrite(h, m.h)]))

SeekFile(f, p) ==
    LET h == handle[f]
        m == fatSeek(Call(h), p)
    IN  /\ f \in Opened
        /\ Careful => \/ p <= h.size
                      \/ h.size = 0
                      \/ h.size % SectorBytes # 0
        /\ Ends(m, f, With(f, [m.h EXCEPT !.stale = StaleAfterSeek(h, m.h)]))

DeleteFile(f) ==
    LET m == Call(NewHandle)
        nuked == fatNuke(m, disk.dir[f].start)
    IN  /\ f \notin Opened \cup damaged
        /\ IF Exists(f) THEN Ends(WriteDir(nuked, f, NoEntry), f, handle)
           ELSE Ends([m EXCEPT !.result = Failed], f, handle)

\* The machine stops between two calls.
Halt ==
    /\ stops < MaxStops
    /\ stops' = stops + 1
    /\ cached' = NoCache
    /\ handle' = <<>>
    /\ result' = Failed
    /\ UNCHANGED <<disk, held, damaged>>

Next ==
    \/ \E f \in File :
        \/ CreatFile(f) \/ CreatNewFile(f) \/ OpenFile(f) \/ CloseFile(f) \/ DeleteFile(f)
        \/ \E n \in Amount[f] : ReadFile(f, n) \/ SeekFile(f, n)
        \/ \E data \in Data[f] : WriteFile(f, data)
    \/ Halt

Spec == Init /\ [][Next]_vars

-------------------------------------------------------------------------------
ChainOf(f) == ChainIn(disk, f)

TypeOK ==
    /\ disk.type \in Types
    /\ \A s \in 1 .. FatSectors : disk.fat[s] \in [0 .. SectorNibbles - 1 -> 0 .. 15]
    /\ disk.info \in [free : Int, last : Nat]
    /\ \A a \in Sector : Len(disk.data[a]) = SectorBytes
    /\ \A f \in File : disk.dir[f].start \in -1 .. NumClusters - 1 /\ disk.dir[f].size \in 0 .. MaxSize
    /\ cached = NoCache \/ cached.sector \in 1 .. FatSectors
    /\ Opened \cap damaged = {} /\ damaged \subseteq File /\ stops \in 0 .. MaxStops

\* Every file has as many clusters as its size needs, all of them clusters of the
\* volume, and no cluster belongs twice.
ChainsSound ==
    /\ TypeOK
    /\ \A f \in Sound : LET chain == ChainOf(f) IN
        /\ Range(chain) \subseteq Cluster
        /\ Cardinality(Range(chain)) = Len(chain)
        /\ Len(chain) = (disk.dir[f].size + ClusterBytes - 1) \div ClusterBytes
    /\ \A f, g \in Sound : f # g => Range(ChainOf(f)) \cap Range(ChainOf(g)) = {}

\* While no call was cut short every cluster in use belongs to a file, and on
\* FAT32 the count of free clusters is right.
NothingLost ==
    damaged = {} =>
        /\ Cluster \cap FreeEntries(disk) = Cluster \ UNION {Range(ChainOf(f)) : f \in File}
        /\ disk.type = 32 => disk.info.free = Cardinality(Cluster \cap FreeEntries(disk))

\* The copy of a sector of the table is never older than the sector.
CacheCoherent == cached.sector # 0 => cached.buf = disk.fat[cached.sector]

\* "don't go past EOF": no read takes the position beyond the end of the file.
ReadsEndInside ==
    [][\A f \in Opened \cap DOMAIN handle' :
        result'.bytes # <<>> /\ handle[f].pos <= handle[f].size
            => handle'[f].pos <= handle'[f].size]_vars

-------------------------------------------------------------------------------
F == INSTANCE Files WITH
        Clusters <- NumClusters - 2,
        contents <- held,
        pos <- [f \in Opened |-> handle[f].pos]

\* The calls keep what Files promises: every read returns the bytes last written
\* there, a write changes the file it is for and no other, and whatever is on the
\* disk when the machine stops in a call, the other files are as they were.
ImplementsFiles == F!Spec

=============================================================================
