------------------------------- MODULE Mkdosfs -------------------------------
(***************************************************************************)
(* tools/mkdosfs.c: from the options to the layout of a FAT volume.  The   *)
(* arguments are as in Parted, and a label is a record [length, chars,     *)
(* named]: chars says that it has no character labels may not have, named  *)
(* that it is not eleven characters of blanks or of NO NAME.  All          *)
(* quantities are sectors of 512 bytes unless they are clusters.           *)
(***************************************************************************)
EXTENDS Parted

\* fat is the width asked for and spc the sectors per cluster, 0 for any.
Defaults ==
    [ok |-> TRUE, outfile |-> FALSE, blocks |-> 0, offset |-> 0, fat |-> 0, spc |-> 0,
     boot |-> "none", label |-> FALSE]

Blocks(r, n) == Otherwise(r, n >= 0, [r EXCEPT !.blocks = n])
Offset(r, n) == Otherwise(r, n >= 0, [r EXCEPT !.offset = n])
FatWidth(r, n) == Otherwise(r, n \in {12, 16, 32}, [r EXCEPT !.fat = n])
SectorsPerCluster(r, n) ==
    Otherwise(r, n \in {1, 2, 4, 8, 16, 32, 64, 128}, [r EXCEPT !.spc = n])
Name(r, l) == Otherwise(r, l.length <= 11 /\ l.chars, [r EXCEPT !.label = l.named])

Argument(r, a) ==
    CASE ~r.ok -> r
      [] Is(a, "file") -> OutFile(r)
      [] Is(a, "v") -> r
      [] Is(a, "blocks") -> Blocks(r, a.blocks)
      [] Is(a, "boot") -> [r EXCEPT !.boot = a.boot]
      [] Is(a, "F") -> FatWidth(r, a.F)
      [] Is(a, "n") -> Name(r, a.n)
      [] Is(a, "offset") -> Offset(r, a.offset)
      [] Is(a, "s") -> SectorsPerCluster(r, a.s)
      [] OTHER -> Otherwise(r, FALSE, r)

ParseArgs(args) == FoldLeft(Argument, Defaults, args)

\* The volume ends with the size asked for, or with the target file (image_size).
UsedSectors(r, fileSectors) ==
    LET wanted == 2 * r.blocks + r.offset
        size == (IF wanted = 0 THEN fileSectors ELSE wanted) - r.offset
    IN  IF r.blocks # 0 THEN 2 * r.blocks ELSE size

\* An odd sector at the end is counted twice.
TotalSectors(used) == used + (used % 2)

cdiv(a, b) == (a + b - 1) \div b

Geometry(total) ==
    IF total > 65535 * 16 * 63 THEN [spt |-> 63, heads |-> 255] ELSE SmallDiskGeometry(total)

\* The floppies: sectors, sectors per cluster, root entries, media descriptor,
\* sectors per track, heads.
Floppies ==
    {<<320, 2, 112, 254, 8, 1>>, <<360, 2, 112, 252, 9, 1>>, <<640, 2, 112, 255, 8, 2>>,
     <<720, 2, 112, 253, 9, 2>>, <<1280, 2, 112, 251, 8, 2>>, <<1440, 2, 112, 249, 9, 2>>,
     <<1640, 2, 112, 249, 10, 2>>, <<2400, 1, 224, 249, 15, 2>>, <<2880, 1, 224, 240, 18, 2>>,
     <<3360, 1, 224, 240, 21, 2>>, <<3444, 1, 224, 240, 21, 2>>, <<5760, 2, 240, 240, 36, 2>>}

Medium(total) ==
    LET g == Geometry(total)
        same == {f \in Floppies : f[1] = total}
    IN  IF same = {} THEN <<total, 4, 512, 248, g.spt, g.heads>> ELSE CHOOSE f \in same : TRUE

Fat32ClusterSize(total) ==
    IF total > 67108864 THEN 64 ELSE IF total > 33554432 THEN 32
    ELSE IF total > 16777216 THEN 16 ELSE IF total > 532480 THEN 8 ELSE 1

\* The globals before the search for a cluster size; volumes from 512 megabytes up
\* are FAT32, the odd sector not counted, and tiny ones are not aligned.
Settings(r, used) ==
    LET total == TotalSectors(used)
        fat == IF r.fat = 0 /\ used >= 1048576 THEN 32 ELSE r.fat
        m == Medium(total)
    IN  [total |-> total, fat |-> fat, byUser |-> r.fat # 0, aligned |-> total > 8192,
         root |-> IF fat = 32 THEN 0 ELSE m[3],
         spc |-> IF r.spc # 0 THEN r.spc
                 ELSE IF fat = 32 THEN Fat32ClusterSize(total) ELSE m[2],
         reserved |-> IF fat = 32 THEN 32 ELSE 1,
         media |-> m[4], spt |-> m[5], heads |-> m[6], offset |-> r.offset]

align_object(g, sectors, spc) == IF g.aligned THEN cdiv(sectors, spc) * spc ELSE sectors

RootSectors(g, spc) == align_object(g, cdiv(g.root * 32, 512), spc)

-------------------------------------------------------------------------------
\* Bytes of a table of n entries, and entries in a table of n sectors.
TableBytes(bits, n) == IF bits = 12 THEN (n * 3 + 1) \div 2 ELSE n * (bits \div 8)
TableEntries(bits, n) == IF bits = 12 THEN (n * 1024) \div 3 ELSE n * (4096 \div bits)

MinClusters(g, bits) ==
    IF bits = 16 THEN 4087 ELSE IF bits = 32 /\ ~(g.byUser /\ g.fat = 32) THEN 65525 ELSE 1
MaxClusters(bits) == IF bits = 12 THEN 4084 ELSE IF bits = 16 THEN 65524 ELSE 268435446

\* The sectors for both tables and the clusters.  (The program's numbers are unsigned:
\* this is what it computes for volumes that have the sectors taken off.)
DataSectors(g, bits, spc) ==
    g.total - align_object(g, g.reserved, spc) - (IF bits = 32 THEN 0 ELSE RootSectors(g, spc))

\* The clusters there would be if tables were not made of whole sectors.
Estimate(g, bits, spc) ==
    LET data == DataSectors(g, bits, spc)
    IN  IF bits = 12 THEN (2 * (data * 512 + 6)) \div (2 * spc * 512 + 6)
        ELSE (data * 512 + 2 * (bits \div 8) * 2) \div (spc * 512 + 2 * (bits \div 8))

FatLength(g, bits, spc) ==
    align_object(g, cdiv(TableBytes(bits, Estimate(g, bits, spc) + 2), 512), spc)

\* Mutant: only one table is taken off.
Clusters_OneFat(g, bits, spc) ==
    LET n == (DataSectors(g, bits, spc) - FatLength(g, bits, spc)) \div spc
        most == Min({TableEntries(bits, FatLength(g, bits, spc)), MaxClusters(bits)})
    IN  IF n \in MinClusters(g, bits) .. most THEN n ELSE 0

\* The clusters left beside the tables, 0 when they are too many or too few.
Clusters(g, bits, spc) ==
    LET n == (DataSectors(g, bits, spc) - 2 * FatLength(g, bits, spc)) \div spc
        most == Min({TableEntries(bits, FatLength(g, bits, spc)), MaxClusters(bits)})
    IN  IF n \in MinClusters(g, bits) .. most THEN n ELSE 0

\* The cluster size is doubled until some table fits; FAT32 only when asked for.
ClusterSize(g) ==
    LET sizes == {s \in {1, 2, 4, 8, 16, 32, 64, 128} : s >= g.spc}
        bits == IF g.fat = 0 THEN {12, 16} ELSE {g.fat}
        good == {s \in sizes : \E b \in bits : Clusters(g, b, s) # 0}
    IN  IF good = {} THEN 0 ELSE Min(good)

\* The volume as the boot sector describes it.
Layout(g, spc, bits) ==
    [fat |-> bits, spc |-> spc, clusters |-> Clusters(g, bits, spc),
     reserved |-> align_object(g, g.reserved, spc), spf |-> FatLength(g, bits, spc),
     rootEntries |-> IF g.aligned THEN RootSectors(g, spc) * 16 ELSE g.root,
     total |-> g.total, offset |-> g.offset, media |-> g.media, spt |-> g.spt, heads |-> g.heads,
     info |-> IF bits = 32 THEN 1 ELSE 0, backup |-> IF bits = 32 THEN 6 ELSE 0]

NoLayout == [fat |-> 0]

\* With no width asked for, the one with more clusters.
Choose(g, spc) ==
    IF spc = 0 THEN NoLayout
    ELSE Layout(g, spc, IF g.fat # 0 THEN g.fat
                        ELSE IF Clusters(g, 16, spc) > Clusters(g, 12, spc) THEN 16 ELSE 12)

establish_bpb(r, used) ==
    LET g == Settings(r, used) IN Choose(g, ClusterSize(g))

-------------------------------------------------------------------------------
\* Sectors of a volume, from its start.
FatStart(l, i) == l.reserved + i * l.spf
RootStart(l) == FatStart(l, 2)
RootLength(l) == IF l.fat = 32 THEN l.spc ELSE cdiv(l.rootEntries * 32, 512)
DataStart(l) == RootStart(l) + (IF l.fat = 32 THEN 0 ELSE RootLength(l))

WipedSectors(l) ==
    l.reserved + 2 * l.spf + (IF l.rootEntries # 0 THEN (l.rootEntries * 32) \div 512 ELSE 1)

=============================================================================
