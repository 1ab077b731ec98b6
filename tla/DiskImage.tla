------------------------------ MODULE DiskImage ------------------------------
(***************************************************************************)
(* A disk image as the build makes it: tools/parted.c writes the partition *)
(* table and the footer, tools/mkdosfs.c a FAT volume at the offset of a   *)
(* partition, and fatInit of src/fat.c reads the volume's boot sector.     *)
(*                                                                         *)
(* The image is the log of what was written, [at, count, what], oldest     *)
(* first; a sector holds what was last written to it, or what the file     *)
(* held before.                                                            *)
(***************************************************************************)
EXTENDS Mkdosfs

CONSTANTS Job       \* records [old, parted, mkdosfs]: the sectors of the file that is
                    \* there already (0: none) and the arguments of the two programs
                    \* (of parted <<>>: it is not called)

NoJob == [old |-> 0, parted |-> <<>>, mkdosfs |-> <<>>]

VARIABLES job, phase,
          file,         \* sectors of the image file as a program opens it
          log,
          layout,       \* the globals of mkdosfs
          fat           \* fatInit's FAT, [type |-> 0] before

vars == <<job, phase, file, log, layout, fat>>

NotMounted == [type |-> 0]

Request == ParseArgs(job.mkdosfs)
Parts == ParsePartedArgs(job.parted).parts

Init ==
    /\ job = NoJob
    /\ phase = "idle"
    /\ file = 0
    /\ log = <<>>
    /\ layout = NoLayout
    /\ fat = NotMounted

\* The programs are called one after the other by tools/mkvhd.cmd.
Begin ==
    /\ phase = "idle"
    /\ job' \in Job
    /\ phase' = IF job'.parted = <<>> THEN "mkdosfs" ELSE "parted"
    /\ file' = job'.old
    /\ UNCHANGED <<log, layout, fat>>

Written(at, count, what) == [at |-> at, count |-> count, what |-> what]
Covers(w, sector) == sector \in w.at .. w.at + w.count - 1

Sector(s) ==
    LET writes == {i \in DOMAIN log : Covers(log[i], s)}
    IN  IF writes = {} THEN [is |-> "old"] ELSE log[Max(writes)].what

Zero == [is |-> "zero"]
Boot(l) == [is |-> "boot", bpb |-> l]
Info(l) == [is |-> "info", free |-> l.clusters - 1, next |-> 2]
Fat(marks) == [is |-> "fat", marks |-> marks]

From(p, p2) == phase = p /\ phase' = p2 /\ UNCHANGED job

\* The program ends with an error; what it has done to the file is of no use.
Fail(p) == From(p, "failed") /\ UNCHANGED <<file, log, layout, fat>>

-------------------------------------------------------------------------------
\* A file that is there already must be large enough.
MakeParts ==
    LET size == IF job.old = 0 THEN ImageSectors(Parts) ELSE job.old
    IN  phase = "parted" /\
        IF ~Accepts(ParsePartedArgs(job.parted)) \/ size < ImageSectors(Parts)
        THEN Fail("parted")
        ELSE /\ From("parted", "mkdosfs")
             /\ file' = size
             /\ log' = <<Written(0, 1, [is |-> "mbr", table |-> PartitionTable(Parts)]),
                         Written(FooterAt(Parts), 1, [is |-> "footer"])>>
             /\ UNCHANGED <<layout, fat>>

\* main of mkdosfs up to establish_bpb.
OpenTarget ==
    LET r == Request
        size == IF file = 0 THEN 2 * r.blocks + r.offset ELSE file
        l == establish_bpb(r, UsedSectors(r, size))
    IN  phase = "mkdosfs" /\
        IF ~r.ok \/ ~r.outfile \/ l.fat = 0 THEN Fail("mkdosfs")
        ELSE /\ From("mkdosfs", "wipe")
             /\ file' = size
             /\ layout' = l
             /\ UNCHANGED <<log, fat>>

Write(writes) == log' = log \o writes /\ UNCHANGED <<file, layout, fat>>
At(s) == layout.offset + s

\* Mutant: the second table is not wiped.
wipe_target_OneFat ==
    /\ From("wipe", "reserved")
    /\ Write(<<Written(At(0), WipedSectors(layout) - layout.spf, Zero)>>)

wipe_target == From("wipe", "reserved") /\ Write(<<Written(At(0), WipedSectors(layout), Zero)>>)

\* The boot sector before the layout is put in: none of the caller's, or a file of
\* the size of a sector.
BootFile ==
    CASE Request.boot = "none" -> "dummy"
      [] Request.boot \in {"missing", "short"} -> "none"
      [] OTHER -> Request.boot

\* A boot sector of the caller's gets the layout only when its jump goes past it; one
\* that jumps into it, which gets a part, counts as foreign.
write_reserved ==
    LET boot == IF BootFile = "foreign" THEN [is |-> "foreign"] ELSE Boot(layout)
        info == <<Written(At(layout.info), 1, Info(layout)), Written(At(layout.backup), 1, boot)>>
    IN  phase = "reserved" /\
        IF BootFile = "none" THEN Fail("reserved")
        ELSE /\ From("reserved", "entry")
             /\ Write(<<Written(At(0), 1, boot)>> \o (IF layout.fat = 32 THEN info ELSE <<>>))

\* The sector of the first table with the entry changed goes to both tables.
set_fat_entry(cluster) ==
    LET old == Sector(At(FatStart(layout, 0)))
        new == Fat(IF old.is = "fat" THEN old.marks \cup {cluster} ELSE {cluster})
    IN  Write([i \in 1 .. 2 |-> Written(At(FatStart(layout, i - 1)), 1, new)])

\* The media descriptor, the end mark and the root directory of FAT32.
SetFatEntries ==
    \E c \in 0 .. 2 :
        /\ phase = <<"entry", "entry1", "entry2">>[c + 1]
        /\ set_fat_entry(c)
        /\ phase' = <<"entry1", IF layout.fat = 32 THEN "entry2" ELSE "label", "label">>[c + 1]
        /\ UNCHANGED job

\* The label is the first entry of a sector whose rest is memory never set: zeros,
\* when the allocator returns what held the table, or anything.
Label(rest) == [is |-> "label", rest |-> rest]

add_volume_label ==
    /\ From("label", "mount")
    /\ \E rest \in {"zero", "any"} :
          Write(IF Request.label
                THEN <<Written(At(RootStart(layout)), 1, Label(rest))>> ELSE <<>>)

-------------------------------------------------------------------------------
\* The BPB as it is on the disk: one field for the sectors of FAT12/16.
FatType(bpb) ==
    LET units == bpb.total \div bpb.spc
    IN  IF bpb.fat = 32 THEN 32 ELSE IF units < 4087 THEN 12
        ELSE IF units < 65527 THEN 16 ELSE 32

fatInit(bpb) ==
    LET type == FatType(bpb)
        fatsize == IF (type = 32) = (bpb.fat = 32) THEN bpb.spf ELSE 0
        rootstart == fatsize * 2 + bpb.reserved
    IN  [type |-> type, fatstart |-> bpb.reserved, fatsize |-> fatsize,
         rootstart |-> rootstart, filestart |-> rootstart + bpb.rootEntries \div 16,
         num_clusters |-> (bpb.total - bpb.reserved - 2 * fatsize) \div bpb.spc,
         fsinfosector |-> IF type = 32 /\ Sector(bpb.offset + bpb.info).is = "info"
                          THEN bpb.info ELSE 0]

\* vhdInit finds the volume where the first partition starts; without a table its
\* place is known.
VolumeAt ==
    IF Sector(0).is = "mbr" THEN Sector(0).table[1].start ELSE Request.offset

Mount ==
    /\ From("mount", "mounted")
    /\ fat' = LET boot == Sector(VolumeAt)
              IN  IF boot.is = "boot" THEN fatInit(boot.bpb) ELSE NotMounted
    /\ UNCHANGED <<file, log, layout>>

Next ==
    \/ Begin \/ MakeParts \/ OpenTarget \/ wipe_target \/ write_reserved
    \/ SetFatEntries \/ add_volume_label \/ Mount

Spec == Init /\ [][Next]_vars

-------------------------------------------------------------------------------
\* The file has the size mkdosfs is asked for, or the volume has the file's.  (With an
\* existing file the size asked for is compared with nothing.)
SizeFollows == (job.old = 0 /\ job.parted = <<>>) \/ Request.blocks = 0

\* The areas of the volume lie one behind the other inside it and inside the file,
\* and the table has an entry for every cluster and none of them looks like an end
\* mark, whatever size is asked for.  (An odd last sector of an existing file is counted
\* twice.)
LayoutFits ==
    layout.fat # 0 =>
        LET l == layout
            last == l.clusters + 1
        IN  /\ DataStart(l) + l.clusters * l.spc <= l.total
            /\ SizeFollows => l.offset + l.total <= file + (file % 2)
            /\ last < TableEntries(l.fat, l.spf)
            /\ last < (IF l.fat = 12 THEN 4086 ELSE IF l.fat = 16 THEN 65526 ELSE 268435446)
            /\ l.fat = 32 => l.backup < l.reserved

\* What fat.c finds on a new volume: the areas where mkdosfs has put them, both
\* tables with nothing but the reserved entries and the root directory's, an empty
\* directory (but for the rest of the label's sector), and on FAT32 the count of the
\* free clusters.  (A volume whose sectors make more clusters than there are left
\* beside the tables may be taken for one of the next type: Misread.)
Misread(l) == FatType(l) # l.fat

FreshVolumeMounts ==
    phase = "mounted" /\ fat.type # 0 /\ ~Misread(layout) =>
        LET l == layout
            marks == Fat(IF l.fat = 32 THEN {0, 1, 2} ELSE {0, 1})
            root == IF Request.label THEN {Label("zero"), Label("any")} ELSE {Zero}
        IN  /\ fat.type = l.fat /\ fat.fatsize = l.spf
            /\ fat.filestart = DataStart(l) /\ fat.rootstart = RootStart(l)
            /\ \A i \in 0 .. 1 :
                  /\ Sector(At(FatStart(l, i))) = marks
                  /\ \A s \in 1 .. l.spf - 1 : Sector(At(FatStart(l, i) + s)) = Zero
            /\ Sector(At(RootStart(l))) \in root
            /\ l.fat # 32 =>
                  \A s \in 1 .. RootLength(l) - 1 : Sector(At(RootStart(l) + s)) = Zero
            /\ l.fat = 32 =>
                  /\ fat.num_clusters <= l.clusters + 2
                  /\ fat.fsinfosector # 0
                  /\ Sector(At(fat.fsinfosector)).free = l.clusters - 1

\* "Reason for this is unknown, but those numbers are confirmed": fatInit takes a volume
\* with up to 4086 clusters for FAT12 and one with up to 65526 for FAT16, unless it has
\* the signature of FAT32.
TypeByClusters ==
    phase = "mounted" /\ fat.type # 0 /\ layout.fat # 32 =>
        fat.type = IF layout.clusters <= 4086 THEN 12
                   ELSE IF layout.clusters <= 65526 THEN 16 ELSE 32

\* "overlapping partitions" are refused: none, its end read as the number of its sectors
\* as the size of the image and tools/mkvhd.cmd read it, runs into the next.
PartitionsApart ==
    phase \notin {"idle", "parted", "failed"} /\ Sector(0).is = "mbr" =>
        LET table == Sector(0).table
        IN  \A i \in DOMAIN table : \A j \in 1 .. i - 1 :
                table[j].start + table[j].end <= table[i].start

\* A table on the disk holds partitions of the image in order, none of them running
\* into the next, with the cylinder, head and sector of their ends; and what is
\* written to a volume that fits in a partition leaves the table and the footer alone.
PartitionsKept ==
    phase \notin {"idle", "parted", "failed"} /\ job.parted # <<>> =>
        LET mbr == Sector(0)
            inside == \E i \in DOMAIN Parts :
                /\ Parts[i].start = Request.offset
                /\ 2 * Request.blocks <= Parts[i].end
            g == calculate_geometry(ImageSize(Parts))
            AsChs(chs, sector) ==
                sector \div (g.heads * g.spt) < 256 =>
                    (chs.cyl * g.heads + chs.head) * g.spt + chs.sect - 1 = sector
        IN  /\ inside => mbr.is = "mbr" /\ Sector(FooterAt(Parts)).is = "footer"
            /\ mbr.is = "mbr" => \A i \in DOMAIN mbr.table :
                  LET e == mbr.table[i]
                  IN  /\ 1 <= e.start /\ e.start <= e.end
                      /\ e.start + e.end < FooterAt(Parts)
                      /\ \A j \in 1 .. i - 1 : mbr.table[j].end <= e.start
                      /\ AsChs(e.start_chs, e.start) /\ AsChs(e.end_chs, e.end)

=============================================================================
