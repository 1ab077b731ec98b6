-------------------------------- MODULE Parted --------------------------------
(***************************************************************************)
(* tools/parted.c: from the mkpart commands to the partition table of the  *)
(* master boot record and the size of the image.  The table stores start   *)
(* and end as they were given, in 32 bits each.                            *)
(*                                                                         *)
(* An argument of the command line is a record with one field, named for   *)
(* the option and holding its value, or "file" for a name without one.  An *)
(* option without its value, or with one that is not a number where one is *)
(* wanted, is a field of another name, as is one there is not.  A          *)
(* partition is a record [status, type, start, end].                       *)
(***************************************************************************)
EXTENDS Integers, Sequences, SequencesExt, FiniteSetsExt

\* Cylinders, heads and sectors of a small disk: 17 sectors in a track, and 31
\* or 63 when that would take more than 1024 cylinders.
SmallDiskGeometry(sectors) ==
    LET tracks(spt) == sectors \div spt
        heads == Max({4, (tracks(17) + 1023) \div 1024})
        large17 == tracks(17) >= heads * 1024 \/ heads > 16
        spt == IF ~large17 THEN 17 ELSE IF tracks(31) >= 16 * 1024 THEN 63 ELSE 31
    IN  [spt |-> spt, heads |-> IF large17 THEN 16 ELSE heads]

calculate_geometry(sectors) ==
    LET s == Min({sectors, 65535 * 16 * 255})
        g == IF s > 65535 * 16 * 63 THEN [spt |-> 63, heads |-> 16] ELSE SmallDiskGeometry(s)
    IN  [spt |-> g.spt, heads |-> g.heads, cylinders |-> (s \div g.spt) \div g.heads]

\* The head, the sector and the low byte of the cylinder of a sector.
Chs(g, sector) ==
    LET rest == sector % (g.heads * g.spt)
    IN  [head |-> rest \div g.spt, sect |-> 1 + (rest % g.spt),
         cyl |-> (sector \div (g.heads * g.spt)) % 256]

\* What was read from the command line so far; a wrong argument ends the program.
Otherwise(r, fits, new) == IF fits THEN new ELSE [r EXCEPT !.ok = FALSE]

OutFile(r) == Otherwise(r, ~r.outfile, [r EXCEPT !.outfile = TRUE])

NothingAsked == [ok |-> TRUE, outfile |-> FALSE, boot |-> "none", parts |-> <<>>]

ParsePartition(r, p) ==
    Otherwise(r, /\ p.status \in {0, 128}
                 /\ p.type \in {1, 4, 6, 11, 12, 14}
                 /\ p.start >= 0 /\ p.end >= p.start,
              [r EXCEPT !.parts = Append(@, p)])

Is(a, option) == option \in DOMAIN a

\* --help ends the program as an option it does not know does.
PartedArgument(r, a) ==
    CASE ~r.ok -> r
      [] Is(a, "file") -> OutFile(r)
      [] Is(a, "boot") -> [r EXCEPT !.boot = a.boot]
      [] Is(a, "mklabel") -> r
      [] Is(a, "mkpart") -> ParsePartition(r, a.mkpart)
      [] OTHER -> Otherwise(r, FALSE, r)

ParsePartedArgs(args) == FoldLeft(PartedArgument, NothingAsked, args)

\* In sectors, before the boot record and the footer are added.
ImageSize(parts) == Max({0} \cup {parts[i].start + parts[i].end : i \in DOMAIN parts})

\* Mutant: a partition may start before the one in front of it ends.
InOrder_Overlaps(parts) == \A i \in DOMAIN parts : parts[i].start >= 1

\* A partition starts not before the one in front of it ends, the first not in
\* the master boot record.
InOrder(parts) ==
    \A i \in DOMAIN parts : parts[i].start >= (IF i = 1 THEN 1 ELSE parts[i - 1].end)

\* The boot code must be 440 bytes.
Accepts(r) ==
    /\ r.ok /\ r.outfile
    /\ r.boot \in {"none", "mbr"}
    /\ r.parts # <<>> /\ Len(r.parts) <= 4
    /\ InOrder(r.parts)

\* The entries as they are written (numbers have at most 32 bits).
PartitionTable(parts) ==
    LET g == calculate_geometry(ImageSize(parts))
    IN  [i \in DOMAIN parts |->
            [start |-> parts[i].start, end |-> parts[i].end,
             start_chs |-> Chs(g, parts[i].start), end_chs |-> Chs(g, parts[i].end)]]

\* The sectors of the fixed disk footer and of the whole image.
FooterAt(parts) == ImageSize(parts) + 1
ImageSectors(parts) == ImageSize(parts) + 2

=============================================================================
