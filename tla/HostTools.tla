------------------------------- MODULE HostTools -------------------------------
(***************************************************************************)
(* The host side of a build: tools/build.c runs the tasks of the task      *)
(* file, and the command of one of them, tools/mkvhd.cmd, makes the disk   *)
(* image step by step while the build waits for it.                        *)
(***************************************************************************)
EXTENDS Build

CONSTANTS
    Document,       \* task files, [text, tasks]
    Job             \* what mkvhd.cmd asks for (see DiskImage)

VARIABLES
    written,        \* the tasks the file's author has written down
    job, imagePhase, file, writes, layout, fat      \* of DiskImage

imageVars == <<job, imagePhase, file, writes, layout, fat>>
allVars == <<vars, written, imageVars>>

Image == INSTANCE DiskImage WITH phase <- imagePhase, log <- writes

HostInit ==
    /\ \E d \in Document : text = d.text /\ written = d.tasks
    /\ ParseInit
    /\ MakeInit
    /\ Image!Init

Command == tasks[Last(calls).task].command

\* The sectors of the volume a job asks for.
VolumeOf(j) ==
    LET parts == Image!ParsePartedArgs(j.parted).parts
        r == Image!ParseArgs(j.mkdosfs)
        there == IF j.old = 0 /\ j.parted # <<>> THEN Image!ImageSectors(parts) ELSE j.old
        size == IF there = 0 THEN 2 * r.blocks + r.offset ELSE there
    IN  Image!TotalSectors(Image!UsedSectors(r, size))

Integers(args, options) ==
    \A i \in DOMAIN args : \A o \in options \cap DOMAIN args[i] : args[i][o] \in Int

\* Sectors of an image and of its volumes: 128 gigabytes.
MaxSectors == 268435456

\* Numbers are numbers that fit in the fields of a partition table, and volumes are of
\* sizes for which no number of establish_bpb wraps where long has 64 bits: not larger
\* than MaxSectors, FAT32 not smaller than its reserved sectors, and any other not
\* smaller than its boot sector and a root directory of 512 entries.
ASSUME JobAssumption ==
    \A j \in Job :
        /\ j.old \in Nat
        /\ Len(j.mkdosfs) \in Nat /\ DOMAIN j.mkdosfs = 1 .. Len(j.mkdosfs)
        /\ Integers(j.mkdosfs, {"blocks", "offset"})
        /\ Len(j.parted) \in Nat /\ DOMAIN j.parted = 1 .. Len(j.parted)
        /\ \A i \in DOMAIN j.parted : Image!Is(j.parted[i], "mkpart") =>
              /\ j.parted[i].mkpart.start \in Int /\ j.parted[i].mkpart.start <= MaxSectors
              /\ j.parted[i].mkpart.end \in Int /\ j.parted[i].mkpart.end <= MaxSectors
        /\ LET r == Image!ParseArgs(j.mkdosfs)
           IN  r.ok /\ r.outfile =>
                  VolumeOf(j) \in (IF r.fat = 32 THEN 32 ELSE 33) .. MaxSectors

\* mkvhd.cmd ends as its last copy to the image does: with the volume mounted or not.
ImageMade == imagePhase = "mounted" /\ fat.type # 0
CommandEnds ==
    /\ phase = "run"
    /\ IF Command = "mkvhd"
       THEN imagePhase \in {"mounted", "failed"} /\ bld__exec(ImageMade)
       ELSE \E succeeds \in BOOLEAN : bld__exec(succeeds)

CommandGoesOn == phase = "run" /\ Command = "mkvhd" /\ Image!Next /\ UNCHANGED <<vars, written>>

HostNext ==
    \/ Parse /\ UNCHANGED <<written, imageVars>>
    \/ bld__make /\ UNCHANGED <<written, imageVars>>
    \/ bld__depends /\ UNCHANGED <<written, imageVars>>
    \/ CommandEnds /\ UNCHANGED <<written, imageVars>>
    \/ CommandGoesOn

HostSpec == HostInit /\ [][HostNext]_allVars

-------------------------------------------------------------------------------
\* The tasks that are run are those of the file, with their commands and all their
\* dependencies, in a file as this repository's is written: spaces in front of
\* closing brackets, with or without commas there, and behind values that are not
\* strings.  A file that is cut off or has a stray character, a bracket or a colon
\* too few has no tasks.
TasksAsWritten ==
    phase # "parse" =>
        /\ Len(tasks) = Len(written)
        /\ \A i \in DOMAIN written : tasks[i] = written[i] @@ [id |-> tasks[i].id]

\* The properties of the image, which DiskImage states.
LayoutFits == Image!LayoutFits
FreshVolumeMounts == Image!FreshVolumeMounts
PartitionsKept == Image!PartitionsKept
TypeByClusters == Image!TypeByClusters
PartitionsApart == Image!PartitionsApart

=============================================================================
