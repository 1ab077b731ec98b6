----------------------------- MODULE FatDirectory -----------------------------
(***************************************************************************)
(* A directory of fat.c as its slots: the end marker (a free slot that     *)
(* ends every search), deleted slots, the pieces of long names (PieceLen   *)
(* characters each, last piece first, with the checksum of the short name  *)
(* they belong to) and short entries.  The fixed root of FAT12/16 has      *)
(* RootSlots slots; any other directory grows by a cluster of slots.       *)
(*                                                                         *)
(* Names and their conversions are those of FatNames.                      *)
(***************************************************************************)
EXTENDS FatNames

CONSTANTS Word,             \* the names callers use
          PieceLen,         \* characters of a long name in an LFN entry
          Attribute,        \* what callers set a file's attributes to
          Id,
          RootSlots,        \* fixed root directory
          ClusterSlots,     \* slots in a cluster of a directory
          MaxSlots,         \* bound: no directory grows beyond
          Fixed,            \* the kinds of directory: TRUE for a fixed root
          FillRoot          \* whether a fixed root may lose its end marker

ASSUME DirectoryAssumption ==
    /\ PieceLen \in Nat \ {0} /\ ClusterSlots \in Nat \ {0}
    /\ RootSlots \in Nat /\ MaxSlots \in Nat /\ ClusterSlots <= MaxSlots
    /\ Fixed \subseteq BOOLEAN /\ FillRoot \in BOOLEAN
    /\ \A w \in Word : w \in Seq(Nat) /\ w # NoName

VARIABLES fixed, slots, found,
          files         \* FilesOn(slots)

vars == <<fixed, slots, found, files>>

End == [is |-> "end"]
Deleted == [is |-> "deleted"]
Piece(ord, first, long, sum) ==
    [is |-> "lfn", ord |-> ord, first |-> first, long |-> long, sum |-> sum]
Entry(short, id, attr) == [is |-> "short", short |-> short, id |-> id, attr |-> attr]

Empty(n) == [i \in 1 .. n |-> End]
Is(s, i, kind) == s[i].is = kind
Where(s, kind) == {i \in DOMAIN s : Is(s, i, kind)}
First(S, none) == IF S = {} THEN none ELSE Min(S)

\* The long name a reader of the disk sees in front of the short entry i: pieces
\* in order down to 1, all with the checksum of the entry.
LongAt(s, i) ==
    LET run(j) == /\ Is(s, j, "lfn") /\ s[j].first
                  /\ \A k \in j .. i - 1 : s[k] = Piece(i - k, k = j, s[j].long,
                                                generateChecksum(s[i].short))
    IN  IF \E j \in 1 .. i - 1 : run(j)
        THEN s[CHOOSE j \in 1 .. i - 1 : run(j)].long ELSE NoName

FilesOn(s) ==
    {[id |-> s[i].id, short |-> s[i].short, long |-> LongAt(s, i), attr |-> s[i].attr] :
        i \in Where(s, "short")}

Name == {fatNextSearch(w) : w \in Word}

D == INSTANCE Directory WITH Same <- cicmp, NoLong <- NoName

Stale == -3                 \* the call works on the entry an earlier one left

Init ==
    /\ fixed \in Fixed
    /\ slots = Empty(IF fixed THEN RootSlots ELSE ClusterSlots)
    /\ found = D!NoFile
    /\ files = {}

-------------------------------------------------------------------------------
\* The LFN entry read last before slot i, 0 if none.
LastPiece(s, i) == Max({0} \cup {j \in 1 .. i - 1 : Is(s, j, "lfn")})
RunStart(s, i) == Max({j \in 1 .. i : Is(s, j, "lfn") /\ s[j].first})

\* Mutant: the checksum of the pieces is not compared.
HasLong_NoChecksum(s, i) == LastPiece(s, i) # 0

HasLong(s, i) == LastPiece(s, i) # 0 /\ s[LastPiece(s, i)].sum = generateChecksum(s[i].short)

\* fatDirSectorSearch at slot i.  A long name counts for the short entry after it
\* only, an 8.3 name is compared with every short entry.
Matches(s, i, n) ==
    /\ Is(s, i, "short")
    /\ IF n.lfn
       THEN /\ HasLong(s, i) /\ cicmp(s[LastPiece(s, i)].long, n.search)
            /\ \A j \in LastPiece(s, i) + 1 .. i - 1 : ~Is(s, j, "short")
       ELSE s[i].short = n.search

\* fatPosition: result, the slot it ends on, and for an entry with a long name that
\* name and the slot it starts in.  A fixed root without an end marker ends the search with
\* the result it began with and no slot.
fatPosition(s, fix, n) ==
    LET stop == First({i \in DOMAIN s : Is(s, i, "end") \/ Matches(s, i, n)}, 0)
        deleted == {i \in Where(s, "deleted") : stop # 0 => i < stop}
        missing(result, at) == [result |-> result, at |-> at, run |-> 0, long |-> NoName]
    IN  IF stop # 0 /\ ~Is(s, stop, "end")
        THEN [result |-> "found", at |-> stop,
              run |-> IF HasLong(s, stop) THEN RunStart(s, stop) ELSE stop,
              long |-> IF HasLong(s, stop) THEN s[LastPiece(s, stop)].long ELSE NoName]
        ELSE IF stop = 0 /\ fix THEN missing("found", 0)
        ELSE IF deleted # {} THEN missing("onempty", Min(deleted))
        ELSE missing(IF stop = 0 THEN "endcluster" ELSE "onempty", stop)

-------------------------------------------------------------------------------
Beside(name, slot) ==
    IF name # NoName /\ slot.is = "short" /\ slot.short = name
    THEN incrementNumericTail(name) ELSE name

\* One pass over the entries, each of which may be the one the tail has come to.
TailPass(s, short) ==
    LET name[i \in 0 .. Len(s)] == IF i = 0 THEN short ELSE Beside(name[i - 1], s[i])
    IN  name[Len(s)]

\* Mutant: the pass of findFreeSpaceForLFN is thought to be enough.
checkNumericTail_Never(s, short) == short

\* Passes until one meets no entry with the name; NoName when the tails run out.
checkNumericTail(s, short) ==
    LET name[k \in 0 .. Len(s)] == IF k = 0 THEN short ELSE TailPass(s, name[k - 1])
    IN  name[Len(s)]

\* The first `required` deleted slots in a row, or else those at the end of the
\* directory, which is made longer until a slot is left behind them: [at, slots],
\* at is 0 when a fixed root is too small.
findFreeSpaceForLFN(s, fix, required) ==
    LET end == First(Where(s, "end"), Len(s) + 1)
        runs == {i \in 1 .. end - required :
                    \A j \in i .. i + required - 1 : Is(s, j, "deleted")}
        tail == Min({i \in 1 .. end : \A j \in i .. end - 1 : Is(s, j, "deleted")})
        at == First(runs, tail)
        needed == IF runs = {} THEN at + required ELSE end
        missing == IF needed > Len(s)
                   THEN (needed - Len(s) + ClusterSlots - 1) \div ClusterSlots ELSE 0
    IN  IF fix
        THEN [at |-> IF at + required - 1 > Len(s) THEN 0 ELSE at, slots |-> s]
        ELSE [at |-> at, slots |-> s \o Empty(missing * ClusterSlots)]

Pieces(long) == (Len(long) + PieceLen - 1) \div PieceLen

\* s with the slots from `at` on replaced by new.
Put(s, at, new) ==
    [i \in DOMAIN s |-> IF i \in at .. at + Len(new) - 1 THEN new[i - at + 1] ELSE s[i]]

\* createLFNs and the short entry its callers put behind: [ok, slots].  An 8.3 name
\* in small letters is its own short name (`short`), for any other one `short` is
\* NoName and an alias is generated.
createLFNs(s, fix, long, short, id, attr) ==
    LET pieces == Pieces(long)
        space == findFreeSpaceForLFN(s, fix, pieces + 1)
        passed == TailPass(s, generate83Name(long))
        alias == IF short # NoName THEN short
                 ELSE IF passed = NoName THEN NoName
                 ELSE checkNumericTail(space.slots, passed)
        run == [i \in 1 .. pieces |-> Piece(pieces + 1 - i, i = 1, long,
                                            generateChecksum(alias))]
    IN  IF space.at = 0 \/ (short = NoName /\ passed = NoName)
        THEN [ok |-> FALSE, slots |-> s]
        ELSE IF alias = NoName
        THEN [ok |-> FALSE, slots |-> space.slots]
        ELSE [ok |-> TRUE, slots |-> Put(space.slots, space.at,
                                         Append(run, Entry(alias, id, attr)))]

\* Mutant: the last piece of the long name stays.
deleteLFNs_OneLess(s, p) ==
    [i \in DOMAIN s |-> IF i \in (p.run .. p.run + Pieces(p.long)) \ {p.at - 1}
                        THEN Deleted ELSE s[i]]

\* As many slots as the long name has pieces are deleted, and then the one behind
\* them, whose entry the callers delete.
deleteLFNs(s, p) ==
    [i \in DOMAIN s |-> IF i \in p.run .. p.run + Pieces(p.long) THEN Deleted ELSE s[i]]

-------------------------------------------------------------------------------
Position(n) == fatPosition(slots, fixed, n)

\* The entry for n: with its pieces, or in the one slot fatPosition found.
NewEntry(s, p, n, id, attr) ==
    IF n.lfn \/ n.lower
    THEN createLFNs(s, fixed, n.word, IF n.lfn THEN NoName ELSE n.search, id, attr)
    ELSE [ok |-> TRUE, slots |-> Put(s, p.at, <<Entry(n.search, id, attr)>>)]

FreshIds == Id \ {slots[i].id : i \in Where(slots, "short")}

Leaves(s, result) ==
    /\ Len(s) <= MaxSlots
    /\ fixed /\ ~FillRoot => Where(s, "end") # {}
    /\ slots' = s
    /\ files' = FilesOn(s)
    /\ found' = result
    /\ UNCHANGED fixed

\* What fatCreatFile, fatCreatNewFile and fatCreatDir do for a name not there yet;
\* a full directory is first made longer.
AddName(n, attr) ==
    LET p == Position(n)
        s == IF p.result = "endcluster" THEN slots \o Empty(ClusterSlots) ELSE slots
        made(id) == NewEntry(s, fatPosition(s, fixed, n), n, id, attr)
    IN  /\ p.result # "found"
        /\ \/ \E id \in FreshIds : made(id).ok /\ Leaves(made(id).slots, id)
           \/ \E id \in Id : ~made(id).ok /\ Leaves(made(id).slots, D!NoSpace)

\* A file that exists keeps its entry and its names and gets new attributes; a
\* directory is not overwritten and no name begins with a space.
CreatFile(n) ==
    LET p == Position(n)
    IN  IF n.word[1] = Space THEN Leaves(slots, D!Denied)
        ELSE \/ /\ p.result = "found" /\ p.at # 0
                /\ IF slots[p.at].attr = D!Subdir
                   THEN Leaves(slots, D!Denied)
                   ELSE Leaves([slots EXCEPT ![p.at].attr = D!Archive], slots[p.at].id)
             \/ AddName(n, D!Archive)

CreatNewFile(n) ==
    \/ Position(n).result = "found" /\ Leaves(slots, D!Exists)
    \/ AddName(n, D!Archive)

\* The entry of a new directory; the cluster behind it is not part of the state.
CreatDir(n) ==
    \/ Position(n).result = "found" /\ Leaves(slots, D!NoPath)
    \/ AddName(n, D!Subdir)

OpenFile(n) ==
    LET p == Position(n)
    IN  Leaves(slots, IF p.result # "found" THEN D!NoFile
                      ELSE IF p.at = 0 THEN Stale ELSE slots[p.at].id)

GetFileAttributes(n) ==
    LET p == Position(n)
    IN  \/ p.result # "found" /\ Leaves(slots, D!NoFile)
        \/ p.result = "found" /\ p.at # 0 /\ Leaves(slots, slots[p.at].attr)

\* The attributes are what the caller says, also those of a directory.
SetFileAttributes(n, attr) ==
    LET p == Position(n)
    IN  \/ p.result # "found" /\ Leaves(slots, D!NoFile)
        \/ /\ p.result = "found" /\ p.at # 0
           /\ Leaves([slots EXCEPT ![p.at].attr = attr], slots[p.at].id)

DeleteFile(n) ==
    LET p == Position(n)
    IN  \/ p.result # "found" /\ Leaves(slots, D!NoFile)
        \/ /\ p.result = "found" /\ p.at # 0
           /\ Leaves(deleteLFNs(slots, p), slots[p.at].id)

\* There is no space for the new name: the old entry is made again, with pieces if
\* it had some.
Restored(s, old, entry, long) ==
    IF long = NoName
    THEN Put(s, fatPosition(s, fixed, old).at, <<entry>>)
    ELSE createLFNs(s, fixed, long, IF old.lower THEN old.search ELSE NoName,
                    entry.id, entry.attr).slots

\* Two short names: the entry is changed in place.  Otherwise the old entry and
\* its pieces are deleted before the new ones are made.  A file is to be archived
\* again then, a directory is not.
RenameFile(old, new) ==
    LET p == Position(old)
        entry == slots[p.at]
        attr == IF entry.attr = D!Subdir THEN entry.attr ELSE D!Archive
        freed == deleteLFNs(slots, p)
        at == fatPosition(freed, fixed, new)
        made == NewEntry(freed, at, [new EXCEPT !.lower = FALSE], entry.id, attr)
    IN  IF p.result # "found" \/ Position(new).result = "found"
        THEN Leaves(slots, D!NoFile)
        ELSE /\ p.at # 0
             /\ IF ~new.lfn /\ p.long = NoName
                THEN Leaves([slots EXCEPT ![p.at].short = new.search, ![p.at].attr = attr],
                            entry.id)
                ELSE IF made.ok THEN Leaves(made.slots, entry.id)
                ELSE Leaves(Restored(made.slots, old, entry, p.long), D!NoSpace)

Next ==
    \E n \in Name :
        \/ CreatFile(n) \/ CreatNewFile(n) \/ CreatDir(n) \/ OpenFile(n) \/ DeleteFile(n)
        \/ GetFileAttributes(n) \/ \E attr \in Attribute : SetFileAttributes(n, attr)
        \/ \E old \in Name : RenameFile(old, n)

Spec == Init /\ [][Next]_vars

-------------------------------------------------------------------------------
\* Nothing is behind the end marker, and the directory keeps within its bounds.
TypeOK ==
    /\ fixed \in Fixed
    /\ Len(slots) \in (IF fixed THEN {RootSlots} ELSE 1 .. MaxSlots)
    /\ \A i \in DOMAIN slots : slots[i].is \in {"end", "deleted", "lfn", "short"}
    /\ \A i \in Where(slots, "end") : \A j \in DOMAIN slots : j > i => Is(slots, j, "end")
    /\ found \in Id \cup {D!NoFile, D!Exists, D!NoPath, D!NoSpace, D!Denied, Stale}
                \cup Attribute \cup {D!Subdir, D!Archive}

\* No two entries have the same short name or are of the same file.
ShortNamesUnique == D!Unique(files) /\ Cardinality(files) = Cardinality(Where(slots, "short"))

\* Every piece of a long name is part of the name in front of a short entry:
\* createLFNs and deleteLFNs leave no pieces behind, however the slots are reused.
NoOrphans ==
    /\ TypeOK
    /\ \A i \in Where(slots, "lfn") :
        \E j \in Where(slots, "short") :
            j = i + slots[i].ord /\ LongAt(slots, j) = slots[i].long

\* Every call finds, adds, renames and deletes what Directory says: a file is found
\* by its names and no other one is, whatever slots the names were put in.
ImplementsDirectory == D!Spec

\* "or set not found flag if not found": a file is opened only if it is there.
OpensWhatIsThere == found # Stale

=============================================================================
