------------------------------- MODULE Directory -------------------------------
(***************************************************************************)
(* What a directory of fat.c promises: a set of files, each with one short *)
(* name and at most one long name, found by either of them, and its        *)
(* attributes.                                                             *)
(*                                                                         *)
(* A name as a caller writes it is a record: word is what is written, lfn  *)
(* says that it does not fit 8.3, search is the 8.3 name it is turned into *)
(* otherwise, and lower that it was not written in capitals.               *)
(***************************************************************************)
EXTENDS Integers, FiniteSets

CONSTANTS Name, Id, NoLong,
          Attribute,
          Same(_, _)    \* two long names that are told apart by case alone

VARIABLES files,        \* records [id, short, long, attr]
          found         \* what the last call was about or returned

NoFile == 0             \* no such file
Exists == -1            \* there is one already
NoSpace == -2
Denied == -4            \* a directory, or a name that begins with a space
NoPath == -5

Subdir == 16
Archive == 32

ByName(n) ==
    {f \in files : IF n.lfn THEN Same(f.long, n.word) ELSE f.short = n.search}

IdOf(fs) == IF fs = {} THEN NoFile ELSE (CHOOSE f \in fs : TRUE).id

Unique(fs) == \A f, g \in fs : f.short = g.short \/ f.id = g.id => f = g

\* f has a name a file may get for n: a long name has some short name besides.
Fits(f, n) ==
    IF n.lfn THEN f.long = n.word
    ELSE f.short = n.search /\ f.long \in {NoLong} \cup (IF n.lower THEN {n.word} ELSE {})

Init == files = {} /\ found = NoFile

Open(n) == found' = IdOf(ByName(n)) /\ UNCHANGED files

\* The files are fs and one more.
Becomes(fs, id, attr, n) ==
    /\ \A f \in fs : f.id # id
    /\ \E f \in files' : f.id = id /\ f.attr = attr /\ Fits(f, n) /\ files' = fs \cup {f}
    /\ Unique(files')

Add(n, attr) ==
    /\ ByName(n) = {}
    /\ \/ found' \in Id /\ Becomes(files, found', attr, n)
       \/ found' = NoSpace /\ UNCHANGED files

SetAttributes(n, attr) ==
    /\ found' = IdOf(ByName(n))
    /\ files' = (files \ ByName(n)) \cup {[f EXCEPT !.attr = attr] : f \in ByName(n)}

Create(n) ==
    \/ found' = Denied /\ UNCHANGED files /\ n.word[1] = 32
    \/ found' = Denied /\ UNCHANGED files /\ \E f \in ByName(n) : f.attr = Subdir
    \/ /\ ByName(n) # {} /\ \A f \in ByName(n) : f.attr # Subdir
       /\ SetAttributes(n, Archive)
    \/ Add(n, Archive)

CreateNew(n) ==
    \/ ByName(n) # {} /\ found' = Exists /\ UNCHANGED files
    \/ Add(n, Archive)

CreateDir(n) ==
    \/ ByName(n) # {} /\ found' = NoPath /\ UNCHANGED files
    \/ Add(n, Subdir)

GetAttributes(n) ==
    /\ UNCHANGED files
    /\ IF ByName(n) = {} THEN found' = NoFile ELSE found' \in {f.attr : f \in ByName(n)}

Delete(n) ==
    /\ found' = IdOf(ByName(n))
    /\ files' = files \ ByName(n)

\* A rename for which there is no space leaves the file, whose short name may be
\* another one then.
Rename(old, new) ==
    LET rest == files \ ByName(old)
    IN  \/ /\ ByName(old) = {} \/ ByName(new) # {}
           /\ found' = NoFile
           /\ UNCHANGED files
        \/ /\ ByName(new) = {}
           /\ found' = IdOf(ByName(old))
           /\ \E f \in ByName(old) :
                Becomes(rest, f.id, IF f.attr = Subdir THEN Subdir ELSE Archive, new)
        \/ /\ ByName(new) = {}
           /\ found' = NoSpace
           /\ \E f \in ByName(old), g \in files' :
                g = [f EXCEPT !.short = g.short] /\ files' = rest \cup {g}
           /\ Unique(files')

Next ==
    \E n \in Name :
        \/ Open(n) \/ Create(n) \/ CreateNew(n) \/ CreateDir(n) \/ Delete(n)
        \/ GetAttributes(n) \/ \E attr \in Attribute : SetAttributes(n, attr)
        \/ \E old \in Name : Rename(old, n)

Spec == Init /\ [][Next]_<<files, found>>

=============================================================================
