-------------------------------- MODULE Files --------------------------------
(***************************************************************************)
(* What a user of the file calls of fat.c is promised: files are sequences *)
(* of bytes, an open file has a position, a write beyond the end fills the *)
(* gap with zeros, and a machine that stops in the middle of a call loses  *)
(* at most the file of that call.                                          *)
(***************************************************************************)
EXTENDS FileValues, SequencesExt, FiniteSetsExt, Functions

CONSTANTS File,
          Amount,           \* of each file: numbers of bytes read and positions
          Data,             \* of each file: the sequences of bytes written
          ClusterBytes,     \* bytes in a cluster
          Clusters          \* clusters on the volume

VARIABLES contents,         \* of each file: absent, lost, or its bytes
          pos,              \* the position of every open file
          result            \* what the last call returned

vars == <<contents, pos, result>>

Open == DOMAIN pos
Bytes(f) == contents[f].bytes

ClustersOf(n) == (n + ClusterBytes - 1) \div ClusterBytes

\* A file that is lost may hold any number of clusters.
MayBeFull ==
    \/ \E f \in File : contents[f] = Lost
    \/ FoldFunction(LAMBDA file, n : ClustersOf(Len(file.bytes)) + n, 0, contents) >= Clusters

\* old with data put over it from byte p on.
Overwrite(old, p, data) ==
    LET end == p + Len(data)
    IN  [i \in 1 .. Max({end, Len(old)}) |->
            IF i \in p + 1 .. end THEN data[i - p] ELSE IF i <= Len(old) THEN old[i] ELSE 0]

Init ==
    /\ contents = [f \in File |-> Absent]
    /\ pos = <<>>
    /\ result = Done(0)

SetPos(f, p) == pos' = [g \in Open \cup {f} |-> IF g = f THEN p ELSE pos[g]]

Unused(f) == f \notin Open /\ contents[f] # Lost

Create(f) ==
    /\ result' = Done(0)
    /\ SetPos(f, 0)
    /\ Unused(f)
    /\ contents' = [contents EXCEPT ![f] = Present(<<>>)]

CreateNew(f) ==
    /\ pos' = pos
    /\ Unused(f)
    /\ IF contents[f] = Absent
       THEN result' = Done(0) /\ contents' = [contents EXCEPT ![f] = Present(<<>>)]
       ELSE result' = Failed /\ UNCHANGED contents

OpenFile(f) ==
    /\ Unused(f)
    /\ IF contents[f] = Absent
       THEN result' = Failed /\ pos' = pos
       ELSE result' = Done(0) /\ SetPos(f, 0)
    /\ UNCHANGED contents

Close(f) ==
    /\ f \in Open
    /\ pos' = [g \in Open \ {f} |-> pos[g]]
    /\ result' = Done(0)
    /\ UNCHANGED contents

Read(f, n) ==
    /\ f \in Open
    /\ IF pos[f] > Len(Bytes(f))
       THEN result' = Failed /\ pos' = pos
       ELSE LET got == SubSeq(Bytes(f), pos[f] + 1, Min({pos[f] + n, Len(Bytes(f))}))
            IN  result' = Got(got) /\ SetPos(f, pos[f] + Len(got))
    /\ UNCHANGED contents

Write(f, data) ==
    /\ f \in Open
    /\ \/ /\ result' = Done(Len(data))
          /\ SetPos(f, pos[f] + Len(data))
          /\ contents' = [contents EXCEPT ![f] =
                            Present(Overwrite(Bytes(f), pos[f], data))]
       \/ /\ result' = Failed
          /\ MayBeFull /\ Bytes(f) = <<>>
          /\ UNCHANGED <<contents, pos>>

Seek(f, p) ==
    /\ f \in Open
    /\ result' = Done(p)
    /\ SetPos(f, p)
    /\ UNCHANGED contents

Delete(f) ==
    /\ pos' = pos
    /\ Unused(f)
    /\ result' = IF contents[f] = Absent THEN Failed ELSE Done(0)
    /\ contents' = [contents EXCEPT ![f] = Absent]

\* The machine stops, between two calls or in a call on one of the files.
Stop ==
    /\ pos' = <<>>
    /\ result' = Failed
    /\ \/ UNCHANGED contents
       \/ \E f \in File : contents' = [contents EXCEPT ![f] = Lost]

Next ==
    \/ \E f \in File :
        \/ Create(f) \/ CreateNew(f) \/ OpenFile(f) \/ Close(f) \/ Delete(f)
        \/ \E n \in Amount[f] : Read(f, n) \/ Seek(f, n)
        \/ \E data \in Data[f] : Write(f, data)
    \/ Stop

Spec == Init /\ [][Next]_vars

=============================================================================
