-------------------------- MODULE FatDirectory_proofs --------------------------
(***************************************************************************)
(* What a directory of fat.c keeps, for any names, widths and sizes: every *)
(* piece of a long name stands in the one run of pieces in front of its    *)
(* short entry, and no two entries have the same short name or are of the  *)
(* same file.                                                              *)
(***************************************************************************)
EXTENDS FatDirectory, WellFoundedInduction, FiniteSetTheorems, TLAPS

AnyAttribute == Attribute \cup {D!Subdir, D!Archive}

\* A slot of each kind has the fields of its kind.
IsSlot(x) ==
    \/ x \in {End, Deleted}
    \/ x = Piece(x.ord, x.first, x.long, x.sum) /\ x.long \in Seq(Nat)
    \/ x = Entry(x.short, x.id, x.attr) /\ x.id \in Id /\ x.attr \in AnyAttribute

Shaped(s) ==
    /\ Len(s) \in Nat
    /\ s = [i \in 1 .. Len(s) |-> s[i]]
    /\ \A i \in 1 .. Len(s) : IsSlot(s[i])

EndsLast(s) == \A i, j \in 1 .. Len(s) : Is(s, i, "end") /\ j > i => Is(s, j, "end")

\* All pieces of long, in front of the short entry j.
RunAt(s, j, long) ==
    /\ j - Pieces(long) >= 1
    /\ \A k \in j - Pieces(long) .. j - 1 :
          s[k] = Piece(j - k, k = j - Pieces(long), long, generateChecksum(s[j].short))

Owned(s, i) ==
    /\ s[i].ord \in 1 .. Pieces(s[i].long)
    /\ i + s[i].ord \in 1 .. Len(s) /\ Is(s, i + s[i].ord, "short")
    /\ RunAt(s, i + s[i].ord, s[i].long)

\* A directory whose long names are whole.
Sound(s) ==
    /\ Shaped(s)
    /\ EndsLast(s)
    /\ \A i \in 1 .. Len(s) : Is(s, i, "lfn") => Owned(s, i)

-------------------------------------------------------------------------------
Below == {p \in Nat \X Nat : p[1] < p[2]}

\* The order of the naturals is well founded.
LEMMA BelowWellFounded == IsWellFoundedOn(Below, Nat)
<1>1. OpToRel(<, Nat) = Below
  BY DEF OpToRel, Below
<1> QED BY <1>1, NatLessThanWellFounded

\* Every set of numbers has a least one.
LEMMA LeastOne ==
    ASSUME NEW S \in SUBSET Nat, S # {}
    PROVE  Min(S) \in S /\ \A n \in S : Min(S) <= n
<1>1. PICK x \in S : \A y \in S : ~(<<y, x>> \in Below)
  BY BelowWellFounded, WFMin
<1>2. ASSUME NEW y \in S PROVE x <= y
  <2>1. x \in Nat /\ y \in Nat
    OBVIOUS
  <2>2. ~(y < x)
    BY <1>1, <2>1 DEF Below
  <2> QED BY <2>1, <2>2
<1>3. \E y \in S : \A n \in S : y <= n
  BY <1>2
<1>4. LET y == CHOOSE y \in S : \A n \in S : y <= n
      IN  y \in S /\ \A n \in S : y <= n
  BY <1>3, Zenon
<1> QED BY <1>4, Zenon DEF Min

\* The greatest of a set of numbers with a bound.
LEMMA GreatestOne ==
    ASSUME NEW b \in Nat, NEW S \in SUBSET (0 .. b), S # {}
    PROVE  Max(S) \in S /\ \A n \in S : Max(S) >= n
<1> DEFINE B == {b - n : n \in S}
<1>1. B \in SUBSET Nat /\ B # {}
  <2>1. \A n \in S : n \in Nat /\ b - n \in Nat
    OBVIOUS
  <2> QED BY <2>1
<1>2. \E d \in B : \A e \in B : d <= e
  <2> HIDE DEF B
  <2> QED BY <1>1, LeastOne
<1>3. PICK m \in S : \A n \in S : b - m <= b - n
  BY <1>2
<1>4. \E x \in S : \A y \in S : x >= y
  <2>1. \A n \in S : m >= n
    BY <1>3
  <2> QED BY <2>1
<1>5. LET x == CHOOSE x \in S : \A y \in S : x >= y
      IN  x \in S /\ \A y \in S : x >= y
  BY <1>4, Zenon
<1> QED BY <1>5, Zenon DEF Max

\* Rounded up to a multiple, a number is not smaller.
LEMMA RoundUp ==
    ASSUME NEW a \in Nat, NEW c \in Nat \ {0}
    PROVE  /\ (a + c - 1) \div c \in Nat
           /\ ((a + c - 1) \div c) * c \in Nat
           /\ ((a + c - 1) \div c) * c >= a
<1> DEFINE q == (a + c - 1) \div c
           r == (a + c - 1) % c
<1>1. q \in Int /\ r \in 0 .. c - 1 /\ a + c - 1 = c * q + r
  OBVIOUS
<1>2. q * c = c * q /\ q * c \in Int
  BY <1>1
<1>3. q * c >= a
  <2> HIDE DEF q, r
  <2> QED BY <1>1, <1>2
<1>4. q >= 0
  <2> SUFFICES ASSUME q <= -1 PROVE FALSE
    BY <1>1
  <2>2. q * c \in Int
    BY <1>2
  <2> HIDE DEF q, r
  <2>1. q * c <= -c
    BY <1>1
  <2> QED BY <2>1, <1>2, <1>3
<1> QED BY <1>1, <1>2, <1>3, <1>4

\* A long name has a number of pieces, and no name has none.
LEMMA PiecesCount ==
    /\ \A long \in Seq(Nat) : Pieces(long) \in Nat
    /\ Pieces(NoName) = 0
    /\ \A long \in Seq(Nat) : long # NoName => Pieces(long) > 0
<1>1. PieceLen \in Nat \ {0}
  BY DirectoryAssumption
<1>2. \A n \in Nat : /\ (n + PieceLen - 1) \div PieceLen \in Nat
                     /\ ((n + PieceLen - 1) \div PieceLen) * PieceLen >= n
  BY <1>1, RoundUp
<1>3. \A long \in Seq(Nat) : Len(long) \in Nat /\ (long # NoName => Len(long) > 0)
  BY DEF NoName
<1>4. (0 + PieceLen - 1) \div PieceLen = 0
  BY <1>1
<1>5. Len(NoName) = 0
  BY DEF NoName
<1>6. Pieces(NoName) = 0
  BY <1>4, <1>5, Zenon DEF Pieces
<1>7. \A long \in Seq(Nat) : long # NoName => Pieces(long) > 0
  <2> TAKE long \in Seq(Nat)
  <2> HAVE long # NoName
  <2> DEFINE q == (Len(long) + PieceLen - 1) \div PieceLen
  <2>1. q \in Nat /\ q * PieceLen >= Len(long) /\ Len(long) > 0 /\ Len(long) \in Nat
    BY <1>2, <1>3
  <2>2. q # 0
    <3> SUFFICES ASSUME q = 0 PROVE FALSE
      OBVIOUS
    <3> HIDE DEF q
    <3>1. q * PieceLen = 0
      BY <1>1
    <3> QED BY <2>1, <3>1
  <2> HIDE DEF q
  <2> QED BY <2>1, <2>2 DEF Pieces, q
<1> QED BY <1>2, <1>3, <1>6, <1>7 DEF Pieces

\* The kinds of slots differ.
LEMMA Kinds ==
    /\ End.is = "end" /\ Deleted.is = "deleted"
    /\ \A o, f, l, c : /\ Piece(o, f, l, c).is = "lfn" /\ Piece(o, f, l, c).ord = o
                       /\ Piece(o, f, l, c).first = f /\ Piece(o, f, l, c).long = l
                       /\ Piece(o, f, l, c).sum = c
    /\ \A n, id, a : /\ Entry(n, id, a).is = "short" /\ Entry(n, id, a).short = n
                     /\ Entry(n, id, a).id = id /\ Entry(n, id, a).attr = a
  BY DEF End, Deleted, Piece, Entry

\* What the kind of a slot tells.
LEMMA SlotKinds ==
    ASSUME NEW x, IsSlot(x)
    PROVE  /\ x.is \in {"end", "deleted", "lfn", "short"}
           /\ x.is = "end" <=> x = End
           /\ x.is = "deleted" <=> x = Deleted
           /\ x.is = "lfn" => x = Piece(x.ord, x.first, x.long, x.sum) /\ x.long \in Seq(Nat)
           /\ x.is = "short" =>
                /\ x = Entry(x.short, x.id, x.attr)
                /\ x.id \in Id /\ x.attr \in AnyAttribute
<1>1. CASE x \in {End, Deleted}
  BY <1>1, Kinds
<1>2. CASE x = Piece(x.ord, x.first, x.long, x.sum) /\ x.long \in Seq(Nat)
  <2>1. x.is = "lfn"
    <3>1. PICK o, f, l, c : x = Piece(o, f, l, c)
      BY <1>2
    <3> QED BY <3>1, Kinds
  <2> QED BY <1>2, <2>1, Kinds
<1>3. CASE x = Entry(x.short, x.id, x.attr) /\ x.id \in Id /\ x.attr \in AnyAttribute
  <2>1. x.is = "short"
    <3>1. PICK n, id, a : x = Entry(n, id, a)
      BY <1>3
    <3> QED BY <3>1, Kinds
  <2> QED BY <1>3, <2>1, Kinds
<1> QED BY <1>1, <1>2, <1>3 DEF IsSlot

-------------------------------------------------------------------------------
\* A function on 1 .. n has length n.
LEMMA LenOfFunction ==
    ASSUME NEW n \in Nat, NEW f, f = [i \in 1 .. n |-> f[i]]
    PROVE  Len(f) = n /\ DOMAIN f = 1 .. n
<1> DEFINE V == {f[i] : i \in 1 .. n}
<1>1. f \in [1 .. n -> V]
  OBVIOUS
<1> QED BY <1>1

\* The domain of a directory is its slots.
LEMMA SlotsDomain == ASSUME NEW s, Shaped(s) PROVE DOMAIN s = 1 .. Len(s)
  BY LenOfFunction DEF Shaped

\* The last piece in front of a slot.
LEMMA LastPieceIs ==
    ASSUME NEW s, Shaped(s), NEW i \in 1 .. Len(s)
    PROVE  /\ LastPiece(s, i) \in 0 .. i - 1
           /\ LastPiece(s, i) # 0 => Is(s, LastPiece(s, i), "lfn")
           /\ \A j \in LastPiece(s, i) + 1 .. i - 1 : ~Is(s, j, "lfn")
<1> DEFINE S == {0} \cup {j \in 1 .. i - 1 : Is(s, j, "lfn")}
<1>1. S \in SUBSET (0 .. i - 1) /\ S # {} /\ i - 1 \in Nat
  OBVIOUS
<1>2. Max(S) \in S /\ \A n \in S : Max(S) >= n
  <2> HIDE DEF S
  <2> QED BY <1>1, GreatestOne
<1>3. LastPiece(s, i) = Max(S)
  BY DEF LastPiece
<1> DEFINE m == Max(S)
<1>4. m \in S /\ \A n \in S : m >= n
  BY <1>2
<1>5. LastPiece(s, i) = m
  BY <1>3
<1> HIDE DEF m
<1>6. m \in 0 .. i - 1 /\ (m # 0 => Is(s, m, "lfn"))
  BY <1>4
<1>7. \A j \in m + 1 .. i - 1 : ~Is(s, j, "lfn")
  <2> SUFFICES ASSUME NEW j \in m + 1 .. i - 1, Is(s, j, "lfn") PROVE FALSE
    OBVIOUS
  <2>1. j \in S
    BY <1>6
  <2> QED BY <1>4, <1>6, <2>1
<1> QED BY <1>5, <1>6, <1>7

\* Where the last run of pieces up to a slot starts.
LEMMA RunStartIs ==
    ASSUME NEW s, NEW i \in Nat, NEW a \in 1 .. i, Is(s, a, "lfn"), s[a].first,
           \A j \in a + 1 .. i : ~(Is(s, j, "lfn") /\ s[j].first)
    PROVE  RunStart(s, i) = a
<1> DEFINE S == {j \in 1 .. i : Is(s, j, "lfn") /\ s[j].first}
<1>1. S \in SUBSET (0 .. i) /\ S # {}
  OBVIOUS
<1>2. Max(S) \in S /\ \A n \in S : Max(S) >= n
  <2> HIDE DEF S
  <2> QED BY <1>1, GreatestOne
<1> DEFINE m == Max(S)
<1>3. m \in S /\ \A n \in S : m >= n
  BY <1>2
<1>4. RunStart(s, i) = m
  BY DEF RunStart
<1> HIDE DEF m
<1>5. a \in S
  OBVIOUS
<1>6. m >= a /\ m \in 1 .. i /\ Is(s, m, "lfn") /\ s[m].first
  BY <1>3, <1>5
<1> QED BY <1>4, <1>6

\* Where fatPosition ends.
FoundAt(s, n, p) ==
    /\ p.result = "found" /\ p.at \in 1 .. Len(s)
    /\ Matches(s, p.at, n)
    /\ \A i \in 1 .. p.at - 1 : ~Matches(s, i, n) /\ ~Is(s, i, "end")
    /\ p.run = (IF HasLong(s, p.at) THEN RunStart(s, p.at) ELSE p.at)
    /\ p.long = (IF HasLong(s, p.at) THEN s[LastPiece(s, p.at)].long ELSE NoName)

MissingAt(s, fix, p) ==
    \/ /\ p.result = "found" /\ p.at = 0 /\ fix
       /\ \A i \in 1 .. Len(s) : ~Is(s, i, "end")
    \/ /\ p.result = "onempty" /\ p.at \in 1 .. Len(s)
       /\ s[p.at].is \in {"end", "deleted"}
       /\ \A i \in 1 .. p.at - 1 : ~Is(s, i, "end")
    \/ /\ p.result = "endcluster" /\ p.at = 0 /\ ~fix
       /\ \A i \in 1 .. Len(s) : s[i].is \notin {"end", "deleted"}

\* fatPosition ends at the first entry of the name, or there is none and it ends at
\* a free slot with no end marker in front of it, or at none.
LEMMA PositionFacts ==
    ASSUME NEW s, Shaped(s), EndsLast(s), NEW fix \in BOOLEAN, NEW n
    PROVE  \/ FoundAt(s, n, fatPosition(s, fix, n))
           \/ /\ MissingAt(s, fix, fatPosition(s, fix, n))
              /\ \A i \in 1 .. Len(s) : ~Matches(s, i, n)
<1> DEFINE S == {i \in DOMAIN s : Is(s, i, "end") \/ Matches(s, i, n)}
           stop == First(S, 0)
           deleted == {i \in Where(s, "deleted") : stop # 0 => i < stop}
           p == fatPosition(s, fix, n)
<1>1. DOMAIN s = 1 .. Len(s) /\ Len(s) \in Nat
  BY SlotsDomain DEF Shaped
<1>2. S \subseteq 1 .. Len(s) /\ S \in SUBSET Nat
  BY <1>1
<1>3. S = {} => stop = 0
  BY DEF First
<1>4. S # {} => stop \in S /\ \A i \in S : stop <= i
  <2> HIDE DEF S
  <2> QED BY <1>2, LeastOne DEF First
<1>5. stop # 0 => stop \in 1 .. Len(s) /\ (Is(s, stop, "end") \/ Matches(s, stop, n))
                  /\ \A i \in 1 .. stop - 1 : ~Matches(s, i, n) /\ ~Is(s, i, "end")
  <2> SUFFICES ASSUME stop # 0 PROVE stop \in S /\ \A i \in S : stop <= i
    <3> HIDE DEF stop
    <3> QED BY <1>1, <1>2
  <2> QED BY <1>3, <1>4
<1>6. stop = 0 => \A i \in 1 .. Len(s) : ~Matches(s, i, n) /\ ~Is(s, i, "end")
  <2> HAVE stop = 0
  <2>1. S = {}
    BY <1>2, <1>4
  <2> QED BY <2>1, <1>1
<1>7. /\ deleted \in SUBSET Nat
      /\ \A i \in deleted : i \in 1 .. Len(s) /\ Is(s, i, "deleted") /\ (stop # 0 => i < stop)
  <2> HIDE DEF stop
  <2> QED BY <1>1 DEF Where
<1>8. deleted # {} => Min(deleted) \in deleted
  <2> HIDE DEF deleted
  <2> QED BY <1>7, LeastOne
<1>9. \A i \in 1 .. Len(s) : Matches(s, i, n) => ~Is(s, i, "end")
  BY DEF Matches, Is
<1>10. stop # 0 /\ Is(s, stop, "end") => \A i \in 1 .. Len(s) : ~Matches(s, i, n)
  <2> HAVE stop # 0 /\ Is(s, stop, "end")
  <2> TAKE i \in 1 .. Len(s)
  <2>1. CASE i < stop
    <3> HIDE DEF stop
    <3> QED BY <2>1, <1>5
  <2>2. CASE i >= stop
    <3> HIDE DEF stop
    <3>1. Is(s, i, "end")
      BY <2>2, <1>5 DEF EndsLast
    <3> QED BY <3>1, <1>9
  <2> HIDE DEF stop
  <2> QED BY <2>1, <2>2, <1>1, <1>5
<1>11. CASE stop # 0 /\ ~Is(s, stop, "end")
  <2>1. p = [result |-> "found", at |-> stop,
              run |-> IF HasLong(s, stop) THEN RunStart(s, stop) ELSE stop,
              long |-> IF HasLong(s, stop) THEN s[LastPiece(s, stop)].long ELSE NoName]
    BY <1>11, Zenon DEF fatPosition
  <2>2. /\ p.result = "found" /\ p.at = stop
        /\ p.run = (IF HasLong(s, stop) THEN RunStart(s, stop) ELSE stop)
        /\ p.long = (IF HasLong(s, stop) THEN s[LastPiece(s, stop)].long ELSE NoName)
    <3> HIDE DEF stop, p
    <3> QED BY <2>1
  <2> HIDE DEF stop, p
  <2>3. FoundAt(s, n, p)
    BY <1>5, <1>11, <2>2 DEF FoundAt
  <2> QED BY <2>3 DEF p
<1>12. CASE ~(stop # 0 /\ ~Is(s, stop, "end"))
  <2>1. \A i \in 1 .. Len(s) : ~Matches(s, i, n)
    BY <1>6, <1>10, <1>12
  <2>2. p = IF stop = 0 /\ fix
            THEN [result |-> "found", at |-> 0, run |-> 0, long |-> NoName]
            ELSE IF deleted # {}
            THEN [result |-> "onempty", at |-> Min(deleted), run |-> 0, long |-> NoName]
            ELSE [result |-> IF stop = 0 THEN "endcluster" ELSE "onempty", at |-> stop,
                  run |-> 0, long |-> NoName]
    BY <1>12, Zenon DEF fatPosition
  <2> DEFINE m == Min(deleted)
  <2>3. deleted # {} => m \in 1 .. Len(s) /\ Is(s, m, "deleted") /\ (stop # 0 => m < stop)
    BY <1>7, <1>8
  <2>4. deleted = {} /\ stop = 0 => \A i \in 1 .. Len(s) : ~Is(s, i, "deleted")
    <3> HIDE DEF stop
    <3> QED BY <1>1 DEF Where
  <2>5. p = IF stop = 0 /\ fix
            THEN [result |-> "found", at |-> 0, run |-> 0, long |-> NoName]
            ELSE IF deleted # {}
            THEN [result |-> "onempty", at |-> m, run |-> 0, long |-> NoName]
            ELSE [result |-> IF stop = 0 THEN "endcluster" ELSE "onempty", at |-> stop,
                  run |-> 0, long |-> NoName]
    BY <2>2
  <2> HIDE DEF m, deleted, stop, p
  <2>6. MissingAt(s, fix, p)
    <3>1. CASE stop = 0 /\ fix
      BY <2>5, <3>1, <1>6 DEF MissingAt
    <3>2. CASE ~(stop = 0 /\ fix) /\ deleted # {}
      <4>1. p.result = "onempty" /\ p.at = m
        BY <2>5, <3>2
      <4>2. \A i \in 1 .. m - 1 : ~Is(s, i, "end")
        BY <2>3, <3>2, <1>5, <1>6, <1>1
      <4> QED BY <4>1, <4>2, <2>3, <3>2 DEF MissingAt, Is
    <3>3. CASE stop = 0 /\ ~fix /\ deleted = {}
      <4>1. p.result = "endcluster" /\ p.at = 0
        BY <2>5, <3>3
      <4> QED BY <4>1, <3>3, <2>4, <1>6 DEF MissingAt, Is
    <3>4. CASE stop # 0 /\ deleted = {}
      <4>1. p.result = "onempty" /\ p.at = stop
        BY <2>5, <3>4
      <4> QED BY <4>1, <3>4, <1>5, <1>12 DEF MissingAt, Is
    <3> QED BY <3>1, <3>2, <3>3, <3>4
  <2> QED BY <2>1, <2>6 DEF p
<1> QED BY <1>11, <1>12

-------------------------------------------------------------------------------
\* s with the slots from a to b deleted.
Without(s, a, b) == [i \in DOMAIN s |-> IF i \in a .. b THEN Deleted ELSE s[i]]

\* A piece belongs to the entry behind its run, which all pieces of the run belong to.
LEMMA PieceRun ==
    ASSUME NEW s, Sound(s), NEW i \in 1 .. Len(s), Is(s, i, "lfn")
    PROVE  LET j == i + s[i].ord
               a == j - Pieces(s[i].long)
           IN  /\ j \in i + 1 .. Len(s) /\ a \in 1 .. i /\ Is(s, j, "short")
               /\ \A k \in a .. j - 1 : Is(s, k, "lfn") /\ k + s[k].ord = j
               /\ \A k \in a .. j - 1 : s[k].first = (k = a)
               /\ \A k \in a .. j - 1 : /\ s[k].sum = generateChecksum(s[j].short)
                                        /\ s[k].long = s[i].long
<1> DEFINE j == i + s[i].ord
           n == Pieces(s[i].long)
           a == j - n
<1>1. IsSlot(s[i]) /\ Owned(s, i) /\ Len(s) \in Nat
  BY DEF Sound, Shaped
<1>2. s[i].long \in Seq(Nat)
  BY <1>1, SlotKinds DEF Is
<1>3. n \in Nat
  BY <1>2, PiecesCount
<1>4. /\ s[i].ord \in 1 .. n /\ j \in 1 .. Len(s) /\ Is(s, j, "short") /\ a >= 1
      /\ \A k \in a .. j - 1 :
            s[k] = Piece(j - k, k = a, s[i].long, generateChecksum(s[j].short))
  BY <1>1, Zenon DEF Owned, RunAt
<1> HIDE DEF n
<1>5. s[i].ord \in Nat /\ j \in i + 1 .. Len(s) /\ a \in 1 .. i
  BY <1>1, <1>3, <1>4
<1>6. ASSUME NEW k \in a .. j - 1
      PROVE  /\ Is(s, k, "lfn") /\ k + s[k].ord = j /\ s[k].first = (k = a)
             /\ s[k].sum = generateChecksum(s[j].short) /\ s[k].long = s[i].long
  <2>1. s[k] = Piece(j - k, k = a, s[i].long, generateChecksum(s[j].short))
    BY <1>4
  <2>2. s[k].ord = j - k /\ k \in Int /\ j \in Int
    BY <2>1, <1>5, <1>3, Kinds
  <2> HIDE DEF a, j
  <2>3. k + s[k].ord = j
    BY <2>2
  <2> QED BY <2>1, <2>3, Kinds DEF Is
<1> QED BY <1>4, <1>5, <1>6 DEF n

\* A long name read for a short entry is all of a run, and the entry behind it is at
\* most that one.
LEMMA FoundRun ==
    ASSUME NEW s, Sound(s), NEW i \in 1 .. Len(s), Is(s, i, "short"), HasLong(s, i)
    PROVE  LET k == LastPiece(s, i)
               a == k + 1 - Pieces(s[k].long)
           IN  /\ k \in 1 .. i - 1 /\ Is(s, k, "lfn") /\ s[k].ord = 1
               /\ a \in 1 .. k /\ RunStart(s, i) = a
<1> DEFINE k == LastPiece(s, i)
           j == k + s[k].ord
           b == Pieces(s[k].long)
           a == j - b
<1>1. Shaped(s) /\ Len(s) \in Nat
  BY DEF Sound, Shaped
<1>2. k \in 1 .. i - 1 /\ Is(s, k, "lfn") /\ \A x \in k + 1 .. i - 1 : ~Is(s, x, "lfn")
  BY <1>1, LastPieceIs DEF HasLong
<1> HIDE DEF k
<1>3. k \in 1 .. Len(s)
  BY <1>1, <1>2
<1>4. /\ j \in k + 1 .. Len(s) /\ a \in 1 .. k /\ Is(s, j, "short")
      /\ \A x \in a .. j - 1 : Is(s, x, "lfn")
      /\ \A x \in a .. j - 1 : s[x].first = (x = a)
  BY <1>2, <1>3, PieceRun
<1>41. s[k].ord \in Int /\ b \in Int
  <2>1. IsSlot(s[k]) /\ Owned(s, k)
    BY <1>2, <1>3 DEF Sound, Shaped
  <2>2. s[k].long \in Seq(Nat)
    BY <1>2, <2>1, SlotKinds DEF Is
  <2> QED BY <2>1, <2>2, PiecesCount DEF Owned
<1>5. s[k].ord = 1
  <2>0. j \in Int
    BY <1>41, <1>2
  <2>1. j = k + 1
    <3> SUFFICES ASSUME j # k + 1 PROVE FALSE
      OBVIOUS
    <3> HIDE DEF j, a
    <3>1. j - 1 > k
      BY <1>2, <1>4, <2>0
    <3>2. CASE j - 1 < i
      BY <3>1, <3>2, <1>2, <1>4, <2>0 DEF a
    <3>3. CASE j - 1 >= i
      <4>1. a \in Int /\ a <= k
        BY <1>2, <1>4
      <4>2. i \in a .. j - 1
        BY <3>3, <4>1, <1>2, <2>0
      <4>3. Is(s, i, "lfn")
        BY <4>2, <1>4
      <4> QED BY <4>3 DEF Is
    <3> QED BY <3>2, <3>3, <2>0
  <2> QED BY <2>1, <1>41, <1>2
<1>6. j = k + 1
  BY <1>5
<1>7. a = k + 1 - b
  BY <1>5, <1>41, <1>2
<1> HIDE DEF a, j, b
<1>9. a \in 1 .. k /\ a \in a .. j - 1
  BY <1>2, <1>4, <1>6
<1>8. RunStart(s, i) = a
  <2>1. a \in 1 .. i /\ Is(s, a, "lfn") /\ s[a].first
    <3>1. Is(s, a, "lfn") /\ s[a].first = (a = a)
      BY <1>4, <1>9
    <3>2. s[a].first
      BY <3>1
    <3> QED BY <3>1, <3>2, <1>2, <1>9
  <2>2. ASSUME NEW x \in a + 1 .. i PROVE ~(Is(s, x, "lfn") /\ s[x].first)
    <3>1. CASE x <= k
      <4>1. x \in a .. j - 1 /\ x # a
        BY <3>1, <1>2, <1>6, <1>9
      <4> QED BY <4>1, <1>4
    <3>2. CASE x > k /\ x < i
      BY <3>2, <1>2, <2>1
    <3>3. CASE x = i
      BY <3>3 DEF Is
    <3> QED BY <3>1, <3>2, <3>3, <2>1, <1>2
  <2> QED BY <2>1, <2>2, RunStartIs
<1> QED BY <1>2, <1>5, <1>7, <1>8, <1>9 DEF k, b

\* Without is a directory of the same length.
LEMMA WithoutShape ==
    ASSUME NEW s, Shaped(s), NEW a, NEW b
    PROVE  /\ Shaped(Without(s, a, b)) /\ Len(Without(s, a, b)) = Len(s)
           /\ \A i \in 1 .. Len(s) :
                 Without(s, a, b)[i] = IF i \in a .. b THEN Deleted ELSE s[i]
<1> DEFINE t == Without(s, a, b)
           n == Len(s)
<1>1. DOMAIN s = 1 .. n /\ n \in Nat
  BY SlotsDomain DEF Shaped
<1>2. t = [i \in 1 .. n |-> IF i \in a .. b THEN Deleted ELSE s[i]]
  BY <1>1 DEF Without
<1> HIDE DEF n, t
<1>3. \A i \in 1 .. n : t[i] = IF i \in a .. b THEN Deleted ELSE s[i]
  BY <1>2
<1>4. t = [i \in 1 .. n |-> t[i]]
  BY <1>2
<1>5. Len(t) = n
  BY <1>1, <1>4, LenOfFunction
<1>6. \A i \in 1 .. n : IsSlot(s[i]) /\ IsSlot(Deleted)
  BY DEF Shaped, n, IsSlot
<1>7. Shaped(t)
  BY <1>1, <1>3, <1>4, <1>5, <1>6 DEF Shaped
<1> QED BY <1>3, <1>5, <1>7 DEF n, t

\* A piece stays owned where its run and its entry stay.
LEMMA OwnedKept ==
    ASSUME NEW s, Sound(s), NEW t, NEW i \in 1 .. Len(s), Is(s, i, "lfn"),
           Len(t) \in Nat, Len(s) <= Len(t),
           \A k \in (i + s[i].ord) - Pieces(s[i].long) .. i + s[i].ord : t[k] = s[k]
    PROVE  Owned(t, i)
<1> DEFINE j == i + s[i].ord
           c == j - Pieces(s[i].long)
<1>1. Owned(s, i) /\ Len(s) \in Nat
  BY DEF Sound, Shaped
<1>2. j \in i + 1 .. Len(s) /\ c \in 1 .. i
  BY PieceRun
<1>3. /\ s[i].ord \in 1 .. Pieces(s[i].long) /\ j \in 1 .. Len(s) /\ Is(s, j, "short")
      /\ c >= 1
      /\ \A k \in c .. j - 1 :
            s[k] = Piece(j - k, k = c, s[i].long, generateChecksum(s[j].short))
  BY <1>1, Zenon DEF Owned, RunAt
<1>4. \A k \in c .. j : t[k] = s[k]
  OBVIOUS
<1>5. t[i] = s[i] /\ t[j] = s[j] /\ \A k \in c .. j - 1 : t[k] = s[k]
  <2> HIDE DEF c, j
  <2> QED BY <1>2, <1>4, <1>1
<1>6. \A k \in c .. j - 1 :
         t[k] = Piece(j - k, k = c, t[i].long, generateChecksum(t[j].short))
  <2> HIDE DEF c, j
  <2> QED BY <1>3, <1>5
<1>7. t[i].ord \in 1 .. Pieces(t[i].long) /\ Is(t, j, "short")
      /\ t[i].long = s[i].long /\ t[i].ord = s[i].ord /\ j \in 1 .. Len(t)
  <2>1. j \in 1 .. Len(t)
    <3> HIDE DEF j
    <3> QED BY <1>3, <1>1
  <2> QED BY <2>1, <1>3, <1>5 DEF Is
<1>8. RunAt(t, j, t[i].long)
  BY <1>3, <1>6, <1>7, Zenon DEF RunAt
<1> QED BY <1>7, <1>8, Zenon DEF Owned

\* Slots may be deleted as long as an entry goes with all its pieces or stays with
\* all of them.
LEMMA WithoutSound ==
    ASSUME NEW s, Sound(s), NEW a \in Int, NEW b \in Int,
           \A i \in a .. b \cap 1 .. Len(s) : ~Is(s, i, "end"),
           \A i \in 1 .. Len(s) :
              Is(s, i, "lfn") => (i \in a .. b <=> i + s[i].ord \in a .. b)
    PROVE  Sound(Without(s, a, b))
<1> DEFINE t == Without(s, a, b)
           n == Len(s)
<1>1. Shaped(s) /\ n \in Nat
  BY DEF Sound, Shaped
<1>2. Shaped(t) /\ Len(t) = n /\ \A i \in 1 .. n : t[i] = IF i \in a .. b THEN Deleted ELSE s[i]
  BY <1>1, WithoutShape
<1> HIDE DEF t, n
<1>3. EndsLast(t)
  <2> SUFFICES ASSUME NEW i \in 1 .. n, NEW j \in 1 .. n, Is(t, i, "end"), j > i
               PROVE  Is(t, j, "end")
    BY <1>2 DEF EndsLast
  <2>1. Is(s, i, "end")
    BY <1>2, Kinds DEF Is
  <2>2. Is(s, j, "end")
    BY <2>1 DEF Sound, EndsLast, n
  <2>3. j \notin a .. b
    BY <2>2 DEF n
  <2> QED BY <2>2, <2>3, <1>2 DEF Is
<1>4. ASSUME NEW i \in 1 .. n, Is(t, i, "lfn") PROVE Owned(t, i)
  <2>1. i \notin a .. b /\ t[i] = s[i] /\ Is(s, i, "lfn")
    BY <1>2, <1>4, Kinds DEF Is
  <2> DEFINE j == i + s[i].ord
             c == j - Pieces(s[i].long)
  <2>2. /\ j \in i + 1 .. n /\ c \in 1 .. i /\ Is(s, j, "short")
        /\ \A k \in c .. j - 1 : Is(s, k, "lfn") /\ k + s[k].ord = j
    BY <2>1, PieceRun DEF n
  <2>4. j \notin a .. b
    BY <2>1 DEF n
  <2>5. t[j] = s[j]
    BY <2>2, <2>4, <1>2
  <2>6. ASSUME NEW k \in c .. j PROVE t[k] = s[k]
    <3> SUFFICES ASSUME k # j PROVE k \in 1 .. n /\ k \notin a .. b
      BY <2>5, <1>2
    <3>1. k \in 1 .. n /\ Is(s, k, "lfn") /\ k + s[k].ord = j
      <4> HIDE DEF j, c
      <4> QED BY <1>1, <2>2
    <3> HIDE DEF j, c
    <3> QED BY <3>1, <2>4 DEF n
  <2> QED BY <2>1, <2>6, <1>1, <1>2, OwnedKept DEF n
<1>5. \A i \in 1 .. Len(t) : Is(t, i, "lfn") => Owned(t, i)
  BY <1>4, <1>2
<1> QED BY <1>2, <1>3, <1>5 DEF Sound, t

\* An entry without a long name read for it has no pieces of its own either.
LEMMA NotOwner ==
    ASSUME NEW s, Sound(s), NEW at \in 1 .. Len(s), ~HasLong(s, at),
           NEW i \in 1 .. Len(s), Is(s, i, "lfn")
    PROVE  i + s[i].ord # at
<1> DEFINE j == i + s[i].ord
           a == j - Pieces(s[i].long)
<1> SUFFICES ASSUME j = at PROVE FALSE
  OBVIOUS
<1>1. /\ j \in i + 1 .. Len(s) /\ a \in 1 .. i
      /\ \A k \in a .. j - 1 : Is(s, k, "lfn")
      /\ \A k \in a .. j - 1 : s[k].sum = generateChecksum(s[j].short)
  BY PieceRun
<1> HIDE DEF a, j
<1>2. at - 1 \in a .. j - 1 /\ at - 1 # 0 /\ at - 1 \in 1 .. at - 1
  BY <1>1
<1>3. Is(s, at - 1, "lfn") /\ s[at - 1].sum = generateChecksum(s[at].short)
  BY <1>1, <1>2
<1> DEFINE k == LastPiece(s, at)
<1>4. k \in 0 .. at - 1 /\ \A x \in k + 1 .. at - 1 : ~Is(s, x, "lfn")
  BY LastPieceIs DEF Sound
<1>5. k = at - 1
  <2> HIDE DEF k
  <2> SUFFICES ASSUME k # at - 1 PROVE FALSE
    OBVIOUS
  <2>1. at - 1 \in k + 1 .. at - 1
    BY <1>4
  <2> QED BY <2>1, <1>3, <1>4
<1> QED BY <1>2, <1>3, <1>5 DEF HasLong

\* deleteLFNs deletes an entry with its pieces, or one that has none.
LEMMA DeleteSound ==
    ASSUME NEW s, Sound(s), NEW n, NEW p, FoundAt(s, n, p)
    PROVE  Sound(deleteLFNs(s, p)) /\ Len(deleteLFNs(s, p)) = Len(s)
<1> DEFINE at == p.at
           k == LastPiece(s, at)
           P == Pieces(s[k].long)
<1>1. /\ at \in 1 .. Len(s) /\ Is(s, at, "short") /\ Shaped(s)
      /\ p.run = (IF HasLong(s, at) THEN RunStart(s, at) ELSE at)
      /\ p.long = (IF HasLong(s, at) THEN s[k].long ELSE NoName)
  BY DEF FoundAt, Matches, Sound
<1> HIDE DEF at
<1>2. CASE HasLong(s, at)
  <2> DEFINE a == k + 1 - P
  <2>1. k \in 1 .. at - 1 /\ Is(s, k, "lfn") /\ s[k].ord = 1 /\ a \in 1 .. k
        /\ RunStart(s, at) = a
    BY <1>1, <1>2, FoundRun
  <2>2. p.run = a /\ p.long = s[k].long
    BY <1>1, <1>2, <2>1
  <2>3. k \in 1 .. Len(s) /\ Len(s) \in Nat
    BY <1>1, <2>1 DEF Shaped
  <2>4. k + 1 \in 1 .. Len(s) /\ Is(s, k + 1, "short")
        /\ \A x \in (k + 1) - P .. (k + 1) - 1 : Is(s, x, "lfn") /\ x + s[x].ord = k + 1
    BY <2>1, <2>3, PieceRun
  <2>5. P \in Nat
    <3>1. IsSlot(s[k])
      BY <2>3, <1>1 DEF Shaped
    <3>2. s[k].long \in Seq(Nat)
      BY <2>1, <3>1, SlotKinds DEF Is
    <3> QED BY <3>2, PiecesCount
  <2>6. a + P = k + 1 /\ (k + 1) - P = a /\ (k + 1) - 1 = k /\ a \in Int /\ k + 1 \in Int
    BY <2>1, <2>5
  <2>7. deleteLFNs(s, p) = Without(s, a, k + 1)
    BY <2>2, <2>6 DEF deleteLFNs, Without
  <2> HIDE DEF k, P, a
  <2>8. \A x \in a .. k : Is(s, x, "lfn") /\ x + s[x].ord = k + 1
    BY <2>4, <2>6
  <2>9. \A i \in a .. k + 1 \cap 1 .. Len(s) : ~Is(s, i, "end")
    <3> TAKE i \in a .. k + 1 \cap 1 .. Len(s)
    <3>1. i \in a .. k \/ i = k + 1
      BY <2>1
    <3> QED BY <3>1, <2>4, <2>8 DEF Is
  <2>10. ASSUME NEW i \in 1 .. Len(s), Is(s, i, "lfn")
         PROVE  i \in a .. k + 1 <=> i + s[i].ord \in a .. k + 1
    <3>1. ASSUME i \in a .. k + 1 PROVE i + s[i].ord \in a .. k + 1
      <4>1. i # k + 1
        BY <2>10, <2>4 DEF Is
      <4>2. i \in a .. k
        BY <3>1, <4>1, <2>1
      <4>3. i + s[i].ord = k + 1
        BY <4>2, <2>8
      <4> QED BY <4>3, <2>1
    <3>2. ASSUME i + s[i].ord \in a .. k + 1 PROVE i \in a .. k + 1
      <4> DEFINE j == i + s[i].ord
                 c == j - Pieces(s[i].long)
      <4>1. /\ j \in i + 1 .. Len(s) /\ c \in 1 .. i /\ Is(s, j, "short")
            /\ \A x \in c .. j - 1 : s[x].long = s[i].long
        BY <2>10, PieceRun
      <4>2. j = k + 1
        <5>1. j \notin a .. k
          BY <4>1, <2>8 DEF Is
        <5>2. j \in a .. k + 1 /\ j \in Int
          BY <3>2, <4>1
        <5> HIDE DEF j
        <5> QED BY <5>1, <5>2, <2>1
      <4>3. k \in c .. j - 1
        <5> HIDE DEF j, c
        <5> QED BY <4>1, <4>2, <2>1
      <4>4. s[k].long = s[i].long
        BY <4>1, <4>3
      <4>5. c = a
        <5>1. c = (k + 1) - Pieces(s[k].long)
          BY <4>2, <4>4
        <5> QED BY <5>1, <2>6 DEF P
      <4> HIDE DEF j, c
      <4> QED BY <4>1, <4>2, <4>5, <2>1
    <3> QED BY <3>1, <3>2
  <2>11. Sound(Without(s, a, k + 1))
    BY <2>6, <2>9, <2>10, WithoutSound
  <2> QED BY <2>7, <2>11, <1>1, WithoutShape
<1>3. CASE ~HasLong(s, at)
  <2>1. p.run = at /\ Pieces(p.long) = 0 /\ at \in Int
    BY <1>1, <1>3, PiecesCount
  <2>2. deleteLFNs(s, p) = Without(s, at, at)
    <3>1. p.run + Pieces(p.long) = at
      BY <2>1
    <3> QED BY <2>1, <3>1, Zenon DEF deleteLFNs, Without
  <2>3. ASSUME NEW i \in 1 .. Len(s), Is(s, i, "lfn")
        PROVE  i \in at .. at <=> i + s[i].ord \in at .. at
    <3>1. i + s[i].ord # at
      BY <2>3, <1>1, <1>3, NotOwner
    <3>2. i # at
      BY <2>3, <1>1 DEF Is
    <3>3. \A x : x \in at .. at => x = at
      BY <2>1
    <3> QED BY <3>1, <3>2, <3>3
  <2>4. \A i \in at .. at \cap 1 .. Len(s) : ~Is(s, i, "end")
    BY <1>1, <2>1 DEF Is
  <2>5. Sound(Without(s, at, at))
    BY <2>1, <2>3, <2>4, WithoutSound
  <2> QED BY <2>2, <2>5, <1>1, WithoutShape
<1> QED BY <1>2, <1>3

-------------------------------------------------------------------------------
\* t is s with end markers behind it.
Longer(s, t) ==
    /\ Len(t) \in Nat /\ Len(s) <= Len(t)
    /\ \A i \in 1 .. Len(s) : t[i] = s[i]
    /\ \A i \in Len(s) + 1 .. Len(t) : t[i] = End

\* A directory is made longer by end markers, which keeps it sound.
LEMMA LongerSound ==
    ASSUME NEW s, Sound(s), NEW n \in Nat
    PROVE  /\ Longer(s, s \o Empty(n)) /\ Len(s \o Empty(n)) = Len(s) + n
           /\ Sound(s \o Empty(n))
<1> DEFINE t == s \o Empty(n)
           l == Len(s)
           V == {s[i] : i \in 1 .. l} \cup {End}
<1>1. Shaped(s) /\ l \in Nat /\ DOMAIN s = 1 .. l /\ s = [i \in 1 .. l |-> s[i]]
  BY SlotsDomain DEF Sound, Shaped
<1>2. s \in Seq(V)
  <2> HIDE DEF l
  <2>1. s \in [1 .. l -> V]
    BY <1>1
  <2> QED BY <2>1, <1>1
<1>3. Empty(n) \in Seq(V) /\ Len(Empty(n)) = n /\ \A i \in 1 .. n : Empty(n)[i] = End
  <2>1. Empty(n) \in [1 .. n -> V]
    BY DEF Empty
  <2> QED BY <2>1 DEF Empty
<1> HIDE DEF V
<1>4. /\ t \in Seq(V) /\ Len(t) = l + n
      /\ \A i \in 1 .. l + n : t[i] = IF i <= l THEN s[i] ELSE Empty(n)[i - l]
  BY <1>2, <1>3
<1> HIDE DEF t, l
<1>5. t = [i \in 1 .. Len(t) |-> t[i]]
  BY <1>4
<1>6. \A i \in l + 1 .. l + n : t[i] = End
  <2> TAKE i \in l + 1 .. l + n
  <2>1. i - l \in 1 .. n /\ i \in 1 .. l + n /\ ~(i <= l)
    BY <1>1
  <2> QED BY <2>1, <1>3, <1>4
<1>7. \A i \in 1 .. l : t[i] = s[i]
  BY <1>1, <1>4
<1>8. Longer(s, t)
  BY <1>1, <1>4, <1>6, <1>7 DEF Longer, l
<1>9. Shaped(t)
  <2>1. \A i \in 1 .. l : IsSlot(t[i])
    BY <1>1, <1>7 DEF Shaped, l
  <2>2. \A i \in l + 1 .. l + n : IsSlot(t[i])
    BY <1>6 DEF IsSlot
  <2> QED BY <2>1, <2>2, <1>1, <1>4, <1>5 DEF Shaped
<1>10. EndsLast(t)
  <2> SUFFICES ASSUME NEW i \in 1 .. l + n, NEW j \in 1 .. l + n, Is(t, i, "end"), j > i
               PROVE  Is(t, j, "end")
    BY <1>4 DEF EndsLast
  <2>1. CASE j > l
    BY <2>1, <1>1, <1>6, Kinds DEF Is
  <2>2. CASE j <= l
    <3>1. i \in 1 .. l /\ j \in 1 .. l
      BY <2>2, <1>1
    <3>2. Is(s, i, "end")
      BY <3>1, <1>7 DEF Is
    <3>3. Is(s, j, "end")
      BY <3>1, <3>2 DEF Sound, EndsLast, l
    <3> QED BY <3>1, <3>3, <1>7 DEF Is
  <2> QED BY <2>1, <2>2, <1>1
<1>11. ASSUME NEW i \in 1 .. l + n, Is(t, i, "lfn") PROVE Owned(t, i)
  <2>1. i \in 1 .. l
    <3>1. i \notin l + 1 .. l + n
      BY <1>6, <1>11, Kinds DEF Is
    <3> QED BY <3>1, <1>1
  <2>2. t[i] = s[i] /\ Is(s, i, "lfn")
    BY <2>1, <1>7, <1>11 DEF Is
  <2> DEFINE j == i + s[i].ord
             c == j - Pieces(s[i].long)
  <2>3. j \in i + 1 .. l /\ c \in 1 .. i
    BY <2>1, <2>2, PieceRun DEF l
  <2>4. \A k \in c .. j : t[k] = s[k]
    <3> HIDE DEF c, j
    <3> QED BY <2>3, <1>1, <1>7
  <2> QED BY <2>1, <2>2, <2>4, <1>1, <1>4, OwnedKept DEF l
<1>12. Sound(t)
  BY <1>4, <1>9, <1>10, <1>11 DEF Sound
<1> QED BY <1>4, <1>8, <1>12 DEF t, l

\* The slots a name may be put in: free, and with no end marker in front of them.
Room(s, at, n) ==
    /\ at \in Nat \ {0} /\ at + n - 1 <= Len(s)
    /\ \A i \in at .. at + n - 1 : s[i].is \in {"end", "deleted"}
    /\ \A i \in 1 .. at - 1 : ~Is(s, i, "end")

\* A sequence of slots is put over those of a directory.
LEMMA PutShape ==
    ASSUME NEW s, Shaped(s), NEW at \in Nat \ {0}, NEW new, Len(new) \in Nat,
           \A i \in 1 .. Len(new) : IsSlot(new[i])
    PROVE  /\ Shaped(Put(s, at, new)) /\ Len(Put(s, at, new)) = Len(s)
           /\ \A i \in 1 .. Len(s) :
                 Put(s, at, new)[i] =
                    IF i \in at .. at + Len(new) - 1 THEN new[i - at + 1] ELSE s[i]
<1> DEFINE t == Put(s, at, new)
           n == Len(s)
           m == Len(new)
<1>1. DOMAIN s = 1 .. n /\ n \in Nat
  BY SlotsDomain DEF Shaped
<1>2. t = [i \in 1 .. n |-> IF i \in at .. at + m - 1 THEN new[i - at + 1] ELSE s[i]]
  BY <1>1, Zenon DEF Put
<1> HIDE DEF n, t, m
<1>3. \A i \in 1 .. n : t[i] = IF i \in at .. at + m - 1 THEN new[i - at + 1] ELSE s[i]
  BY <1>2
<1>4. t = [i \in 1 .. n |-> t[i]]
  BY <1>2
<1>5. Len(t) = n
  BY <1>1, <1>4, LenOfFunction
<1>6. \A i \in 1 .. n : IsSlot(s[i])
  BY DEF Shaped, n
<1>7. \A i \in at .. at + m - 1 : i - at + 1 \in 1 .. m
  BY DEF m
<1>8. \A i \in 1 .. m : IsSlot(new[i])
  BY DEF m
<1>9. \A i \in 1 .. n : IsSlot(t[i])
  BY <1>3, <1>6, <1>7, <1>8
<1>10. Shaped(t)
  BY <1>1, <1>4, <1>5, <1>9 DEF Shaped
<1> QED BY <1>3, <1>5, <1>10 DEF n, t, m

\* new is the run of long and the short entry behind it, or just that entry.
NewRun(new, long, short) ==
    /\ long \in Seq(Nat)
    /\ Len(new) = Pieces(long) + 1
    /\ \A i \in 1 .. Len(new) : IsSlot(new[i])
    /\ Is(new, Len(new), "short") /\ new[Len(new)].short = short
    /\ \A i \in 1 .. Pieces(long) :
          new[i] = Piece(Pieces(long) + 1 - i, i = 1, long, generateChecksum(short))

\* A name put where there is room for it leaves the directory sound.
LEMMA PutSound ==
    ASSUME NEW s, Sound(s), NEW at, NEW new, NEW long, NEW short,
           NewRun(new, long, short), Room(s, at, Len(new))
    PROVE  Sound(Put(s, at, new))
<1> DEFINE t == Put(s, at, new)
           n == Len(s)
           q == Pieces(long)
           m == Len(new)
<1>1. /\ n \in Nat /\ q \in Nat /\ m = q + 1 /\ at \in Nat \ {0} /\ at + q <= n
      /\ Shaped(s)
  <2>1. q \in Nat /\ m = q + 1 /\ at \in Nat \ {0} /\ at + m - 1 <= n
    BY PiecesCount DEF NewRun, Room
  <2>2. n \in Nat /\ Shaped(s)
    BY DEF Sound, Shaped
  <2> HIDE DEF n, q, m
  <2> QED BY <2>1, <2>2
<1>2. /\ Shaped(t) /\ Len(t) = n
      /\ \A i \in 1 .. n : t[i] = IF i \in at .. at + m - 1 THEN new[i - at + 1] ELSE s[i]
  <2>1. Len(new) \in Nat /\ at \in Nat \ {0} /\ Shaped(s)
    BY <1>1
  <2>2. \A i \in 1 .. Len(new) : IsSlot(new[i])
    BY DEF NewRun
  <2> QED BY <2>1, <2>2, PutShape
<1>3. /\ \A i \in at .. at + q : s[i].is \in {"end", "deleted"}
      /\ \A i \in 1 .. at - 1 : ~Is(s, i, "end")
      /\ Is(new, q + 1, "short") /\ new[q + 1].short = short
      /\ \A i \in 1 .. q :
            new[i] = Piece(q + 1 - i, i = 1, long, generateChecksum(short))
  <2>1. at + m - 1 = at + q
    BY <1>1
  <2>2. /\ \A i \in at .. at + m - 1 : s[i].is \in {"end", "deleted"}
        /\ \A i \in 1 .. at - 1 : ~Is(s, i, "end")
        /\ Is(new, m, "short") /\ new[m].short = short
        /\ \A i \in 1 .. q :
              new[i] = Piece(q + 1 - i, i = 1, long, generateChecksum(short))
    BY Zenon DEF Room, NewRun
  <2> QED BY <1>1, <2>1, <2>2
<1>4. long \in Seq(Nat)
  BY DEF NewRun
<1> HIDE DEF n, q, m
<1>5. \A i \in 1 .. n : t[i] = IF i \in at .. at + q THEN new[i - at + 1] ELSE s[i]
  BY <1>1, <1>2
<1> HIDE DEF t
<1>6. \A i \in 1 .. q : /\ at + i - 1 \in 1 .. n
                        /\ t[at + i - 1] = Piece(q + 1 - i, i = 1, long, generateChecksum(short))
  <2> TAKE i \in 1 .. q
  <2>1. at + i - 1 \in 1 .. n /\ at + i - 1 \in at .. at + q /\ (at + i - 1) - at + 1 = i
    BY <1>1
  <2> QED BY <2>1, <1>3, <1>5
<1>7. at + q \in 1 .. n /\ Is(t, at + q, "short") /\ t[at + q].short = short
  <2>1. at + q \in 1 .. n /\ at + q \in at .. at + q /\ (at + q) - at + 1 = q + 1
    BY <1>1
  <2>2. t[at + q] = new[q + 1]
    BY <2>1, <1>5
  <2> QED BY <2>1, <2>2, <1>3 DEF Is
<1>8. \A i \in at .. at + q : t[i].is \in {"lfn", "short"}
  <2> TAKE i \in at .. at + q
  <2>1. CASE i = at + q
    BY <2>1, <1>7 DEF Is
  <2>2. CASE i # at + q
    <3>1. (i - at) + 1 \in 1 .. q /\ at + ((i - at) + 1) - 1 = i
      BY <2>2, <1>1
    <3> DEFINE x == (i - at) + 1
    <3>2. x \in 1 .. q /\ at + x - 1 = i
      BY <3>1
    <3> HIDE DEF x
    <3>3. t[i] = Piece(q + 1 - x, x = 1, long, generateChecksum(short))
      BY <3>2, <1>6
    <3> QED BY <3>3, Kinds
  <2> QED BY <2>1, <2>2
<1>9. EndsLast(t)
  <2> SUFFICES ASSUME NEW i \in 1 .. n, NEW j \in 1 .. n, Is(t, i, "end"), j > i
               PROVE  Is(t, j, "end")
    BY <1>2 DEF EndsLast
  <2>1. i \notin at .. at + q /\ t[i] = s[i]
    BY <1>5, <1>8 DEF Is
  <2>2. Is(s, i, "end") /\ Is(s, j, "end")
    BY <2>1 DEF Sound, EndsLast, n, Is
  <2>3. i >= at
    BY <2>2, <1>1, <1>3
  <2>4. j \notin at .. at + q
    BY <2>1, <2>3, <1>1
  <2> QED BY <2>2, <2>4, <1>5 DEF Is
<1>10. ASSUME NEW i \in 1 .. n, Is(t, i, "lfn"), i \in at .. at + q PROVE Owned(t, i)
  <2>1. i \in at .. at + q - 1
    BY <1>1, <1>7, <1>10 DEF Is
  <2> DEFINE x == (i - at) + 1
  <2>2. x \in 1 .. q /\ at + x - 1 = i
    BY <2>1, <1>1
  <2> HIDE DEF x
  <2>3. t[i] = Piece(q + 1 - x, x = 1, long, generateChecksum(short))
    BY <2>2, <1>6
  <2>4. t[i].ord = q + 1 - x /\ t[i].long = long
    BY <2>3, Kinds
  <2>5. t[i].ord \in 1 .. q /\ i + t[i].ord = at + q
    BY <2>2, <2>4, <1>1
  <2>6. (at + q) - q = at
    BY <1>1
  <2>7. \A k \in at .. (at + q) - 1 :
            t[k] = Piece((at + q) - k, k = at, long, generateChecksum(t[at + q].short))
    <3> TAKE k \in at .. (at + q) - 1
    <3> DEFINE y == (k - at) + 1
    <3>1. y \in 1 .. q /\ at + y - 1 = k /\ q + 1 - y = (at + q) - k /\ (y = 1 <=> k = at)
      BY <1>1
    <3> HIDE DEF y
    <3>2. t[k] = Piece(q + 1 - y, y = 1, long, generateChecksum(short))
      BY <3>1, <1>6
    <3> QED BY <3>1, <3>2, <1>7
  <2>8. RunAt(t, at + q, long)
    <3> DEFINE j == at + q
               a == j - Pieces(long)
    <3>1. a = at /\ a >= 1
      BY <2>6, <1>1 DEF q
    <3>2. \A k \in at .. j - 1 :
              t[k] = Piece(j - k, k = at, long, generateChecksum(t[j].short))
      BY <2>7
    <3> HIDE DEF a, j
    <3>3. \A k \in a .. j - 1 :
              t[k] = Piece(j - k, k = a, long, generateChecksum(t[j].short))
      BY <3>1, <3>2
    <3>4. RunAt(t, j, long)
      BY <3>1, <3>3, Zenon DEF RunAt, a
    <3> QED BY <3>4 DEF j
  <2>9. t[i].ord \in 1 .. Pieces(t[i].long) /\ i + t[i].ord \in 1 .. Len(t)
        /\ Is(t, i + t[i].ord, "short") /\ RunAt(t, i + t[i].ord, t[i].long)
    BY <2>4, <2>5, <2>8, <1>2, <1>7 DEF q
  <2> QED BY <2>9 DEF Owned
<1>11. ASSUME NEW i \in 1 .. n, Is(t, i, "lfn"), i \notin at .. at + q PROVE Owned(t, i)
  <2>1. t[i] = s[i] /\ Is(s, i, "lfn")
    BY <1>5, <1>11 DEF Is
  <2> DEFINE j == i + s[i].ord
             c == j - Pieces(s[i].long)
  <2>2. /\ j \in i + 1 .. n /\ c \in 1 .. i /\ Is(s, j, "short")
        /\ \A k \in c .. j - 1 : Is(s, k, "lfn")
    BY <2>1, PieceRun DEF n
  <2>3. \A k \in c .. j : t[k] = s[k]
    <3> HIDE DEF c, j
    <3> TAKE k \in c .. j
    <3>1. k \in 1 .. n
      BY <2>2, <1>1
    <3>2. s[k].is \notin {"end", "deleted"}
      <4>1. k = j \/ k \in c .. j - 1
        BY <2>2, <1>1
      <4> QED BY <4>1, <2>2 DEF Is
    <3> QED BY <3>1, <3>2, <1>3, <1>5
  <2> QED BY <2>1, <2>3, <1>1, <1>2, OwnedKept DEF n
<1>12. \A i \in 1 .. Len(t) : Is(t, i, "lfn") => Owned(t, i)
  BY <1>2, <1>10, <1>11
<1> QED BY <1>2, <1>9, <1>12 DEF Sound, t

-------------------------------------------------------------------------------
\* What findFreeSpaceForLFN comes back with.
SpaceFound(s, fix, n, space) ==
    /\ Sound(space.slots) /\ Longer(s, space.slots) /\ (fix => space.slots = s)
    /\ space.at # 0 => Room(space.slots, space.at, n)

\* A directory is as long as itself.
LEMMA LongerSelf == ASSUME NEW s, Shaped(s) PROVE Longer(s, s)
  BY DEF Longer, Shaped

\* findFreeSpaceForLFN finds free slots in a row, or makes them.
LEMMA FreeSpace ==
    ASSUME NEW s, Sound(s), NEW fix \in BOOLEAN, NEW n \in Nat \ {0}
    PROVE  SpaceFound(s, fix, n, findFreeSpaceForLFN(s, fix, n))
<1> DEFINE l == Len(s)
           ends == Where(s, "end")
           end == First(ends, l + 1)
           runs == {i \in 1 .. end - n : \A j \in i .. i + n - 1 : Is(s, j, "deleted")}
           T == {i \in 1 .. end : \A j \in i .. end - 1 : Is(s, j, "deleted")}
           at == First(runs, Min(T))
           needed == IF runs = {} THEN at + n ELSE end
           missing == IF needed > l THEN (needed - l + ClusterSlots - 1) \div ClusterSlots ELSE 0
           N == missing * ClusterSlots
           t == s \o Empty(N)
<1>1. Shaped(s) /\ EndsLast(s) /\ l \in Nat /\ DOMAIN s = 1 .. l /\ ClusterSlots \in Nat \ {0}
  BY SlotsDomain, DirectoryAssumption DEF Sound, Shaped
<1>2. /\ end \in 1 .. l + 1
      /\ \A i \in 1 .. end - 1 : ~Is(s, i, "end")
      /\ \A i \in end .. l : Is(s, i, "end")
  <2>1. ends \in SUBSET Nat /\ \A i : i \in ends <=> i \in 1 .. l /\ Is(s, i, "end")
    BY <1>1 DEF Where
  <2>2. CASE ends = {}
    <3>1. end = l + 1
      BY <2>2 DEF First
    <3> HIDE DEF end, ends, l
    <3> QED BY <3>1, <2>1, <2>2, <1>1
  <2>3. CASE ends # {}
    <3> DEFINE m == Min(ends)
    <3>1. end = m
      BY <2>3 DEF First
    <3>2. m \in ends /\ \A i \in ends : m <= i
      <4> HIDE DEF ends
      <4> QED BY <2>1, <2>3, LeastOne
    <3> HIDE DEF end, ends, m
    <3>3. m \in 1 .. l /\ Is(s, m, "end")
      BY <3>2, <2>1
    <3>4. \A i \in 1 .. m - 1 : ~Is(s, i, "end")
      BY <2>1, <3>2, <3>3, <1>1
    <3>5. ASSUME NEW i \in m .. l PROVE Is(s, i, "end")
      <4>1. i \in 1 .. l /\ (i = m \/ i > m)
        BY <3>3, <1>1
      <4> QED BY <4>1, <3>3, <1>1 DEF EndsLast, l
    <3> QED BY <3>1, <3>3, <3>4, <3>5, <1>1
  <2> QED BY <2>2, <2>3
<1> HIDE DEF ends, end
<1>3. runs \in SUBSET Nat /\ T \in SUBSET Nat /\ end \in T
  BY <1>1, <1>2
<1>4. Min(T) \in T
  <2> HIDE DEF T
  <2> QED BY <1>3, LeastOne
<1>5. runs # {} => Min(runs) \in runs
  <2> HIDE DEF runs
  <2> QED BY <1>3, LeastOne
<1>6. /\ runs # {} => at \in runs
      /\ runs = {} => at \in T
  <2> HIDE DEF runs, T
  <2> QED BY <1>4, <1>5 DEF First
<1>7. /\ at \in 1 .. end /\ (runs # {} => at + n <= end)
      /\ runs # {} => \A j \in at .. at + n - 1 : Is(s, j, "deleted")
      /\ runs = {} => \A j \in at .. end - 1 : Is(s, j, "deleted")
  <2>1. CASE runs # {}
    <3>1. at \in 1 .. end - n /\ \A j \in at .. at + n - 1 : Is(s, j, "deleted")
      <4> HIDE DEF at
      <4> QED BY <2>1, <1>6
    <3> HIDE DEF at, runs
    <3>2. at \in 1 .. end /\ at + n <= end
      BY <3>1, <1>1, <1>2
    <3> QED BY <3>1, <3>2, <2>1
  <2>2. CASE runs = {}
    <3>1. at \in 1 .. end /\ \A j \in at .. end - 1 : Is(s, j, "deleted")
      <4> HIDE DEF at
      <4> QED BY <2>2, <1>6
    <3> HIDE DEF at, runs
    <3> QED BY <3>1, <2>2
  <2> QED BY <2>1, <2>2
<1> HIDE DEF at, runs, T
<1>8. needed \in Nat /\ at \in Nat \ {0}
  BY <1>1, <1>2, <1>7
<1>9. N \in Nat /\ needed <= l + N
  <2>1. CASE needed > l
    <3> DEFINE a == needed - l
               q == (a + ClusterSlots - 1) \div ClusterSlots
    <3>1. a \in Nat
      <4> HIDE DEF needed
      <4> QED BY <2>1, <1>1, <1>8
    <3> HIDE DEF a
    <3>2. q * ClusterSlots \in Nat /\ q * ClusterSlots >= a
      BY <3>1, <1>1, RoundUp
    <3>3. N = q * ClusterSlots
      <4> HIDE DEF needed, l
      <4> QED BY <2>1 DEF a
    <3> HIDE DEF q, N, needed
    <3> QED BY <3>2, <3>3, <1>1, <1>8 DEF a
  <2>2. CASE ~(needed > l)
    <3>1. missing = 0
      <4> HIDE DEF needed, l
      <4> QED BY <2>2
    <3>2. N = 0
      <4> HIDE DEF missing
      <4> QED BY <3>1, <1>1
    <3> HIDE DEF needed, N
    <3> QED BY <2>2, <3>2, <1>1, <1>8
  <2> QED BY <2>1, <2>2
<1>10. findFreeSpaceForLFN(s, fix, n) =
          IF fix THEN [at |-> IF at + n - 1 > l THEN 0 ELSE at, slots |-> s]
          ELSE [at |-> at, slots |-> t]
  BY Zenon DEF findFreeSpaceForLFN, at, runs, T, end, ends
<1> HIDE DEF N
<1>11. Longer(s, t) /\ Len(t) = l + N /\ Sound(t)
  BY <1>9, LongerSound
<1>12. ASSUME NEW u, Longer(s, u), at + n - 1 <= Len(u) PROVE Room(u, at, n)
  <2>0. Len(u) \in Nat /\ l <= Len(u) /\ (\A i \in 1 .. l : u[i] = s[i])
        /\ \A i \in l + 1 .. Len(u) : u[i] = End
    BY <1>12 DEF Longer, l
  <2> DEFINE m == Len(u)
  <2> HIDE DEF m, l
  <2>1. ASSUME NEW i \in at .. at + n - 1 PROVE u[i].is \in {"end", "deleted"}
    <3>1. i \in 1 .. m
      BY <1>8, <1>12 DEF m
    <3>2. CASE i > l
      <4>1. i \in l + 1 .. m
        BY <3>1, <3>2, <1>1
      <4> QED BY <4>1, <2>0, Kinds DEF m
    <3>3. CASE i <= l /\ runs # {}
      BY <3>1, <3>3, <2>0, <1>7, <1>8 DEF Is, m
    <3>4. CASE i <= l /\ runs = {} /\ i < end
      <4>1. i \in at .. end - 1 /\ i \in 1 .. l
        BY <3>1, <3>4, <1>2, <1>8, <1>1
      <4> QED BY <4>1, <3>4, <2>0, <1>7 DEF Is
    <3>5. CASE i <= l /\ i >= end
      <4>1. i \in end .. l /\ i \in 1 .. l
        BY <3>1, <3>5, <1>2, <1>1
      <4> QED BY <4>1, <2>0, <1>2 DEF Is
    <3> QED BY <3>1, <3>2, <3>3, <3>4, <3>5, <1>1, <1>2
  <2>2. ASSUME NEW i \in 1 .. at - 1 PROVE ~Is(u, i, "end")
    <3>1. i \in 1 .. end - 1 /\ i \in 1 .. l
      BY <1>1, <1>2, <1>7, <1>8
    <3> QED BY <3>1, <1>2, <2>0 DEF Is
  <2> QED BY <2>1, <2>2, <1>8, <1>12 DEF Room
<1>13. CASE fix
  <2> DEFINE space == [at |-> IF at + n - 1 > l THEN 0 ELSE at, slots |-> s]
  <2>1. findFreeSpaceForLFN(s, fix, n) = space
    BY <1>10, <1>13
  <2>2. Longer(s, s)
    BY <1>1, LongerSelf
  <2>3. space.slots = s /\ (space.at # 0 => space.at = at /\ at + n - 1 <= l)
    <3> HIDE DEF l
    <3> QED BY <1>1, <1>8
  <2>4. space.at # 0 => Room(space.slots, space.at, n)
    <3> HIDE DEF space
    <3> QED BY <2>2, <2>3, <1>12 DEF l
  <2> HIDE DEF space
  <2> QED BY <2>1, <2>2, <2>3, <2>4 DEF SpaceFound
<1>14. CASE ~fix
  <2> DEFINE space == [at |-> at, slots |-> t]
  <2>1. findFreeSpaceForLFN(s, fix, n) = space
    BY <1>10, <1>14
  <2>2. at + n - 1 <= l + N
    <3>1. CASE runs = {}
      <4>1. needed = at + n
        BY <3>1
      <4> HIDE DEF needed, l
      <4> QED BY <4>1, <1>1, <1>8, <1>9
    <3>2. CASE runs # {}
      <4> HIDE DEF l
      <4> QED BY <3>2, <1>1, <1>2, <1>7, <1>8, <1>9
    <3> QED BY <3>1, <3>2
  <2>3. space.at = at /\ space.slots = t
    <3> HIDE DEF t
    <3> QED OBVIOUS
  <2>4. Room(t, at, n)
    <3> HIDE DEF t, l
    <3> QED BY <2>2, <1>11, <1>12
  <2> HIDE DEF space, t
  <2> QED BY <2>1, <2>3, <2>4, <1>11, <1>14 DEF SpaceFound
<1> QED BY <1>13, <1>14

-------------------------------------------------------------------------------
\* u is s, made longer perhaps, with the entry of a file and the pieces of its long
\* name in free slots.
Placed(s, fix, u, long, short, id, attr) ==
    \E t, at, new :
        /\ Sound(t) /\ Longer(s, t) /\ (fix => t = s)
        /\ NewRun(new, long, short) /\ new[Len(new)] = Entry(short, id, attr)
        /\ Room(t, at, Len(new))
        /\ u = Put(t, at, new)

Lengthened(s, fix, u) == Sound(u) /\ Longer(s, u) /\ (fix => u = s)

\* The alias createLFNs takes.
AliasOf(s, t, long, short) ==
    IF short # NoName THEN short ELSE checkNumericTail(t, TailPass(s, generate83Name(long)))

\* createLFNs places the name, or leaves the directory, but for free slots, as it was.
LEMMA CreateFacts ==
    ASSUME NEW s, Sound(s), NEW fix \in BOOLEAN, NEW long \in Seq(Nat), NEW short,
           NEW id \in Id, NEW attr \in AnyAttribute
    PROVE  LET c == createLFNs(s, fix, long, short, id, attr)
           IN  \/ ~c.ok /\ Lengthened(s, fix, c.slots)
               \/ /\ c.ok
                  /\ \E t : /\ Lengthened(s, fix, t) /\ AliasOf(s, t, long, short) # NoName
                            /\ Placed(s, fix, c.slots, long, AliasOf(s, t, long, short), id, attr)
<1> DEFINE q == Pieces(long)
           space == findFreeSpaceForLFN(s, fix, q + 1)
           t == space.slots
           passed == TailPass(s, generate83Name(long))
           alias == IF short # NoName THEN short
                    ELSE IF passed = NoName THEN NoName
                    ELSE checkNumericTail(t, passed)
           run == [i \in 1 .. q |-> Piece(q + 1 - i, i = 1, long, generateChecksum(alias))]
           new == Append(run, Entry(alias, id, attr))
           c == createLFNs(s, fix, long, short, id, attr)
           V == {run[i] : i \in 1 .. q} \cup {Entry(alias, id, attr)}
<1>1. q \in Nat /\ q + 1 \in Nat \ {0}
  BY PiecesCount
<1>2. SpaceFound(s, fix, q + 1, space)
  <2> HIDE DEF q
  <2> QED BY <1>1, FreeSpace
<1>3. c = IF space.at = 0 \/ (short = NoName /\ passed = NoName)
          THEN [ok |-> FALSE, slots |-> s]
          ELSE IF alias = NoName
          THEN [ok |-> FALSE, slots |-> t]
          ELSE [ok |-> TRUE, slots |-> Put(t, space.at, new)]
  BY Zenon DEF createLFNs
<1>4. Lengthened(s, fix, s) /\ Lengthened(s, fix, t)
  <2>1. Longer(s, s)
    BY LongerSelf DEF Sound
  <2> HIDE DEF space
  <2> QED BY <2>1, <1>2 DEF Lengthened, SpaceFound
<1>5. /\ run \in Seq(V) /\ Len(run) = q /\ Entry(alias, id, attr) \in V
      /\ \A i \in 1 .. q : run[i] = Piece(q + 1 - i, i = 1, long, generateChecksum(alias))
  <2> HIDE DEF q, alias
  <2>1. run \in [1 .. q -> V] /\ Entry(alias, id, attr) \in V
    OBVIOUS
  <2>2. \A i \in 1 .. q : run[i] = Piece(q + 1 - i, i = 1, long, generateChecksum(alias))
    OBVIOUS
  <2> HIDE DEF V, run
  <2> QED BY <2>1, <2>2, <1>1
<1>6. /\ Len(new) = q + 1 /\ new[q + 1] = Entry(alias, id, attr)
      /\ \A i \in 1 .. q : new[i] = Piece(q + 1 - i, i = 1, long, generateChecksum(alias))
  <2> HIDE DEF q, alias, run, V
  <2>1. /\ Len(new) = q + 1 /\ new[q + 1] = Entry(alias, id, attr)
        /\ \A i \in 1 .. q : new[i] = run[i]
    BY <1>1, <1>5
  <2> QED BY <2>1, <1>5
<1> HIDE DEF V, run, new
<1>7. NewRun(new, long, alias) /\ new[Len(new)] = Entry(alias, id, attr)
  <2> HIDE DEF alias
  <2>1. Is(new, Len(new), "short") /\ new[Len(new)].short = alias
    <3>1. new[Len(new)] = Entry(alias, id, attr)
      BY <1>6
    <3> QED BY <3>1, Kinds DEF Is
  <2>2. IsSlot(Entry(alias, id, attr))
    <3> DEFINE x == Entry(alias, id, attr)
    <3>1. x.short = alias /\ x.id = id /\ x.attr = attr
      BY Kinds
    <3>2. x = Entry(x.short, x.id, x.attr)
      BY <3>1
    <3> HIDE DEF x
    <3>3. IsSlot(x)
      BY <3>1, <3>2 DEF IsSlot
    <3> QED BY <3>3 DEF x
  <2>3. ASSUME NEW i \in 1 .. q PROVE IsSlot(new[i])
    <3> DEFINE x == Piece(q + 1 - i, i = 1, long, generateChecksum(alias))
    <3>1. x.ord = q + 1 - i /\ x.first = (i = 1) /\ x.long = long
          /\ x.sum = generateChecksum(alias)
      BY Kinds
    <3>2. x = Piece(x.ord, x.first, x.long, x.sum)
      BY <3>1
    <3>3. new[i] = x
      BY <1>6
    <3> HIDE DEF x
    <3> QED BY <3>1, <3>2, <3>3 DEF IsSlot
  <2>4. \A i \in 1 .. Len(new) : IsSlot(new[i])
    <3> TAKE i \in 1 .. Len(new)
    <3> HIDE DEF q
    <3>1. i \in 1 .. q \/ i = q + 1
      BY <1>1, <1>6
    <3> QED BY <3>1, <2>2, <2>3, <1>6
  <2> QED BY <2>1, <2>4, <1>6 DEF NewRun
<1>8. CASE space.at = 0 \/ (short = NoName /\ passed = NoName)
  <2>1. c = [ok |-> FALSE, slots |-> s]
    BY <1>3, <1>8
  <2> HIDE DEF c
  <2>2. ~c.ok /\ c.slots = s
    BY <2>1
  <2>3. ~c.ok /\ Lengthened(s, fix, c.slots)
    BY <2>2, <1>4
  <2> QED BY <2>3, Zenon DEF c
<1>9. CASE ~(space.at = 0 \/ (short = NoName /\ passed = NoName)) /\ alias = NoName
  <2>1. c = [ok |-> FALSE, slots |-> t]
    BY <1>3, <1>9
  <2> HIDE DEF c, t
  <2>2. ~c.ok /\ c.slots = t
    BY <2>1
  <2>3. ~c.ok /\ Lengthened(s, fix, c.slots)
    BY <2>2, <1>4
  <2> QED BY <2>3, Zenon DEF c
<1>10. CASE ~(space.at = 0 \/ (short = NoName /\ passed = NoName)) /\ alias # NoName
  <2>1. c = [ok |-> TRUE, slots |-> Put(t, space.at, new)]
    BY <1>3, <1>10
  <2>2. alias = AliasOf(s, t, long, short)
    BY <1>10, Zenon DEF AliasOf
  <2>3. Room(t, space.at, Len(new))
    <3> HIDE DEF space, q
    <3> QED BY <1>2, <1>6, <1>10 DEF SpaceFound
  <2> HIDE DEF c, t, alias, space
  <2>4. c.ok /\ c.slots = Put(t, space.at, new)
    BY <2>1
  <2>5. Placed(s, fix, c.slots, long, alias, id, attr)
    BY <2>3, <2>4, <1>4, <1>7, Zenon DEF Placed, Lengthened
  <2>6. c.ok /\ Lengthened(s, fix, t) /\ AliasOf(s, t, long, short) # NoName
        /\ Placed(s, fix, c.slots, long, AliasOf(s, t, long, short), id, attr)
    BY <2>2, <2>4, <2>5, <1>4, <1>10
  <2> QED BY <2>6, Zenon DEF c
<1> QED BY <1>8, <1>9, <1>10

\* A directory stays sound when a name is placed.
LEMMA PlacedSound ==
    ASSUME NEW s, Shaped(s), NEW fix, NEW u, NEW long, NEW short, NEW id, NEW attr,
           Placed(s, fix, u, long, short, id, attr)
    PROVE  Sound(u) /\ Len(u) >= Len(s) /\ (fix => Len(u) = Len(s))
<1>1. PICK t, at, new :
          /\ Sound(t) /\ Longer(s, t) /\ (fix => t = s)
          /\ NewRun(new, long, short) /\ Room(t, at, Len(new))
          /\ u = Put(t, at, new)
  BY Zenon DEF Placed
<1>2. Sound(u)
  BY <1>1, PutSound
<1>3. Len(u) = Len(t)
  <2>1. Len(new) \in Nat /\ (\A i \in 1 .. Len(new) : IsSlot(new[i])) /\ at \in Nat \ {0}
    <3>1. Pieces(long) \in Nat
      BY <1>1, PiecesCount DEF NewRun
    <3> QED BY <3>1, <1>1 DEF NewRun, Room
  <2> QED BY <2>1, <1>1, PutShape DEF Sound
<1> QED BY <1>1, <1>2, <1>3 DEF Longer, Shaped

\* The names callers use are not empty and have characters.
LEMMA Names == ASSUME NEW n \in Name PROVE n.word \in Seq(Nat) /\ n.word # NoName
<1>1. PICK w \in Word : n = fatNextSearch(w)
  BY DEF Name
<1>2. n.word = w
  BY <1>1 DEF fatNextSearch
<1> QED BY <1>2, DirectoryAssumption

\* The 8.3 name in capitals, without a long one, goes into the slot fatPosition found.
LEMMA PutOne ==
    ASSUME NEW s, Sound(s), NEW fix, NEW at, NEW short, NEW id \in Id,
           NEW attr \in AnyAttribute
    PROVE  LET u == Put(s, at, <<Entry(short, id, attr)>>)
           IN  /\ at = 0 => u = s
               /\ Room(s, at, 1) => Placed(s, fix, u, NoName, short, id, attr)
<1> DEFINE x == Entry(short, id, attr)
           new == <<x>>
           u == Put(s, at, new)
<1>1. DOMAIN s = 1 .. Len(s) /\ Len(s) \in Nat /\ s = [i \in 1 .. Len(s) |-> s[i]]
  BY SlotsDomain DEF Sound, Shaped
<1>2. Len(new) = 1 /\ new[1] = x /\ Len(new) \in Nat
  <2> HIDE DEF x
  <2> QED OBVIOUS
<1>3. x.is = "short" /\ x.short = short /\ x.id = id /\ x.attr = attr
  BY Kinds
<1>4. x = Entry(x.short, x.id, x.attr)
  BY <1>3
<1>5. IsSlot(x)
  <2> HIDE DEF x
  <2> QED BY <1>3, <1>4 DEF IsSlot
<1> HIDE DEF new
<1>6. NewRun(new, NoName, short)
  <2>1. NoName \in Seq(Nat)
    BY DEF NoName
  <2>2. \A i \in 1 .. Pieces(NoName) : FALSE
    BY PiecesCount
  <2>3. \A i \in 1 .. Len(new) : IsSlot(new[i])
    <3> HIDE DEF x
    <3> QED BY <1>2, <1>5
  <2>4. Len(new) = Pieces(NoName) + 1
    BY <1>2, PiecesCount
  <2> HIDE DEF x
  <2>5. Is(new, Len(new), "short") /\ new[Len(new)].short = short
    BY <1>2, <1>3 DEF Is
  <2> QED BY <2>1, <2>2, <2>3, <2>4, <2>5 DEF NewRun
<1>7. ASSUME at = 0 PROVE u = s
  <2>1. u = [i \in 1 .. Len(s) |-> IF i \in at .. at + Len(new) - 1 THEN new[i - at + 1] ELSE s[i]]
    BY <1>1, Zenon DEF Put
  <2>2. at + Len(new) - 1 = 0
    BY <1>2, <1>7
  <2>3. \A i \in 1 .. Len(s) : i \notin at .. at + Len(new) - 1
    BY <2>2, <1>1, <1>7
  <2>4. u = [i \in 1 .. Len(s) |-> s[i]]
    <3> HIDE DEF u
    <3> QED BY <2>1, <2>3
  <2> HIDE DEF u
  <2> QED BY <2>4, <1>1, Zenon
<1>8. ASSUME Room(s, at, 1) PROVE Placed(s, fix, u, NoName, short, id, attr)
  <2>1. Longer(s, s)
    BY LongerSelf DEF Sound
  <2>2. Room(s, at, Len(new))
    BY <1>2, <1>8
  <2>3. new[Len(new)] = Entry(short, id, attr)
    BY <1>2
  <2> QED BY <2>1, <2>2, <2>3, <1>6, Zenon DEF Placed
<1> QED BY <1>7, <1>8, Zenon DEF u, new, x

\* What an entry for n leaves.
EntryMade(s, n, id, attr, p, c) ==
    \/ ~c.ok /\ Lengthened(s, fixed, c.slots)
    \/ c.ok /\ ~n.lfn /\ ~n.lower /\ p.at = 0 /\ c.slots = s
    \/ /\ c.ok
       /\ IF n.lfn \/ n.lower
          THEN \E t : LET short == AliasOf(s, t, n.word, IF n.lfn THEN NoName ELSE n.search)
                      IN  /\ Lengthened(s, fixed, t) /\ short # NoName
                          /\ Placed(s, fixed, c.slots, n.word, short, id, attr)
          ELSE Placed(s, fixed, c.slots, NoName, n.search, id, attr)

\* The entry for a name is placed, or there is no space for it.
LEMMA NewEntryFacts ==
    ASSUME NEW s, Sound(s), fixed \in BOOLEAN, NEW n, n.word \in Seq(Nat),
           NEW id \in Id, NEW attr \in AnyAttribute, NEW p,
           n.lfn \/ n.lower \/ p.at = 0 \/ Room(s, p.at, 1)
    PROVE  EntryMade(s, n, id, attr, p, NewEntry(s, p, n, id, attr))
<1> DEFINE c == NewEntry(s, p, n, id, attr)
           short == IF n.lfn THEN NoName ELSE n.search
<1>1. CASE n.lfn \/ n.lower
  <2>1. c = createLFNs(s, fixed, n.word, short, id, attr)
    BY <1>1, Zenon DEF NewEntry
  <2> HIDE DEF c, short
  <2>2. \/ ~c.ok /\ Lengthened(s, fixed, c.slots)
        \/ /\ c.ok
           /\ \E t : /\ Lengthened(s, fixed, t) /\ AliasOf(s, t, n.word, short) # NoName
                     /\ Placed(s, fixed, c.slots, n.word, AliasOf(s, t, n.word, short), id, attr)
    BY <2>1, CreateFacts
  <2> QED BY <2>2, <1>1, Zenon DEF EntryMade, c, short
<1>2. CASE ~(n.lfn \/ n.lower)
  <2> DEFINE u == Put(s, p.at, <<Entry(n.search, id, attr)>>)
  <2>1. c = [ok |-> TRUE, slots |-> u]
    BY <1>2, Zenon DEF NewEntry
  <2>2. /\ p.at = 0 => u = s
        /\ Room(s, p.at, 1) => Placed(s, fixed, u, NoName, n.search, id, attr)
    BY PutOne
  <2> HIDE DEF c, u
  <2>3. c.ok /\ c.slots = u
    BY <2>1
  <2> QED BY <2>2, <2>3, <1>2, Zenon DEF EntryMade, c
<1> QED BY <1>1, <1>2

\* In both cases the directory stays sound.
LEMMA EntryMadeSound ==
    ASSUME NEW s, Sound(s), NEW n, NEW id, NEW attr, NEW p, NEW c,
           EntryMade(s, n, id, attr, p, c)
    PROVE  Sound(c.slots) /\ Len(c.slots) >= Len(s) /\ (fixed => Len(c.slots) = Len(s))
<1>1. Shaped(s) /\ Len(s) \in Nat
  BY DEF Sound, Shaped
<1>2. CASE ~c.ok /\ Lengthened(s, fixed, c.slots)
  BY <1>1, <1>2 DEF Lengthened, Longer
<1>3. CASE c.slots = s
  BY <1>1, <1>3
<1>4. ASSUME NEW long, NEW short, Placed(s, fixed, c.slots, long, short, id, attr)
      PROVE  Sound(c.slots) /\ Len(c.slots) >= Len(s) /\ (fixed => Len(c.slots) = Len(s))
  BY <1>1, <1>4, PlacedSound
<1> QED BY <1>2, <1>3, <1>4, Zenon DEF EntryMade

-------------------------------------------------------------------------------
\* s with another entry in the place of the entry i.
Changed(s, i, short, id, attr) == [s EXCEPT ![i] = Entry(short, id, attr)]

\* An entry may change its attributes, and its short name when it has no pieces.
LEMMA ChangedSound ==
    ASSUME NEW s, Sound(s), NEW i \in 1 .. Len(s), Is(s, i, "short"), NEW short,
           NEW id \in Id, NEW attr \in AnyAttribute, short = s[i].short \/ ~HasLong(s, i)
    PROVE  LET t == Changed(s, i, short, id, attr)
           IN  /\ Sound(t) /\ Len(t) = Len(s)
               /\ \A j \in 1 .. Len(s) :
                     t[j] = IF j = i THEN Entry(short, id, attr) ELSE s[j]
<1> DEFINE t == Changed(s, i, short, id, attr)
           x == Entry(short, id, attr)
           n == Len(s)
<1>1. Shaped(s) /\ n \in Nat /\ DOMAIN s = 1 .. n /\ s = [k \in 1 .. n |-> s[k]]
  BY SlotsDomain DEF Sound, Shaped
<1>2. x.is = "short" /\ x.short = short /\ x.id = id /\ x.attr = attr
  BY Kinds
<1>4. IsSlot(x)
  <2>1. x = Entry(x.short, x.id, x.attr)
    BY <1>2
  <2> HIDE DEF x
  <2> QED BY <2>1, <1>2 DEF IsSlot
<1>5. t = [k \in 1 .. n |-> IF k = i THEN x ELSE s[k]]
  BY <1>1, Zenon DEF Changed
<1> HIDE DEF t, x, n
<1>6. \A j \in 1 .. n : t[j] = IF j = i THEN x ELSE s[j]
  BY <1>5
<1>7. t = [k \in 1 .. n |-> t[k]]
  BY <1>5
<1>8. Len(t) = n
  BY <1>1, <1>7, LenOfFunction
<1>9. Shaped(t)
  <2>1. \A j \in 1 .. n : IsSlot(t[j])
    BY <1>4, <1>6 DEF Sound, Shaped, n
  <2> QED BY <2>1, <1>1, <1>7, <1>8 DEF Shaped
<1>10. EndsLast(t)
  <2> SUFFICES ASSUME NEW j \in 1 .. n, NEW k \in 1 .. n, Is(t, j, "end"), k > j
               PROVE  Is(t, k, "end")
    BY <1>8 DEF EndsLast
  <2>1. Is(s, j, "end")
    BY <1>2, <1>6 DEF Is
  <2>2. Is(s, k, "end")
    BY <2>1 DEF Sound, EndsLast, n
  <2>3. k # i
    BY <2>2 DEF Is
  <2> QED BY <2>2, <2>3, <1>6 DEF Is
<1>11. ASSUME NEW j \in 1 .. n, Is(t, j, "lfn") PROVE Owned(t, j)
  <2>1. j # i /\ t[j] = s[j] /\ Is(s, j, "lfn")
    BY <1>2, <1>6, <1>11 DEF Is
  <2> DEFINE y == j + s[j].ord
             c == y - Pieces(s[j].long)
  <2>2. /\ y \in j + 1 .. n /\ c \in 1 .. j /\ Is(s, y, "short")
        /\ \A k \in c .. y - 1 : Is(s, k, "lfn")
    BY <2>1, PieceRun DEF n
  <2>3. CASE y # i
    <3>1. \A k \in c .. y : t[k] = s[k]
      <4> TAKE k \in c .. y
      <4> HIDE DEF c, y
      <4>1. k \in 1 .. n /\ (k = y \/ k \in c .. y - 1)
        BY <2>2, <1>1
      <4>2. k # i
        BY <4>1, <2>2, <2>3 DEF Is
      <4> QED BY <4>1, <4>2, <1>6
    <3> QED BY <2>1, <3>1, <1>1, <1>8, OwnedKept DEF n
  <2>4. CASE y = i
    <3>1. short = s[i].short
      BY <2>1, <2>4, NotOwner DEF n
    <3>2. Owned(s, j)
      BY <2>1 DEF Sound, n
    <3>3. /\ s[j].ord \in 1 .. Pieces(s[j].long) /\ y \in 1 .. n
          /\ c >= 1
          /\ \A k \in c .. y - 1 :
                s[k] = Piece(y - k, k = c, s[j].long, generateChecksum(s[y].short))
      BY <3>2, Zenon DEF Owned, RunAt, n
    <3>4. t[y].short = s[y].short /\ Is(t, y, "short")
      BY <1>2, <1>6, <2>4, <3>1 DEF n, Is
    <3>5. \A k \in c .. y - 1 :
             t[k] = Piece(y - k, k = c, t[j].long, generateChecksum(t[y].short))
      <4> TAKE k \in c .. y - 1
      <4>1. Is(s, k, "lfn") /\ k \in 1 .. n
        <5> HIDE DEF c, y
        <5> QED BY <2>2, <1>1
      <4>2. t[k] = s[k]
        BY <4>1, <1>6 DEF Is
      <4>3. s[k] = Piece(y - k, k = c, s[j].long, generateChecksum(s[y].short))
        BY <3>3
      <4> HIDE DEF c, y
      <4> QED BY <4>2, <4>3, <3>4, <2>1
    <3>6. RunAt(t, y, t[j].long)
      <4>1. t[j].long = s[j].long
        BY <2>1
      <4> QED BY <4>1, <3>3, <3>5, Zenon DEF RunAt
    <3>7. t[j].ord \in 1 .. Pieces(t[j].long) /\ t[j].ord = s[j].ord /\ y \in 1 .. Len(t)
      BY <2>1, <3>3, <1>8
    <3> QED BY <3>4, <3>6, <3>7, Zenon DEF Owned
  <2> QED BY <2>3, <2>4
<1>12. Sound(t)
  BY <1>8, <1>9, <1>10, <1>11 DEF Sound
<1> QED BY <1>6, <1>8, <1>12 DEF t, x, n

WithAttributes(s, i, attr) == [s EXCEPT ![i].attr = attr]
Renamed(s, i, short, attr) == [s EXCEPT ![i].short = short, ![i].attr = attr]

\* What the updates of the code come to.
LEMMA Updates ==
    ASSUME NEW s, Shaped(s), NEW i \in 1 .. Len(s), Is(s, i, "short"), NEW short, NEW attr
    PROVE  /\ WithAttributes(s, i, attr) = Changed(s, i, s[i].short, s[i].id, attr)
           /\ Renamed(s, i, short, attr) = Changed(s, i, short, s[i].id, attr)
<1>1. s[i] = Entry(s[i].short, s[i].id, s[i].attr)
  BY SlotKinds DEF Shaped, Is
<1> DEFINE x == s[i]
<1>2. \A n, id, a : /\ [Entry(n, id, a) EXCEPT !.attr = attr] = Entry(n, id, attr)
                    /\ [Entry(n, id, a) EXCEPT !.short = short] = Entry(short, id, a)
  BY DEF Entry
<1>3. [x EXCEPT !.attr = attr] = Entry(x.short, x.id, attr)
  <2>1. x = Entry(x.short, x.id, x.attr)
    BY <1>1
  <2> HIDE DEF x
  <2>2. PICK n, id, a : x = Entry(n, id, a)
    BY <2>1
  <2> QED BY <2>2, <1>2, Kinds
<1>4. [[x EXCEPT !.short = short] EXCEPT !.attr = attr] = Entry(short, x.id, attr)
  <2>1. x = Entry(x.short, x.id, x.attr)
    BY <1>1
  <2> HIDE DEF x
  <2>2. PICK n, id, a : x = Entry(n, id, a)
    BY <2>1
  <2>3. [x EXCEPT !.short = short] = Entry(short, id, a) /\ x.id = id
    BY <2>2, <1>2, Kinds
  <2>4. [Entry(short, id, a) EXCEPT !.attr = attr] = Entry(short, id, attr)
    BY <1>2
  <2> QED BY <2>3, <2>4, Zenon
<1>5. DOMAIN s = 1 .. Len(s) /\ s = [k \in 1 .. Len(s) |-> s[k]]
  BY SlotsDomain DEF Shaped
<1>6. [s EXCEPT ![i].attr = attr] = Changed(s, i, s[i].short, s[i].id, attr)
  BY <1>3 DEF Changed
<1>7. [s EXCEPT ![i].short = short, ![i].attr = attr] = Changed(s, i, short, s[i].id, attr)
  <2> DEFINE t == [s EXCEPT ![i].short = short]
  <2>1. t[i] = [x EXCEPT !.short = short] /\ DOMAIN t = DOMAIN s
        /\ \A k \in DOMAIN s : k # i => t[k] = s[k]
    BY <1>5
  <2>2. [t EXCEPT ![i].attr = attr] = Changed(s, i, short, s[i].id, attr)
    <3> DEFINE y == Entry(short, x.id, attr)
    <3>1. [t[i] EXCEPT !.attr = attr] = y
      BY <2>1, <1>4
    <3> HIDE DEF t, y
    <3>2. [t EXCEPT ![i].attr = attr] = [k \in DOMAIN t |-> IF k = i THEN y ELSE t[k]]
      BY <3>1
    <3>3. [s EXCEPT ![i] = y] = [k \in DOMAIN s |-> IF k = i THEN y ELSE s[k]]
      OBVIOUS
    <3>4. [k \in DOMAIN t |-> IF k = i THEN y ELSE t[k]]
             = [k \in DOMAIN s |-> IF k = i THEN y ELSE s[k]]
      BY <2>1
    <3> QED BY <3>2, <3>3, <3>4 DEF Changed, y
  <2> QED BY <2>2
<1> QED BY <1>6, <1>7, Zenon DEF WithAttributes, Renamed

-------------------------------------------------------------------------------
\* The long name read in front of a short entry is that of the piece just before it.
LEMMA LongAtIs ==
    ASSUME NEW s, Sound(s), NEW j \in 1 .. Len(s), Is(s, j, "short")
    PROVE  LongAt(s, j) = IF j > 1 /\ Is(s, j - 1, "lfn") THEN s[j - 1].long ELSE NoName
<1> DEFINE run(x) == /\ Is(s, x, "lfn") /\ s[x].first
                     /\ \A k \in x .. j - 1 :
                           s[k] = Piece(j - k, k = x, s[x].long, generateChecksum(s[j].short))
<1>0. Len(s) \in Nat /\ LongAt(s, j) = IF \E x \in 1 .. j - 1 : run(x)
                                        THEN s[CHOOSE x \in 1 .. j - 1 : run(x)].long ELSE NoName
  BY Zenon DEF LongAt, Sound, Shaped
<1>1. CASE j > 1 /\ Is(s, j - 1, "lfn")
  <2> DEFINE i == j - 1
             e == i + s[i].ord
             a == e - Pieces(s[i].long)
  <2>1. i \in 1 .. Len(s) /\ Is(s, i, "lfn") /\ j = i + 1
    BY <1>1, <1>0
  <2>2. /\ e \in i + 1 .. Len(s) /\ a \in 1 .. i /\ Is(s, e, "short")
        /\ \A k \in a .. e - 1 : Is(s, k, "lfn") /\ s[k].first = (k = a)
        /\ \A k \in a .. e - 1 : s[k].long = s[i].long
    <3> HIDE DEF i
    <3> QED BY <2>1, PieceRun
  <2>3. Owned(s, i)
    BY <2>1 DEF Sound
  <2>4. a >= 1 /\ \A k \in a .. e - 1 :
            s[k] = Piece(e - k, k = a, s[i].long, generateChecksum(s[e].short))
    BY <2>3, Zenon DEF Owned, RunAt
  <2> HIDE DEF i, e, a
  <2>5. e = j
    <3> SUFFICES ASSUME e # j PROVE FALSE
      OBVIOUS
    <3>1. j \in a .. e - 1
      BY <2>1, <2>2, <1>0
    <3> QED BY <3>1, <2>2 DEF Is
  <2>6. a \in 1 .. j - 1 /\ a \in a .. j - 1 /\ i \in a .. j - 1
    BY <2>1, <2>2, <2>5
  <2>7. s[a].long = s[i].long /\ Is(s, a, "lfn")
    BY <2>2, <2>5, <2>6
  <2>71. s[a].first
    <3>1. s[a].first = (a = a)
      BY <2>2, <2>5, <2>6
    <3> QED BY <3>1
  <2>8. run(a)
    <3>1. \A k \in a .. j - 1 :
             s[k] = Piece(j - k, k = a, s[a].long, generateChecksum(s[j].short))
      BY <2>4, <2>5, <2>7
    <3> QED BY <3>1, <2>7, <2>71
  <2>9. ASSUME NEW x \in 1 .. j - 1, run(x) PROVE x = a
    <3>1. CASE x > a
      <4>1. x \in a .. e - 1
        BY <3>1, <2>5, <2>6
      <4>2. s[x].first = (x = a)
        BY <4>1, <2>2
      <4> QED BY <4>2, <3>1, <2>6, <2>9
    <3>2. CASE x < a
      <4>1. a \in x .. j - 1
        BY <3>2, <2>6
      <4>2. s[a] = Piece(j - a, a = x, s[x].long, generateChecksum(s[j].short))
        BY <4>1, <2>9
      <4>3. s[a].first = (a = x)
        BY <4>2, Kinds
      <4> QED BY <4>3, <3>2, <2>71
    <3> QED BY <3>1, <3>2, <2>6
  <2> HIDE DEF run
  <2>10. (CHOOSE x \in 1 .. j - 1 : run(x)) = a
    BY <2>6, <2>8, <2>9, Zenon
  <2> QED BY <2>6, <2>7, <2>8, <2>10, <1>0, <1>1 DEF i
<1>2. CASE ~(j > 1 /\ Is(s, j - 1, "lfn"))
  <2>1. ASSUME NEW x \in 1 .. j - 1, run(x) PROVE FALSE
    <3>1. j - 1 \in x .. j - 1 /\ j > 1
      BY <1>0
    <3>2. s[j - 1] = Piece(j - (j - 1), j - 1 = x, s[x].long, generateChecksum(s[j].short))
      BY <3>1, <2>1
    <3>3. Is(s, j - 1, "lfn")
      <4> DEFINE y == s[j - 1]
      <4>1. \E o, f, l, c : y = Piece(o, f, l, c)
        BY <3>2
      <4> HIDE DEF y
      <4>2. y.is = "lfn"
        BY <4>1, Kinds
      <4> QED BY <4>2 DEF Is, y
    <3> QED BY <3>1, <3>3, <1>2
  <2> HIDE DEF run
  <2> QED BY <2>1, <1>0, <1>2
<1> QED BY <1>1, <1>2

\* Every piece is part of the name of its entry.
LEMMA PieceNamed ==
    ASSUME NEW s, Sound(s), NEW i \in 1 .. Len(s), Is(s, i, "lfn")
    PROVE  /\ i + s[i].ord \in 1 .. Len(s) /\ Is(s, i + s[i].ord, "short")
           /\ LongAt(s, i + s[i].ord) = s[i].long
<1> DEFINE j == i + s[i].ord
           a == j - Pieces(s[i].long)
<1>1. /\ j \in i + 1 .. Len(s) /\ a \in 1 .. i /\ Is(s, j, "short")
      /\ \A k \in a .. j - 1 : Is(s, k, "lfn")
      /\ \A k \in a .. j - 1 : s[k].long = s[i].long
  BY PieceRun
<1>2. Len(s) \in Nat
  BY DEF Sound, Shaped
<1> HIDE DEF j, a
<1>3. j \in 1 .. Len(s) /\ j > 1 /\ j - 1 \in a .. j - 1
  BY <1>1, <1>2
<1>4. Is(s, j - 1, "lfn") /\ s[j - 1].long = s[i].long
  BY <1>1, <1>3
<1>5. LongAt(s, j) = s[i].long
  BY <1>1, <1>3, <1>4, LongAtIs
<1> QED BY <1>1, <1>3, <1>5 DEF j

Result == Id \cup {D!NoFile, D!Exists, D!NoPath, D!NoSpace, D!Denied, Stale} \cup AnyAttribute

\* The inductive invariant.
PiecesInv ==
    /\ fixed \in Fixed
    /\ Sound(slots)
    /\ Len(slots) \in (IF fixed THEN {RootSlots} ELSE 1 .. MaxSlots)
    /\ found \in Result

\* The invariant says what NoOrphans does.
LEMMA PiecesKept == PiecesInv => NoOrphans
<1> SUFFICES ASSUME PiecesInv PROVE NoOrphans
  OBVIOUS
<1>1. Sound(slots) /\ Shaped(slots) /\ DOMAIN slots = 1 .. Len(slots)
  BY SlotsDomain DEF PiecesInv, Sound
<1>2. TypeOK
  <2>1. \A i \in DOMAIN slots : slots[i].is \in {"end", "deleted", "lfn", "short"}
    BY <1>1, SlotKinds DEF Shaped
  <2>2. \A i \in Where(slots, "end") : \A j \in DOMAIN slots : j > i => Is(slots, j, "end")
    BY <1>1 DEF Where, Sound, EndsLast
  <2> QED BY <2>1, <2>2, Zenon DEF TypeOK, PiecesInv, Result, AnyAttribute
<1>3. ASSUME NEW i \in Where(slots, "lfn")
      PROVE  \E j \in Where(slots, "short") :
                j = i + slots[i].ord /\ LongAt(slots, j) = slots[i].long
  <2>1. i \in 1 .. Len(slots) /\ Is(slots, i, "lfn")
    BY <1>1 DEF Where
  <2>2. /\ i + slots[i].ord \in Where(slots, "short")
        /\ LongAt(slots, i + slots[i].ord) = slots[i].long
    BY <1>1, <2>1, PieceNamed DEF Where
  <2> QED BY <2>2
<1> QED BY <1>2, <1>3 DEF NoOrphans

-------------------------------------------------------------------------------
\* Whether a slot matches depends on nothing behind it.
LEMMA MatchesSame ==
    ASSUME NEW s, NEW t, NEW i \in Nat, \A k \in 1 .. i : t[k] = s[k], i >= 1, NEW n
    PROVE  Matches(t, i, n) <=> Matches(s, i, n)
<1>1. {j \in 1 .. i - 1 : Is(t, j, "lfn")} = {j \in 1 .. i - 1 : Is(s, j, "lfn")}
  BY DEF Is
<1>2. LastPiece(t, i) = LastPiece(s, i)
  BY <1>1, Zenon DEF LastPiece
<1> DEFINE k == LastPiece(s, i)
<1>3. k = 0 \/ k \in 1 .. i - 1
  <2> DEFINE S == {0} \cup {j \in 1 .. i - 1 : Is(s, j, "lfn")}
  <2>1. S \in SUBSET (0 .. i) /\ S # {}
    OBVIOUS
  <2>2. Max(S) \in S
    <3> HIDE DEF S
    <3> QED BY <2>1, GreatestOne
  <2>3. k = Max(S)
    BY DEF LastPiece
  <2> HIDE DEF k
  <2> QED BY <2>2, <2>3
<1> HIDE DEF k
<1>4. t[i] = s[i] /\ (k # 0 => t[k] = s[k])
  BY <1>3
<1>5. HasLong(t, i) <=> HasLong(s, i)
  BY <1>2, <1>4 DEF HasLong, k
<1>6. HasLong(s, i) => k # 0
  BY DEF HasLong, k
<1>7. \A j \in k + 1 .. i - 1 : Is(t, j, "short") <=> Is(s, j, "short")
  BY <1>3 DEF Is
<1> QED BY <1>2, <1>4, <1>5, <1>6, <1>7 DEF Matches, Is, k

\* The position for a name that is not there, in a directory with free slots behind.
LEMMA PositionLonger ==
    ASSUME NEW s, Sound(s), NEW t, Sound(t), Longer(s, t), NEW fix \in BOOLEAN, NEW n,
           \A i \in 1 .. Len(s) : ~Matches(s, i, n)
    PROVE  /\ \A i \in 1 .. Len(t) : ~Matches(t, i, n)
           /\ MissingAt(t, fix, fatPosition(t, fix, n))
<1>1. Len(s) \in Nat /\ Shaped(t) /\ EndsLast(t)
  BY DEF Sound, Shaped
<1>2. ASSUME NEW i \in 1 .. Len(t) PROVE ~Matches(t, i, n)
  <2>1. CASE i <= Len(s)
    <3>1. i \in 1 .. Len(s) /\ i \in Nat /\ i >= 1 /\ \A k \in 1 .. i : t[k] = s[k]
      BY <2>1, <1>1 DEF Longer
    <3> QED BY <3>1, MatchesSame
  <2>2. CASE i > Len(s)
    <3>1. t[i] = End
      BY <2>2, <1>1 DEF Longer
    <3> QED BY <3>1, Kinds DEF Matches, Is
  <2> QED BY <2>1, <2>2, <1>1
<1>3. ~FoundAt(t, n, fatPosition(t, fix, n))
  BY <1>2 DEF FoundAt
<1> QED BY <1>1, <1>2, <1>3, PositionFacts

\* A name that is added was not there, and is placed if there is space.
Added(n, id, attr) ==
    \E ext, p, c :
        /\ Lengthened(slots, fixed, ext) /\ Room(ext, p.at, 1)
        /\ EntryMade(ext, n, id, attr, p, c)
        /\ Leaves(c.slots, IF c.ok THEN id ELSE D!NoSpace)
        /\ c.ok => id \in FreshIds

\* AddName adds.
LEMMA AddNameFacts ==
    ASSUME PiecesInv, NEW n \in Name, NEW attr \in AnyAttribute, AddName(n, attr)
    PROVE  /\ \A i \in 1 .. Len(slots) : ~Matches(slots, i, n)
           /\ \E id \in Id : Added(n, id, attr)
<1> DEFINE p == Position(n)
           s == IF p.result = "endcluster" THEN slots \o Empty(ClusterSlots) ELSE slots
           q == fatPosition(s, fixed, n)
           made(id) == NewEntry(s, q, n, id, attr)
<1>1. Sound(slots) /\ Shaped(slots) /\ EndsLast(slots) /\ fixed \in BOOLEAN
  BY DirectoryAssumption DEF PiecesInv, Sound
<1>2. p.result # "found"
  BY Zenon DEF AddName
<1>3. \/ \E id \in FreshIds : made(id).ok /\ Leaves(made(id).slots, id)
      \/ \E id \in Id : ~made(id).ok /\ Leaves(made(id).slots, D!NoSpace)
  BY Zenon DEF AddName
<1>4. MissingAt(slots, fixed, p) /\ \A i \in 1 .. Len(slots) : ~Matches(slots, i, n)
  <2>1. ~FoundAt(slots, n, p)
    BY <1>2, Zenon DEF FoundAt
  <2> QED BY <1>1, <2>1, PositionFacts DEF Position
<1> HIDE DEF p
<1>5. Lengthened(slots, fixed, s)
  <2>1. CASE p.result = "endcluster"
    <3>1. ~fixed
      BY <2>1, <1>4 DEF MissingAt
    <3>2. Longer(slots, slots \o Empty(ClusterSlots)) /\ Sound(slots \o Empty(ClusterSlots))
      BY <1>1, LongerSound, DirectoryAssumption
    <3> QED BY <2>1, <3>1, <3>2 DEF Lengthened
  <2>2. CASE p.result # "endcluster"
    BY <2>2, <1>1, LongerSelf DEF Lengthened
  <2> QED BY <2>1, <2>2
<1>6. Room(s, q.at, 1)
  <2>1. CASE p.result = "endcluster"
    <3> DEFINE t == slots \o Empty(ClusterSlots)
    <3>1. s = t /\ Sound(t) /\ Longer(slots, t) /\ Len(t) = Len(slots) + ClusterSlots
      BY <2>1, <1>1, LongerSound, DirectoryAssumption
    <3>2. q = fatPosition(t, fixed, n)
      BY <3>1
    <3> HIDE DEF t, s, q
    <3>3. MissingAt(t, fixed, q)
      BY <3>1, <3>2, <1>1, <1>4, PositionLonger
    <3>4. Len(slots) + 1 \in 1 .. Len(t) /\ Is(t, Len(slots) + 1, "end") /\ Len(t) \in Nat
      <4>1. Len(slots) \in Nat /\ ClusterSlots \in Nat \ {0} /\ Len(t) \in Nat
        BY <1>1, DirectoryAssumption, <3>1 DEF Shaped, Longer
      <4>2. Len(slots) + 1 \in Len(slots) + 1 .. Len(t)
        BY <4>1, <3>1
      <4>3. t[Len(slots) + 1] = End
        BY <4>2, <3>1 DEF Longer
      <4> QED BY <4>1, <4>2, <4>3, Kinds DEF Is
    <3>5. q.result = "onempty"
      <4>1. q.result # "found" \/ q.at # 0
        BY <3>3, <3>4 DEF MissingAt
      <4>2. q.result # "endcluster"
        BY <3>3, <3>4 DEF MissingAt, Is
      <4> QED BY <3>3, <3>4, <4>2 DEF MissingAt
    <3>6. q.at \in 1 .. Len(t) /\ t[q.at].is \in {"end", "deleted"}
          /\ \A i \in 1 .. q.at - 1 : ~Is(t, i, "end")
      BY <3>3, <3>5 DEF MissingAt
    <3>7. \A i \in q.at .. q.at + 1 - 1 : i = q.at
      BY <3>6
    <3> QED BY <3>1, <3>4, <3>6, <3>7 DEF Room
  <2>2. CASE p.result # "endcluster"
    <3>1. q = p /\ s = slots
      BY <2>2 DEF p, Position
    <3> HIDE DEF q, s
    <3>2. q.at \in 1 .. Len(s) /\ s[q.at].is \in {"end", "deleted"}
          /\ \A i \in 1 .. q.at - 1 : ~Is(s, i, "end")
      BY <3>1, <1>2, <1>4, <2>2 DEF MissingAt
    <3>3. Len(s) \in Nat
      BY <3>1, <1>1 DEF Shaped
    <3>4. \A i \in q.at .. q.at + 1 - 1 : i = q.at
      BY <3>2, <3>3
    <3> QED BY <3>2, <3>3, <3>4 DEF Room
  <2> QED BY <2>1, <2>2
<1> HIDE DEF s, q
<1>7. n.word \in Seq(Nat) /\ Sound(s)
  BY <1>5, Names DEF Lengthened
<1>8. \A id \in Id : EntryMade(s, n, id, attr, q, made(id))
  BY <1>1, <1>6, <1>7, NewEntryFacts
<1> HIDE DEF made
<1>9. CASE \E id \in FreshIds : made(id).ok /\ Leaves(made(id).slots, id)
  <2>1. PICK id \in FreshIds : made(id).ok /\ Leaves(made(id).slots, id)
    BY <1>9
  <2>2. id \in Id
    BY DEF FreshIds
  <2>3. Added(n, id, attr)
    BY <2>1, <2>2, <1>5, <1>6, <1>8, Zenon DEF Added
  <2> QED BY <2>2, <2>3, <1>4
<1>10. CASE \E id \in Id : ~made(id).ok /\ Leaves(made(id).slots, D!NoSpace)
  <2>1. PICK id \in Id : ~made(id).ok /\ Leaves(made(id).slots, D!NoSpace)
    BY <1>10
  <2>2. Added(n, id, attr)
    BY <2>1, <1>5, <1>6, <1>8, Zenon DEF Added
  <2> QED BY <2>2, <1>4
<1> QED BY <1>3, <1>9, <1>10

-------------------------------------------------------------------------------
\* What Leaves writes back keeps the invariant.
LEMMA LeavesKept ==
    ASSUME PiecesInv, NEW u, Sound(u), Len(u) >= Len(slots), fixed => Len(u) = Len(slots),
           NEW result \in Result, Leaves(u, result)
    PROVE  PiecesInv'
<1>1. slots' = u /\ found' = result /\ fixed' = fixed /\ Len(u) <= MaxSlots
  BY DEF Leaves
<1>2. Len(slots) \in Nat /\ Len(u) \in Nat /\ MaxSlots \in Nat
  BY DirectoryAssumption DEF PiecesInv, Sound, Shaped
<1>3. Len(u) \in (IF fixed THEN {RootSlots} ELSE 1 .. MaxSlots)
  BY <1>1, <1>2 DEF PiecesInv
<1>4. Sound(slots')
  BY <1>1
<1> QED BY <1>1, <1>3, <1>4 DEF PiecesInv

\* An empty directory is sound.
LEMMA EmptySound == ASSUME NEW n \in Nat PROVE Sound(Empty(n)) /\ Len(Empty(n)) = n
<1> DEFINE s == Empty(n)
<1>1. s = [i \in 1 .. n |-> End]
  BY DEF Empty
<1> HIDE DEF s
<1>2. \A i \in 1 .. n : s[i] = End
  BY <1>1
<1>3. s = [i \in 1 .. n |-> s[i]]
  BY <1>1
<1>4. Len(s) = n
  BY <1>3, LenOfFunction
<1>5. IsSlot(End)
  BY DEF IsSlot
<1>6. \A i \in 1 .. n : Is(s, i, "end") /\ ~Is(s, i, "lfn")
  BY <1>2, Kinds DEF Is
<1>7. Shaped(s)
  BY <1>2, <1>3, <1>4, <1>5 DEF Shaped
<1>8. EndsLast(s)
  BY <1>4, <1>6 DEF EndsLast
<1>9. Sound(s)
  BY <1>4, <1>6, <1>7, <1>8 DEF Sound
<1> QED BY <1>4, <1>9 DEF s

\* A formatted directory has no pieces.
LEMMA InitPieces == Init => PiecesInv
<1> SUFFICES ASSUME Init PROVE PiecesInv
  OBVIOUS
<1>1. fixed \in Fixed /\ found = D!NoFile
      /\ slots = Empty(IF fixed THEN RootSlots ELSE ClusterSlots)
  BY DEF Init
<1>2. RootSlots \in Nat /\ ClusterSlots \in Nat \ {0} /\ MaxSlots \in Nat
      /\ ClusterSlots <= MaxSlots
  BY DirectoryAssumption
<1>3. CASE fixed
  <2>1. Sound(slots) /\ Len(slots) = RootSlots
    BY <1>1, <1>2, <1>3, EmptySound
  <2> QED BY <2>1, <1>1, <1>3 DEF PiecesInv, Result
<1>4. CASE ~fixed
  <2>1. Sound(slots) /\ Len(slots) = ClusterSlots
    BY <1>1, <1>2, <1>4, EmptySound
  <2>2. Len(slots) \in 1 .. MaxSlots
    BY <2>1, <1>2
  <2> QED BY <2>1, <2>2, <1>1, <1>4 DEF PiecesInv, Result
<1> QED BY <1>3, <1>4

\* A call that adds a name keeps the invariant.
LEMMA AddNamePieces ==
    ASSUME PiecesInv, NEW n \in Name, NEW attr \in AnyAttribute, AddName(n, attr)
    PROVE  PiecesInv'
<1>1. PICK id \in Id : Added(n, id, attr)
  BY AddNameFacts
<1>2. PICK ext, p, c :
        /\ Lengthened(slots, fixed, ext)
        /\ EntryMade(ext, n, id, attr, p, c)
        /\ Leaves(c.slots, IF c.ok THEN id ELSE D!NoSpace)
  BY <1>1, Zenon DEF Added
<1>3. Sound(ext) /\ Len(ext) >= Len(slots) /\ (fixed => Len(ext) = Len(slots))
      /\ Len(slots) \in Nat /\ Len(ext) \in Nat
  BY <1>2 DEF Lengthened, Longer, PiecesInv, Sound, Shaped
<1>4. Sound(c.slots) /\ Len(c.slots) >= Len(ext) /\ (fixed => Len(c.slots) = Len(ext))
  BY <1>2, <1>3, EntryMadeSound
<1>5. Len(c.slots) \in Nat
  BY <1>4 DEF Sound, Shaped
<1>6. (IF c.ok THEN id ELSE D!NoSpace) \in Result
  BY DEF Result
<1> QED BY <1>2, <1>3, <1>4, <1>5, <1>6, LeavesKept

\* A search that ends with a slot has found an entry.
LEMMA Found ==
    ASSUME PiecesInv, NEW n, Position(n).result = "found", Position(n).at # 0
    PROVE  LET i == Position(n).at
           IN  /\ FoundAt(slots, n, Position(n))
               /\ i \in 1 .. Len(slots) /\ Is(slots, i, "short")
               /\ slots[i] = Entry(slots[i].short, slots[i].id, slots[i].attr)
               /\ slots[i].id \in Id /\ slots[i].attr \in AnyAttribute
<1> DEFINE p == Position(n)
           i == p.at
<1>1. Sound(slots) /\ Shaped(slots) /\ EndsLast(slots) /\ fixed \in BOOLEAN
  BY DirectoryAssumption DEF PiecesInv, Sound
<1>2. FoundAt(slots, n, p) \/ MissingAt(slots, fixed, p)
  BY <1>1, PositionFacts DEF Position
<1> HIDE DEF p
<1>3. p.result = "found" /\ p.at # 0
  BY DEF p
<1>4. FoundAt(slots, n, p)
  BY <1>2, <1>3 DEF MissingAt
<1>5. i \in 1 .. Len(slots) /\ Is(slots, i, "short")
  BY <1>4 DEF FoundAt, Matches
<1>6. /\ slots[i] = Entry(slots[i].short, slots[i].id, slots[i].attr)
      /\ slots[i].id \in Id /\ slots[i].attr \in AnyAttribute
  BY <1>1, <1>5, SlotKinds DEF Shaped, Is
<1> QED BY <1>4, <1>5, <1>6 DEF p

\* A call that leaves the directory alone.
LEMMA NothingLeft ==
    ASSUME PiecesInv, NEW result \in Result, Leaves(slots, result)
    PROVE  PiecesInv'
<1>1. Sound(slots) /\ Len(slots) \in Nat
  BY DEF PiecesInv, Sound, Shaped
<1> QED BY <1>1, LeavesKept

\* A call that sets the attributes of an entry it found.
LEMMA AttributesPieces ==
    ASSUME PiecesInv, NEW n, Position(n).result = "found", Position(n).at # 0,
           NEW attr \in AnyAttribute,
           Leaves([slots EXCEPT ![Position(n).at].attr = attr], slots[Position(n).at].id)
    PROVE  PiecesInv'
<1> DEFINE i == Position(n).at
           u == [slots EXCEPT ![i].attr = attr]
<1>1. i \in 1 .. Len(slots) /\ Is(slots, i, "short") /\ slots[i].id \in Id
  BY Found
<1>2. Sound(slots) /\ Shaped(slots) /\ Len(slots) \in Nat
  BY DEF PiecesInv, Sound, Shaped
<1>3. Leaves(u, slots[i].id)
  OBVIOUS
<1> HIDE DEF i
<1>4. u = Changed(slots, i, slots[i].short, slots[i].id, attr)
  <2>1. u = WithAttributes(slots, i, attr)
    BY Zenon DEF WithAttributes
  <2> HIDE DEF u
  <2> QED BY <2>1, <1>1, <1>2, Updates
<1> HIDE DEF u
<1>5. Sound(u) /\ Len(u) = Len(slots)
  BY <1>1, <1>2, <1>4, ChangedSound
<1>6. slots[i].id \in Result
  BY <1>1 DEF Result
<1> QED BY <1>2, <1>3, <1>5, <1>6, LeavesKept

\* fatDelete keeps the invariant.
LEMMA DeletePieces == ASSUME PiecesInv, NEW n, DeleteFile(n) PROVE PiecesInv'
<1> DEFINE p == Position(n)
<1>1. CASE p.result # "found" /\ Leaves(slots, D!NoFile)
  BY <1>1, NothingLeft DEF Result
<1>2. CASE /\ p.result = "found" /\ p.at # 0
           /\ Leaves(deleteLFNs(slots, p), slots[p.at].id)
  <2>1. FoundAt(slots, n, p) /\ slots[p.at].id \in Id
    BY <1>2, Found
  <2>2. Sound(slots) /\ Len(slots) \in Nat
    BY DEF PiecesInv, Sound, Shaped
  <2> HIDE DEF p
  <2>3. Sound(deleteLFNs(slots, p)) /\ Len(deleteLFNs(slots, p)) = Len(slots)
    BY <2>1, <2>2, DeleteSound
  <2>4. slots[p.at].id \in Result
    BY <2>1 DEF Result
  <2> QED BY <1>2, <2>2, <2>3, <2>4, LeavesKept
<1> QED BY <1>1, <1>2, Zenon DEF DeleteFile

-------------------------------------------------------------------------------
\* One entry put over another one changes it.
LEMMA PutIsChanged ==
    ASSUME NEW s, Shaped(s), NEW i \in 1 .. Len(s), NEW short, NEW id, NEW attr
    PROVE  Put(s, i, <<Entry(short, id, attr)>>) = Changed(s, i, short, id, attr)
<1> DEFINE x == Entry(short, id, attr)
           new == <<x>>
<1>1. Len(new) = 1 /\ new[1] = x
  <2> HIDE DEF x
  <2> QED OBVIOUS
<1>2. DOMAIN s = 1 .. Len(s) /\ Len(s) \in Nat
  BY SlotsDomain DEF Shaped
<1>3. Put(s, i, new) = [k \in DOMAIN s |-> IF k \in i .. i + Len(new) - 1
                                            THEN new[k - i + 1] ELSE s[k]]
  BY Zenon DEF Put
<1>4. Changed(s, i, short, id, attr) = [k \in DOMAIN s |-> IF k = i THEN x ELSE s[k]]
  BY Zenon DEF Changed
<1> HIDE DEF new, x
<1>5. \A k \in DOMAIN s : /\ k \in i .. i + Len(new) - 1 <=> k = i
                          /\ k = i => k - i + 1 = 1
  BY <1>1, <1>2
<1>6. \A k \in DOMAIN s : (IF k \in i .. i + Len(new) - 1 THEN new[k - i + 1] ELSE s[k])
                             = (IF k = i THEN x ELSE s[k])
  BY <1>1, <1>5
<1> QED BY <1>3, <1>4, <1>6, Zenon DEF new, x

\* The long name of a piece is not empty.
LEMMA LongOfPiece ==
    ASSUME NEW s, Sound(s), NEW i \in 1 .. Len(s), Is(s, i, "short"), HasLong(s, i)
    PROVE  /\ s[LastPiece(s, i)].long # NoName
           /\ s[LastPiece(s, i)].long \in Seq(Nat)
<1> DEFINE k == LastPiece(s, i)
<1>1. k \in 1 .. i - 1 /\ Is(s, k, "lfn") /\ Len(s) \in Nat
  BY FoundRun DEF Sound, Shaped
<1> HIDE DEF k
<1>2. k \in 1 .. Len(s)
  BY <1>1
<1>3. Owned(s, k) /\ IsSlot(s[k])
  BY <1>1, <1>2 DEF Sound, Shaped
<1>4. s[k].long \in Seq(Nat)
  BY <1>1, <1>3, SlotKinds DEF Is
<1>5. s[k].long # NoName
  <2>1. s[k].ord \in 1 .. Pieces(s[k].long)
    BY <1>3 DEF Owned
  <2>2. Pieces(NoName) = 0
    BY PiecesCount
  <2>3. \A o \in 1 .. 0 : FALSE
    OBVIOUS
  <2> QED BY <2>1, <2>2, <2>3, Zenon
<1> QED BY <1>4, <1>5 DEF k

\* An entry that is made again keeps its short name where it has no pieces.
LEMMA RestoredSound ==
    ASSUME NEW s, Sound(s), fixed \in BOOLEAN, NEW old, NEW short, NEW id \in Id,
           NEW attr \in AnyAttribute, NEW long \in Seq(Nat),
           long = NoName => ~old.lfn /\ old.search = short
    PROVE  LET u == Restored(s, old, Entry(short, id, attr), long)
           IN  Sound(u) /\ Len(u) >= Len(s) /\ (fixed => Len(u) = Len(s))
<1> DEFINE x == Entry(short, id, attr)
           u == Restored(s, old, x, long)
<1>1. x.id = id /\ x.attr = attr
  BY Kinds
<1>2. Shaped(s) /\ EndsLast(s) /\ Len(s) \in Nat
  BY DEF Sound, Shaped
<1>3. CASE long = NoName
  <2> DEFINE at == fatPosition(s, fixed, old).at
  <2>1. u = Put(s, at, <<x>>)
    BY <1>3, Zenon DEF Restored
  <2>2. \/ FoundAt(s, old, fatPosition(s, fixed, old))
        \/ MissingAt(s, fixed, fatPosition(s, fixed, old))
    BY <1>2, PositionFacts
  <2>3. CASE FoundAt(s, old, fatPosition(s, fixed, old))
    <3>1. at \in 1 .. Len(s) /\ Matches(s, at, old)
      BY <2>3 DEF FoundAt
    <3> HIDE DEF at, u, x
    <3>2. Is(s, at, "short") /\ s[at].short = short
      BY <1>3, <3>1 DEF Matches
    <3>3. u = Changed(s, at, short, id, attr)
      BY <2>1, <3>1, <1>2, PutIsChanged DEF x
    <3>4. Sound(u) /\ Len(u) = Len(s)
      BY <3>1, <3>2, <3>3, ChangedSound
    <3> QED BY <3>4, <1>2 DEF u, x
  <2>4. CASE MissingAt(s, fixed, fatPosition(s, fixed, old))
    <3>1. at = 0 \/ Room(s, at, 1)
      <4>1. at = 0 \/ /\ at \in 1 .. Len(s) /\ s[at].is \in {"end", "deleted"}
                      /\ \A i \in 1 .. at - 1 : ~Is(s, i, "end")
        BY <2>4 DEF MissingAt
      <4> HIDE DEF at
      <4>2. at \in 1 .. Len(s) => \A i \in at .. at + 1 - 1 : i = at
        BY <1>2
      <4> QED BY <4>1, <4>2, <1>2 DEF Room
    <3> HIDE DEF at
    <3>2. /\ at = 0 => u = s
          /\ Room(s, at, 1) => Placed(s, fixed, u, NoName, short, id, attr)
      BY <2>1, PutOne
    <3> HIDE DEF u
    <3>3. CASE u = s
      BY <3>3, <1>2 DEF u
    <3>4. CASE Placed(s, fixed, u, NoName, short, id, attr)
      <4>1. Sound(u) /\ Len(u) >= Len(s) /\ (fixed => Len(u) = Len(s))
        BY <3>4, <1>2, PlacedSound
      <4> QED BY <4>1 DEF u, x
    <3> QED BY <3>1, <3>2, <3>3, <3>4
  <2> QED BY <2>2, <2>3, <2>4
<1>4. CASE long # NoName
  <2> DEFINE again == IF old.lower THEN old.search ELSE NoName
             c == createLFNs(s, fixed, long, again, id, attr)
  <2>1. u = c.slots
    BY <1>1, <1>4, Zenon DEF Restored
  <2> HIDE DEF again
  <2>2. \/ ~c.ok /\ Lengthened(s, fixed, c.slots)
        \/ \E t : Placed(s, fixed, c.slots, long, AliasOf(s, t, long, again), id, attr)
    BY CreateFacts, Zenon
  <2> HIDE DEF c, u
  <2>3. Sound(u) /\ Len(u) >= Len(s) /\ (fixed => Len(u) = Len(s))
    <3>1. CASE Lengthened(s, fixed, u)
      BY <3>1, <1>2 DEF Lengthened, Longer
    <3>2. ASSUME NEW t, Placed(s, fixed, u, long, AliasOf(s, t, long, again), id, attr)
          PROVE  Sound(u) /\ Len(u) >= Len(s) /\ (fixed => Len(u) = Len(s))
      BY <3>2, <1>2, PlacedSound
    <3> QED BY <2>1, <2>2, <3>1, <3>2
  <2> QED BY <2>3 DEF u, x
<1> QED BY <1>3, <1>4

\* A name that is not in a directory is not there either when entries are deleted, if
\* it is an 8.3 name, and is put in a free slot.
LEMMA MissingKept ==
    ASSUME NEW s, Sound(s), NEW t, Sound(t), Len(t) = Len(s), fixed \in BOOLEAN, NEW n, ~n.lfn,
           \A i \in 1 .. Len(s) : ~Matches(s, i, n),
           \A i \in 1 .. Len(s) : t[i] \in {s[i], Deleted}
    PROVE  LET at == fatPosition(t, fixed, n).at IN at = 0 \/ Room(t, at, 1)
<1> DEFINE p == fatPosition(t, fixed, n)
           at == p.at
<1>1. Shaped(t) /\ EndsLast(t) /\ Len(t) \in Nat
  BY DEF Sound, Shaped
<1>2. ASSUME NEW i \in 1 .. Len(t) PROVE ~Matches(t, i, n)
  <2>1. ~Matches(s, i, n) /\ t[i] \in {s[i], Deleted}
    OBVIOUS
  <2>2. CASE t[i] = s[i]
    BY <2>1, <2>2 DEF Matches, Is
  <2>3. CASE t[i] = Deleted
    BY <2>3, Kinds DEF Matches, Is
  <2> QED BY <2>1, <2>2, <2>3
<1>3. FoundAt(t, n, p) \/ MissingAt(t, fixed, p)
  BY <1>1, PositionFacts
<1> HIDE DEF p
<1>4. ~FoundAt(t, n, p)
  BY <1>2 DEF FoundAt
<1>5. at = 0 \/ /\ at \in 1 .. Len(t) /\ t[at].is \in {"end", "deleted"}
                /\ \A i \in 1 .. at - 1 : ~Is(t, i, "end")
  BY <1>3, <1>4 DEF MissingAt
<1> HIDE DEF at
<1>6. at \in 1 .. Len(t) => \A i \in at .. at + 1 - 1 : i = at
  BY <1>1
<1>7. at = 0 \/ Room(t, at, 1)
  BY <1>1, <1>5, <1>6 DEF Room
<1> QED BY <1>7 DEF at, p

\* fatRename keeps the invariant.
LEMMA RenamePieces ==
    ASSUME PiecesInv, NEW old \in Name, NEW new \in Name, RenameFile(old, new)
    PROVE  PiecesInv'
<1> DEFINE p == Position(old)
           entry == slots[p.at]
           attr == IF entry.attr = D!Subdir THEN entry.attr ELSE D!Archive
           freed == deleteLFNs(slots, p)
           at == fatPosition(freed, fixed, new)
           name == [new EXCEPT !.lower = FALSE]
           made == NewEntry(freed, at, name, entry.id, attr)
           Other == Leaves(slots, D!NoFile)
           InPlace == Leaves([slots EXCEPT ![p.at].short = new.search, ![p.at].attr = attr],
                             entry.id)
           Again == Leaves(Restored(made.slots, old, entry, p.long), D!NoSpace)
<1>1. \/ Other
      \/ /\ p.result = "found" /\ Position(new).result # "found" /\ p.at # 0
         /\ \/ ~new.lfn /\ p.long = NoName /\ InPlace
            \/ made.ok /\ Leaves(made.slots, entry.id)
            \/ ~made.ok /\ Again
  BY Zenon DEF RenameFile
<1>2. CASE Other
  BY <1>2, NothingLeft DEF Result
<1> DEFINE Ready == p.result = "found" /\ Position(new).result # "found" /\ p.at # 0
<1>3. Sound(slots) /\ Shaped(slots) /\ EndsLast(slots) /\ fixed \in BOOLEAN
      /\ Len(slots) \in Nat
  BY DirectoryAssumption DEF PiecesInv, Sound, Shaped
<1>4. ASSUME Ready
      PROVE  /\ FoundAt(slots, old, p) /\ p.at \in 1 .. Len(slots) /\ Is(slots, p.at, "short")
             /\ entry = Entry(entry.short, entry.id, entry.attr)
             /\ entry.id \in Id /\ entry.attr \in AnyAttribute
  BY <1>4, Found
<1>5. D!Archive \in AnyAttribute
  BY DEF AnyAttribute
<1>6. ASSUME Ready, ~new.lfn, p.long = NoName, InPlace PROVE PiecesInv'
  <2> DEFINE u == [slots EXCEPT ![p.at].short = new.search, ![p.at].attr = attr]
  <2>1. u = Renamed(slots, p.at, new.search, attr)
    BY Zenon DEF Renamed
  <2>2. Leaves(u, entry.id)
    BY <1>6
  <2> HIDE DEF u
  <2>3. FoundAt(slots, old, p) /\ p.at \in 1 .. Len(slots) /\ Is(slots, p.at, "short")
        /\ entry.id \in Id /\ attr \in AnyAttribute
    BY <1>4, <1>5, <1>6
  <2>4. ~HasLong(slots, p.at)
    <3>1. HasLong(slots, p.at) => p.long # NoName
      BY <1>3, <2>3, LongOfPiece DEF FoundAt
    <3> QED BY <3>1, <1>6
  <2> HIDE DEF p, attr
  <2>5. u = Changed(slots, p.at, new.search, entry.id, attr)
    BY <2>1, <2>3, <1>3, Updates
  <2>6. Sound(u) /\ Len(u) = Len(slots)
    BY <2>3, <2>4, <2>5, <1>3, ChangedSound
  <2>7. entry.id \in Result
    BY <2>3 DEF Result
  <2> QED BY <2>2, <2>6, <2>7, <1>3, LeavesKept
<1>7. ASSUME Ready
      PROVE  /\ Sound(freed) /\ Len(freed) = Len(slots)
             /\ EntryMade(freed, name, entry.id, attr, at, made)
  <2>1. FoundAt(slots, old, p) /\ entry.id \in Id /\ attr \in AnyAttribute
    BY <1>4, <1>5, <1>7
  <2>2. MissingAt(slots, fixed, Position(new)) /\ \A i \in 1 .. Len(slots) : ~Matches(slots, i, new)
    <3>1. ~FoundAt(slots, new, Position(new))
      BY <1>7, Zenon DEF FoundAt
    <3> QED BY <1>3, <3>1, PositionFacts DEF Position
  <2> HIDE DEF p
  <2>3. Sound(freed) /\ Len(freed) = Len(slots)
    BY <1>3, <2>1, DeleteSound
  <2>4. \A i \in 1 .. Len(slots) : freed[i] \in {slots[i], Deleted}
    BY <1>3, SlotsDomain DEF deleteLFNs
  <2> HIDE DEF freed
  <2>5. ~new.lfn => at.at = 0 \/ Room(freed, at.at, 1)
    BY <2>2, <2>3, <2>4, <1>3, MissingKept
  <2>6. name.word \in Seq(Nat) /\ name.lfn = new.lfn
    <3>1. new.word \in Seq(Nat)
      BY Names
    <3>2. name.word = new.word /\ name.lfn = new.lfn
      <4>1. PICK w \in Word : new = fatNextSearch(w)
        BY DEF Name
      <4>2. PICK a, b, c, d : new = [word |-> a, lfn |-> b, lower |-> c, search |-> d]
        BY <4>1 DEF fatNextSearch
      <4> QED BY <4>2
    <3> QED BY <3>1, <3>2
  <2> HIDE DEF at, attr, name
  <2>7. EntryMade(freed, name, entry.id, attr, at, NewEntry(freed, at, name, entry.id, attr))
    BY <2>1, <2>3, <2>5, <2>6, <1>3, NewEntryFacts
  <2> QED BY <2>3, <2>7
<1>8. ASSUME Ready
      PROVE  /\ Sound(made.slots) /\ Len(made.slots) >= Len(slots)
             /\ fixed => Len(made.slots) = Len(slots)
  <2> HIDE DEF freed, made, name, at, attr, p
  <2> QED BY <1>7, <1>8, EntryMadeSound
<1>9. ASSUME Ready, Leaves(made.slots, entry.id) PROVE PiecesInv'
  <2>1. entry.id \in Result
    BY <1>4, <1>9 DEF Result
  <2> HIDE DEF made, p
  <2> QED BY <2>1, <1>8, <1>9, LeavesKept
<1>10. ASSUME Ready, Again PROVE PiecesInv'
  <2> DEFINE u == Restored(made.slots, old, entry, p.long)
  <2>1. FoundAt(slots, old, p) /\ p.at \in 1 .. Len(slots) /\ Is(slots, p.at, "short")
        /\ entry = Entry(entry.short, entry.id, entry.attr)
        /\ entry.id \in Id /\ entry.attr \in AnyAttribute
    BY <1>4, <1>10
  <2>2. p.long \in Seq(Nat) /\ (p.long = NoName => ~old.lfn /\ old.search = entry.short)
    <3>1. CASE HasLong(slots, p.at)
      BY <3>1, <2>1, <1>3, LongOfPiece DEF FoundAt
    <3>2. CASE ~HasLong(slots, p.at)
      <4>1. p.long = NoName /\ ~old.lfn /\ old.search = entry.short
        BY <3>2, <2>1 DEF FoundAt, Matches
      <4> QED BY <4>1 DEF NoName
    <3> QED BY <3>1, <3>2
  <2>3. /\ Sound(made.slots) /\ Len(made.slots) >= Len(slots)
        /\ fixed => Len(made.slots) = Len(slots)
    BY <1>8, <1>10
  <2>4. Leaves(u, D!NoSpace)
    BY <1>10
  <2> HIDE DEF made
  <2>5. LET v == Restored(made.slots, old, Entry(entry.short, entry.id, entry.attr), p.long)
        IN  /\ Sound(v) /\ Len(v) >= Len(made.slots)
            /\ (fixed => Len(v) = Len(made.slots))
    <3> HIDE DEF p, entry
    <3> QED BY <2>1, <2>2, <2>3, <1>3, RestoredSound
  <2>6. Sound(u) /\ Len(u) >= Len(made.slots) /\ (fixed => Len(u) = Len(made.slots))
    <3>1. u = Restored(made.slots, old, Entry(entry.short, entry.id, entry.attr), p.long)
      <4> HIDE DEF entry
      <4> QED BY <2>1
    <3> QED BY <2>5, <3>1, Zenon
  <2> HIDE DEF u
  <2>7. Len(u) \in Nat /\ Len(made.slots) \in Nat
    BY <2>3, <2>6 DEF Sound, Shaped
  <2>8. D!NoSpace \in Result
    BY DEF Result
  <2> QED BY <2>3, <2>4, <2>6, <2>7, <2>8, <1>3, LeavesKept
<1> QED BY <1>1, <1>2, <1>6, <1>9, <1>10

\* Every step keeps the invariant.
LEMMA NextPieces == PiecesInv /\ [Next]_vars => PiecesInv'
<1> SUFFICES ASSUME PiecesInv, [Next]_vars PROVE PiecesInv'
  OBVIOUS
<1> USE DEF Result
<1>0. D!Archive \in AnyAttribute /\ D!Subdir \in AnyAttribute /\ Attribute \subseteq AnyAttribute
  BY DEF AnyAttribute
<1>1. ASSUME NEW n \in Name, CreatFile(n) PROVE PiecesInv'
  <2> DEFINE p == Position(n)
  <2>1. CASE Leaves(slots, D!Denied)
    BY <2>1, NothingLeft
  <2>2. CASE /\ p.result = "found" /\ p.at # 0
             /\ Leaves([slots EXCEPT ![p.at].attr = D!Archive], slots[p.at].id)
    <3> QED BY <2>2, <1>0, AttributesPieces
  <2>3. CASE AddName(n, D!Archive)
    BY <2>3, <1>0, AddNamePieces
  <2> QED BY <1>1, <2>1, <2>2, <2>3, Zenon DEF CreatFile
<1>2. ASSUME NEW n \in Name, CreatNewFile(n) PROVE PiecesInv'
  <2>1. CASE Leaves(slots, D!Exists)
    BY <2>1, NothingLeft
  <2>2. CASE AddName(n, D!Archive)
    BY <2>2, <1>0, AddNamePieces
  <2> QED BY <1>2, <2>1, <2>2 DEF CreatNewFile
<1>3. ASSUME NEW n \in Name, CreatDir(n) PROVE PiecesInv'
  <2>1. CASE Leaves(slots, D!NoPath)
    BY <2>1, NothingLeft
  <2>2. CASE AddName(n, D!Subdir)
    BY <2>2, <1>0, AddNamePieces
  <2> QED BY <1>3, <2>1, <2>2 DEF CreatDir
<1>4. ASSUME NEW n \in Name, OpenFile(n) PROVE PiecesInv'
  <2> DEFINE p == Position(n)
             result == IF p.result # "found" THEN D!NoFile
                       ELSE IF p.at = 0 THEN Stale ELSE slots[p.at].id
  <2>1. Leaves(slots, result)
    BY <1>4, Zenon DEF OpenFile
  <2>2. result \in Result
    <3>1. ASSUME p.result = "found", p.at # 0 PROVE slots[p.at].id \in Id
      BY <3>1, Found
    <3> QED BY <3>1
  <2> QED BY <2>1, <2>2, NothingLeft
<1>5. ASSUME NEW n \in Name, DeleteFile(n) PROVE PiecesInv'
  BY <1>5, DeletePieces
<1>6. ASSUME NEW n \in Name, GetFileAttributes(n) PROVE PiecesInv'
  <2> DEFINE p == Position(n)
  <2>1. CASE Leaves(slots, D!NoFile)
    BY <2>1, NothingLeft
  <2>2. CASE p.result = "found" /\ p.at # 0 /\ Leaves(slots, slots[p.at].attr)
    <3>1. slots[p.at].attr \in AnyAttribute
      BY <2>2, Found
    <3> QED BY <2>2, <3>1, NothingLeft
  <2> QED BY <1>6, <2>1, <2>2, Zenon DEF GetFileAttributes
<1>7. ASSUME NEW n \in Name, NEW attr \in Attribute, SetFileAttributes(n, attr) PROVE PiecesInv'
  <2> DEFINE p == Position(n)
  <2>1. CASE Leaves(slots, D!NoFile)
    BY <2>1, NothingLeft
  <2>2. CASE /\ p.result = "found" /\ p.at # 0
             /\ Leaves([slots EXCEPT ![p.at].attr = attr], slots[p.at].id)
    BY <2>2, <1>0, AttributesPieces
  <2> QED BY <1>7, <2>1, <2>2, Zenon DEF SetFileAttributes
<1>8. ASSUME NEW old \in Name, NEW n \in Name, RenameFile(old, n) PROVE PiecesInv'
  BY <1>8, RenamePieces
<1>9. CASE UNCHANGED vars
  BY <1>9 DEF PiecesInv, vars
<1> QED BY <1>1, <1>2, <1>3, <1>4, <1>5, <1>6, <1>7, <1>8, <1>9, Zenon DEF Next

\* Every piece of a long name belongs to the name in front of one short entry, of any
\* directory and any names, whatever createLFNs, deleteLFNs and fatRename were called
\* for: none is left behind and none is taken for a part of another name.
THEOREM PiecesAccounted == Spec => []NoOrphans
<1>1. PiecesInv /\ [Next]_vars => PiecesInv'
  BY NextPieces
<1>2. Spec => []PiecesInv
  BY <1>1, InitPieces, PTL DEF Spec
<1> QED BY <1>2, PiecesKept, PTL

-------------------------------------------------------------------------------
\* A set with 0 and with every successor of its members has all naturals.
LEMMA SetInduction ==
    ASSUME NEW S, 0 \in S, \A n \in Nat : n \in S => n + 1 \in S
    PROVE  Nat \subseteq S
<1> SUFFICES ASSUME Nat \ S # {} PROVE FALSE
  OBVIOUS
<1>1. Nat \ S \in SUBSET Nat
  OBVIOUS
<1>2. \E x \in Nat \ S : \A n \in Nat \ S : x <= n
  <2> DEFINE T == Nat \ S
  <2>1. T \in SUBSET Nat /\ T # {}
    BY <1>1
  <2> HIDE DEF T
  <2>2. Min(T) \in T /\ \A n \in T : Min(T) <= n
    BY <2>1, LeastOne
  <2>3. \E x \in T : \A n \in T : x <= n
    BY <2>2
  <2> QED BY <2>3 DEF T
<1>3. PICK x \in Nat \ S : \A n \in Nat \ S : x <= n
  BY <1>2
<1>4. x # 0 /\ x - 1 \in Nat
  BY <1>3
<1> QED BY <1>3, <1>4

\* f goes from base in the steps of step.
Steps(f, n, R, base, step) ==
    /\ f \in [0 .. n -> R]
    /\ f[0] = base
    /\ \A i \in 1 .. n : f[i] = step[<<f[i - 1], i>>]

\* There is such a function.
LEMMA StepsExist ==
    ASSUME NEW n \in Nat, NEW R, NEW base \in R, NEW step \in [R \X (1 .. n) -> R]
    PROVE  \E f : Steps(f, n, R, base, step)
<1> DEFINE S == {k \in Nat : k <= n => \E f : Steps(f, k, R, base, step)}
<1>1. 0 \in S
  <2> DEFINE f == [i \in 0 .. 0 |-> base]
  <2>1. f \in [0 .. 0 -> R] /\ f[0] = base /\ \A i \in 1 .. 0 : FALSE
    OBVIOUS
  <2> HIDE DEF f
  <2>2. Steps(f, 0, R, base, step)
    BY <2>1 DEF Steps
  <2> QED BY <2>2
<1>2. ASSUME NEW k \in Nat, k \in S PROVE k + 1 \in S
  <2> SUFFICES ASSUME k + 1 <= n PROVE \E f : Steps(f, k + 1, R, base, step)
    OBVIOUS
  <2>1. PICK g : Steps(g, k, R, base, step)
    BY <1>2
  <2> DEFINE f == [i \in 0 .. k + 1 |-> IF i = k + 1 THEN step[<<g[k], k + 1>>] ELSE g[i]]
  <2>2. g \in [0 .. k -> R] /\ g[0] = base /\ \A i \in 1 .. k : g[i] = step[<<g[i - 1], i>>]
    BY <2>1 DEF Steps
  <2>3. k + 1 \in 1 .. n
    BY <1>2
  <2>4. step[<<g[k], k + 1>>] \in R
    BY <2>2, <2>3
  <2>5. f \in [0 .. k + 1 -> R]
    BY <2>2, <2>4
  <2>6. f[0] = base /\ f[k + 1] = step[<<g[k], k + 1>>] /\ \A i \in 0 .. k : f[i] = g[i]
    BY <2>2
  <2> HIDE DEF f
  <2>7. \A i \in 1 .. k + 1 : f[i] = step[<<f[i - 1], i>>]
    BY SMTT(60), <2>2, <2>6
  <2> QED BY <2>5, <2>6, <2>7 DEF Steps
<1>3. Nat \subseteq S
  <2> HIDE DEF S
  <2> QED BY <1>1, <1>2, SetInduction
<1> QED BY <1>3

\* What holds at some place and is kept by the steps holds from there on.
LEMMA StepsKeep ==
    ASSUME NEW n \in Nat, NEW a \in 0 .. n, NEW f, NEW R, f[a] \in R,
           \A i \in a + 1 .. n : f[i - 1] \in R => f[i] \in R
    PROVE  \A i \in a .. n : f[i] \in R
<1> DEFINE S == {k \in Nat : a + k <= n => f[a + k] \in R}
<1>1. 0 \in S
  OBVIOUS
<1>2. ASSUME NEW k \in Nat, k \in S PROVE k + 1 \in S
  <2> SUFFICES ASSUME a + (k + 1) <= n PROVE f[a + (k + 1)] \in R
    OBVIOUS
  <2>1. a + (k + 1) \in a + 1 .. n /\ (a + (k + 1)) - 1 = a + k /\ f[a + k] \in R
    BY <1>2
  <2> QED BY <2>1
<1>3. Nat \subseteq S
  <2> HIDE DEF S
  <2> QED BY <1>1, <1>2, SetInduction
<1>4. ASSUME NEW i \in a .. n PROVE f[i] \in R
  <2>1. i - a \in Nat /\ a + (i - a) = i /\ i - a \in S
    BY <1>3
  <2> QED BY <2>1
<1> QED BY <1>4

-------------------------------------------------------------------------------
\* An alias with a numeric tail: t is where the tilde is, e where the last digit is.
TailAt(n, t, e) ==
    /\ t \in 1 .. StemLen /\ e \in t + 1 .. StemLen
    /\ n[t] = Tilde
    /\ \A i \in t + 1 .. e : n[i] \in Zero .. Zero + LastDigit
    /\ \A i \in 1 .. e : n[i] # Space
    /\ \A i \in e + 1 .. StemLen : n[i] = Space

Tailed(n) ==
    /\ n \in Seq(Nat) /\ Len(n) = StemLen + ExtLen
    /\ \E t, e \in 1 .. StemLen : TailAt(n, t, e)

\* Where incrementNumericTail finds them.
StemEnd(n) == Min({i \in 1 .. StemLen : n[i] = Space} \cup {StemLen + 1}) - 1
TildeAt(n) == Max({i \in 1 .. StemEnd(n) : n[i] = Tilde})

\* It finds them where they are.
LEMMA TailFound ==
    ASSUME NEW n, NEW t, NEW e, TailAt(n, t, e)
    PROVE  StemEnd(n) = e /\ TildeAt(n) = t
<1>1. StemLen \in Nat /\ LastDigit \in 1 .. 9
  BY NamesAssumption
<1> DEFINE S == {i \in 1 .. StemLen : n[i] = Space} \cup {StemLen + 1}
           T == {i \in 1 .. e : n[i] = Tilde}
<1>2. t \in Nat /\ e \in Nat /\ t < e /\ e <= StemLen
  BY <1>1 DEF TailAt
<1>3. S \in SUBSET Nat /\ S # {}
  BY <1>1
<1>4. e + 1 \in S /\ \A i \in S : i >= e + 1
  BY <1>1, <1>2 DEF TailAt
<1>5. Min(S) = e + 1
  <2> HIDE DEF S
  <2>1. Min(S) \in S /\ \A i \in S : Min(S) <= i
    BY <1>3, LeastOne
  <2>2. Min(S) \in Nat /\ Min(S) <= e + 1 /\ Min(S) >= e + 1
    BY <2>1, <1>3, <1>4
  <2> QED BY <2>2, <1>2
<1>6. StemEnd(n) = e
  BY <1>2, <1>5 DEF StemEnd
<1>7. T \in SUBSET (0 .. e) /\ t \in T
  BY <1>2 DEF TailAt
<1>8. \A i \in T : i <= t
  <2> SUFFICES ASSUME NEW i \in t + 1 .. e, n[i] = Tilde PROVE FALSE
    BY <1>2
  <2>1. n[i] \in Zero .. Zero + LastDigit
    BY DEF TailAt
  <2> QED BY <2>1, <1>1 DEF Zero, Tilde
<1>9. Max(T) = t
  <2> HIDE DEF T
  <2>1. Max(T) \in T /\ \A i \in T : Max(T) >= i
    BY <1>2, <1>7, GreatestOne
  <2> DEFINE m == Max(T)
  <2>2. m \in T /\ m >= t
    BY <2>1, <1>7
  <2> HIDE DEF m
  <2>3. m \in Nat /\ m <= t
    BY <2>2, <1>2, <1>7, <1>8
  <2>4. m = t
    BY <2>2, <2>3, <1>2
  <2> QED BY <2>4 DEF m
<1>10. TildeAt(n) = t
  BY <1>6, <1>9 DEF TildeAt
<1> QED BY <1>6, <1>10

Digits(n) == StemEnd(n) - TildeAt(n)

\* m comes after n when the tail counts on: it has more digits, or the first
\* character they differ in is greater.
After(n, m) ==
    \/ Digits(n) < Digits(m)
    \/ /\ Digits(n) = Digits(m)
       /\ \E i \in 1 .. StemLen : n[i] < m[i] /\ \A j \in 1 .. i - 1 : n[j] = m[j]

\* What is known of a name with a tail.
LEMMA TailFacts ==
    ASSUME NEW n, Tailed(n)
    PROVE  /\ n # NoName /\ Digits(n) \in Nat
           /\ \A i \in 1 .. StemLen : n[i] \in Nat
<1>1. PICK t \in 1 .. StemLen, e \in 1 .. StemLen : TailAt(n, t, e)
  BY DEF Tailed
<1>2. StemLen \in Nat /\ ExtLen \in Nat /\ StemLen >= 2
  BY NamesAssumption
<1>3. Digits(n) = e - t /\ t \in Nat /\ e \in Nat /\ t < e
  <2>1. t \in Nat /\ e \in Nat /\ t < e
    BY <1>1, <1>2 DEF TailAt
  <2>2. StemEnd(n) = e /\ TildeAt(n) = t
    BY <1>1, TailFound
  <2> QED BY <2>1, <2>2 DEF Digits
<1>4. n \in Seq(Nat) /\ Len(n) = StemLen + ExtLen
  BY DEF Tailed
<1>5. n # NoName
  BY <1>2, <1>4 DEF NoName
<1>6. \A i \in 1 .. StemLen : n[i] \in Nat
  BY <1>2, <1>4
<1> QED BY <1>3, <1>5, <1>6

\* The order is strict.
LEMMA AfterOrder ==
    /\ \A n : Tailed(n) => ~After(n, n)
    /\ \A n, m, k : Tailed(n) /\ Tailed(m) /\ Tailed(k) /\ After(n, m) /\ After(m, k)
                      => After(n, k)
<1>0. StemLen \in Nat
  BY NamesAssumption
<1>1. ASSUME NEW n, Tailed(n) PROVE ~After(n, n)
  <2>1. Digits(n) \in Nat /\ \A i \in 1 .. StemLen : n[i] \in Nat
    BY <1>1, TailFacts
  <2> QED BY <2>1 DEF After
<1>2. ASSUME NEW n, NEW m, NEW k, Tailed(n), Tailed(m), Tailed(k), After(n, m), After(m, k)
      PROVE  After(n, k)
  <2>1. /\ Digits(n) \in Nat /\ Digits(m) \in Nat /\ Digits(k) \in Nat
        /\ \A i \in 1 .. StemLen : n[i] \in Nat /\ m[i] \in Nat /\ k[i] \in Nat
    BY <1>2, TailFacts
  <2>2. CASE Digits(n) < Digits(m) \/ Digits(m) < Digits(k)
    <3>1. Digits(n) <= Digits(m) /\ Digits(m) <= Digits(k)
      BY <1>2, <2>1 DEF After
    <3>2. Digits(n) < Digits(k)
      BY <2>1, <2>2, <3>1
    <3> QED BY <3>2 DEF After
  <2>3. CASE ~(Digits(n) < Digits(m)) /\ ~(Digits(m) < Digits(k))
    <3>1. PICK i \in 1 .. StemLen : n[i] < m[i] /\ \A l \in 1 .. i - 1 : n[l] = m[l]
      BY <1>2, <2>3 DEF After
    <3>2. PICK j \in 1 .. StemLen : m[j] < k[j] /\ \A l \in 1 .. j - 1 : m[l] = k[l]
      BY <1>2, <2>3 DEF After
    <3>3. Digits(n) = Digits(k)
      BY <1>2, <2>3 DEF After
    <3>4. CASE i < j
      <4>1. n[i] < k[i] /\ \A l \in 1 .. i - 1 : n[l] = k[l]
        BY <3>1, <3>2, <3>4, <1>0
      <4> QED BY <3>3, <4>1 DEF After
    <3>5. CASE i >= j
      <4>1. n[j] < k[j] /\ \A l \in 1 .. j - 1 : n[l] = k[l]
        BY <3>1, <3>2, <3>5, <1>0, <2>1
      <4> QED BY <3>3, <4>1 DEF After
    <3> QED BY <3>4, <3>5, <1>0
  <2> QED BY <2>2, <2>3
<1> QED BY <1>1, <1>2, Zenon

\* One sequence behind another one.
LEMMA Joined ==
    ASSUME NEW a \in Seq(Nat), NEW b \in Seq(Nat)
    PROVE  /\ a \o b \in Seq(Nat) /\ Len(a \o b) = Len(a) + Len(b)
           /\ \A i \in 1 .. Len(a) : (a \o b)[i] = a[i]
           /\ \A i \in 1 .. Len(b) : (a \o b)[Len(a) + i] = b[i]
           /\ \A i \in Len(a) + 1 .. Len(a) + Len(b) : (a \o b)[i] = b[i - Len(a)]
  OBVIOUS

\* incrementNumericTail counts on, or there is no space for one digit more.
LEMMA NextTail ==
    ASSUME NEW n, Tailed(n)
    PROVE  \/ incrementNumericTail(n) = NoName
           \/ Tailed(incrementNumericTail(n)) /\ After(n, incrementNumericTail(n))
<1>0. StemLen \in Nat /\ ExtLen \in Nat /\ StemLen >= 2 /\ LastDigit \in 1 .. 9
  BY NamesAssumption
<1>1. PICK t \in 1 .. StemLen, e \in 1 .. StemLen : TailAt(n, t, e)
  BY DEF Tailed
<1>2. n \in Seq(Nat) /\ Len(n) = StemLen + ExtLen /\ DOMAIN n = 1 .. StemLen + ExtLen
  BY <1>0 DEF Tailed
<1>3. StemEnd(n) = e /\ TildeAt(n) = t
  BY <1>1, TailFound
<1>4. /\ t \in Nat /\ e \in Nat /\ 1 <= t /\ t < e /\ e <= StemLen /\ n[t] = Tilde
      /\ \A i \in t + 1 .. e : n[i] \in Zero .. Zero + LastDigit
      /\ \A i \in 1 .. e : n[i] # Space
      /\ \A i \in e + 1 .. StemLen : n[i] = Space
      /\ \A i \in 1 .. StemLen + ExtLen : n[i] \in Nat
  BY <1>0, <1>1, <1>2 DEF TailAt
<1> DEFINE end == Min({i \in 1 .. StemLen : n[i] = Space} \cup {StemLen + 1}) - 1
           tilde == Max({i \in 1 .. end : n[i] = Tilde})
           small == {i \in tilde + 1 .. end : n[i] # Zero + LastDigit}
           up == Max(small)
           kept == IF end < StemLen THEN tilde - 1 ELSE tilde - 2
           grown == SubSeq(n, 1, kept) \o <<Tilde, Zero + 1>> \o [i \in 1 .. end - tilde |-> Zero]
           next == [i \in DOMAIN n |-> IF i = up THEN n[i] + 1
                                       ELSE IF i \in up + 1 .. end THEN Zero ELSE n[i]]
           long == Pad(grown, StemLen) \o SubSeq(n, StemLen + 1, StemLen + ExtLen)
           m == incrementNumericTail(n)
<1>5. m = IF small # {} THEN next ELSE IF kept < 0 THEN NoName ELSE long
  BY Zenon DEF incrementNumericTail
<1>6. end = e
  BY <1>3, Zenon DEF StemEnd
<1>7. tilde = t
  <2>1. StemEnd(n) = end
    BY Zenon DEF StemEnd
  <2>2. TildeAt(n) = tilde
    BY <2>1, Zenon DEF TildeAt
  <2> QED BY <2>2, <1>3
<1> HIDE DEF end, tilde, m
<1>8. CASE small # {}
  <2>1. up \in small /\ \A i \in small : up >= i
    <3>1. small \in SUBSET (0 .. e)
      BY <1>4, <1>6, <1>7
    <3> HIDE DEF small
    <3> QED BY <3>1, <1>4, <1>8, GreatestOne
  <2>2. up \in t + 1 .. e /\ n[up] # Zero + LastDigit
    BY <2>1, <1>6, <1>7
  <2> HIDE DEF up
  <2>3. /\ m = [i \in 1 .. StemLen + ExtLen |-> IF i = up THEN n[i] + 1
                                              ELSE IF i \in up + 1 .. e THEN Zero ELSE n[i]]
    BY <1>2, <1>5, <1>6, <1>8
  <2>4. up \in 1 .. StemLen /\ n[up] \in Zero .. Zero + LastDigit - 1
    BY <2>2, <1>0, <1>4 DEF Zero
  <2>5. \A i \in 1 .. StemLen + ExtLen :
           m[i] = IF i = up THEN n[i] + 1 ELSE IF i \in up + 1 .. e THEN Zero ELSE n[i]
    BY <2>3
  <2>6. \A i \in 1 .. StemLen + ExtLen : m[i] \in Nat
    BY <2>5, <1>4 DEF Zero
  <2>7. m \in Seq(Nat) /\ Len(m) = StemLen + ExtLen
    <3>1. m \in [1 .. StemLen + ExtLen -> Nat]
      BY <2>3, <2>5, <2>6
    <3> QED BY <3>1, <1>0
  <2>8. TailAt(m, t, e)
    <3>1. m[t] = Tilde /\ \A i \in e + 1 .. StemLen : m[i] = Space
      BY <2>2, <2>5, <1>0, <1>4
    <3>2. \A i \in t + 1 .. e : m[i] \in Zero .. Zero + LastDigit
      <4> SUFFICES ASSUME NEW i \in t + 1 .. e PROVE m[i] \in Zero .. Zero + LastDigit
        OBVIOUS
      <4>1. i \in 1 .. StemLen + ExtLen /\ n[i] \in Zero .. Zero + LastDigit
        BY <1>0, <1>4
      <4> QED BY <4>1, <2>4, <2>5, <1>0 DEF Zero
    <3>3. \A i \in 1 .. e : m[i] # Space
      <4> SUFFICES ASSUME NEW i \in 1 .. e PROVE m[i] # Space
        OBVIOUS
      <4>1. i \in 1 .. StemLen + ExtLen /\ n[i] # Space
        BY <1>0, <1>4
      <4> QED BY <4>1, <2>4, <2>5, <1>0 DEF Zero, Space
    <3> QED BY <3>1, <3>2, <3>3, <1>4, <1>0 DEF TailAt
  <2>9. Tailed(m)
    BY <2>7, <2>8 DEF Tailed
  <2>10. StemEnd(m) = e /\ TildeAt(m) = t
    BY <2>8, TailFound
  <2>11. Digits(m) = Digits(n)
    BY <2>10, <1>3 DEF Digits
  <2>12. n[up] < m[up] /\ \A j \in 1 .. up - 1 : n[j] = m[j]
    BY <2>4, <2>5, <1>0, <1>4 DEF Zero
  <2>13. After(n, m)
    BY <2>4, <2>11, <2>12 DEF After
  <2> QED BY <2>9, <2>13 DEF m
<1>9. CASE small = {} /\ kept < 0
  BY <1>5, <1>9 DEF m
<1>10. CASE small = {} /\ kept >= 0
  <2> DEFINE k == kept
  <2>1. k \in Nat /\ k < t /\ k + 2 + (e - t) \in 1 .. StemLen /\ k + 2 + (e - t) > e - t + 1
    BY <1>0, <1>4, <1>6, <1>7, <1>10
  <2>2. m = long
    <3>1. kept \in Int
      BY <1>0, <1>4, <1>6, <1>7
    <3>2. ~(kept < 0)
      BY <3>1, <1>10
    <3> HIDE DEF kept
    <3> QED BY <1>5, <1>10, <3>2
  <2> DEFINE pre == SubSeq(n, 1, k)
             two == <<Tilde, Zero + 1>>
             zeros == [i \in 1 .. end - tilde |-> Zero]
             d == e - t
             rest == [i \in 1 .. StemLen - Len(grown) |-> Space]
             ext == SubSeq(n, StemLen + 1, StemLen + ExtLen)
  <2>3. d \in Nat /\ d >= 1 /\ end - tilde = d
    BY <1>4, <1>6, <1>7
  <2>4. k <= StemLen
    BY <2>1, <1>4, <1>0
  <2> HIDE DEF k, d
  <2>5. pre \in Seq(Nat) /\ Len(pre) = k /\ \A i \in 1 .. k : pre[i] = n[i]
    BY <1>0, <1>2, <2>1, <2>4
  <2>6. zeros \in Seq(Nat) /\ Len(zeros) = d /\ \A i \in 1 .. d : zeros[i] = Zero
    BY <2>3 DEF Zero
  <2>7. two \in Seq(Nat) /\ Len(two) = 2 /\ two[1] = Tilde /\ two[2] = Zero + 1
    BY DEF Tilde, Zero
  <2> HIDE DEF pre, two, zeros
  <2>8. grown = pre \o two \o zeros
    BY DEF pre, two, zeros, k
  <2> HIDE DEF grown
  <2>9. /\ grown \in Seq(Nat) /\ Len(grown) = k + 2 + d
        /\ \A i \in 1 .. k : grown[i] = n[i]
        /\ grown[k + 1] = Tilde /\ grown[k + 2] = Zero + 1
        /\ \A i \in k + 3 .. k + 2 + d : grown[i] = Zero
    <3> DEFINE a == pre \o two
    <3>1. a \in Seq(Nat) /\ Len(a) = k + 2 /\ (\A i \in 1 .. k : a[i] = n[i])
          /\ a[k + 1] = Tilde /\ a[k + 2] = Zero + 1
      <4>0. /\ a \in Seq(Nat) /\ Len(a) = Len(pre) + Len(two)
            /\ \A i \in 1 .. Len(pre) : a[i] = pre[i]
        BY <2>5, <2>7, Joined, Zenon
      <4>1. Len(a) = k + 2 /\ a \in Seq(Nat) /\ \A i \in 1 .. k : a[i] = pre[i]
        <5> HIDE DEF a
        <5> QED BY <2>1, <2>5, <2>7, <4>0
      <4>2. /\ \A i \in 1 .. Len(two) : a[k + i] = two[i]
        BY <2>5, <2>7, Joined
      <4>3. 1 \in 1 .. Len(two) /\ 2 \in 1 .. Len(two)
        BY <2>7
      <4> HIDE DEF a
      <4> QED BY <4>1, <4>2, <4>3, <2>5, <2>7
    <3>2. grown = a \o zeros
      BY <2>8
    <3> HIDE DEF a
    <3>3. grown \in Seq(Nat) /\ Len(grown) = k + 2 + d
      BY <3>1, <3>2, <2>6, Joined
    <3>4. \A i \in 1 .. k + 2 : grown[i] = a[i]
      BY <3>1, <3>2, <2>6, Joined
    <3>5. \A i \in k + 3 .. k + 2 + d : grown[i] = Zero
      <4> SUFFICES ASSUME NEW i \in k + 3 .. k + 2 + d PROVE grown[i] = Zero
        OBVIOUS
      <4>1. i - (k + 2) \in 1 .. d /\ i \in Len(a) + 1 .. Len(a) + Len(zeros)
        BY <3>1, <2>1, <2>3, <2>6
      <4>2. grown[i] = zeros[i - Len(a)]
        BY <4>1, <3>1, <3>2, <2>6, Joined
      <4> QED BY <4>1, <4>2, <3>1, <2>6
    <3>6. k + 1 \in 1 .. k + 2 /\ k + 2 \in 1 .. k + 2
      BY <2>1
    <3>7. \A i \in 1 .. k : i \in 1 .. k + 2
      BY <2>1
    <3> QED BY <3>1, <3>3, <3>4, <3>5, <3>6, <3>7
  <2> DEFINE f == k + 2 + d
  <2>10. f \in 1 .. StemLen /\ f > d + 1 /\ f \in Nat
    BY <2>1, <1>0 DEF d
  <2>11. rest \in Seq(Nat) /\ Len(rest) = StemLen - f
         /\ \A i \in 1 .. StemLen - f : rest[i] = Space
    BY <2>9, <2>10, <1>0 DEF Space
  <2>12. ext \in Seq(Nat) /\ Len(ext) = ExtLen
    BY <1>0, <1>2
  <2>13. m = (grown \o rest) \o ext
    BY <2>2, Zenon DEF Pad, rest, ext
  <2> HIDE DEF rest, ext, f
  <2> DEFINE stem == grown \o rest
  <2>14. /\ stem \in Seq(Nat) /\ Len(stem) = StemLen
         /\ \A i \in 1 .. f : stem[i] = grown[i]
         /\ \A i \in f + 1 .. StemLen : stem[i] = Space
    <3>1. Len(grown) = f
      BY <2>9 DEF f
    <3>2. stem \in Seq(Nat) /\ Len(stem) = StemLen /\ \A i \in 1 .. f : stem[i] = grown[i]
      <4>1. stem \in Seq(Nat) /\ Len(stem) = f + (StemLen - f) /\ \A i \in 1 .. f : stem[i] = grown[i]
        BY <3>1, <2>9, <2>11, Joined
      <4> QED BY <4>1, <2>10, <1>0
    <3>3. \A i \in f + 1 .. StemLen : stem[i] = Space
      <4> SUFFICES ASSUME NEW i \in f + 1 .. StemLen PROVE stem[i] = Space
        OBVIOUS
      <4>1. i - f \in 1 .. StemLen - f /\ i \in f + 1 .. f + (StemLen - f)
        BY <2>10, <1>0
      <4>2. stem[i] = rest[i - f]
        BY <4>1, <3>1, <2>9, <2>11, Joined
      <4> QED BY <4>1, <4>2, <2>11
    <3> QED BY <3>2, <3>3
  <2> HIDE DEF stem
  <2>15. /\ m \in Seq(Nat) /\ Len(m) = StemLen + ExtLen
         /\ \A i \in 1 .. StemLen : m[i] = stem[i]
    <3>1. m = stem \o ext
      BY <2>13 DEF stem
    <3> QED BY <3>1, <2>12, <2>14, Joined
  <2>16. /\ k + 1 \in 1 .. f /\ k + 2 \in 1 .. f /\ f \in k + 2 .. StemLen
         /\ f = k + 1 + (d + 1)
    BY <2>1, <2>3, <2>10 DEF f
  <2>17. \A i \in 1 .. f : m[i] = grown[i]
    BY <2>10, <2>14, <2>15, <1>0
  <2>18. m[k + 1] = Tilde
    BY <2>9, <2>16, <2>17
  <2>19. \A i \in k + 2 .. f : m[i] \in Zero .. Zero + LastDigit
    <3> SUFFICES ASSUME NEW i \in k + 2 .. f PROVE m[i] \in Zero .. Zero + LastDigit
      OBVIOUS
    <3>1. i \in 1 .. f /\ (i = k + 2 \/ i \in k + 3 .. k + 2 + d)
      BY <2>1, <2>3, <2>10 DEF f
    <3>2. m[i] = Zero + 1 \/ m[i] = Zero
      BY <3>1, <2>9, <2>17
    <3> QED BY <3>2, <1>0 DEF Zero
  <2>20. \A i \in 1 .. f : m[i] # Space
    <3> SUFFICES ASSUME NEW i \in 1 .. f PROVE m[i] # Space
      OBVIOUS
    <3>1. i \in 1 .. k \/ i = k + 1 \/ i \in k + 2 .. f
      BY <2>1, <2>10
    <3>2. ASSUME i \in 1 .. k PROVE n[i] # Space /\ m[i] = n[i]
      <4>1. i \in 1 .. e
        BY <3>2, <2>1, <1>4
      <4> QED BY <4>1, <3>2, <2>9, <2>17, <1>4
    <3> QED BY <3>1, <3>2, <2>18, <2>19, <1>0 DEF Space, Tilde, Zero
  <2>21. \A i \in f + 1 .. StemLen : m[i] = Space
    BY <2>10, <2>14, <2>15, <1>0
  <2>22. TailAt(m, k + 1, f)
    <3>1. k + 1 \in 1 .. StemLen /\ f \in (k + 1) + 1 .. StemLen
      BY <2>1, <2>10, <2>16, <1>0
    <3>2. (k + 1) + 1 = k + 2
      BY <2>1
    <3> QED BY <3>1, <3>2, <2>18, <2>19, <2>20, <2>21 DEF TailAt
  <2>23. Tailed(m)
    <3>1. k + 1 \in 1 .. StemLen /\ f \in 1 .. StemLen
      BY <2>10, <2>16, <1>0
    <3> QED BY <3>1, <2>15, <2>22 DEF Tailed
  <2>24. StemEnd(m) = f /\ TildeAt(m) = k + 1
    BY <2>22, TailFound
  <2>25. Digits(n) < Digits(m)
    <3>1. Digits(n) = d
      BY <1>3 DEF Digits, d
    <3>2. Digits(m) = d + 1
      BY <2>1, <2>3, <2>16, <2>24 DEF Digits
    <3> QED BY <3>1, <3>2, <2>3
  <2> QED BY <2>23, <2>25 DEF After, m
<1>11. kept \in Int
  BY <1>0, <1>4, <1>6, <1>7
<1> HIDE DEF kept, small
<1> QED BY <1>8, <1>9, <1>10, <1>11

\* Without dots and spaces a name has no spaces.
LEMMA BareFacts ==
    ASSUME NEW name \in Seq(Nat), NEW n \in 0 .. Len(name)
    PROVE  Bare(name, n) \in Seq(Nat \ {Space})
<1> DEFINE R == Seq(Nat \ {Space})
           step == [p \in R \X (1 .. n) |->
                      IF name[p[2]] \in {Dot, Space} THEN p[1] ELSE Append(p[1], name[p[2]])]
           Runs(f) == f = [i \in 0 .. n |-> IF i = 0 THEN <<>>
                                           ELSE IF name[i] \in {Dot, Space} THEN f[i - 1]
                                           ELSE Append(f[i - 1], name[i])]
           bare == CHOOSE f : Runs(f)
<1>1. n \in Nat /\ <<>> \in R
  OBVIOUS
<1>2. step \in [R \X (1 .. n) -> R]
  <2> SUFFICES ASSUME NEW s \in R, NEW i \in 1 .. n
               PROVE  (IF name[i] \in {Dot, Space} THEN s ELSE Append(s, name[i])) \in R
    OBVIOUS
  <2>1. name[i] \in Nat
    BY <1>1
  <2> QED BY <2>1
<1>3. PICK f : Steps(f, n, R, <<>>, step)
  <2> HIDE DEF R, step
  <2> QED BY <1>1, <1>2, StepsExist
<1>4. f \in [0 .. n -> R] /\ f[0] = <<>> /\ \A i \in 1 .. n : f[i] = step[<<f[i - 1], i>>]
  BY <1>3, Zenon DEF Steps
<1>5. \A i \in 1 .. n : f[i] = IF name[i] \in {Dot, Space} THEN f[i - 1]
                               ELSE Append(f[i - 1], name[i])
  <2> SUFFICES ASSUME NEW i \in 1 .. n
               PROVE  f[i] = IF name[i] \in {Dot, Space} THEN f[i - 1]
                             ELSE Append(f[i - 1], name[i])
    OBVIOUS
  <2>1. f[i - 1] \in R
    <3>1. i - 1 \in 0 .. n
      BY <1>1
    <3> HIDE DEF R
    <3> QED BY <3>1, <1>4
  <2>2. f[i] = step[<<f[i - 1], i>>]
    BY <1>4
  <2> HIDE DEF R
  <2> QED BY <2>1, <2>2
<1>6. f = [i \in 0 .. n |-> f[i]]
  BY <1>4
<1>7. Runs(f)
  <2>1. \A i \in 0 .. n : f[i] = IF i = 0 THEN <<>>
                                 ELSE IF name[i] \in {Dot, Space} THEN f[i - 1]
                                 ELSE Append(f[i - 1], name[i])
    <3> SUFFICES ASSUME NEW i \in 0 .. n
                 PROVE  f[i] = IF i = 0 THEN <<>>
                               ELSE IF name[i] \in {Dot, Space} THEN f[i - 1]
                               ELSE Append(f[i - 1], name[i])
      OBVIOUS
    <3>1. CASE i = 0
      BY <3>1, <1>4
    <3>2. CASE i # 0
      <4>1. i \in 1 .. n
        BY <3>2, <1>1
      <4> QED BY <3>2, <4>1, <1>5, Zenon
    <3> QED BY <3>1, <3>2
  <2> QED BY <2>1, <1>6, Zenon
<1>8. Runs(bare)
  BY <1>7, Zenon
<1>9. Bare(name, n) = bare[n]
  BY Zenon DEF Bare
<1> HIDE DEF bare, step
<1>10. bare[0] = <<>> /\ \A i \in 1 .. n : bare[i] = IF name[i] \in {Dot, Space} THEN bare[i - 1]
                                                   ELSE Append(bare[i - 1], name[i])
  <2>1. \A i \in 0 .. n : bare[i] = IF i = 0 THEN <<>>
                                    ELSE IF name[i] \in {Dot, Space} THEN bare[i - 1]
                                    ELSE Append(bare[i - 1], name[i])
    BY <1>8, Zenon
  <2>2. 0 \in 0 .. n /\ \A i \in 1 .. n : i \in 0 .. n /\ i # 0
    BY <1>1
  <2> QED BY <2>1, <2>2, Zenon
<1>11. \A i \in 1 .. n : bare[i - 1] \in R => bare[i] \in R
  <2> SUFFICES ASSUME NEW i \in 1 .. n, bare[i - 1] \in R PROVE bare[i] \in R
    OBVIOUS
  <2>1. name[i] \in Nat
    BY <1>1
  <2>2. bare[i] = IF name[i] \in {Dot, Space} THEN bare[i - 1] ELSE Append(bare[i - 1], name[i])
    BY <1>10
  <2> QED BY <2>1, <2>2
<1>12. \A i \in 0 .. n : bare[i] \in R
  <2> HIDE DEF R
  <2>1. 0 \in 0 .. n /\ bare[0] \in R /\ \A i \in 0 + 1 .. n : bare[i - 1] \in R => bare[i] \in R
    BY <1>1, <1>10, <1>11
  <2> QED BY <2>1, <1>1, StepsKeep
<1> QED BY <1>1, <1>9, <1>12

\* The parts of an alias, put together.
LEMMA AliasTailed ==
    ASSUME NEW c \in Seq(Nat), NEW x \in Seq(Nat), Len(c) + 2 <= StemLen, Len(x) <= ExtLen,
           \A i \in 1 .. Len(c) : c[i] # Space
    PROVE  Tailed(Pad(c \o <<Tilde, Zero + 1>>, StemLen) \o Pad(x, ExtLen))
<1>0. StemLen \in Nat /\ ExtLen \in Nat /\ StemLen >= 2 /\ LastDigit \in 1 .. 9
  BY NamesAssumption
<1> DEFINE two == <<Tilde, Zero + 1>>
           a == c \o two
           pa == [i \in 1 .. StemLen - Len(a) |-> Space]
           px == [i \in 1 .. ExtLen - Len(x) |-> Space]
           stem == a \o pa
           ext == x \o px
           m == stem \o ext
           l == Len(c)
<1>1. two \in Seq(Nat) /\ Len(two) = 2 /\ two[1] = Tilde /\ two[2] = Zero + 1
  BY DEF Tilde, Zero
<1>2. l \in Nat /\ l + 2 <= StemLen
  OBVIOUS
<1>3. Pad(a, StemLen) \o Pad(x, ExtLen) = m
  BY Zenon DEF Pad
<1> HIDE DEF two
<1>4. /\ a \in Seq(Nat) /\ Len(a) = l + 2
      /\ \A i \in 1 .. l : a[i] = c[i]
      /\ a[l + 1] = Tilde /\ a[l + 2] = Zero + 1
  <2>1. a \in Seq(Nat) /\ Len(a) = Len(c) + Len(two)
        /\ (\A i \in 1 .. Len(c) : a[i] = c[i]) /\ \A i \in 1 .. Len(two) : a[Len(c) + i] = two[i]
    BY <1>1, Joined, Zenon
  <2>2. 1 \in 1 .. Len(two) /\ 2 \in 1 .. Len(two)
    BY <1>1
  <2> HIDE DEF a
  <2> QED BY <1>1, <2>1, <2>2
<1> HIDE DEF a
<1>5. /\ pa \in Seq(Nat) /\ Len(pa) = StemLen - (l + 2)
      /\ \A i \in 1 .. StemLen - (l + 2) : pa[i] = Space
  BY <1>0, <1>2, <1>4 DEF Space
<1>6. px \in Seq(Nat) /\ Len(px) = ExtLen - Len(x)
  BY <1>0 DEF Space
<1> HIDE DEF pa, px
<1>7. /\ stem \in Seq(Nat) /\ Len(stem) = StemLen
      /\ \A i \in 1 .. l + 2 : stem[i] = a[i]
      /\ \A i \in l + 3 .. StemLen : stem[i] = Space
  <2>1. /\ stem \in Seq(Nat) /\ Len(stem) = Len(a) + Len(pa)
        /\ \A i \in 1 .. Len(a) : stem[i] = a[i]
        /\ \A i \in Len(a) + 1 .. Len(a) + Len(pa) : stem[i] = pa[i - Len(a)]
    BY <1>4, <1>5, Joined, Zenon
  <2> HIDE DEF stem, l
  <2>2. Len(a) + Len(pa) = StemLen /\ Len(a) = l + 2 /\ l \in Nat
    BY <1>0, <1>2, <1>4, <1>5
  <2>3. \A i \in l + 3 .. StemLen : stem[i] = Space
    <3> SUFFICES ASSUME NEW i \in l + 3 .. StemLen PROVE stem[i] = Space
      OBVIOUS
    <3>1. i \in Len(a) + 1 .. Len(a) + Len(pa) /\ i - Len(a) \in 1 .. StemLen - (l + 2)
      BY <2>2, <1>0
    <3> QED BY <3>1, <2>1, <1>5
  <2> QED BY <2>1, <2>2, <2>3
<1>8. ext \in Seq(Nat) /\ Len(ext) = ExtLen
  <2>1. ext \in Seq(Nat) /\ Len(ext) = Len(x) + Len(px)
    BY <1>6, Joined, Zenon
  <2> HIDE DEF ext
  <2> QED BY <2>1, <1>0, <1>6
<1> HIDE DEF stem, ext
<1>9. m \in Seq(Nat) /\ Len(m) = StemLen + ExtLen /\ \A i \in 1 .. StemLen : m[i] = stem[i]
  <2>1. m \in Seq(Nat) /\ Len(m) = Len(stem) + Len(ext) /\ \A i \in 1 .. Len(stem) : m[i] = stem[i]
    BY <1>7, <1>8, Joined, Zenon
  <2> HIDE DEF m
  <2> QED BY <2>1, <1>0, <1>7, <1>8
<1> HIDE DEF m
<1>10. \A i \in 1 .. l : m[i] = c[i]
  <2> HIDE DEF l
  <2> QED BY <1>0, <1>2, <1>4, <1>7, <1>9
<1>11. m[l + 1] = Tilde /\ m[l + 2] = Zero + 1 /\ \A i \in l + 3 .. StemLen : m[i] = Space
  <2> HIDE DEF l
  <2> QED BY <1>0, <1>2, <1>4, <1>7, <1>9
<1>12. \A i \in 1 .. l : c[i] # Space
  OBVIOUS
<1> HIDE DEF l
<1>13. TailAt(m, l + 1, l + 2)
  <2>1. \A i \in (l + 1) + 1 .. l + 2 : m[i] \in Zero .. Zero + LastDigit
    BY <1>0, <1>2, <1>11 DEF Zero
  <2>2. \A i \in 1 .. l + 2 : m[i] # Space
    <3> SUFFICES ASSUME NEW i \in 1 .. l + 2 PROVE m[i] # Space
      OBVIOUS
    <3>1. i \in 1 .. l \/ i = l + 1 \/ i = l + 2
      BY <1>2
    <3> QED BY <3>1, <1>10, <1>11, <1>12 DEF Space, Tilde, Zero
  <2> QED BY <2>1, <2>2, <1>0, <1>2, <1>11 DEF TailAt
<1>14. l + 1 \in 1 .. StemLen /\ l + 2 \in 1 .. StemLen
  BY <1>0, <1>2
<1>15. Tailed(m)
  BY <1>9, <1>13, <1>14 DEF Tailed
<1> QED BY <1>3, <1>15 DEF a, two

\* The characters of an alias.
LEMMA Characters ==
    /\ \A c \in Nat : /\ Clean(c) \in Nat
                      /\ c # Space => Clean(c) # Space
    /\ \A w \in Seq(Nat) : Upper(w) \in Seq(Nat) /\ Len(Upper(w)) = Len(w)
<1>1. ASSUME NEW c \in Nat PROVE Clean(c) \in Nat /\ (c # Space => Clean(c) # Space)
  BY DEF Clean, Underscore, Space
<1>2. ASSUME NEW w \in Seq(Nat) PROVE Upper(w) \in Seq(Nat) /\ Len(Upper(w)) = Len(w)
  <2>0. \A i \in 1 .. Len(w) : w[i] \in Nat
    OBVIOUS
  <2>1. \A i \in 1 .. Len(w) : toupper(w[i]) \in Nat
    <3>1. \A c \in Nat : toupper(c) \in Nat
      BY DEF toupper
    <3> QED BY <2>0, <3>1
  <2>2. Upper(w) = [i \in 1 .. Len(w) |-> toupper(w[i])]
    BY DEF Upper
  <2> QED BY <2>1, <2>2
<1> QED BY <1>1, <1>2

\* generate83Name makes a name with a tail.
LEMMA GeneratedTailed == ASSUME NEW w \in Seq(Nat) PROVE Tailed(generate83Name(w))
<1>0. StemLen \in Nat /\ ExtLen \in Nat /\ StemLen >= 2 /\ LastDigit \in 1 .. 9
  BY NamesAssumption
<1> DEFINE leads == {i \in 1 .. Len(w) : w[i] \notin {Dot, Space}} \cup {Len(w) + 1}
           lead == Min(leads)
           name == Upper(SubSeq(w, lead, Len(w)))
           dots == Dots(name) \cup {0}
           dot == Max(dots)
           stem == Bare(name, IF dot = 0 THEN Len(name) ELSE dot - 1)
           ends == {Len(name), dot + ExtLen}
           ext == IF dot = 0 THEN <<>> ELSE SubSeq(name, dot + 1, Min(ends))
           lens == {Len(stem), StemLen - 2}
           kept == SubSeq(stem, 1, Min(lens))
           clean(s) == [i \in DOMAIN s |-> Clean(s[i])]
<1>1. generate83Name(w) = Pad(clean(kept) \o <<Tilde, Zero + 1>>, StemLen)
                          \o Pad(clean(ext), ExtLen)
  BY Zenon DEF generate83Name
<1>2. lead \in 1 .. Len(w) + 1
  <2>1. leads \in SUBSET Nat /\ leads # {} /\ leads \subseteq 1 .. Len(w) + 1
    OBVIOUS
  <2> HIDE DEF leads
  <2> QED BY <2>1, LeastOne
<1> HIDE DEF lead
<1>3. name \in Seq(Nat)
  <2>1. SubSeq(w, lead, Len(w)) \in Seq(Nat)
    BY <1>2
  <2> QED BY <2>1, Characters
<1> HIDE DEF name
<1>4. dot \in 0 .. Len(name)
  <2>1. dots \in SUBSET (0 .. Len(name)) /\ dots # {} /\ Len(name) \in Nat
    BY <1>3 DEF Dots
  <2> HIDE DEF dots
  <2> QED BY <2>1, GreatestOne
<1> HIDE DEF dot
<1>5. stem \in Seq(Nat \ {Space})
  <2>1. (IF dot = 0 THEN Len(name) ELSE dot - 1) \in 0 .. Len(name)
    BY <1>3, <1>4
  <2> QED BY <2>1, <1>3, BareFacts
<1> HIDE DEF stem
<1>6. Min(lens) \in 0 .. Len(stem) /\ Min(lens) <= StemLen - 2
  <2>1. lens \in SUBSET Nat /\ lens # {} /\ Len(stem) \in Nat
    BY <1>0, <1>5
  <2>2. \A x \in Nat : (\A y \in lens : x <= y) => x <= Len(stem) /\ x <= StemLen - 2
    OBVIOUS
  <2> HIDE DEF lens
  <2>3. Min(lens) \in lens /\ \A y \in lens : Min(lens) <= y
    BY <2>1, LeastOne
  <2>4. Min(lens) \in Nat
    BY <2>1, <2>3
  <2>5. Min(lens) <= Len(stem) /\ Min(lens) <= StemLen - 2
    BY <2>2, <2>3, <2>4
  <2> QED BY <2>1, <2>4, <2>5
<1> DEFINE k == Min(lens)
<1>7. k \in 0 .. Len(stem) /\ k <= StemLen - 2
  BY <1>6
<1> HIDE DEF k
<1>8. /\ SubSeq(stem, 1, k) \in Seq(Nat \ {Space}) /\ Len(SubSeq(stem, 1, k)) = k
  BY <1>5, <1>7
<1>9. kept \in Seq(Nat \ {Space}) /\ Len(kept) + 2 <= StemLen
  <2>1. k \in Nat /\ k + 2 <= StemLen
    BY <1>0, <1>5, <1>7
  <2> QED BY <1>8, <2>1 DEF k
<1> HIDE DEF kept
<1>10. ext \in Seq(Nat) /\ Len(ext) <= ExtLen
  <2>1. CASE dot = 0
    BY <2>1, <1>0
  <2>2. CASE dot # 0
    <3>1. ends \in SUBSET Nat /\ ends # {} /\ Len(name) \in Nat /\ dot \in Nat /\ dot <= Len(name)
      BY <1>0, <1>3, <1>4
    <3>2. \A x \in Nat : (\A y \in ends : x <= y) => x <= Len(name) /\ x <= dot + ExtLen
      OBVIOUS
    <3>3. \A x \in ends : x >= dot
      BY <3>1, <1>0
    <3> DEFINE e == Min(ends)
    <3> HIDE DEF ends
    <3>4. e \in ends /\ \A y \in ends : e <= y
      BY <3>1, LeastOne
    <3> HIDE DEF e
    <3>5. e \in Nat /\ e <= Len(name) /\ e <= dot + ExtLen /\ e >= dot
      BY <3>1, <3>2, <3>3, <3>4
    <3>6. SubSeq(name, dot + 1, e) \in Seq(Nat) /\ Len(SubSeq(name, dot + 1, e)) = e - dot
      BY <1>3, <3>1, <3>5
    <3> QED BY <2>2, <3>1, <3>5, <3>6, <1>0 DEF e
  <2> QED BY <2>1, <2>2
<1> HIDE DEF ext
<1>11. \A s \in Seq(Nat) : clean(s) \in Seq(Nat) /\ Len(clean(s)) = Len(s)
                           /\ \A i \in 1 .. Len(s) : clean(s)[i] = Clean(s[i])
  <2> SUFFICES ASSUME NEW s \in Seq(Nat)
               PROVE  clean(s) \in Seq(Nat) /\ Len(clean(s)) = Len(s)
                      /\ \A i \in 1 .. Len(s) : clean(s)[i] = Clean(s[i])
    OBVIOUS
  <2>1. clean(s) = [i \in 1 .. Len(s) |-> Clean(s[i])]
    OBVIOUS
  <2>0. \A i \in 1 .. Len(s) : s[i] \in Nat
    OBVIOUS
  <2>2. \A i \in 1 .. Len(s) : Clean(s[i]) \in Nat
    BY <2>0, Characters
  <2> QED BY <2>1, <2>2
<1> HIDE DEF clean
<1>12. kept \in Seq(Nat) /\ \A i \in 1 .. Len(kept) : kept[i] \in Nat /\ kept[i] # Space
  BY <1>9
<1>13. /\ clean(kept) \in Seq(Nat) /\ Len(clean(kept)) + 2 <= StemLen
       /\ \A i \in 1 .. Len(clean(kept)) : clean(kept)[i] # Space
  <2>1. \A i \in 1 .. Len(kept) : Clean(kept[i]) # Space
    BY <1>12, Characters
  <2> QED BY <2>1, <1>9, <1>11, <1>12
<1>14. clean(ext) \in Seq(Nat) /\ Len(clean(ext)) <= ExtLen
  BY <1>10, <1>11
<1> QED BY <1>1, <1>13, <1>14, AliasTailed

-------------------------------------------------------------------------------
Tails == {n \in Seq(Nat) : Tailed(n)} \cup {NoName}

\* What the tail n may have come to: itself, a later one, or none.
Later(n, m) == m = NoName \/ After(n, m)

\* A tail goes on from an entry that has it, and from no other one.
LEMMA BesideFacts ==
    ASSUME NEW n \in Tails, NEW x
    PROVE  /\ Beside(n, x) \in Tails
           /\ Beside(n, x) = n \/ Later(n, Beside(n, x))
           /\ IF n # NoName /\ x.is = "short" /\ x.short = n
              THEN Later(n, Beside(n, x)) ELSE Beside(n, x) = n
<1>1. CASE n # NoName /\ x.is = "short" /\ x.short = n
  <2>1. Beside(n, x) = incrementNumericTail(n)
    BY <1>1 DEF Beside
  <2>2. Tailed(n)
    BY <1>1 DEF Tails
  <2>3. \/ Beside(n, x) = NoName
        \/ Tailed(Beside(n, x)) /\ After(n, Beside(n, x))
    BY <2>1, <2>2, NextTail
  <2> HIDE DEF NoName
  <2>4. Beside(n, x) \in Tails
    BY <2>3 DEF Tails, Tailed
  <2> QED BY <1>1, <2>3, <2>4, Zenon DEF Later
<1>2. CASE ~(n # NoName /\ x.is = "short" /\ x.short = n)
  BY <1>2, Zenon DEF Beside
<1> QED BY <1>1, <1>2

\* One more step is later, too.
LEMMA LaterStep ==
    ASSUME NEW n \in Tails, NEW m \in Tails, NEW k \in Tails, n # NoName,
           Later(n, m), k = m \/ (m # NoName /\ Later(m, k))
    PROVE  Later(n, k)
<1>1. CASE k = m \/ k = NoName
  BY <1>1 DEF Later
<1>2. CASE m # NoName /\ k # NoName /\ Later(m, k)
  <2>1. Tailed(n) /\ Tailed(m) /\ Tailed(k)
    BY <1>2 DEF Tails
  <2> QED BY <1>2, <2>1, AfterOrder DEF Later
<1> QED BY <1>1, <1>2, Zenon DEF Later

\* A pass takes a tail on if some entry has it, and leaves it otherwise.
LEMMA PassFacts ==
    ASSUME NEW s, Len(s) \in Nat, NEW n \in Tails
    PROVE  /\ TailPass(s, n) \in Tails
           /\ n = NoName => TailPass(s, n) = NoName
           /\ n # NoName => IF \E i \in 1 .. Len(s) : Is(s, i, "short") /\ s[i].short = n
                            THEN Later(n, TailPass(s, n)) ELSE TailPass(s, n) = n
<1> DEFINE l == Len(s)
           step == [p \in Tails \X (1 .. l) |-> Beside(p[1], s[p[2]])]
           Runs(f) == f = [i \in 0 .. l |-> IF i = 0 THEN n ELSE Beside(f[i - 1], s[i])]
           name == CHOOSE f : Runs(f)
<1>1. l \in Nat
  OBVIOUS
<1>2. TailPass(s, n) = name[l]
  BY Zenon DEF TailPass
<1> HIDE DEF l
<1>3. step \in [Tails \X (1 .. l) -> Tails]
  BY BesideFacts
<1>4. PICK f : Steps(f, l, Tails, n, step)
  <2> HIDE DEF step
  <2> QED BY <1>1, <1>3, StepsExist
<1>5. f \in [0 .. l -> Tails] /\ f[0] = n /\ \A i \in 1 .. l : f[i] = step[<<f[i - 1], i>>]
  BY <1>4, Zenon DEF Steps
<1>6. Runs(f)
  <2>1. ASSUME NEW i \in 0 .. l PROVE f[i] = IF i = 0 THEN n ELSE Beside(f[i - 1], s[i])
    <3>1. CASE i = 0
      BY <3>1, <1>5
    <3>2. CASE i # 0
      <4>1. i \in 1 .. l /\ i - 1 \in 0 .. l
        BY <3>2, <1>1
      <4>2. f[i - 1] \in Tails
        BY <4>1, <1>5
      <4> QED BY <3>2, <4>1, <4>2, <1>5
    <3> QED BY <3>1, <3>2
  <2>2. f = [i \in 0 .. l |-> f[i]]
    BY <1>5
  <2> QED BY <2>1, <2>2, Zenon
<1>7. Runs(name)
  BY <1>6, Zenon
<1> HIDE DEF name, step
<1>8. name[0] = n /\ \A i \in 1 .. l : name[i] = Beside(name[i - 1], s[i])
  <2>1. \A i \in 0 .. l : name[i] = IF i = 0 THEN n ELSE Beside(name[i - 1], s[i])
    BY <1>7, Zenon
  <2>2. 0 \in 0 .. l /\ \A i \in 1 .. l : i \in 0 .. l /\ i # 0
    BY <1>1
  <2> QED BY <2>1, <2>2, Zenon
<1> HIDE DEF Runs
<1>9. 0 \in 0 .. l /\ l \in 0 .. l /\ 0 + 1 = 1
  BY <1>1
<1>10. \A i \in 0 .. l : name[i] \in Tails
  <2>1. \A i \in 0 + 1 .. l : name[i - 1] \in Tails => name[i] \in Tails
    BY <1>8, <1>9, BesideFacts
  <2>2. name[0] \in Tails
    BY <1>8
  <2> QED BY <2>1, <2>2, <1>1, <1>9, StepsKeep
<1>11. ASSUME \A i \in 1 .. l : n = NoName \/ ~(Is(s, i, "short") /\ s[i].short = n)
       PROVE  name[l] = n
  <2>1. \A i \in 0 + 1 .. l : name[i - 1] \in {n} => name[i] \in {n}
    <3> SUFFICES ASSUME NEW i \in 1 .. l, name[i - 1] = n PROVE name[i] = n
      BY <1>9
    <3>1. name[i] = Beside(n, s[i])
      BY <1>8
    <3> QED BY <3>1, <1>11, BesideFacts DEF Is
  <2>2. name[0] \in {n}
    BY <1>8
  <2>3. \A i \in 0 .. l : name[i] \in {n}
    BY <2>1, <2>2, <1>1, <1>9, StepsKeep
  <2> QED BY <2>3, <1>9
<1>12. ASSUME n # NoName, NEW i \in 1 .. l, Is(s, i, "short"), s[i].short = n
       PROVE  Later(n, name[l])
  <2> DEFINE R == {m \in Tails : m = n \/ Later(n, m)}
             Q == {m \in Tails : Later(n, m)}
  <2>1. \A j \in 1 .. l : j - 1 \in 0 .. l /\ j \in 0 .. l
    BY <1>1
  <2>2. \A j \in 0 + 1 .. l : name[j - 1] \in R => name[j] \in R
    <3> SUFFICES ASSUME NEW j \in 1 .. l, name[j - 1] \in R PROVE name[j] \in R
      BY <1>9
    <3>1. name[j] \in Tails /\ name[j - 1] \in Tails
      BY <1>10, <2>1
    <3>2. name[j] = name[j - 1] \/ (name[j - 1] # NoName /\ Later(name[j - 1], name[j]))
      BY <1>8, <3>1, BesideFacts
    <3>3. CASE name[j - 1] = n
      BY <3>1, <3>2, <3>3
    <3>4. CASE Later(n, name[j - 1])
      <4>1. Later(n, name[j])
        BY <3>1, <3>2, <3>4, <1>12, LaterStep
      <4> QED BY <4>1, <3>1
    <3> QED BY <3>3, <3>4
  <2>3. name[0] \in R
    BY <1>8
  <2>4. \A j \in 0 .. l : name[j] \in R
    <3> HIDE DEF R
    <3> QED BY <2>2, <2>3, <1>1, <1>9, StepsKeep
  <2>5. name[i] \in Q
    <3>1. name[i - 1] \in R /\ name[i] = Beside(name[i - 1], s[i]) /\ name[i] \in Tails
          /\ name[i - 1] \in Tails
      BY <2>1, <2>4, <1>8, <1>10
    <3>2. CASE name[i - 1] = n
      <4>1. Later(n, name[i])
        BY <3>1, <3>2, <1>12, BesideFacts DEF Is
      <4> QED BY <4>1, <3>1
    <3>3. CASE Later(n, name[i - 1])
      <4>1. name[i] = name[i - 1] \/ (name[i - 1] # NoName /\ Later(name[i - 1], name[i]))
        BY <3>1, BesideFacts
      <4>2. Later(n, name[i])
        BY <3>1, <3>3, <4>1, <1>12, LaterStep
      <4> QED BY <4>2, <3>1
    <3> QED BY <3>1, <3>2, <3>3
  <2>6. \A j \in i + 1 .. l : name[j - 1] \in Q => name[j] \in Q
    <3> SUFFICES ASSUME NEW j \in i + 1 .. l, name[j - 1] \in Q PROVE name[j] \in Q
      OBVIOUS
    <3>1. j \in 1 .. l
      BY <1>1
    <3>2. name[j] \in Tails /\ name[j - 1] \in Tails
      BY <1>10, <2>1, <3>1
    <3>3. name[j] = name[j - 1] \/ (name[j - 1] # NoName /\ Later(name[j - 1], name[j]))
      BY <1>8, <3>1, <3>2, BesideFacts
    <3>4. Later(n, name[j])
      BY <3>2, <3>3, <1>12, LaterStep
    <3> QED BY <3>2, <3>4
  <2>7. i \in 0 .. l /\ l \in i .. l
    BY <1>1
  <2>8. \A j \in i .. l : name[j] \in Q
    <3> HIDE DEF Q
    <3> QED BY <2>5, <2>6, <2>7, <1>1, StepsKeep
  <2> QED BY <2>7, <2>8
<1>13. name[l] \in Tails
  BY <1>9, <1>10
<1> QED BY <1>2, <1>11, <1>12, <1>13, Zenon DEF l

\* The entries whose names are behind the tail m.
Behind(s, m) ==
    {i \in 1 .. Len(s) : Is(s, i, "short") /\ Tailed(s[i].short) /\ After(s[i].short, m)}

Taken(s, m) == \E i \in 1 .. Len(s) : Is(s, i, "short") /\ s[i].short = m

\* A tail that an entry has is taken on by a pass, and leaves that entry behind.
LEMMA OneBehind ==
    ASSUME NEW s, Len(s) \in Nat, NEW m \in Tails, m # NoName, Taken(s, m),
           NEW k \in Tails, k # NoName, Later(m, k)
    PROVE  /\ IsFiniteSet(Behind(s, m)) /\ IsFiniteSet(Behind(s, k))
           /\ Cardinality(Behind(s, k)) >= Cardinality(Behind(s, m)) + 1
<1> DEFINE A == Behind(s, m)
           B == Behind(s, k)
<1>1. IsFiniteSet(1 .. Len(s))
  BY FS_Interval
<1>2. A \in SUBSET (1 .. Len(s)) /\ B \in SUBSET (1 .. Len(s))
  BY DEF Behind
<1>3. Tailed(m) /\ Tailed(k) /\ After(m, k)
  BY DEF Tails, Later
<1>4. PICK i \in 1 .. Len(s) : Is(s, i, "short") /\ s[i].short = m
  BY DEF Taken
<1>5. i \notin A /\ i \in B
  BY <1>3, <1>4, AfterOrder DEF Behind
<1>6. A \cup {i} \subseteq B
  BY <1>3, <1>5, AfterOrder DEF Behind
<1> HIDE DEF A, B
<1>7. IsFiniteSet(A) /\ IsFiniteSet(B)
  BY <1>1, <1>2, FS_Subset
<1>8. IsFiniteSet(A \cup {i}) /\ Cardinality(A \cup {i}) = Cardinality(A) + 1
  BY <1>5, <1>7, FS_AddElement
<1>9. Cardinality(A \cup {i}) <= Cardinality(B)
  BY <1>6, <1>7, FS_Subset
<1>10. Cardinality(A) \in Nat /\ Cardinality(B) \in Nat
  BY <1>7, FS_CardinalityType
<1> QED BY <1>7, <1>8, <1>9, <1>10 DEF A, B

\* As many passes as there are entries find a tail that no entry has, or run out of
\* tails: each pass that goes on leaves one more entry behind.
LEMMA AliasFresh ==
    ASSUME NEW s, Len(s) \in Nat, NEW n \in Tails
    PROVE  LET r == checkNumericTail(s, n)
           IN  /\ n = NoName => r = NoName
               /\ r # NoName => ~Taken(s, r)
<1> DEFINE l == Len(s)
           step == [p \in Tails \X (1 .. l) |-> TailPass(s, p[1])]
           Runs(f) == f = [i \in 0 .. l |-> IF i = 0 THEN n ELSE TailPass(s, f[i - 1])]
           name == CHOOSE f : Runs(f)
           r == checkNumericTail(s, n)
<1>1. l \in Nat
  OBVIOUS
<1>2. r = name[l]
  BY Zenon DEF checkNumericTail
<1>3. \A m \in Tails : /\ TailPass(s, m) \in Tails
                       /\ m = NoName => TailPass(s, m) = NoName
                       /\ m # NoName => IF Taken(s, m) THEN Later(m, TailPass(s, m))
                                                       ELSE TailPass(s, m) = m
  BY PassFacts DEF Taken
<1> HIDE DEF l, r
<1>4. step \in [Tails \X (1 .. l) -> Tails]
  BY <1>3
<1>5. PICK f : Steps(f, l, Tails, n, step)
  <2> HIDE DEF step
  <2> QED BY <1>1, <1>4, StepsExist
<1>6. f \in [0 .. l -> Tails] /\ f[0] = n /\ \A i \in 1 .. l : f[i] = step[<<f[i - 1], i>>]
  BY <1>5, Zenon DEF Steps
<1>7. Runs(f)
  <2>1. ASSUME NEW i \in 0 .. l PROVE f[i] = IF i = 0 THEN n ELSE TailPass(s, f[i - 1])
    <3>1. CASE i = 0
      BY <3>1, <1>6
    <3>2. CASE i # 0
      <4>1. i \in 1 .. l /\ i - 1 \in 0 .. l
        BY <3>2, <1>1
      <4>2. f[i - 1] \in Tails
        BY <4>1, <1>6
      <4> QED BY <3>2, <4>1, <4>2, <1>6
    <3> QED BY <3>1, <3>2
  <2>2. f = [i \in 0 .. l |-> f[i]]
    BY <1>6
  <2> QED BY <2>1, <2>2, Zenon
<1>8. Runs(name)
  BY <1>7, Zenon
<1> HIDE DEF name, step
<1>9. name[0] = n /\ \A i \in 1 .. l : name[i] = TailPass(s, name[i - 1])
  <2>1. \A i \in 0 .. l : name[i] = IF i = 0 THEN n ELSE TailPass(s, name[i - 1])
    BY <1>8, Zenon
  <2>2. 0 \in 0 .. l /\ \A i \in 1 .. l : i \in 0 .. l /\ i # 0
    BY <1>1
  <2> QED BY <2>1, <2>2, Zenon
<1> HIDE DEF Runs
<1>10. 0 \in 0 .. l /\ l \in 0 .. l /\ 0 + 1 = 1
  BY <1>1
<1>11. \A i \in 0 .. l : name[i] \in Tails
  <2>1. \A i \in 0 + 1 .. l : name[i - 1] \in Tails => name[i] \in Tails
    BY <1>3, <1>9, <1>10
  <2>2. name[0] \in Tails
    BY <1>9
  <2> QED BY <2>1, <2>2, <1>1, <1>10, StepsKeep
<1> DEFINE Past(k) == \/ name[k] = NoName
                      \/ ~Taken(s, name[k])
                      \/ Cardinality(Behind(s, name[k])) >= k
           S == {k \in Nat : k <= l => Past(k)}
<1>12. \A m : IsFiniteSet(Behind(s, m)) /\ Cardinality(Behind(s, m)) \in Nat
              /\ Behind(s, m) \subseteq 1 .. l
  <2> SUFFICES ASSUME NEW m
               PROVE  IsFiniteSet(Behind(s, m)) /\ Cardinality(Behind(s, m)) \in Nat
                      /\ Behind(s, m) \subseteq 1 .. l
    OBVIOUS
  <2>1. Behind(s, m) \in SUBSET (1 .. l)
    BY DEF Behind, l
  <2>2. IsFiniteSet(1 .. l)
    BY <1>1, FS_Interval
  <2>3. IsFiniteSet(Behind(s, m))
    BY <2>1, <2>2, FS_Subset
  <2> QED BY <2>1, <2>3, FS_CardinalityType
<1>13. 0 \in S
  BY <1>12
<1>14. ASSUME NEW k \in Nat, k \in S PROVE k + 1 \in S
  <2> SUFFICES ASSUME k + 1 <= l PROVE Past(k + 1)
    OBVIOUS
  <2>1. k + 1 \in 1 .. l /\ (k + 1) - 1 = k /\ k \in 0 .. l /\ k + 1 \in 0 .. l
    BY <1>1
  <2>2. Past(k)
    BY <1>14, <2>1
  <2>3. name[k + 1] = TailPass(s, name[k]) /\ name[k] \in Tails /\ name[k + 1] \in Tails
    BY <2>1, <1>9, <1>11
  <2> DEFINE m == name[k]
             q == name[k + 1]
  <2>4. m \in Tails /\ q \in Tails /\ q = TailPass(s, m)
    BY <2>3
  <2>5. m = NoName \/ ~Taken(s, m) \/ Cardinality(Behind(s, m)) >= k
    BY <2>2
  <2> HIDE DEF m, q
  <2>6. q = NoName \/ ~Taken(s, q) \/ Cardinality(Behind(s, q)) >= k + 1
    <3>1. CASE m = NoName
      BY <3>1, <2>4, <1>3
    <3>2. CASE m # NoName /\ ~Taken(s, m)
      <4>1. q = m
        BY <3>2, <2>4, <1>3
      <4> QED BY <3>2, <4>1
    <3>3. CASE m # NoName /\ Taken(s, m) /\ q # NoName
      <4>1. Later(m, q)
        BY <3>3, <2>4, <1>3
      <4>2. Cardinality(Behind(s, q)) >= Cardinality(Behind(s, m)) + 1
        BY <3>3, <4>1, <2>4, OneBehind
      <4>3. Cardinality(Behind(s, q)) \in Nat /\ Cardinality(Behind(s, m)) \in Nat
        BY <1>12
      <4> QED BY <3>3, <4>2, <4>3, <2>5
    <3> QED BY <3>1, <3>2, <3>3
  <2> QED BY <2>6 DEF m, q
<1>15. Past(l)
  <2>1. Nat \subseteq S
    <3> HIDE DEF S
    <3> QED BY <1>13, <1>14, SetInduction
  <2> QED BY <2>1, <1>1
<1>16. r \in Tails
  BY <1>2, <1>10, <1>11
<1>17. ASSUME r # NoName PROVE ~Taken(s, r)
  <2> SUFFICES ASSUME Taken(s, r) PROVE FALSE
    OBVIOUS
  <2>1. Cardinality(Behind(s, r)) >= l
    BY <1>2, <1>15, <1>17
  <2>2. Cardinality(1 .. l) = l /\ IsFiniteSet(1 .. l)
    BY <1>1, FS_Interval
  <2>3. Behind(s, r) \in SUBSET (1 .. l)
    BY <1>12
  <2>4. Cardinality(Behind(s, r)) <= Cardinality(1 .. l)
    BY <2>2, <2>3, FS_Subset
  <2>5. Cardinality(Behind(s, r)) = Cardinality(1 .. l)
    BY <2>1, <2>2, <2>4, <1>1, <1>12
  <2>6. Behind(s, r) = 1 .. l
    BY <2>2, <2>3, <2>5, FS_Subset
  <2>7. PICK i \in 1 .. l : Is(s, i, "short") /\ s[i].short = r
    BY DEF Taken, l
  <2>8. i \in Behind(s, r)
    BY <2>6
  <2>9. Tailed(r) /\ After(r, r)
    BY <2>7, <2>8 DEF Behind
  <2> QED BY <2>9, AfterOrder
<1>18. n = NoName => r = NoName
  <2> SUFFICES ASSUME n = NoName PROVE r = NoName
    OBVIOUS
  <2>1. \A i \in 0 + 1 .. l : name[i - 1] \in {NoName} => name[i] \in {NoName}
    <3>1. NoName \in Tails
      BY DEF Tails
    <3> QED BY <3>1, <1>3, <1>9, <1>10
  <2>2. name[0] \in {NoName}
    BY <1>9
  <2>3. \A i \in 0 .. l : name[i] \in {NoName}
    BY <2>1, <2>2, <1>1, <1>10, StepsKeep
  <2> QED BY <2>3, <1>2, <1>10
<1> QED BY <1>17, <1>18 DEF r

-------------------------------------------------------------------------------
\* No two short entries have the same name or are of the same file.
Distinct(s) ==
    \A i, j \in 1 .. Len(s) :
        Is(s, i, "short") /\ Is(s, j, "short")
        /\ (s[i].short = s[j].short \/ s[i].id = s[j].id) => i = j

\* The short entries of u are entries of s, and perhaps the one at e.
OneMore(s, u, e, short, id) ==
    \A i \in 1 .. Len(u) :
        Is(u, i, "short") =>
            \/ i # e /\ i \in 1 .. Len(s) /\ u[i] = s[i]
            \/ i = e /\ u[i].short = short /\ u[i].id = id

Fewer(s, u) ==
    \A i \in 1 .. Len(u) : Is(u, i, "short") => i \in 1 .. Len(s) /\ u[i] = s[i]

\* No entry of s but the one at e has this name or is of this file.
Fresh(s, e, short, id) ==
    \A j \in 1 .. Len(s) :
        Is(s, j, "short") /\ j # e => s[j].short # short /\ s[j].id # id

\* An entry may come in or change when its name and its file are new.
LEMMA DistinctMore ==
    ASSUME NEW s, Distinct(s), NEW u, NEW e, NEW short, NEW id,
           OneMore(s, u, e, short, id), Fresh(s, e, short, id)
    PROVE  Distinct(u)
  BY DEF Distinct, OneMore, Fresh, Is

\* Entries may go.
LEMMA DistinctFewer ==
    ASSUME NEW s, Distinct(s), NEW u, Fewer(s, u)
    PROVE  Distinct(u)
  BY DEF Distinct, Fewer, Is

\* Free slots and deleted ones bring no entry.
LEMMA FewerFacts ==
    /\ \A s, t : Shaped(s) /\ Longer(s, t) => Fewer(s, t)
    /\ \A s : \A a, b : Shaped(s) => Fewer(s, Without(s, a, b))
    /\ \A s, t, u : Fewer(s, t) /\ Fewer(t, u) => Fewer(s, u)
    /\ \A s, t : \A n : Fewer(s, t) /\ ~Taken(s, n) => ~Taken(t, n)
    /\ \A s, t : \A e, n, id : Fewer(s, t) /\ Fresh(s, e, n, id) => Fresh(t, e, n, id)
<1>1. ASSUME NEW s, NEW t, Shaped(s), Longer(s, t) PROVE Fewer(s, t)
  <2> SUFFICES ASSUME NEW i \in 1 .. Len(t), Is(t, i, "short")
               PROVE  i \in 1 .. Len(s) /\ t[i] = s[i]
    BY DEF Fewer
  <2>1. Len(s) \in Nat /\ Len(t) \in Nat
    BY <1>1 DEF Shaped, Longer
  <2>2. CASE i \in Len(s) + 1 .. Len(t)
    <3>1. t[i] = End
      BY <1>1, <2>2 DEF Longer
    <3> QED BY <3>1, Kinds DEF Is
  <2>3. CASE i \in 1 .. Len(s)
    BY <1>1, <2>3 DEF Longer
  <2> QED BY <2>1, <2>2, <2>3
<1>2. ASSUME NEW s, NEW a, NEW b, Shaped(s) PROVE Fewer(s, Without(s, a, b))
  <2> DEFINE t == Without(s, a, b)
  <2>1. Len(t) = Len(s) /\ \A i \in 1 .. Len(s) : t[i] = IF i \in a .. b THEN Deleted ELSE s[i]
    BY <1>2, WithoutShape
  <2> HIDE DEF t
  <2>2. \A i \in 1 .. Len(t) : Is(t, i, "short") => i \in 1 .. Len(s) /\ t[i] = s[i]
    BY <2>1, Kinds DEF Is
  <2> QED BY <2>2 DEF Fewer, t
<1>3. ASSUME NEW s, NEW t, NEW u, Fewer(s, t), Fewer(t, u) PROVE Fewer(s, u)
  BY <1>3 DEF Fewer, Is
<1>4. ASSUME NEW s, NEW t, NEW n, Fewer(s, t), ~Taken(s, n) PROVE ~Taken(t, n)
  BY <1>4 DEF Fewer, Taken, Is
<1>5. ASSUME NEW s, NEW t, NEW e, NEW n, NEW id, Fewer(s, t), Fresh(s, e, n, id)
      PROVE  Fresh(t, e, n, id)
  BY <1>5 DEF Fewer, Fresh, Is
<1> QED BY <1>1, <1>2, <1>3, <1>4, <1>5, Zenon

\* A name that is placed is one entry more.
LEMMA PlacedOne ==
    ASSUME NEW s, Shaped(s), NEW fix, NEW u, NEW long, NEW short, NEW id, NEW attr,
           Placed(s, fix, u, long, short, id, attr)
    PROVE  \E e : OneMore(s, u, e, short, id)
                  /\ \A j \in 1 .. Len(s) : Is(s, j, "short") => j # e
<1>1. PICK t, at, new :
          /\ Sound(t) /\ Longer(s, t)
          /\ NewRun(new, long, short) /\ new[Len(new)] = Entry(short, id, attr)
          /\ Room(t, at, Len(new))
          /\ u = Put(t, at, new)
  BY Zenon DEF Placed
<1> DEFINE q == Pieces(long)
           e == at + q
<1>2. q \in Nat /\ Len(new) = q + 1 /\ at \in Nat \ {0} /\ at + q <= Len(t) /\ Len(t) \in Nat
      /\ Shaped(t) /\ Len(s) \in Nat /\ Len(s) <= Len(t)
  <2>1. q \in Nat
    BY <1>1, PiecesCount DEF NewRun
  <2>2. Len(new) = q + 1 /\ at \in Nat \ {0} /\ at + Len(new) - 1 <= Len(t)
    BY <1>1 DEF NewRun, Room
  <2>3. Len(t) \in Nat /\ Shaped(t) /\ Len(s) \in Nat /\ Len(s) <= Len(t)
    BY <1>1 DEF Sound, Shaped, Longer
  <2> HIDE DEF q
  <2> QED BY <2>1, <2>2, <2>3
<1>3. /\ \A i \in 1 .. q : new[i] = Piece(q + 1 - i, i = 1, long, generateChecksum(short))
      /\ \A i \in 1 .. Len(new) : IsSlot(new[i])
      /\ \A i \in at .. at + Len(new) - 1 : t[i].is \in {"end", "deleted"}
  BY <1>1 DEF NewRun, Room
<1> HIDE DEF q
<1>4. Len(u) = Len(t) /\ \A i \in 1 .. Len(t) :
         u[i] = IF i \in at .. at + Len(new) - 1 THEN new[i - at + 1] ELSE t[i]
  <2>1. Shaped(t) /\ at \in Nat \ {0} /\ Len(new) \in Nat /\ \A i \in 1 .. Len(new) : IsSlot(new[i])
    BY <1>2, <1>3
  <2>2. /\ Len(Put(t, at, new)) = Len(t)
        /\ \A i \in 1 .. Len(t) :
              Put(t, at, new)[i] = IF i \in at .. at + Len(new) - 1 THEN new[i - at + 1] ELSE t[i]
    <3> HIDE DEF e
    <3> QED BY <2>1, PutShape
  <2> QED BY <1>1, <2>2
<1>5. Fewer(s, t)
  BY <1>1, FewerFacts
<1>6. ASSUME NEW i \in 1 .. Len(u), Is(u, i, "short")
      PROVE  \/ i # e /\ i \in 1 .. Len(s) /\ u[i] = s[i]
             \/ i = e /\ u[i].short = short /\ u[i].id = id
  <2>1. CASE i \in at .. at + q - 1
    <3>1. i - at + 1 \in 1 .. q /\ i \in at .. at + Len(new) - 1
      BY <2>1, <1>2
    <3>2. u[i] = new[i - at + 1]
      BY <3>1, <1>4
    <3>3. u[i].is = "lfn"
      BY <3>1, <3>2, <1>3, Kinds
    <3> QED BY <3>3, <1>6 DEF Is
  <2>2. CASE i = e
    <3>1. i - at + 1 = Len(new) /\ i \in at .. at + Len(new) - 1
      BY <2>2, <1>2
    <3>2. u[i] = Entry(short, id, attr)
      BY <3>1, <1>1, <1>4
    <3> QED BY <2>2, <3>2, Kinds
  <2>3. CASE i \notin at .. at + q
    <3>1. u[i] = t[i] /\ i # e
      BY <2>3, <1>2, <1>4
    <3>2. i \in 1 .. Len(s) /\ t[i] = s[i]
      BY <3>1, <1>4, <1>5, <1>6 DEF Fewer, Is
    <3> QED BY <3>1, <3>2
  <2> QED BY <2>1, <2>2, <2>3, <1>2
<1>7. OneMore(s, u, e, short, id)
  <2> HIDE DEF e
  <2> QED BY <1>6 DEF OneMore
<1>8. ASSUME NEW j \in 1 .. Len(s), Is(s, j, "short") PROVE j # e
  <2> SUFFICES ASSUME j = e PROVE FALSE
    OBVIOUS
  <2>1. t[j] = s[j]
    BY <1>1 DEF Longer
  <2>2. j \in at .. at + Len(new) - 1
    BY <1>2
  <2> QED BY <2>1, <2>2, <1>3, <1>8 DEF Is
<1> QED BY <1>7, <1>8

\* No entry of s has this name or is of this file.
NewName(s, short, id) ==
    \A j \in 1 .. Len(s) : Is(s, j, "short") => s[j].short # short /\ s[j].id # id

\* A new name may be placed.
LEMMA PlacedDistinct ==
    ASSUME NEW s, Shaped(s), Distinct(s), NEW fix, NEW u, NEW long, NEW short, NEW id,
           NEW attr, Placed(s, fix, u, long, short, id, attr), NewName(s, short, id)
    PROVE  Distinct(u)
<1>1. PICK e : OneMore(s, u, e, short, id)
  BY PlacedOne
<1>2. Fresh(s, e, short, id)
  BY DEF NewName, Fresh
<1> QED BY <1>1, <1>2, DistinctMore

\* The alias createLFNs takes is no entry's.
LEMMA AliasNew ==
    ASSUME NEW s, Shaped(s), NEW t, Longer(s, t), NEW long \in Seq(Nat), NEW short,
           short # NoName => ~Taken(s, short), AliasOf(s, t, long, short) # NoName
    PROVE  ~Taken(s, AliasOf(s, t, long, short))
<1> DEFINE first == generate83Name(long)
           passed == TailPass(s, first)
           alias == checkNumericTail(t, passed)
<1>1. CASE short # NoName
  BY <1>1 DEF AliasOf
<1>2. CASE short = NoName
  <2>1. AliasOf(s, t, long, short) = alias
    BY <1>2, Zenon DEF AliasOf
  <2>2. Tailed(first)
    BY GeneratedTailed
  <2> HIDE DEF first
  <2>3. first \in Tails /\ Len(s) \in Nat /\ Len(t) \in Nat
    BY <2>2 DEF Tails, Tailed, Shaped, Longer
  <2>4. passed \in Tails
    BY <2>3, PassFacts
  <2> HIDE DEF passed
  <2>5. alias # NoName => ~Taken(t, alias)
    BY <2>3, <2>4, AliasFresh
  <2> HIDE DEF alias
  <2>6. ~Taken(t, alias)
    BY <2>1, <2>5
  <2>7. ~Taken(s, alias)
    BY <2>6 DEF Taken, Longer, Is, Shaped
  <2> QED BY <2>1, <2>7
<1> QED BY <1>1, <1>2

-------------------------------------------------------------------------------
\* No entry of s is of the file id.
Unused(s, id) == \A j \in 1 .. Len(s) : Is(s, j, "short") => s[j].id # id

\* A name that could not be placed leaves no entry.
LEMMA NotMadeFewer ==
    ASSUME NEW s, Shaped(s), NEW n, NEW id, NEW attr, NEW p, NEW c,
           EntryMade(s, n, id, attr, p, c), ~c.ok
    PROVE  Fewer(s, c.slots)
<1>1. Lengthened(s, fixed, c.slots)
  BY Zenon DEF EntryMade
<1> QED BY <1>1, FewerFacts DEF Lengthened

\* The entry for a name that no entry has, and of a new file, is one more.
LEMMA EntryMadeDistinct ==
    ASSUME NEW s, Shaped(s), Distinct(s), NEW n, n.word \in Seq(Nat), NEW id, NEW attr, NEW p,
           NEW c, EntryMade(s, n, id, attr, p, c), c.ok,
           ~n.lfn => ~Taken(s, n.search), Unused(s, id)
    PROVE  Distinct(c.slots)
<1>1. ASSUME NEW long, NEW short, Placed(s, fixed, c.slots, long, short, id, attr),
             ~Taken(s, short)
      PROVE  Distinct(c.slots)
  <2>1. NewName(s, short, id)
    BY <1>1 DEF NewName, Unused, Taken
  <2> QED BY <1>1, <2>1, PlacedDistinct
<1>2. CASE c.slots = s
  BY <1>2
<1> DEFINE own == IF n.lfn THEN NoName ELSE n.search
<1>3. ASSUME NEW t, Lengthened(s, fixed, t), AliasOf(s, t, n.word, own) # NoName,
             Placed(s, fixed, c.slots, n.word, AliasOf(s, t, n.word, own), id, attr)
      PROVE  Distinct(c.slots)
  <2>1. own # NoName => ~Taken(s, own)
    OBVIOUS
  <2> HIDE DEF own
  <2>2. ~Taken(s, AliasOf(s, t, n.word, own))
    BY <1>3, <2>1, AliasNew DEF Lengthened
  <2> QED BY <1>1, <1>3, <2>2
<1>4. CASE n.lfn \/ n.lower
  <2>1. \/ c.slots = s
        \/ \E t : /\ Lengthened(s, fixed, t) /\ AliasOf(s, t, n.word, own) # NoName
                  /\ Placed(s, fixed, c.slots, n.word, AliasOf(s, t, n.word, own), id, attr)
    BY <1>4, Zenon DEF EntryMade
  <2> HIDE DEF own
  <2> QED BY <2>1, <1>2, <1>3
<1>5. CASE ~(n.lfn \/ n.lower)
  <2>1. c.slots = s \/ Placed(s, fixed, c.slots, NoName, n.search, id, attr)
    BY <1>5, Zenon DEF EntryMade
  <2> QED BY <2>1, <1>1, <1>2, <1>5
<1> QED BY <1>4, <1>5

\* An entry may get other attributes and, if no other entry has it, another name.
LEMMA ChangedDistinct ==
    ASSUME NEW s, Sound(s), Distinct(s), NEW i \in 1 .. Len(s), Is(s, i, "short"),
           NEW short, NEW attr \in AnyAttribute, s[i].id \in Id,
           short = s[i].short \/ (~HasLong(s, i) /\ ~Taken(s, short))
    PROVE  Distinct(Changed(s, i, short, s[i].id, attr))
<1> DEFINE u == Changed(s, i, short, s[i].id, attr)
           id == s[i].id
<1>1. /\ Len(u) = Len(s)
      /\ \A j \in 1 .. Len(s) : u[j] = IF j = i THEN Entry(short, id, attr) ELSE s[j]
  BY ChangedSound
<1>2. Fresh(s, i, short, id)
  BY DEF Fresh, Distinct, Taken
<1> HIDE DEF u, id
<1>3. OneMore(s, u, i, short, id)
  BY <1>1, Kinds DEF OneMore, Is
<1>4. Distinct(u)
  BY <1>2, <1>3, DistinctMore
<1> QED BY <1>4 DEF u, id

-------------------------------------------------------------------------------
\* An entry with the checksum of the pieces read last has them right in front of it:
\* no other entry's checksum is that of a run of pieces somewhere in front.
ReadsOwn(s) ==
    \A i \in 1 .. Len(s) : Is(s, i, "short") /\ HasLong(s, i) => LastPiece(s, i) = i - 1

ReadsOwnPieces == ReadsOwn(slots)

\* What deleteLFNs deletes then ends with the entry that was found.
LEMMA EntryDeleted ==
    ASSUME NEW s, Sound(s), ReadsOwn(s), NEW n, NEW p, FoundAt(s, n, p)
    PROVE  /\ Fewer(s, deleteLFNs(s, p))
           /\ Len(deleteLFNs(s, p)) = Len(s) /\ deleteLFNs(s, p)[p.at] = Deleted
<1> DEFINE last == p.run + Pieces(p.long)
           t == deleteLFNs(s, p)
<1>1. Shaped(s) /\ Len(s) \in Nat /\ p.at \in 1 .. Len(s) /\ Is(s, p.at, "short")
  BY DEF Sound, Shaped, FoundAt, Matches
<1>2. t = Without(s, p.run, last)
  BY Zenon DEF deleteLFNs, Without
<1>3. p.at \in p.run .. last
  <2>1. CASE HasLong(s, p.at)
    <3> DEFINE k == LastPiece(s, p.at)
               q == Pieces(s[k].long)
    <3>1. k = p.at - 1
      BY <2>1, <1>1 DEF ReadsOwn
    <3>2. k + 1 - q \in 1 .. k /\ RunStart(s, p.at) = k + 1 - q
      <4>1. LET l == LastPiece(s, p.at)
                a == l + 1 - Pieces(s[l].long)
            IN  a \in 1 .. l /\ RunStart(s, p.at) = a
        BY <2>1, <1>1, FoundRun
      <4> QED BY <4>1, Zenon
    <3>3. p.run = RunStart(s, p.at) /\ p.long = s[k].long
      BY <2>1 DEF FoundAt
    <3>4. s[k].long \in Seq(Nat)
      BY <2>1, <1>1, LongOfPiece
    <3>5. q \in Nat
      BY <3>4, PiecesCount
    <3>6. last = p.run + q
      BY <3>3
    <3>7. p.run = k + 1 - q
      BY <3>2, <3>3
    <3> HIDE DEF k, q, last
    <3> QED BY <3>1, <3>5, <3>6, <3>7, <1>1
  <2>2. CASE ~HasLong(s, p.at)
    <3>1. p.run = p.at /\ Pieces(p.long) = 0
      BY <2>2, PiecesCount DEF FoundAt
    <3> QED BY <3>1, <1>1
  <2> QED BY <2>1, <2>2
<1> HIDE DEF last, t
<1>4. Len(t) = Len(s) /\ t[p.at] = Deleted
  BY <1>1, <1>2, <1>3, WithoutShape
<1>5. Fewer(s, t)
  BY <1>1, <1>2, FewerFacts
<1> QED BY <1>4, <1>5 DEF t

\* The name and the file of an entry that is deleted may be used again.
LEMMA DeletedFree ==
    ASSUME NEW s, Distinct(s), NEW t, Fewer(s, t), NEW i \in 1 .. Len(s), Is(s, i, "short"),
           t[i] = Deleted
    PROVE  ~Taken(t, s[i].short) /\ Unused(t, s[i].id)
<1>1. ~Is(t, i, "short")
  BY Kinds DEF Is
<1>2. ASSUME NEW j \in 1 .. Len(t), Is(t, j, "short")
      PROVE  t[j].short # s[i].short /\ t[j].id # s[i].id
  <2>1. j # i /\ j \in 1 .. Len(s) /\ t[j] = s[j] /\ Is(s, j, "short")
    BY <1>1, <1>2 DEF Fewer, Is
  <2> QED BY <2>1 DEF Distinct
<1> QED BY <1>2 DEF Taken, Unused

-------------------------------------------------------------------------------
\* Of a name, only an 8.3 name is one in small letters.
LEMMA NameFields ==
    ASSUME NEW n \in Name
    PROVE  /\ n.lower => ~n.lfn
           /\ LET m == [n EXCEPT !.lower = FALSE]
              IN  /\ m.word = n.word /\ m.lfn = n.lfn /\ m.search = n.search /\ ~m.lower
<1>1. PICK w \in Word : n = fatNextSearch(w)
  BY DEF Name
<1>2. PICK a, d : n = [word |-> a, lfn |-> isLFN(w), lower |-> ~isLFN(w) /\ Upper(w) # w,
                       search |-> d]
  BY <1>1 DEF fatNextSearch
<1>3. n.lower => ~n.lfn
  BY <1>2
<1> QED BY <1>2, <1>3

\* The directory has no two entries of a name or a file, and files is what is on it.
OneEach == Distinct(slots) /\ files = FilesOn(slots)

\* What a call writes back is what files are read from.
LEMMA LeavesOneEach ==
    ASSUME NEW u, NEW result, Leaves(u, result), Distinct(u)
    PROVE  OneEach'
<1>1. slots' = u /\ files' = FilesOn(u)
  BY DEF Leaves
<1>2. Distinct(slots') /\ files' = FilesOn(slots')
  BY <1>1
<1> QED BY <1>2 DEF OneEach, Distinct, FilesOn, Where, LongAt, Is

\* An 8.3 name no entry matches is no entry's.
LEMMA NotTaken ==
    ASSUME NEW s, NEW n, ~n.lfn, \A i \in 1 .. Len(s) : ~Matches(s, i, n)
    PROVE  ~Taken(s, n.search)
  BY DEF Matches, Taken

\* A new name is another one.
LEMMA AddNameOneEach ==
    ASSUME PiecesInv, OneEach, NEW n \in Name, NEW attr \in AnyAttribute, AddName(n, attr)
    PROVE  OneEach'
<1>1. \A i \in 1 .. Len(slots) : ~Matches(slots, i, n)
  BY AddNameFacts
<1>2. PICK id \in Id : Added(n, id, attr)
  BY AddNameFacts
<1>3. PICK ext, p, c :
        /\ Lengthened(slots, fixed, ext)
        /\ EntryMade(ext, n, id, attr, p, c)
        /\ Leaves(c.slots, IF c.ok THEN id ELSE D!NoSpace)
        /\ c.ok => id \in FreshIds
  BY <1>2, Zenon DEF Added
<1>4. Shaped(slots) /\ DOMAIN slots = 1 .. Len(slots) /\ Distinct(slots)
  BY SlotsDomain DEF PiecesInv, Sound, OneEach
<1>5. Fewer(slots, ext) /\ Shaped(ext)
  BY <1>3, <1>4, FewerFacts DEF Lengthened, Sound
<1>6. Distinct(ext)
  BY <1>4, <1>5, DistinctFewer
<1>7. CASE ~c.ok
  <2>1. Fewer(ext, c.slots)
    BY <1>3, <1>5, <1>7, NotMadeFewer
  <2>2. Distinct(c.slots)
    BY <2>1, <1>6, DistinctFewer
  <2> QED BY <2>2, <1>3, LeavesOneEach
<1>8. CASE c.ok
  <2>1. Unused(slots, id)
    BY <1>3, <1>4, <1>8 DEF Unused, FreshIds, Where
  <2>2. Unused(ext, id)
    BY <2>1, <1>5 DEF Unused, Fewer, Is
  <2>3. ~n.lfn => ~Taken(ext, n.search)
    BY <1>1, <1>5, NotTaken, FewerFacts
  <2>4. n.word \in Seq(Nat)
    BY Names
  <2>5. Distinct(c.slots)
    BY <2>2, <2>3, <2>4, <1>3, <1>5, <1>6, <1>8, EntryMadeDistinct
  <2> QED BY <2>5, <1>3, LeavesOneEach
<1> QED BY <1>7, <1>8

\* Attributes are not names.
LEMMA AttributesOneEach ==
    ASSUME PiecesInv, OneEach, NEW n, Position(n).result = "found", Position(n).at # 0,
           NEW attr \in AnyAttribute,
           Leaves([slots EXCEPT ![Position(n).at].attr = attr], slots[Position(n).at].id)
    PROVE  OneEach'
<1> DEFINE i == Position(n).at
           u == [slots EXCEPT ![i].attr = attr]
<1>1. i \in 1 .. Len(slots) /\ Is(slots, i, "short") /\ slots[i].id \in Id
  BY Found
<1>2. Sound(slots) /\ Shaped(slots) /\ Distinct(slots)
  BY DEF PiecesInv, Sound, OneEach
<1>3. Leaves(u, slots[i].id)
  OBVIOUS
<1> HIDE DEF i
<1>4. u = Changed(slots, i, slots[i].short, slots[i].id, attr)
  <2>1. u = WithAttributes(slots, i, attr)
    BY Zenon DEF WithAttributes
  <2> HIDE DEF u
  <2> QED BY <2>1, <1>1, <1>2, Updates
<1> HIDE DEF u
<1>5. Distinct(u)
  BY <1>1, <1>2, <1>4, ChangedDistinct
<1> QED BY <1>3, <1>5, LeavesOneEach

\* A name that is deleted was the only one.
LEMMA DeleteOneEach ==
    ASSUME PiecesInv, OneEach, NEW n, DeleteFile(n)
    PROVE  OneEach'
<1> DEFINE p == Position(n)
<1>0. Shaped(slots) /\ Distinct(slots)
  BY DEF PiecesInv, Sound, OneEach
<1>1. CASE Leaves(slots, D!NoFile)
  BY <1>0, <1>1, LeavesOneEach
<1>2. CASE Leaves(deleteLFNs(slots, p), slots[p.at].id)
  <2>1. deleteLFNs(slots, p) = Without(slots, p.run, p.run + Pieces(p.long))
    BY Zenon DEF deleteLFNs, Without
  <2>2. Fewer(slots, deleteLFNs(slots, p))
    BY <2>1, <1>0, FewerFacts
  <2>3. Distinct(deleteLFNs(slots, p))
    BY <2>2, <1>0, DistinctFewer
  <2> QED BY <2>3, <1>2, LeavesOneEach
<1> QED BY <1>1, <1>2, Zenon DEF DeleteFile

\* A file that is made again has its name again: it is not there, and no other one has
\* taken it.
LEMMA RestoredDistinct ==
    ASSUME NEW s, Sound(s), Distinct(s), fixed \in BOOLEAN, NEW old \in Name, NEW short,
           NEW id \in Id, NEW attr \in AnyAttribute, NEW long \in Seq(Nat),
           ~old.lfn => old.search = short, long = NoName => ~old.lfn,
           ~Taken(s, short), Unused(s, id)
    PROVE  Distinct(Restored(s, old, Entry(short, id, attr), long))
<1> DEFINE x == Entry(short, id, attr)
           u == Restored(s, old, x, long)
<1>1. x.id = id /\ x.attr = attr
  BY Kinds
<1>2. Shaped(s) /\ EndsLast(s) /\ Len(s) \in Nat
  BY DEF Sound, Shaped
<1>3. CASE long = NoName
  <2> DEFINE p == fatPosition(s, fixed, old)
             at == p.at
  <2>1. u = Put(s, at, <<x>>)
    BY <1>3, Zenon DEF Restored
  <2>2. \A i \in 1 .. Len(s) : ~Matches(s, i, old)
    BY <1>3 DEF Matches, Taken
  <2>3. FoundAt(s, old, p) \/ MissingAt(s, fixed, p)
    BY <1>2, PositionFacts
  <2> HIDE DEF p
  <2>4. MissingAt(s, fixed, p)
    BY <2>2, <2>3 DEF FoundAt
  <2>5. at = 0 \/ /\ at \in 1 .. Len(s) /\ s[at].is \in {"end", "deleted"}
                  /\ \A i \in 1 .. at - 1 : ~Is(s, i, "end")
    BY <2>4 DEF MissingAt
  <2> HIDE DEF at
  <2>6. at \in 1 .. Len(s) => \A i \in at .. at + 1 - 1 : i = at
    BY <1>2
  <2>7. at = 0 \/ Room(s, at, 1)
    BY <2>5, <2>6, <1>2 DEF Room
  <2>8. /\ at = 0 => u = s
        /\ Room(s, at, 1) => Placed(s, fixed, u, NoName, short, id, attr)
    BY <2>1, PutOne
  <2> HIDE DEF u
  <2>9. NewName(s, short, id)
    BY DEF NewName, Taken, Unused
  <2>10. Placed(s, fixed, u, NoName, short, id, attr) => Distinct(u)
    BY <2>9, <1>2, PlacedDistinct
  <2>11. Distinct(u)
    BY <2>7, <2>8, <2>10
  <2> QED BY <2>11 DEF u, x
<1>4. CASE long # NoName
  <2> DEFINE again == IF old.lower THEN old.search ELSE NoName
             c == createLFNs(s, fixed, long, again, id, attr)
  <2>1. u = c.slots
    BY <1>1, <1>4, Zenon DEF Restored
  <2>2. again # NoName => ~Taken(s, again)
    BY NameFields
  <2> HIDE DEF again
  <2>3. \/ ~c.ok /\ Lengthened(s, fixed, c.slots)
        \/ \E t : /\ Lengthened(s, fixed, t) /\ AliasOf(s, t, long, again) # NoName
                  /\ Placed(s, fixed, c.slots, long, AliasOf(s, t, long, again), id, attr)
    BY CreateFacts, Zenon
  <2> HIDE DEF c, u
  <2>4. CASE Lengthened(s, fixed, u)
    <3>1. Distinct(u)
      BY <2>4, <1>2, FewerFacts, DistinctFewer DEF Lengthened
    <3> QED BY <3>1 DEF u, x
  <2>5. ASSUME NEW t, Lengthened(s, fixed, t), AliasOf(s, t, long, again) # NoName,
               Placed(s, fixed, u, long, AliasOf(s, t, long, again), id, attr)
        PROVE  Distinct(u)
    <3>1. ~Taken(s, AliasOf(s, t, long, again))
      BY <2>2, <2>5, <1>2, AliasNew DEF Lengthened
    <3>2. NewName(s, AliasOf(s, t, long, again), id)
      BY <3>1 DEF NewName, Taken, Unused
    <3> QED BY <2>5, <3>2, <1>2, PlacedDistinct
  <2>6. Distinct(u)
    BY <2>1, <2>3, <2>4, <2>5 DEF u, x
  <2> QED BY <2>6 DEF u, x
<1> QED BY <1>3, <1>4

-------------------------------------------------------------------------------
\* A file that is renamed gets a name that no other one has, and loses its own.
LEMMA RenameOneEach ==
    ASSUME PiecesInv, OneEach, ReadsOwnPieces, NEW old \in Name, NEW new \in Name,
           RenameFile(old, new)
    PROVE  OneEach'
<1> DEFINE p == Position(old)
           entry == slots[p.at]
           attr == IF entry.attr = D!Subdir THEN entry.attr ELSE D!Archive
           freed == deleteLFNs(slots, p)
           at == fatPosition(freed, fixed, new)
           name == [new EXCEPT !.lower = FALSE]
           made == NewEntry(freed, at, name, entry.id, attr)
           Other == Leaves(slots, D!NoFile)
           InPlace == Leaves([slots EXCEPT ![p.at].short = new.search, ![p.at].attr = attr],
                             entry.id)
           Again == Leaves(Restored(made.slots, old, entry, p.long), D!NoSpace)
           Ready == p.result = "found" /\ Position(new).result # "found" /\ p.at # 0
<1>1. \/ Other
      \/ /\ Ready
         /\ \/ ~new.lfn /\ p.long = NoName /\ InPlace
            \/ made.ok /\ Leaves(made.slots, entry.id)
            \/ ~made.ok /\ Again
  BY Zenon DEF RenameFile
<1>2. Sound(slots) /\ Shaped(slots) /\ EndsLast(slots) /\ fixed \in BOOLEAN
      /\ Len(slots) \in Nat /\ Distinct(slots)
  BY DirectoryAssumption DEF PiecesInv, Sound, Shaped, OneEach
<1>3. CASE Other
  BY <1>2, <1>3, LeavesOneEach
<1>4. ASSUME Ready
      PROVE  /\ FoundAt(slots, old, p) /\ p.at \in 1 .. Len(slots) /\ Is(slots, p.at, "short")
             /\ entry = Entry(entry.short, entry.id, entry.attr)
             /\ entry.id \in Id /\ entry.attr \in AnyAttribute
             /\ attr \in AnyAttribute
             /\ p.long \in Seq(Nat)
             /\ p.long # NoName <=> HasLong(slots, p.at)
             /\ ~old.lfn => old.search = entry.short
             /\ p.long = NoName => ~old.lfn
  <2>1. FoundAt(slots, old, p) /\ p.at \in 1 .. Len(slots) /\ Is(slots, p.at, "short")
        /\ entry = Entry(entry.short, entry.id, entry.attr)
        /\ entry.id \in Id /\ entry.attr \in AnyAttribute
    BY <1>4, Found
  <2>2. attr \in AnyAttribute
    BY <2>1 DEF AnyAttribute
  <2>3. p.long \in Seq(Nat) /\ (p.long # NoName <=> HasLong(slots, p.at))
    <3>1. CASE HasLong(slots, p.at)
      BY <3>1, <2>1, <1>2, LongOfPiece DEF FoundAt
    <3>2. CASE ~HasLong(slots, p.at)
      <4>1. p.long = NoName
        BY <3>2, <2>1 DEF FoundAt
      <4> QED BY <4>1, <3>2 DEF NoName
    <3> QED BY <3>1, <3>2
  <2>4. Matches(slots, p.at, old)
    BY <2>1 DEF FoundAt
  <2>5. (~old.lfn => old.search = entry.short) /\ (old.lfn => HasLong(slots, p.at))
    BY <2>4 DEF Matches
  <2> HIDE DEF p, attr, entry
  <2> QED BY <2>1, <2>2, <2>3, <2>5
<1>5. ASSUME Ready PROVE \A i \in 1 .. Len(slots) : ~Matches(slots, i, new)
  <2>1. ~FoundAt(slots, new, Position(new))
    BY <1>5, Zenon DEF FoundAt
  <2> QED BY <1>2, <2>1, PositionFacts DEF Position
<1>6. ASSUME Ready, ~new.lfn, p.long = NoName, InPlace PROVE OneEach'
  <2> DEFINE u == [slots EXCEPT ![p.at].short = new.search, ![p.at].attr = attr]
  <2>1. u = Renamed(slots, p.at, new.search, attr)
    BY Zenon DEF Renamed
  <2>2. Leaves(u, entry.id)
    BY <1>6
  <2> HIDE DEF u
  <2>3. /\ p.at \in 1 .. Len(slots) /\ Is(slots, p.at, "short") /\ entry.id \in Id
        /\ attr \in AnyAttribute /\ ~HasLong(slots, p.at)
    BY <1>4, <1>6
  <2>4. ~Taken(slots, new.search)
    BY <1>5, <1>6, NotTaken
  <2> HIDE DEF p, attr
  <2>5. u = Changed(slots, p.at, new.search, entry.id, attr)
    BY <2>1, <2>3, <1>2, Updates
  <2>6. Distinct(u)
    BY <2>3, <2>4, <2>5, <1>2, ChangedDistinct
  <2> QED BY <2>2, <2>6, LeavesOneEach
<1>7. ASSUME Ready
      PROVE  /\ Sound(freed) /\ Distinct(freed) /\ Fewer(slots, freed)
             /\ ~Taken(freed, entry.short) /\ Unused(freed, entry.id)
             /\ EntryMade(freed, name, entry.id, attr, at, made)
             /\ name.word \in Seq(Nat) /\ (~name.lfn => ~Taken(freed, name.search))
  <2>1. FoundAt(slots, old, p) /\ entry.id \in Id /\ attr \in AnyAttribute
        /\ p.at \in 1 .. Len(slots) /\ Is(slots, p.at, "short")
    BY <1>4, <1>7
  <2>2. \A i \in 1 .. Len(slots) : ~Matches(slots, i, new)
    BY <1>5, <1>7
  <2> HIDE DEF p
  <2>3. Sound(freed) /\ Len(freed) = Len(slots) /\ Fewer(slots, freed)
        /\ freed[p.at] = Deleted
    BY <1>2, <2>1, DeleteSound, EntryDeleted DEF ReadsOwnPieces
  <2>4. \A i \in 1 .. Len(slots) : freed[i] \in {slots[i], Deleted}
    BY <1>2, SlotsDomain DEF deleteLFNs
  <2> HIDE DEF freed, at, attr, name
  <2>5. Distinct(freed)
    BY <2>3, <1>2, DistinctFewer
  <2>6. ~Taken(freed, entry.short) /\ Unused(freed, entry.id)
    BY <2>1, <2>3, <1>2, DeletedFree
  <2>7. name.word \in Seq(Nat) /\ name.lfn = new.lfn /\ name.search = new.search
    BY Names, NameFields DEF name
  <2>8. ~name.lfn => ~Taken(freed, name.search)
    BY <2>2, <2>3, <2>7, NotTaken, FewerFacts
  <2>9. ~new.lfn => at.at = 0 \/ Room(freed, at.at, 1)
    BY <2>2, <2>3, <2>4, <1>2, MissingKept DEF at
  <2>10. EntryMade(freed, name, entry.id, attr, at, NewEntry(freed, at, name, entry.id, attr))
    BY <2>1, <2>3, <2>7, <2>9, <1>2, NewEntryFacts
  <2> QED BY <2>3, <2>5, <2>6, <2>7, <2>8, <2>10
<1>8. ASSUME Ready, made.ok, Leaves(made.slots, entry.id) PROVE OneEach'
  <2> HIDE DEF freed, at, attr, name, made, p
  <2>1. Distinct(made.slots)
    BY <1>7, <1>8, EntryMadeDistinct DEF Sound
  <2> QED BY <2>1, <1>8, LeavesOneEach
<1>9. ASSUME Ready, ~made.ok, Again PROVE OneEach'
  <2> DEFINE u == Restored(made.slots, old, entry, p.long)
  <2>1. /\ entry = Entry(entry.short, entry.id, entry.attr)
        /\ entry.id \in Id /\ entry.attr \in AnyAttribute /\ p.long \in Seq(Nat)
        /\ ~old.lfn => old.search = entry.short
        /\ p.long = NoName => ~old.lfn
    BY <1>4, <1>9
  <2>2. Leaves(u, D!NoSpace)
    BY <1>9
  <2> HIDE DEF freed, at, attr, name, made, p
  <2>3. /\ Fewer(freed, made.slots) /\ Sound(made.slots)
    BY <1>7, <1>9, NotMadeFewer, EntryMadeSound DEF Sound
  <2>4. Distinct(made.slots) /\ ~Taken(made.slots, entry.short)
        /\ Unused(made.slots, entry.id)
    <3>1. Unused(made.slots, entry.id)
      BY <2>3, <1>7, <1>9 DEF Unused, Fewer, Is
    <3> QED BY <2>3, <3>1, <1>7, <1>9, DistinctFewer, FewerFacts
  <2> HIDE DEF entry
  <2>5. Distinct(Restored(made.slots, old, Entry(entry.short, entry.id, entry.attr), p.long))
    BY <2>1, <2>3, <2>4, <1>2, RestoredDistinct
  <2>6. Distinct(u)
    <3> HIDE DEF u
    <3>1. u = Restored(made.slots, old, Entry(entry.short, entry.id, entry.attr), p.long)
      BY <2>1 DEF u
    <3> QED BY <2>5, <3>1, Zenon
  <2> HIDE DEF u
  <2> QED BY <2>2, <2>6, LeavesOneEach
<1> QED BY <1>1, <1>3, <1>6, <1>8, <1>9

\* Every step keeps the names apart.
LEMMA NextOneEach == PiecesInv /\ OneEach /\ ReadsOwnPieces /\ [Next]_vars => OneEach'
<1> SUFFICES ASSUME PiecesInv, OneEach, ReadsOwnPieces, [Next]_vars PROVE OneEach'
  OBVIOUS
<1>0. D!Archive \in AnyAttribute /\ D!Subdir \in AnyAttribute /\ Attribute \subseteq AnyAttribute
  BY DEF AnyAttribute
<1> DEFINE Same == \E result : Leaves(slots, result)
<1>1. Same => OneEach'
  BY LeavesOneEach DEF OneEach
<1> DEFINE Set(n, attr) ==
             /\ Position(n).result = "found" /\ Position(n).at # 0
             /\ Leaves([slots EXCEPT ![Position(n).at].attr = attr], slots[Position(n).at].id)
<1>2. \A n \in Name : \A attr \in AnyAttribute : Set(n, attr) => OneEach'
  BY AttributesOneEach
<1>3. \A n \in Name : \A attr \in AnyAttribute : AddName(n, attr) => OneEach'
  BY AddNameOneEach
<1>4. ASSUME NEW n \in Name, CreatFile(n) PROVE OneEach'
  <2>1. Same \/ Set(n, D!Archive) \/ AddName(n, D!Archive)
    BY <1>4, Zenon DEF CreatFile
  <2> QED BY <2>1, <1>0, <1>1, <1>2, <1>3
<1>5. ASSUME NEW n \in Name, CreatNewFile(n) \/ CreatDir(n) PROVE OneEach'
  <2>1. Same \/ AddName(n, D!Archive) \/ AddName(n, D!Subdir)
    BY <1>5, Zenon DEF CreatNewFile, CreatDir
  <2> QED BY <2>1, <1>0, <1>1, <1>3
<1>6. ASSUME NEW n \in Name, OpenFile(n) \/ GetFileAttributes(n) PROVE OneEach'
  <2>1. Same
    BY <1>6, Zenon DEF OpenFile, GetFileAttributes
  <2> QED BY <2>1, <1>1
<1>7. ASSUME NEW n \in Name, NEW attr \in Attribute, SetFileAttributes(n, attr) PROVE OneEach'
  <2>1. Same \/ Set(n, attr)
    BY <1>7, Zenon DEF SetFileAttributes
  <2> QED BY <2>1, <1>0, <1>1, <1>2
<1>8. ASSUME NEW n \in Name, DeleteFile(n) PROVE OneEach'
  BY <1>8, DeleteOneEach
<1>9. ASSUME NEW old \in Name, NEW n \in Name, RenameFile(old, n) PROVE OneEach'
  BY <1>9, RenameOneEach
<1>10. CASE UNCHANGED vars
  <2>1. slots' = slots /\ files' = files
    BY <1>10 DEF vars
  <2>2. Distinct(slots') /\ files' = FilesOn(slots')
    BY <2>1, Zenon DEF OneEach
  <2> QED BY <2>2 DEF OneEach, Distinct, FilesOn, Where, LongAt, Is
<1> HIDE DEF Same, Set
<1> QED BY <1>4, <1>5, <1>6, <1>7, <1>8, <1>9, <1>10, Zenon DEF Next

\* A formatted directory has no entries.
LEMMA InitOneEach == Init => OneEach
<1> SUFFICES ASSUME Init PROVE OneEach
  OBVIOUS
<1>1. Sound(slots) /\ files = {} /\ \A i \in 1 .. Len(slots) : ~Is(slots, i, "short")
  <2>1. PICK n \in Nat : slots = Empty(n)
    BY DirectoryAssumption DEF Init
  <2>2. Sound(slots) /\ Len(slots) = n
    BY <2>1, EmptySound
  <2>3. \A i \in 1 .. n : slots[i] = End
    BY <2>1 DEF Empty
  <2> QED BY <2>2, <2>3, Kinds DEF Is, Init
<1>2. Where(slots, "short") = {}
  BY <1>1, SlotsDomain DEF Where, Sound
<1>3. FilesOn(slots) = {}
  BY <1>2 DEF FilesOn
<1> QED BY <1>1, <1>3 DEF OneEach, Distinct

\* There are as many files as short entries.
LEMMA OneEachUnique == PiecesInv /\ OneEach => ShortNamesUnique
<1> SUFFICES ASSUME PiecesInv, OneEach PROVE ShortNamesUnique
  OBVIOUS
<1> DEFINE E == Where(slots, "short")
           file(i) == [id |-> slots[i].id, short |-> slots[i].short,
                       long |-> LongAt(slots, i), attr |-> slots[i].attr]
           f == [i \in E |-> file(i)]
<1>1. Shaped(slots) /\ DOMAIN slots = 1 .. Len(slots) /\ Len(slots) \in Nat
  BY SlotsDomain DEF PiecesInv, Sound, Shaped
<1>2. E = {i \in 1 .. Len(slots) : Is(slots, i, "short")}
  BY <1>1 DEF Where
<1>3. files = {file(i) : i \in E}
  BY Zenon DEF OneEach, FilesOn
<1>4. \A i \in E : file(i).id = slots[i].id /\ file(i).short = slots[i].short
  OBVIOUS
<1> HIDE DEF file, E
<1>5. \A i, j \in E : slots[i].short = slots[j].short \/ slots[i].id = slots[j].id => i = j
  BY <1>2 DEF OneEach, Distinct
<1>6. D!Unique(files)
  BY <1>3, <1>4, <1>5 DEF D!Unique
<1>7. ExistsBijection(E, files)
  <2>1. f \in [E -> files]
    BY <1>3
  <2>2. \A i, j \in E : f[i] = f[j] => i = j
    BY <1>4, <1>5
  <2>3. \A x \in files : \E i \in E : f[i] = x
    BY <1>3
  <2> HIDE DEF f
  <2>4. f \in Bijection(E, files)
    BY <2>1, <2>2, <2>3 DEF Bijection, Injection, Surjection, IsInjective
  <2> QED BY <2>4 DEF ExistsBijection
<1>8. IsFiniteSet(E)
  <2>1. E \subseteq 1 .. Len(slots)
    BY <1>2
  <2>2. IsFiniteSet(1 .. Len(slots))
    BY <1>1, FS_Interval
  <2> QED BY <2>1, <2>2, FS_Subset
<1>9. Cardinality(files) = Cardinality(E)
  BY <1>7, <1>8, FS_Bijection
<1> QED BY <1>6, <1>9 DEF ShortNamesUnique, E

\* The alias that createLFNs takes from generate83Name and the numeric tails is never one
\* an entry has, nor does any call bring a second entry of a name or a file: for any
\* names, widths and sizes, as long as the code finds no other name's pieces in front of
\* an entry with their checksum.
THEOREM ShortNamesStayUnique == Spec /\ []ReadsOwnPieces => []ShortNamesUnique
<1>1. PiecesInv /\ OneEach /\ ReadsOwnPieces /\ [Next]_vars => (PiecesInv /\ OneEach)'
  BY NextPieces, NextOneEach
<1>2. Init => PiecesInv /\ OneEach
  BY InitPieces, InitOneEach
<1>3. PiecesInv /\ OneEach => ShortNamesUnique
  BY OneEachUnique
<1> QED BY <1>1, <1>2, <1>3, PTL DEF Spec

===============================================================================
