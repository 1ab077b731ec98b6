------------------------------- MODULE FatNames -------------------------------
(***************************************************************************)
(* What fat.c makes of the name of a file: whether it fits 8.3, the name   *)
(* as it is in a short entry, the alias of a long name, its numeric tails  *)
(* and its checksum.  A character is its code, a name as a caller writes   *)
(* it (one part of a path) a sequence of characters; in a short entry it   *)
(* is padded with spaces and has no dot.                                   *)
(***************************************************************************)
EXTENDS Integers, Sequences, SequencesExt, FiniteSetsExt

CONSTANTS StemLen, ExtLen,  \* 8 and 3 in the code
          LastDigit         \* 9 in the code

ASSUME NamesAssumption ==
    /\ StemLen \in Nat /\ StemLen >= 2 /\ ExtLen \in Nat
    /\ LastDigit \in 1 .. 9

Dot == 46
Space == 32
Tilde == 126
Underscore == 95
Zero == 48
NotIn83 == {43, 44, 46, 59, 61, 91, 93}     \* + , . ; = [ ]

toupper(c) == IF c \in 97 .. 122 THEN c - 32 ELSE c
Upper(w) == [i \in DOMAIN w |-> toupper(w[i])]

\* Names are compared without regard to case.
cicmp(v, w) == Upper(v) = Upper(w)

NoName == <<>>

Pad(w, n) == w \o [i \in 1 .. n - Len(w) |-> Space]
Clean(c) == IF c \in NotIn83 \/ c > 127 THEN Underscore ELSE c

-------------------------------------------------------------------------------
Dots(w) == {i \in DOMAIN w : w[i] = Dot}

isLFN(w) ==
    LET dot == Min(Dots(w) \cup {Len(w) + 1})
    IN  \/ dot - 1 > StemLen
        \/ Len(w) - dot > ExtLen
        \/ \E i \in DOMAIN w : i # dot /\ w[i] \in NotIn83

\* The name as the directory is searched for it: a long name as it is, any other
\* one in capitals and padded.
fatNextSearch(w) ==
    LET dot == Min(Dots(w) \cup {Len(w) + 1})
    IN  [word  |-> w,
         lfn   |-> isLFN(w),
         lower |-> ~isLFN(w) /\ Upper(w) # w,
         search |-> IF isLFN(w) THEN w
                    ELSE Pad(Upper(SubSeq(w, 1, dot - 1)), StemLen)
                         \o Pad(Upper(SubSeq(w, dot + 1, Len(w))), ExtLen)]

\* The first n characters of a name without its dots and spaces.
Bare(name, n) ==
    LET bare[i \in 0 .. n] == IF i = 0 THEN <<>>
                              ELSE IF name[i] \in {Dot, Space} THEN bare[i - 1]
                              ELSE Append(bare[i - 1], name[i])
    IN  bare[n]

\* The alias of a long name: at most StemLen - 2 characters in front of its last dot
\* and ExtLen behind it.  The code reads behind the end of a name that has dots or
\* spaces in front and fewer characters than that; names are taken that have them.
generate83Name(w) ==
    LET lead == Min({i \in 1 .. Len(w) : w[i] \notin {Dot, Space}} \cup {Len(w) + 1})
        name == Upper(SubSeq(w, lead, Len(w)))
        dot == Max(Dots(name) \cup {0})
        stem == Bare(name, IF dot = 0 THEN Len(name) ELSE dot - 1)
        ext == IF dot = 0 THEN <<>> ELSE SubSeq(name, dot + 1, Min({Len(name), dot + ExtLen}))
        kept == SubSeq(stem, 1, Min({Len(stem), StemLen - 2}))
        clean(s) == [i \in DOMAIN s |-> Clean(s[i])]
    IN  Pad(clean(kept) \o <<Tilde, Zero + 1>>, StemLen) \o Pad(clean(ext), ExtLen)

\* The digits behind the tilde count on.  When they need one more, it comes behind
\* them as long as the stem has space, and then in the place of the last character
\* in front of the tilde; NoName when there is none.
incrementNumericTail(short) ==
    LET end == Min({i \in 1 .. StemLen : short[i] = Space} \cup {StemLen + 1}) - 1
        tilde == Max({i \in 1 .. end : short[i] = Tilde})
        small == {i \in tilde + 1 .. end : short[i] # Zero + LastDigit}
        up == Max(small)
        kept == IF end < StemLen THEN tilde - 1 ELSE tilde - 2
        grown == SubSeq(short, 1, kept) \o <<Tilde, Zero + 1>>
                 \o [i \in 1 .. end - tilde |-> Zero]
    IN  IF small # {}
        THEN [i \in DOMAIN short |-> IF i = up THEN short[i] + 1
                                     ELSE IF i \in up + 1 .. end THEN Zero ELSE short[i]]
        ELSE IF kept < 0 THEN NoName
        ELSE Pad(grown, StemLen) \o SubSeq(short, StemLen + 1, StemLen + ExtLen)

\* Rotated right and added up in eight bits.
generateChecksum(short) ==
    FoldLeft(LAMBDA sum, c : ((sum % 2) * 128 + (sum \div 2) + c) % 256, 0, short)

===============================================================================
