--------------------------------- MODULE Buf ----------------------------------
(***************************************************************************)
(* src/buf.c: a buffer that grows by 512 bytes, decimal numbers, and code  *)
(* points in UTF-8 and UTF-16.  A buffer is a record [data, size]: data is *)
(* what was added, buf[0 .. len - 1], and size what is allocated.  Every   *)
(* operation adds the bytes its operator names here with buf__add8.        *)
(***************************************************************************)
EXTENDS Integers, Sequences

CONSTANTS CHAR_MIN      \* os_utf8 is char: -128 on i386, 0 on rpi400

buf__new(size) == [data |-> <<>>, size |-> IF size < 8 THEN 8 ELSE size]

buf__add8(b, byte) ==
    [data |-> Append(b.data, byte % 256),
     size |-> IF Len(b.data) >= b.size THEN b.size + 512 ELSE b.size]

\* The string ends with a zero behind the data, for which a full buffer grows.
buf__getstr(b) ==
    [data |-> b.data, size |-> IF Len(b.data) < b.size THEN b.size ELSE buf__add8(b, 0).size]

\* The bits of a number from the one that stands for unit on, below many values.
Bits(n, unit, below) == (n \div unit) % below

buf__add16(n) == <<Bits(n, 1, 256), Bits(n, 256, 256)>>

Digits[n \in Nat] == IF n = 0 THEN <<>> ELSE Append(Digits[n \div 10], 48 + (n % 10))

\* The loop runs over the number, not over its absolute value.  The smallest number
\* is left out: its negation overflows.
buf__addint(n) == (IF n < 0 THEN <<45>> ELSE <<>>) \o (IF n > 0 THEN Digits[n] ELSE <<>>)

-------------------------------------------------------------------------------
Trail(n, unit) == 128 + Bits(n, unit, 64)

\* A code point is any 32 bit number, here without its sign.
buf__add_utf8(n) ==
    IF n < 128 THEN <<n>>
    ELSE IF n < 2048 THEN <<192 + Bits(n, 64, 32), Trail(n, 1)>>
    ELSE IF n < 65536 THEN <<224 + Bits(n, 4096, 16), Trail(n, 64), Trail(n, 1)>>
    ELSE IF n < 2097152 THEN
        <<240 + Bits(n, 262144, 8), Trail(n, 4096), Trail(n, 64), Trail(n, 1)>>
    ELSE IF n < 67108864 THEN
        <<248 + Bits(n, 16777216, 4), Trail(n, 262144), Trail(n, 4096), Trail(n, 64), Trail(n, 1)>>
    ELSE <<252 + Bits(n, 1073741824, 4), Trail(n, 16777216), Trail(n, 262144),
           Trail(n, 4096), Trail(n, 64), Trail(n, 1)>>

Char(byte) == IF CHAR_MIN < 0 /\ byte >= 128 THEN byte - 256 ELSE byte

Nothing(size) == [size |-> size]
CodePoint(size, n) == [size |-> size, cp |-> n]

\* The bytes a lead byte asks for, -1 when it is none.
Size(v) ==
    IF v < 128 THEN 1 ELSE IF v < 192 THEN -1 ELSE IF v < 224 THEN 2 ELSE IF v < 240 THEN 3
    ELSE IF v < 248 THEN 4 ELSE IF v < 252 THEN 5 ELSE 6

\* Six bits of the i-th byte; that it is a trailing one is not looked at.
Six(b, i, unit) == (b[i] % 64) * unit

Decoded(b) ==
    LET v == Char(b[1])
    IN  IF Size(v) = 1 THEN v
        ELSE IF Size(v) = 2 THEN (v % 32) * 64 + Six(b, 2, 1)
        ELSE IF Size(v) = 3 THEN (v % 16) * 4096 + Six(b, 2, 64) + Six(b, 3, 1)
        ELSE IF Size(v) = 4 THEN
            (v % 8) * 262144 + Six(b, 2, 4096) + Six(b, 3, 64) + Six(b, 4, 1)
        ELSE IF Size(v) = 5 THEN
            (v % 4) * 16777216 + Six(b, 2, 262144) + Six(b, 3, 4096) + Six(b, 4, 64)
                + Six(b, 5, 1)
        ELSE (v % 4) * 1073741824 + Six(b, 2, 16777216) + Six(b, 3, 262144)
                + Six(b, 4, 4096) + Six(b, 5, 64) + Six(b, 6, 1)

buf__utf8tocp(b) ==
    IF b = <<>> THEN Nothing(0)
    ELSE IF Size(Char(b[1])) \in 1 .. Len(b) THEN CodePoint(Size(Char(b[1])), Decoded(b))
    ELSE Nothing(-1)

-------------------------------------------------------------------------------
IsPlain(n) == n < 55296 \/ (n > 57343 /\ n < 65536)

buf__add_utf16(n) ==
    IF IsPlain(n) THEN buf__add16(n)
    ELSE buf__add16(Bits(n - 65536, 1024, 1024) + 55296)
             \o buf__add16(Bits(n - 65536, 1, 1024) + 56320)

\* The possible results: the function has no return behind a pair of surrogates.
buf__utf16tocp(b) ==
    LET n == Char(b[1]) + 256 * Char(b[2])
    IN  IF Len(b) < 2 THEN {Nothing(-1)}
        ELSE IF IsPlain(n) \/ Len(b) < 4 THEN {CodePoint(2, n)}
        ELSE {Nothing(size) : size \in Int}

=============================================================================
