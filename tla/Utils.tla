-------------------------------- MODULE Utils ---------------------------------
(***************************************************************************)
(* src/utils.c: unsigned comparisons and 64 bit addition with nothing but  *)
(* signed 32 bit integers.  A 64 bit integer is a function from 0 .. 1, the *)
(* low word first.                                                         *)
(***************************************************************************)
EXTENDS Integers

Word == {a \in Int : -2147483648 <= a /\ a <= 2147483647}
Unsigned(a) == IF a < 0 THEN a + 4294967296 ELSE a
Signed(u) == IF u >= 2147483648 THEN u - 4294967296 ELSE u

\* Of two words with different signs neither is less.
u_lt(a, b) == a < b /\ (a < 0 <=> b < 0)
u_eq(a, b) == a = b
u_le(a, b) == u_eq(a, b) \/ u_lt(a, b)
u_ge(a, b) == u_eq(a, b) \/ ~u_lt(a, b)
u_gt(a, b) == ~u_eq(a, b) /\ ~u_lt(a, b)

Low(a) == a % 65536
High(a) == (a \div 65536) % 65536

\* By halves; the carry of the upper half is computed and not used.
AddWords(a, b) ==
    LET low == Low(a) + Low(b)
        high == High(a) + High(b) + (low \div 65536)
    IN  Signed((low % 65536) + 65536 * (high % 65536))

i64_add(a, b) == [i \in 0 .. 1 |-> AddWords(a[i], b[i])]

=============================================================================
