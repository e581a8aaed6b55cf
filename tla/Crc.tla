--------------------------------- MODULE Crc ---------------------------------
(***************************************************************************)
(* checksum/crc: the CRC of eight bits, bit by bit (crc8-1.c) and nibble   *)
(* by nibble with a table (crc8-2.c).  A byte is its eight bits, the       *)
(* highest first; a string is a sequence of bytes other than the zero that *)
(* ends it.                                                                *)
(***************************************************************************)
EXTENDS Integers, Sequences

GP == <<1, 1, 0, 1, 0, 1, 0, 1>>   \* 0xD5
Zeros(n) == [i \in 1..n |-> 0]
Xor(a, b) == [i \in 1..8 |-> (a[i] + b[i]) % 2]
\* a<<n, with the n bits that come in from the right.
Shift(a, in, n) == [i \in 1..8 |-> IF i + n <= 8 THEN a[i + n] ELSE in[i + n - 8]]
\* The byte at place i of the string.
ctxAt(ctx, i) == IF i < Len(ctx) THEN ctx[i + 1] ELSE Zeros(8)

------------------------------------------------------------------------------
\* crc8-1.c: one bit of the message, or one of the eight zeros after it.
NextBit(crc, bit) == Xor(Shift(crc, <<bit>>, 1), IF crc[1] = 1 THEN GP ELSE Zeros(8))
crc8_1(ctx) ==
  LET crc[nbits \in 8..8 * Len(ctx) + 8] ==
        IF nbits = 8 THEN ctx[1]
        ELSE NextBit(crc[nbits - 1], ctxAt(ctx, (nbits - 1) \div 8)[((nbits - 1) % 8) + 1])
  IN  crc[8 * Len(ctx) + 8]

------------------------------------------------------------------------------
\* crc8-2.c.  A row of the table is what four rounds of NextBit take away: GP<<j in
\* each round that finds the high bit of s set.
NibbleRound(acc, j) ==
  IF acc.s[1] = 1
  THEN [s |-> Xor(Shift(acc.s, <<0>>, 1), GP), row |-> Xor(acc.row, Shift(GP, Zeros(j), j))]
  ELSE [s |-> Shift(acc.s, <<0>>, 1), row |-> acc.row]
TableRow(nibble) ==
  LET start == [s |-> Shift(Shift(Zeros(8), nibble, 4), Zeros(4), 4), row |-> Zeros(8)]
  IN  NibbleRound(NibbleRound(NibbleRound(NibbleRound(start, 3), 2), 1), 0).row
crc8_tab == [nibble \in [1..4 -> {0, 1}] |-> TableRow(nibble)]

HighNibble(b) == [i \in 1..4 |-> b[i]]
LowNibble(b) == [i \in 1..4 |-> b[i + 4]]
\* Slip: the row is looked up after the shift.
NextNibble_Late(crc, in) ==
  Xor(Shift(crc, in, 4), crc8_tab[HighNibble(Shift(crc, in, 4))])
NextNibble(crc, in) == Xor(Shift(crc, in, 4), crc8_tab[HighNibble(crc)])
NextByte(crc, b) == NextNibble(NextNibble(crc, HighNibble(b)), LowNibble(b))
\* The loop takes in the zero at the end, too.
crc8_2(ctx) ==
  LET crc[i \in 0..Len(ctx)] ==
        IF i = 0 THEN ctx[1] ELSE NextByte(crc[i - 1], ctxAt(ctx, i))
  IN  crc[Len(ctx)]
=============================================================================
