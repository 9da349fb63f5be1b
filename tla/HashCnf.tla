------------------------------- MODULE HashCnf -------------------------------
(***************************************************************************)
(* The hash of a stored form: the bytes four at a time, then the ones left *)
(* over, multiplied and mixed.  The width of a byte is a parameter, as     *)
(* TLC's integers hold no product of two words of 32 bits; the shifts      *)
(* scale with it.                                                          *)
(***************************************************************************)
EXTENDS Integers, Sequences, Bitwise

CONSTANTS ByteBits,    \* bits of a byte (8)
          Multiplier,  \* m
          Seed         \* 0x29111983

Word == 2 ^ (4 * ByteBits)
Times(h, k) == (h * k) % Word
ShiftedRight(h, bits) == h \div 2 ^ bits
LittleEndian(data, at, n) ==
  LET sum[i \in 0 .. n] == IF i = 0 THEN 0 ELSE sum[i - 1] + data[at + i] * 2 ^ (ByteBits * (i - 1))
  IN  sum[n]

Mixed(k) == LET mixed == Times(k, Multiplier)
            IN  Times(mixed ^^ ShiftedRight(mixed, 3 * ByteBits), Multiplier)
HashOf(data) ==
  LET words == Len(data) \div 4
      left == Len(data) % 4
      mix[i \in 0 .. words] ==
        IF i = 0 THEN (Seed % Word) ^^ Len(data)
        ELSE Times(mix[i - 1], Multiplier) ^^ Mixed(LittleEndian(data, 4 * (i - 1), 4))
      tail == IF left = 0 THEN mix[words]
              ELSE Times(mix[words] ^^ LittleEndian(data, 4 * words, left), Multiplier)
      once == Times(tail ^^ ShiftedRight(tail, (13 * ByteBits) \div 8), Multiplier)
  IN  once ^^ ShiftedRight(once, (15 * ByteBits) \div 8)
=============================================================================
