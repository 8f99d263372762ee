----------------------------- MODULE Sha1Block -----------------------------
(***************************************************************************)
(* blk_SHA1_Block() of sha1.c, to the bit.  A word of 32 bits is the pair  *)
(* of its halves, of 16 bits each.                                         *)
(***************************************************************************)
EXTENDS Integers, Sequences, SequencesExt, Bitwise

Half == 2 ^ 16

Xor2(x, y) == <<x[1] ^^ y[1], x[2] ^^ y[2]>>
And2(x, y) == <<x[1] & y[1], x[2] & y[2]>>

\* Addition of 32-bit words: modulo 2^32.
Add(x, y) ==
  LET low == x[2] + y[2]
  IN <<(x[1] + y[1] + (low \div Half)) % Half, low % Half>>

\* SHA_ROL(): n from 0 to 15 bits to the left, and SHA_ROR(x, 2).
SHA_ROL(x, n) ==
  LET up == 2 ^ n
      turned(hi, lo) == ((hi * up) % Half) + (lo \div (Half \div up))
  IN <<turned(x[1], x[2]), turned(x[2], x[1])>>

SHA_ROR2(x) == SHA_ROL(SHA_ROL(x, 15), 15)

\* get_be32() of the word t of a block.
SHA_SRC(block, t) ==
  <<block[4 * t + 1] * 256 + block[4 * t + 2], block[4 * t + 3] * 256 + block[4 * t + 4]>>

\* SHA_MIX(): array holds the sixteen words last used, W(x) at x & 15.
SHA_MIX(array, t) ==
  LET w(x) == array[x % 16]
  IN SHA_ROL(Xor2(Xor2(w(t + 13), w(t + 8)), Xor2(w(t + 2), w(t))), 1)

\* Mutant: the third round mixes like the second.
MajorityParity(b, c, d) == Xor2(Xor2(b, c), d)

Choice(b, c, d)   == Xor2(And2(Xor2(c, d), b), d)
Parity(b, c, d)   == Xor2(Xor2(b, c), d)
Majority(b, c, d) == Add(And2(b, c), And2(d, Xor2(b, c)))

\* fn and constant of the iteration t.
Mixed(t, b, c, d) ==
  CASE t < 20 -> Add(Choice(b, c, d), <<23170, 31129>>)                \* 0x5a827999
    [] t \in 20..39 -> Add(Parity(b, c, d), <<28377, 60321>>)          \* 0x6ed9eba1
    [] t \in 40..59 -> Add(Majority(b, c, d), <<36635, 48348>>)        \* 0x8f1bbcdc
    [] t \in 60..79 -> Add(Parity(b, c, d), <<51810, 49622>>)          \* 0xca62c1d6

\* SHA_ROUND(): E and B change, and the registers change their names.
SHA_ROUND(block, s, t) ==
  LET input == IF t < 16 THEN SHA_SRC(block, t) ELSE SHA_MIX(s.array, t)
      E == Add(Add(s.r[5], input), Add(SHA_ROL(s.r[1], 5), Mixed(t, s.r[2], s.r[3], s.r[4])))
  IN [r |-> <<E, s.r[1], SHA_ROR2(s.r[2]), s.r[3], s.r[4]>>,
      array |-> [s.array EXCEPT ![t % 16] = input]]

\* The registers before a block.
Registers(words) == [r |-> words, array |-> [x \in 0..15 |-> <<0, 0>>]]

\* One of the four rounds, of 20 iterations.
Round(block, s, n) ==
  FoldLeft(LAMBDA acc, t : SHA_ROUND(block, acc, t), s, [k \in 1..20 |-> 20 * (n - 1) + k - 1])

\* The end of blk_SHA1_Block().
Summed(words, s) == [n \in 1..5 |-> Add(words[n], s.r[n])]

\* The words blk_SHA1_Init() starts from.
InitialWords ==
  <<<<26437, 8961>>, <<61389, 43913>>, <<39098, 56574>>, <<4146, 21622>>, <<50130, 57840>>>>
=============================================================================
