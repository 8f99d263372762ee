-------------------------------- MODULE Sha1 --------------------------------
(***************************************************************************)
(* blk_SHA1_Init(), blk_SHA1_Update() and blk_SHA1_Final() of sha1.c: how  *)
(* the bytes that arrive in pieces of any length become blocks of 64.      *)
(*                                                                         *)
(* The context keeps in H what blk_SHA1_Block() makes of the blocks; here  *)
(* H is the sequence of those blocks themselves.  An Update is several     *)
(* steps: the one that fills the block begun by the last Update, one for   *)
(* each block that lies whole in the data, the one that keeps the rest.    *)
(***************************************************************************)
EXTENDS Integers, Sequences

CONSTANT Unset   \* a byte of W nobody has written

Byte == 0..255

ASSUME Sha1Assumption == Unset \notin Byte

VARIABLES
  size, H, W,   \* blk_SHA_CTX
  at,           \* "none" before Init, "entry" and "loop" in Update, "idle" between
  data,         \* what is left of Update's data
  final,        \* what Final has done: "no", "pad", "length", "out"
  padlen,       \* its copy of the length
  message,      \* what the caller has given to Update
  input         \* what anyone has

ctx == <<size, H, W>>
shaVars == <<ctx, at, data, final, padlen, message, input>>

Null == [k \in 1..64 |-> Unset]

ShaInit ==
  /\ size = 0 /\ H = <<>> /\ W = Null
  /\ at = "none" /\ data = <<>>
  /\ final = "no" /\ padlen = <<>>
  /\ message = <<>> /\ input = <<>>

\* blk_SHA1_Init(): W is left as it was.
blk_SHA1_Init ==
  /\ at = "none" \/ final = "out"
  /\ size' = 0 /\ H' = <<>>
  /\ at' = "idle" /\ final' = "no"
  /\ message' = <<>> /\ input' = <<>>
  /\ UNCHANGED <<W, data, padlen>>

-----------------------------------------------------------------------------
(* blk_SHA1_Update() *)

Call(bytes) == at' = "entry" /\ data' = bytes /\ input' = input \o bytes

Update(bytes) ==
  /\ at = "idle" /\ final = "no"
  /\ Call(bytes)
  /\ message' = message \o bytes
  /\ UNCHANGED <<ctx, final, padlen>>

lenW == size % 64

\* memcpy() of the first n bytes of the data to W, from a place on.
Copied(from, n) == [k \in 1..64 |-> IF from < k /\ k <= from + n THEN data[k - from] ELSE W[k]]

\* No block is begun.
Aligned ==
  /\ at = "entry"
  /\ lenW = 0
  /\ size' = size + Len(data)
  /\ at' = "loop"
  /\ UNCHANGED <<H, W, data, final, padlen, message, input>>

\* The data does not fill the block that is begun.
FillPart ==
  /\ at = "entry"
  /\ lenW # 0
  /\ Len(data) < 64 - lenW
  /\ size' = size + Len(data)
  /\ W' = Copied(lenW, Len(data))
  /\ data' = <<>>
  /\ at' = "idle"
  /\ UNCHANGED <<H, final, padlen, message, input>>

Filled == Copied(lenW, 64 - lenW)

FillWhole ==
  /\ at = "entry"
  /\ lenW # 0
  /\ Len(data) >= 64 - lenW
  /\ size' = size + Len(data)
  /\ W' = Filled
  /\ H' = Append(H, Filled)
  /\ data' = SubSeq(data, 64 - lenW + 1, Len(data))
  /\ at' = "loop"
  /\ UNCHANGED <<final, padlen, message, input>>

Whole ==
  /\ at = "loop"
  /\ Len(data) >= 64
  /\ H' = Append(H, SubSeq(data, 1, 64))
  /\ data' = SubSeq(data, 65, Len(data))
  /\ UNCHANGED <<size, W, at, final, padlen, message, input>>

Rest ==
  /\ at = "loop"
  /\ Len(data) < 64
  /\ W' = Copied(0, Len(data))
  /\ data' = <<>>
  /\ at' = "idle"
  /\ UNCHANGED <<size, H, final, padlen, message, input>>

-----------------------------------------------------------------------------
(* blk_SHA1_Final() *)

\* htonl() of a word.
BigEndian(w) == <<(w \div 16777216) % 256, (w \div 65536) % 256, (w \div 256) % 256, w % 256>>

\* The number of bits of n bytes, n less than 2^61, in two words: n >> 29 and n << 3.
LengthField(n) == BigEndian(n \div 536870912) \o BigEndian((n % 536870912) * 8)

\* Mutant: the length of the padding is computed for the wrong remainder.
PadLengthOff(n) == 1 + ((56 - (n % 64)) % 64)

\* 1 + (63 & (55 - i)), i the bytes of the block that is begun.
PadLength(n) == 1 + ((55 - (n % 64)) % 64)

Pad(n) == [k \in 1..PadLength(n) |-> IF k = 1 THEN 128 ELSE 0]

FinalPad ==
  /\ at = "idle" /\ final = "no"
  /\ padlen' = LengthField(size)
  /\ Call(Pad(size))
  /\ final' = "pad"
  /\ UNCHANGED <<ctx, message>>

FinalLength ==
  /\ at = "idle" /\ final = "pad"
  /\ Call(padlen)
  /\ final' = "length"
  /\ UNCHANGED <<ctx, padlen, message>>

FinalOut ==
  /\ at = "idle" /\ final = "length"
  /\ final' = "out"
  /\ UNCHANGED <<ctx, at, data, padlen, message, input>>

\* The steps of a call that is under way.
ShaStep == Aligned \/ FillPart \/ FillWhole \/ Whole \/ Rest \/ FinalLength \/ FinalOut

ShaNext ==
  \/ blk_SHA1_Init
  \/ \E bytes \in Seq(Byte) : Update(bytes)
  \/ FinalPad
  \/ ShaStep

ShaSpec == ShaInit /\ [][ShaNext]_shaVars

-----------------------------------------------------------------------------
(* Properties *)

\* The types of the variables.
ShaTypeOK ==
  /\ size \in Nat
  /\ H \in Seq([1..64 -> Byte])
  /\ W \in [1..64 -> Byte \cup {Unset}]
  /\ at \in {"none", "idle", "entry", "loop"}
  /\ data \in Seq(Byte)
  /\ final \in {"no", "pad", "length", "out"}
  /\ padlen \in Seq(Byte)
  /\ message \in Seq(Byte) /\ input \in Seq(Byte)

\* The padded message of FIPS 180: a bit 1, the least number of zeroes that makes
\* whole blocks, and the length of the message in bits.
Zeroes(n) == CHOOSE z \in 0..63 : (n + 1 + z + 8) % 64 = 0
Padded(m) == m \o (<<128>> \o [k \in 1..Zeroes(Len(m)) |-> 0]) \o LengthField(Len(m))

\* However the message was cut into pieces, what has been compressed when Final
\* is done is the padded message, all of it, block by block.
PaddedIsCompressed ==
  final = "out" =>
    /\ 64 * Len(H) = Len(Padded(message))
    /\ \A n \in 1..Len(H), k \in 1..64 : H[n][k] = Padded(message)[64 * (n - 1) + k]
=============================================================================
