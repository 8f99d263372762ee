----------------------------- MODULE Sha1Proofs -----------------------------
(***************************************************************************)
(* For every message and every way to cut it into pieces: the blocks that  *)
(* Update and Final compress are the padded message.                       *)
(***************************************************************************)
EXTENDS Sha1, SequenceTheorems, TLAPS

\* The blocks compressed are the beginning of the input.
Compressed == \A n \in 1..Len(H), k \in 1..64 : H[n][k] = input[64 * (n - 1) + k]

\* The data of an Update is the end of the input.
Suffix ==
  /\ Len(data) <= Len(input)
  /\ \A j \in 1..Len(data) : data[j] = input[Len(input) - Len(data) + j]

\* What is neither compressed nor in the data is at the beginning of W.
Buffered ==
  /\ at # "loop" =>
       /\ Len(input) = size + Len(data)
       /\ size = 64 * Len(H) + lenW
       /\ \A k \in 1..lenW : W[k] = input[64 * Len(H) + k]
  /\ at = "loop" => size = Len(input) /\ Len(input) = 64 * Len(H) + Len(data)
  /\ at \in {"none", "idle"} => data = <<>>

\* How far Final has come, and what it has added to the message.
Phase ==
  /\ at = "none" => final = "no"
  /\ final = "no" => input = message
  /\ final = "pad" => padlen = LengthField(Len(message)) /\ input = message \o Pad(Len(message))
  /\ final \in {"length", "out"} =>
       input = (message \o Pad(Len(message))) \o LengthField(Len(message))
  /\ final = "out" => at = "idle"

ShaInv == ShaTypeOK /\ Compressed /\ Suffix /\ Buffered /\ Phase

-----------------------------------------------------------------------------
(* Sequences *)

LEMMA Remainder ==
  ASSUME NEW s \in Nat, NEW h \in Nat, NEW l \in 0..63, s = 64 * h + l
  PROVE  s % 64 = l
OBVIOUS

LEMMA FillArith ==
  ASSUME NEW s \in Nat, NEW h \in Nat, NEW l \in 0..63, NEW d \in Nat, NEW t,
         d < 64 - l, s = 64 * h + l, t = s + d
  PROVE  t \in Nat /\ t % 64 = l + d
<1>1. t = 64 * h + (l + d) /\ l + d \in 0..63 /\ t \in Nat
  OBVIOUS
<1> QED
  BY <1>1, Remainder

LEMMA Below ==
  ASSUME NEW h \in Nat, NEW m \in 1..(h + 1), m # h + 1
  PROVE  m \in 1..h
OBVIOUS

\* What memcpy() leaves in W.
LEMMA CopiedType ==
  ASSUME NEW w \in [1..64 -> Byte \cup {Unset}], NEW d \in Seq(Byte),
         NEW from \in 0..64, NEW n \in 0..Len(d),
         NEW c, c = [k \in 1..64 |-> IF from < k /\ k <= from + n THEN d[k - from] ELSE w[k]]
  PROVE  c \in [1..64 -> Byte \cup {Unset}]
<1> SUFFICES ASSUME NEW k \in 1..64
             PROVE  (IF from < k /\ k <= from + n THEN d[k - from] ELSE w[k])
                      \in Byte \cup {Unset}
  BY Zenon
<1>1. CASE from < k /\ k <= from + n
  <2>1. k - from \in 1..Len(d)
    BY <1>1
  <2>2. d[k - from] \in Byte
    BY <2>1, ElementOfSeq
  <2> QED
    BY <1>1, <2>2
<1>2. CASE ~(from < k /\ k <= from + n)
  BY <1>2
<1> QED
  BY <1>1, <1>2

LEMMA PrefixOfSeq ==
  ASSUME NEW B, NEW d \in Seq(B), NEW n \in 0..Len(d), NEW r, r = SubSeq(d, 1, n)
  PROVE  r \in [1..n -> B] /\ \A j \in 1..n : r[j] = d[j]
<1>1. r \in Seq(B) /\ Len(r) = n
  OBVIOUS
<1>2. r \in [1..n -> B]
  BY <1>1, LenProperties
<1> QED
  BY <1>2

LEMMA RestOfSeq ==
  ASSUME NEW B, NEW d \in Seq(B), NEW n \in 0..Len(d), NEW r, r = SubSeq(d, n + 1, Len(d))
  PROVE  /\ r \in Seq(B) /\ Len(r) = Len(d) - n
         /\ \A j \in 1..(Len(d) - n) : r[j] = d[n + j]
OBVIOUS

LEMMA DataRest ==
  ASSUME data \in Seq(Byte), NEW n \in 0..Len(data), data' = SubSeq(data, n + 1, Len(data))
  PROVE  /\ data' \in Seq(Byte) /\ Len(data') = Len(data) - n
         /\ \A j \in 1..(Len(data) - n) : data'[j] = data[n + j]
OBVIOUS

LEMMA DataPrefix ==
  ASSUME data \in Seq(Byte), NEW n \in 0..Len(data)
  PROVE  /\ SubSeq(data, 1, n) \in [1..n -> Byte]
         /\ \A k \in 1..n : SubSeq(data, 1, n)[k] = data[k]
<1>1. SubSeq(data, 1, n) \in Seq(Byte) /\ Len(SubSeq(data, 1, n)) = n
  OBVIOUS
<1>2. SubSeq(data, 1, n) \in [1..n -> Byte]
  BY <1>1, LenProperties
<1>3. \A k \in 1..n : SubSeq(data, 1, n)[k] = data[k]
  OBVIOUS
<1> QED
  BY <1>2, <1>3

LEMMA LessThan64 == ASSUME NEW n \in Nat, n < 64 PROVE n \in 0..63
OBVIOUS

LEMMA WCopied ==
  ASSUME W \in [1..64 -> Byte \cup {Unset}], data \in Seq(Byte),
         NEW from \in 0..64, W' = Copied(from, Len(data))
  PROVE  W' \in [1..64 -> Byte \cup {Unset}]
<1>1. ASSUME NEW k \in 1..64
      PROVE  (IF from < k /\ k <= from + Len(data) THEN data[k - from] ELSE W[k])
               \in Byte \cup {Unset}
  <2>1. CASE from < k /\ k <= from + Len(data)
    <3>1. k - from \in 1..Len(data)
      BY <2>1
    <3>2. data[k - from] \in Byte
      BY <3>1, ElementOfSeq
    <3> QED
      BY <2>1, <3>2, Zenon
  <2>2. CASE ~(from < k /\ k <= from + Len(data))
    <3>1. W[k] \in Byte \cup {Unset}
      OBVIOUS
    <3> QED
      BY <2>2, <3>1, Zenon
  <2> QED
    BY <2>1, <2>2
<1> QED
  BY <1>1, Zenon DEF Copied

LEMMA AppendTo ==
  ASSUME NEW B, NEW h \in Seq(B), NEW b \in B, NEW g, g = Append(h, b)
  PROVE  /\ g \in Seq(B) /\ Len(g) = Len(h) + 1
         /\ \A j \in 1..Len(h) : g[j] = h[j]
         /\ g[Len(h) + 1] = b
BY AppendProperties

LEMMA ConcatOfFour ==
  ASSUME NEW B, NEW hi \in Seq(B), NEW lo \in Seq(B), Len(hi) = 4, Len(lo) = 4
  PROVE  hi \o lo \in Seq(B) /\ Len(hi \o lo) = 8
<1>1. hi \o lo \in Seq(B) /\ Len(hi \o lo) = Len(hi) + Len(lo)
  BY ConcatProperties
<1> QED
  BY <1>1

LEMMA LengthFieldType ==
  ASSUME NEW n \in Nat
  PROVE  LengthField(n) \in Seq(Byte) /\ Len(LengthField(n)) = 8
<1>1. ASSUME NEW w \in Nat PROVE BigEndian(w) \in Seq(Byte) /\ Len(BigEndian(w)) = 4
  BY SMT DEF BigEndian, Byte
<1>2. n \div 536870912 \in Nat /\ (n % 536870912) * 8 \in Nat
  BY SMT
<1> DEFINE hi == BigEndian(n \div 536870912)
           lo == BigEndian((n % 536870912) * 8)
<1>3. hi \in Seq(Byte) /\ Len(hi) = 4 /\ lo \in Seq(Byte) /\ Len(lo) = 4
  BY <1>1, <1>2, SMT
<1>4. LengthField(n) = hi \o lo
  BY SMT DEF LengthField
<1> HIDE DEF hi, lo
<1> QED
  BY <1>3, <1>4, ConcatOfFour

LEMMA PadType ==
  ASSUME NEW n \in Nat
  PROVE  /\ PadLength(n) \in 1..64
         /\ (n + PadLength(n) + 8) % 64 = 0
         /\ Pad(n) \in Seq(Byte) /\ Len(Pad(n)) = PadLength(n)
<1>1. PadLength(n) \in 1..64 /\ (n + PadLength(n) + 8) % 64 = 0
  BY DEF PadLength
<1>2. ASSUME NEW m \in Nat, NEW f, f = [k \in 1..m |-> IF k = 1 THEN 128 ELSE 0]
      PROVE  f \in Seq(Byte) /\ Len(f) = m
  <2>1. f \in [1..m -> Byte]
    BY <1>2 DEF Byte
  <2>2. f \in Seq(Byte)
    BY <2>1, SeqDef, Zenon
  <2>3. DOMAIN f = 1..m /\ DOMAIN f = 1..Len(f) /\ Len(f) \in Nat
    BY <2>1, <2>2, LenProperties
  <2> QED
    BY <2>2, <2>3
<1>3. PadLength(n) \in Nat
  BY <1>1
<1>4. Pad(n) \in Seq(Byte) /\ Len(Pad(n)) = PadLength(n)
  BY <1>2, <1>3, Zenon DEF Pad
<1> QED
  BY <1>1, <1>4

-----------------------------------------------------------------------------
(* The steps *)

LEMMA ShaInitInv == ShaInit => ShaInv
BY DEF ShaInit, ShaInv, ShaTypeOK, Compressed, Suffix, Buffered, Phase, Null, lenW

\* The types as the steps below use them.
LEMMA ShaTypes ==
  ASSUME ShaInv
  PROVE  /\ size \in Nat /\ lenW \in 0..63
         /\ Len(H) \in Nat
         /\ data \in Seq(Byte) /\ Len(data) \in Nat
         /\ input \in Seq(Byte) /\ Len(input) \in Nat
<1>1. ShaTypeOK
  BY DEF ShaInv
<1>2. size \in Nat
  BY <1>1 DEF ShaTypeOK
<1>3. lenW \in 0..63
  BY <1>2 DEF lenW
<1>4. H \in Seq([1..64 -> Byte]) /\ data \in Seq(Byte) /\ input \in Seq(Byte)
  BY <1>1 DEF ShaTypeOK
<1>5. Len(H) \in Nat /\ Len(data) \in Nat /\ Len(input) \in Nat
  BY <1>4, LenProperties
<1> QED
  BY <1>2, <1>3, <1>4, <1>5

\* A call of Update appends its data to the input, and touches no byte before it.
LEMMA CallKeeps ==
  ASSUME ShaInv, at = "idle", NEW bytes \in Seq(Byte), Call(bytes), UNCHANGED ctx
  PROVE  /\ data' \in Seq(Byte) /\ input' \in Seq(Byte)
         /\ Compressed' /\ Suffix' /\ Buffered'
<1>1. /\ data' = bytes /\ input' = input \o bytes /\ at' = "entry"
      /\ H' = H /\ W' = W /\ size' = size /\ lenW' = lenW
  BY DEF Call, ctx, lenW
<1>2. /\ input \in Seq(Byte) /\ Len(input) \in Nat
      /\ Len(H) \in Nat /\ Len(bytes) \in Nat /\ lenW \in 0..63
  BY ShaTypes
<1>3. /\ input' \in Seq(Byte) /\ Len(input') = Len(input) + Len(bytes)
      /\ \A j \in 1..Len(input) : input'[j] = input[j]
      /\ \A j \in 1..Len(bytes) : input'[Len(input) + j] = bytes[j]
  BY <1>1, <1>2
<1>4. /\ Len(input) = 64 * Len(H) + lenW /\ size = Len(input)
      /\ \A k \in 1..lenW : W[k] = input[64 * Len(H) + k]
  <2>1. data = <<>> /\ Len(input) = size + Len(data) /\ size = 64 * Len(H) + lenW
        /\ \A k \in 1..lenW : W[k] = input[64 * Len(H) + k]
    BY DEF ShaInv, Buffered
  <2> QED
    BY <2>1, <1>2
<1>5. Compressed'
  <2> SUFFICES ASSUME NEW n \in 1..Len(H), NEW k \in 1..64
               PROVE  H[n][k] = input'[64 * (n - 1) + k]
    BY <1>1 DEF Compressed
  <2>1. 64 * (n - 1) + k \in 1..Len(input)
    BY <1>2, <1>4, SMTT(30)
  <2>2. H[n][k] = input[64 * (n - 1) + k]
    BY DEF ShaInv, Compressed
  <2> QED
    BY <2>1, <2>2, <1>3
<1>6. Suffix'
  BY <1>1, <1>2, <1>3 DEF Suffix
<1>7. Buffered'
  <2>1. ASSUME NEW k \in 1..lenW PROVE W[k] = input'[64 * Len(H) + k]
    <3>1. 64 * Len(H) + k \in 1..Len(input)
      BY <1>2, <1>4
    <3> QED
      BY <3>1, <1>3, <1>4
  <2> QED
    BY <1>1, <1>2, <1>3, <1>4, <2>1 DEF Buffered
<1> QED
  BY <1>1, <1>3, <1>5, <1>6, <1>7

\* The message, or the data of Final, is one that Update may be called with.
LEMMA UpdateKeeps ==
  ASSUME ShaInv, NEW bytes \in Seq(Byte), Update(bytes)
  PROVE  ShaInv'
<1>1. at = "idle" /\ final = "no" /\ Call(bytes) /\ UNCHANGED ctx
  BY DEF Update
<1>2. /\ data' \in Seq(Byte) /\ input' \in Seq(Byte)
      /\ Compressed' /\ Suffix' /\ Buffered'
  BY <1>1, CallKeeps
<1>3. message' = message \o bytes /\ input' = input \o bytes /\ final' = "no" /\ padlen' = padlen
      /\ at' = "entry" /\ input = message
  BY <1>1 DEF Update, Call, ShaInv, Phase
<1>4. ShaTypeOK'
  BY <1>1, <1>2, <1>3 DEF ShaInv, ShaTypeOK, ctx
<1>5. Phase'
  BY <1>3 DEF Phase
<1> QED
  BY <1>2, <1>4, <1>5 DEF ShaInv

LEMMA FinalPadKeeps == ASSUME ShaInv, FinalPad PROVE ShaInv'
<1>1. at = "idle" /\ final = "no" /\ Call(Pad(size)) /\ UNCHANGED ctx
  BY DEF FinalPad
<1>2. input = message /\ size = Len(message) /\ size \in Nat
  <2>1. input = message /\ data = <<>> /\ Len(input) = size + Len(data) /\ size \in Nat
    BY <1>1 DEF ShaInv, ShaTypeOK, Buffered, Phase
  <2> QED
    BY <2>1
<1>3. Pad(size) \in Seq(Byte) /\ LengthField(size) \in Seq(Byte)
  BY <1>2, PadType, LengthFieldType
<1>4. /\ data' \in Seq(Byte) /\ input' \in Seq(Byte)
      /\ Compressed' /\ Suffix' /\ Buffered'
  BY <1>1, <1>3, CallKeeps
<1>5. message' = message /\ input' = input \o Pad(size) /\ final' = "pad"
      /\ padlen' = LengthField(size) /\ at' = "entry"
  BY DEF FinalPad, Call
<1>6. ShaTypeOK'
  BY <1>1, <1>3, <1>4, <1>5 DEF ShaInv, ShaTypeOK, ctx
<1>7. Phase'
  BY <1>2, <1>5 DEF Phase
<1> QED
  BY <1>4, <1>6, <1>7 DEF ShaInv

LEMMA FinalLengthKeeps == ASSUME ShaInv, FinalLength PROVE ShaInv'
<1>1. at = "idle" /\ final = "pad" /\ Call(padlen) /\ UNCHANGED ctx
  BY DEF FinalLength
<1>2. padlen \in Seq(Byte) /\ padlen = LengthField(Len(message))
      /\ input = message \o Pad(Len(message))
  BY <1>1 DEF ShaInv, ShaTypeOK, Phase
<1>3. /\ data' \in Seq(Byte) /\ input' \in Seq(Byte)
      /\ Compressed' /\ Suffix' /\ Buffered'
  BY <1>1, <1>2, CallKeeps
<1>4. message' = message /\ input' = input \o padlen /\ final' = "length"
      /\ padlen' = padlen /\ at' = "entry"
  BY DEF FinalLength, Call
<1>5. ShaTypeOK'
  BY <1>1, <1>3, <1>4 DEF ShaInv, ShaTypeOK, ctx
<1>6. Phase'
  BY <1>2, <1>4 DEF Phase
<1> QED
  BY <1>3, <1>5, <1>6 DEF ShaInv

LEMMA FinalOutKeeps == ASSUME ShaInv, FinalOut PROVE ShaInv'
BY ZenonT(60) DEF ShaInv, ShaTypeOK, Compressed, Suffix, Buffered, Phase, lenW, FinalOut, ctx

LEMMA InitKeeps == ASSUME ShaInv, blk_SHA1_Init PROVE ShaInv'
<1>1. data = <<>>
  BY DEF ShaInv, Buffered, Phase, blk_SHA1_Init
<1> QED
  BY <1>1 DEF ShaInv, ShaTypeOK, Compressed, Suffix, Buffered, Phase, lenW, blk_SHA1_Init

LEMMA AlignedKeeps == ASSUME ShaInv, Aligned PROVE ShaInv'
<1>0. /\ size \in Nat /\ lenW \in 0..63 /\ Len(H) \in Nat
      /\ data \in Seq(Byte) /\ Len(data) \in Nat
      /\ input \in Seq(Byte) /\ Len(input) \in Nat
  BY ShaTypes
<1>1. /\ at = "entry" /\ lenW = 0 /\ size' = size + Len(data) /\ at' = "loop"
      /\ UNCHANGED <<H, W, data, final, padlen, message, input>>
  BY DEF Aligned
<1>2. Len(input) = size + Len(data) /\ size = 64 * Len(H) + lenW
  BY <1>1 DEF ShaInv, Buffered
<1>3. ShaTypeOK'
  BY <1>1, <1>0 DEF ShaInv, ShaTypeOK
<1>4. Buffered'
  BY <1>1, <1>2, <1>0 DEF Buffered
<1>5. Compressed' /\ Suffix' /\ Phase'
  BY <1>1 DEF ShaInv, Compressed, Suffix, Phase
<1> QED
  BY <1>3, <1>4, <1>5 DEF ShaInv

LEMMA FillPartKeeps == ASSUME ShaInv, FillPart PROVE ShaInv'
<1>1. at = "entry" /\ lenW # 0 /\ Len(data) < 64 - lenW
  BY DEF FillPart
<1>2. /\ size' = size + Len(data) /\ W' = Copied(lenW, Len(data))
      /\ data' = <<>> /\ at' = "idle"
      /\ UNCHANGED <<H, final, padlen, message, input>>
  BY DEF FillPart
<1>3. /\ size \in Nat /\ lenW \in 0..63 /\ Len(H) \in Nat
      /\ data \in Seq(Byte) /\ Len(data) \in Nat
      /\ input \in Seq(Byte) /\ Len(input) \in Nat
  BY ShaTypes
<1>4. Len(input) = size + Len(data) /\ size = 64 * Len(H) + lenW
  BY <1>1 DEF ShaInv, Buffered
<1>5. \A k \in 1..lenW : W[k] = input[64 * Len(H) + k]
  BY <1>1 DEF ShaInv, Buffered
<1>6. size' \in Nat /\ lenW' = lenW + Len(data)
  <2>1. size' = size + Len(data)
    BY DEF FillPart
  <2>2. size' \in Nat /\ size' % 64 = lenW + Len(data)
    BY <1>1, <1>3, <1>4, <2>1, FillArith
  <2> QED
    BY <2>2 DEF lenW
<1>7. W' = [k \in 1..64 |-> IF lenW < k /\ k <= lenW + Len(data) THEN data[k - lenW] ELSE W[k]]
  BY <1>2 DEF Copied
<1>8. W' \in [1..64 -> Byte \cup {Unset}]
  <2>1. W \in [1..64 -> Byte \cup {Unset}]
    BY DEF ShaInv, ShaTypeOK
  <2>2. lenW \in 0..64 /\ data \in Seq(Byte)
    BY <1>3
  <2>3. W' = Copied(lenW, Len(data))
    BY DEF FillPart
  <2> QED
    BY <2>1, <2>2, <2>3, WCopied
<1>9. ShaTypeOK'
  BY <1>2, <1>6, <1>8 DEF ShaInv, ShaTypeOK
<1>10. ASSUME NEW k \in 1..(lenW + Len(data)) PROVE W'[k] = input[64 * Len(H) + k]
  <2>1. k \in 1..64
    BY <1>1, <1>3
  <2>2. CASE k <= lenW
    <3>1. k \in 1..lenW /\ ~(lenW < k)
      BY <1>3, <2>2
    <3>2. W'[k] = W[k]
      BY <1>7, <2>1, <3>1, Zenon
    <3> QED
      BY <1>5, <3>1, <3>2
  <2>3. CASE k > lenW
    <3>1. k - lenW \in 1..Len(data) /\ lenW < k /\ k <= lenW + Len(data)
      BY <1>3, <2>3
    <3>2. W'[k] = data[k - lenW]
      BY <1>7, <2>1, <3>1, Zenon
    <3>3. data[k - lenW] = input[Len(input) - Len(data) + (k - lenW)]
      BY <3>1 DEF ShaInv, Suffix
    <3>4. Len(input) - Len(data) + (k - lenW) = 64 * Len(H) + k
      BY <1>3, <1>4
    <3> QED
      BY <3>2, <3>3, <3>4
  <2>4. k <= lenW \/ k > lenW
    BY <1>3
  <2> QED
    BY <2>2, <2>3, <2>4, Zenon
<1>11. Buffered'
  <2>1. Len(input) = size' /\ size' = 64 * Len(H) + (lenW + Len(data))
    BY <1>2, <1>3, <1>4
  <2>2. Len(data') = 0
    BY <1>2
  <2> QED
    BY <1>2, <1>3, <1>6, <1>10, <2>1, <2>2 DEF Buffered
<1>12. Compressed' /\ Suffix'
  BY <1>2, <1>3 DEF ShaInv, Compressed, Suffix
<1>13. Phase'
  BY <1>1, <1>2 DEF ShaInv, Phase
<1> QED
  BY <1>9, <1>11, <1>12, <1>13 DEF ShaInv

\* A block is appended to H, and n bytes are taken from the data.
Absorbs(block, n) ==
  /\ block \in [1..64 -> Byte] /\ n \in 0..Len(data)
  /\ W' \in [1..64 -> Byte \cup {Unset}]
  /\ H' = Append(H, block) /\ data' = SubSeq(data, n + 1, Len(data))
  /\ at' = "loop" /\ size' = Len(input)
  /\ UNCHANGED <<final, padlen, message, input>>

\* Its bytes are the next ones of the input, and what is left is the end of it.
IsNext(block, n) ==
  /\ \A k \in 1..64 : block[k] = input[64 * Len(H) + k]
  /\ Len(input) = 64 * Len(H) + 64 + (Len(data) - n)

LEMMA BlockKeeps ==
  ASSUME ShaInv, at \in {"entry", "loop"},
         NEW block, NEW n, Absorbs(block, n), IsNext(block, n)
  PROVE  ShaInv'
<1>1. /\ Len(H) \in Nat /\ data \in Seq(Byte) /\ Len(data) \in Nat
      /\ input \in Seq(Byte) /\ Len(input) \in Nat
  BY ShaTypes
<1>2. H \in Seq([1..64 -> Byte])
  BY DEF ShaInv, ShaTypeOK
<1>3. /\ H' \in Seq([1..64 -> Byte]) /\ Len(H') = Len(H) + 1
      /\ \A j \in 1..Len(H) : H'[j] = H[j]
      /\ H'[Len(H) + 1] = block
  <2>1. H' = Append(H, block) /\ block \in [1..64 -> Byte]
    BY DEF Absorbs
  <2> QED
    BY <1>2, <2>1, AppendTo
<1>4. /\ data' \in Seq(Byte) /\ Len(data') = Len(data) - n
      /\ \A j \in 1..(Len(data) - n) : data'[j] = data[n + j]
  <2>1. data' = SubSeq(data, n + 1, Len(data))
    BY DEF Absorbs
  <2>2. data \in Seq(Byte) /\ n \in 0..Len(data)
    BY <1>1 DEF Absorbs
  <2> QED
    BY <2>1, <2>2, DataRest
<1>5. /\ at' = "loop" /\ size' = Len(input) /\ input' = input /\ message' = message
      /\ final' = final /\ padlen' = padlen
      /\ W' \in [1..64 -> Byte \cup {Unset}] /\ n \in 0..Len(data)
  BY DEF Absorbs
<1>6. ShaTypeOK'
  BY <1>1, <1>3, <1>4, <1>5 DEF ShaInv, ShaTypeOK
<1>7. Compressed'
  <2> SUFFICES ASSUME NEW m \in 1..(Len(H) + 1), NEW k \in 1..64
               PROVE  H'[m][k] = input[64 * (m - 1) + k]
    BY <1>3, <1>5 DEF Compressed
  <2>1. CASE m = Len(H) + 1
    <3>1. 64 * (m - 1) = 64 * Len(H)
      BY <1>1, <2>1
    <3>2. block[k] = input[64 * Len(H) + k]
      BY DEF IsNext
    <3> QED
      BY <1>3, <2>1, <3>1, <3>2
  <2>2. CASE m # Len(H) + 1
    <3>1. m \in 1..Len(H)
      BY <1>1, <2>2, Below, Zenon
    <3>2. H[m][k] = input[64 * (m - 1) + k]
      BY <3>1 DEF ShaInv, Compressed
    <3> QED
      BY <1>3, <3>1, <3>2
  <2> QED
    BY <2>1, <2>2
<1>8. Suffix'
  <2>1. ASSUME NEW j \in 1..(Len(data) - n)
        PROVE  data'[j] = input[Len(input) - (Len(data) - n) + j]
    <3>1. n + j \in 1..Len(data)
      BY <1>1, <1>5
    <3>2. data[n + j] = input[Len(input) - Len(data) + (n + j)]
      BY <3>1 DEF ShaInv, Suffix
    <3>3. Len(input) - Len(data) + (n + j) = Len(input) - (Len(data) - n) + j
      BY <1>1, <1>5
    <3> QED
      BY <1>4, <3>2, <3>3
  <2>2. Len(data) - n <= Len(input)
    <3>1. Len(data) <= Len(input)
      BY DEF ShaInv, Suffix
    <3> QED
      BY <1>1, <1>5, <3>1
  <2> QED
    BY <1>4, <1>5, <2>1, <2>2 DEF Suffix
<1>9. Buffered'
  <2>1. Len(input) = 64 * (Len(H) + 1) + (Len(data) - n)
    <3>1. Len(input) = 64 * Len(H) + 64 + (Len(data) - n)
      BY DEF IsNext
    <3> QED
      BY <1>1, <1>5, <3>1
  <2> QED
    BY <1>3, <1>4, <1>5, <2>1 DEF Buffered
<1>10. Phase'
  BY <1>5 DEF ShaInv, Phase
<1> QED
  BY <1>6, <1>7, <1>8, <1>9, <1>10 DEF ShaInv

LEMMA FillWholeKeeps == ASSUME ShaInv, FillWhole PROVE ShaInv'
<1>1. at = "entry" /\ lenW # 0 /\ Len(data) >= 64 - lenW
  BY DEF FillWhole
<1>2. /\ size \in Nat /\ lenW \in 0..63 /\ Len(H) \in Nat
      /\ data \in Seq(Byte) /\ Len(data) \in Nat
      /\ input \in Seq(Byte) /\ Len(input) \in Nat
  BY ShaTypes
<1>3. Len(input) = size + Len(data) /\ size = 64 * Len(H) + lenW
  BY <1>1 DEF ShaInv, Buffered
<1>4. \A k \in 1..lenW : W[k] = input[64 * Len(H) + k]
  BY <1>1 DEF ShaInv, Buffered
<1>5. Filled = [k \in 1..64 |-> IF lenW < k /\ k <= lenW + (64 - lenW)
                                THEN data[k - lenW] ELSE W[k]]
  BY DEF Filled, Copied
<1>6. ASSUME NEW k \in 1..64 PROVE Filled[k] = input[64 * Len(H) + k]
  <2>1. CASE k <= lenW
    <3>1. k \in 1..lenW /\ ~(lenW < k)
      BY <1>2, <2>1
    <3>2. Filled[k] = W[k]
      BY <1>5, <3>1, Zenon
    <3> QED
      BY <1>4, <3>1, <3>2
  <2>2. CASE k > lenW
    <3>1. k - lenW \in 1..Len(data) /\ lenW < k /\ k <= lenW + (64 - lenW)
      BY <1>1, <1>2, <2>2
    <3>2. Filled[k] = data[k - lenW]
      BY <1>5, <3>1, Zenon
    <3>3. data[k - lenW] = input[Len(input) - Len(data) + (k - lenW)]
      BY <3>1 DEF ShaInv, Suffix
    <3>4. Len(input) - Len(data) + (k - lenW) = 64 * Len(H) + k
      BY <1>2, <1>3
    <3> QED
      BY <3>2, <3>3, <3>4
  <2> QED
    BY <1>2, <2>1, <2>2
<1>7. Filled \in [1..64 -> Byte]
  <2>1. ASSUME NEW k \in 1..64 PROVE Filled[k] \in Byte
    <3>1. 64 * Len(H) + k \in 1..Len(input)
      BY <1>1, <1>2, <1>3
    <3>2. input[64 * Len(H) + k] \in Byte
      BY <1>2, <3>1, ElementOfSeq
    <3> QED
      BY <1>6, <3>2
  <2> QED
    BY <1>5, <2>1, Zenon
<1>8. 64 - lenW \in 0..Len(data)
  BY <1>1, <1>2
<1>9. Absorbs(Filled, 64 - lenW)
  <2>1. size + Len(data) = Len(input)
    BY <1>3
  <2>2. W' \in [1..64 -> Byte \cup {Unset}]
    <3>1. W' = Filled
      BY DEF FillWhole
    <3> QED
      BY <1>7, <3>1
  <2> QED
    BY <1>7, <1>8, <2>1, <2>2 DEF FillWhole, Absorbs
<1>10. IsNext(Filled, 64 - lenW)
  <2>1. Len(input) = 64 * Len(H) + 64 + (Len(data) - (64 - lenW))
    BY <1>2, <1>3
  <2> QED
    BY <1>6, <2>1, Zenon DEF IsNext
<1> QED
  BY <1>1, <1>9, <1>10, BlockKeeps

LEMMA WholeKeeps == ASSUME ShaInv, Whole PROVE ShaInv'
<1>1. at = "loop" /\ Len(data) >= 64
  BY DEF Whole
<1>2. /\ Len(H) \in Nat /\ data \in Seq(Byte) /\ Len(data) \in Nat
      /\ input \in Seq(Byte) /\ Len(input) \in Nat
  BY ShaTypes
<1>3. size = Len(input) /\ Len(input) = 64 * Len(H) + Len(data)
  BY <1>1 DEF ShaInv, Buffered
<1> DEFINE block == SubSeq(data, 1, 64)
<1>4. 64 \in 0..Len(data)
  BY <1>1, <1>2
<1>5. block \in [1..64 -> Byte] /\ \A k \in 1..64 : block[k] = data[k]
  BY <1>2, <1>4, DataPrefix, Zenon
<1>6. Absorbs(block, 64)
  <2>1. W' \in [1..64 -> Byte \cup {Unset}]
    BY DEF Whole, ShaInv, ShaTypeOK
  <2> QED
    BY <1>1, <1>3, <1>4, <1>5, <2>1 DEF Whole, Absorbs
<1>7. IsNext(block, 64)
  <2>1. Len(input) = 64 * Len(H) + 64 + (Len(data) - 64)
    BY <1>2, <1>3
  <2>2. ASSUME NEW k \in 1..64 PROVE block[k] = input[64 * Len(H) + k]
    <3>1. k \in 1..Len(data) /\ Len(input) - Len(data) + k = 64 * Len(H) + k
      BY <1>1, <1>2, <1>3
    <3>2. data[k] = input[Len(input) - Len(data) + k]
      BY <3>1 DEF ShaInv, Suffix
    <3> HIDE DEF block
    <3> QED
      BY <1>5, <3>1, <3>2
  <2> HIDE DEF block
  <2> QED
    BY <2>1, <2>2 DEF IsNext
<1> HIDE DEF block
<1> QED
  BY <1>1, <1>6, <1>7, BlockKeeps

LEMMA RestKeeps == ASSUME ShaInv, Rest PROVE ShaInv'
<1>1. at = "loop" /\ Len(data) < 64
  BY DEF Rest
<1>2. /\ W' = Copied(0, Len(data)) /\ data' = <<>> /\ at' = "idle"
      /\ UNCHANGED <<size, H, final, padlen, message, input>>
  BY DEF Rest
<1>3. /\ size \in Nat /\ Len(H) \in Nat
      /\ data \in Seq(Byte) /\ Len(data) \in Nat
      /\ input \in Seq(Byte) /\ Len(input) \in Nat
  BY ShaTypes
<1>4. size = Len(input) /\ Len(input) = 64 * Len(H) + Len(data)
  BY <1>1 DEF ShaInv, Buffered
<1>5. lenW' = Len(data)
  <2>1. Len(data) \in 0..63
    BY <1>1, <1>3, LessThan64, Zenon
  <2>4. size = 64 * Len(H) + Len(data)
    BY <1>4, Zenon
  <2>2. size % 64 = Len(data)
    BY <1>3, <2>1, <2>4, Remainder
  <2>3. size' = size
    BY DEF Rest
  <2> QED
    BY <2>2, <2>3 DEF lenW
<1>6. W' = [k \in 1..64 |-> IF 0 < k /\ k <= 0 + Len(data) THEN data[k - 0] ELSE W[k]]
  BY <1>2 DEF Copied
<1>7. W' \in [1..64 -> Byte \cup {Unset}]
  <2>1. W \in [1..64 -> Byte \cup {Unset}]
    BY DEF ShaInv, ShaTypeOK
  <2>2. 0 \in 0..64 /\ data \in Seq(Byte)
    BY <1>3
  <2>3. W' = Copied(0, Len(data))
    BY DEF Rest
  <2> QED
    BY <2>1, <2>2, <2>3, WCopied
<1>8. ShaTypeOK'
  BY <1>2, <1>7 DEF ShaInv, ShaTypeOK
<1>9. ASSUME NEW k \in 1..Len(data) PROVE W'[k] = input[64 * Len(H) + k]
  <2>1. k \in 1..64 /\ 0 < k /\ k <= 0 + Len(data) /\ k - 0 = k
    BY <1>1, <1>3
  <2>2. W'[k] = data[k - 0]
    BY <1>6, <2>1, Zenon
  <2>3. data[k] = input[Len(input) - Len(data) + k]
    BY DEF ShaInv, Suffix
  <2>4. Len(input) - Len(data) + k = 64 * Len(H) + k
    BY <1>3, <1>4
  <2> QED
    BY <2>1, <2>2, <2>3, <2>4
<1>10. Buffered'
  <2>1. Len(data') = 0
    BY <1>2
  <2> QED
    BY <1>2, <1>3, <1>4, <1>5, <1>9, <2>1 DEF Buffered
<1>11. Compressed' /\ Suffix'
  BY <1>2, <1>3 DEF ShaInv, Compressed, Suffix
<1>12. Phase'
  BY <1>1, <1>2 DEF ShaInv, Phase
<1> QED
  BY <1>8, <1>10, <1>11, <1>12 DEF ShaInv

THEOREM ShaInductive == ShaSpec => []ShaInv
<1>1. ShaInv /\ [ShaNext]_shaVars => ShaInv'
  <2> SUFFICES ASSUME ShaInv, [ShaNext]_shaVars PROVE ShaInv'
    OBVIOUS
  <2>1. CASE blk_SHA1_Init
    BY <2>1, InitKeeps
  <2>2. CASE \E bytes \in Seq(Byte) : Update(bytes)
    BY <2>2, UpdateKeeps
  <2>3. CASE FinalPad
    BY <2>3, FinalPadKeeps
  <2>4. CASE ShaStep
    BY <2>4, AlignedKeeps, FillPartKeeps, FillWholeKeeps, WholeKeeps, RestKeeps,
       FinalLengthKeeps, FinalOutKeeps DEF ShaStep
  <2>5. CASE UNCHANGED shaVars
    BY <2>5, ZenonT(60) DEF shaVars, ctx, ShaInv, ShaTypeOK, Compressed, Suffix, Buffered, Phase, lenW
  <2> QED
    BY <2>1, <2>2, <2>3, <2>4, <2>5 DEF ShaNext
<1> QED
  BY <1>1, ShaInitInv, PTL DEF ShaSpec

\* The padding of the code is that of the standard.
LEMMA PaddedAsCoded ==
  ASSUME NEW m \in Seq(Byte)
  PROVE  Padded(m) = (m \o Pad(Len(m))) \o LengthField(Len(m))
<1>1. Len(m) \in Nat
  BY LenProperties
<1> DEFINE z == PadLength(Len(m)) - 1
<1>2. Zeroes(Len(m)) = z /\ z \in 0..63
  <2>1. ASSUME NEW n \in Nat PROVE Zeroes(n) = PadLength(n) - 1
    <3>1. PadLength(n) - 1 \in 0..63 /\ (n + 1 + (PadLength(n) - 1) + 8) % 64 = 0
      BY DEF PadLength
    <3>2. ASSUME NEW y \in 0..63, (n + 1 + y + 8) % 64 = 0 PROVE y = PadLength(n) - 1
      BY <3>2 DEF PadLength
    <3> QED
      BY <3>1, <3>2 DEF Zeroes
  <2>2. ASSUME NEW n \in Nat PROVE PadLength(n) - 1 \in 0..63
    BY DEF PadLength
  <2> QED
    BY <1>1, <2>1, <2>2
<1> DEFINE zeroes == [k \in 1..z |-> 0]
<1> HIDE DEF z
<1>3. zeroes \in Seq(Byte) /\ Len(zeroes) = z
  BY <1>2 DEF Byte
<1>4. <<128>> \o zeroes = [k \in 1..(z + 1) |-> IF k = 1 THEN 128 ELSE 0]
  BY <1>2, <1>3
<1>5. PadLength(Len(m)) = z + 1
  BY <1>1, <1>2 DEF z, PadLength
<1> QED
  BY <1>2, <1>4, <1>5 DEF Padded, Pad

LEMMA ConcatLength ==
  ASSUME NEW B, NEW a \in Seq(B), NEW b \in Seq(B), NEW c \in Seq(B)
  PROVE  Len((a \o b) \o c) = Len(a) + Len(b) + Len(c)
<1>1. a \o b \in Seq(B) /\ Len(a \o b) = Len(a) + Len(b)
  BY ConcatProperties
<1> QED
  BY <1>1, ConcatProperties

LEMMA PaddedLength ==
  ASSUME NEW m \in Seq(Byte)
  PROVE  Len(Padded(m)) % 64 = 0
<1>1. Padded(m) = (m \o Pad(Len(m))) \o LengthField(Len(m))
  BY PaddedAsCoded
<1>2. Len(m) \in Nat
  BY LenProperties
<1>3. Pad(Len(m)) \in Seq(Byte) /\ Len(Pad(Len(m))) = PadLength(Len(m))
  BY <1>2, PadType
<1>4. LengthField(Len(m)) \in Seq(Byte) /\ Len(LengthField(Len(m))) = 8
  BY <1>2, LengthFieldType
<1>5. Len(Padded(m)) = Len(m) + PadLength(Len(m)) + 8
  <2>1. Len((m \o Pad(Len(m))) \o LengthField(Len(m)))
          = Len(m) + Len(Pad(Len(m))) + Len(LengthField(Len(m)))
    <3>1. \A a, b, c \in Seq(Byte) : Len((a \o b) \o c) = Len(a) + Len(b) + Len(c)
      BY ConcatLength
    <3> QED
      BY <1>3, <1>4, <3>1, Zenon
  <2> QED
    BY <1>1, <1>3, <1>4, <2>1, Zenon
<1> QED
  BY <1>2, <1>5, PadType

\* However the message is cut into pieces, what blk_SHA1_Block() has been given
\* when blk_SHA1_Final() is done is the padded message of the standard.
THEOREM Sha1Pads == ShaSpec => []PaddedIsCompressed
<1>1. ShaInv => PaddedIsCompressed
  <2> SUFFICES ASSUME ShaInv, final = "out" PROVE
        /\ 64 * Len(H) = Len(Padded(message))
        /\ \A n \in 1..Len(H), k \in 1..64 : H[n][k] = Padded(message)[64 * (n - 1) + k]
    BY Zenon DEF PaddedIsCompressed
  <2>1. input = Padded(message) /\ at = "idle" /\ data = <<>>
    <3>1. message \in Seq(Byte)
      BY DEF ShaInv, ShaTypeOK
    <3> QED
      BY <3>1, PaddedAsCoded DEF ShaInv, Phase, Buffered
  <2>2. \A n \in 1..Len(H), k \in 1..64 : H[n][k] = Padded(message)[64 * (n - 1) + k]
    BY <2>1 DEF ShaInv, Compressed
  <2>3. Len(input) % 64 = 0
    BY <2>1, PaddedLength DEF ShaInv, ShaTypeOK
  <2>4. Len(input) = size /\ size = 64 * Len(H) + lenW /\ size \in Nat /\ Len(H) \in Nat
    BY <2>1, ShaTypes DEF ShaInv, Buffered
  <2>5. lenW = 0
    BY <2>3, <2>4 DEF lenW
  <2> QED
    BY <2>1, <2>2, <2>4, <2>5
<1> QED
  BY <1>1, ShaInductive, PTL

=============================================================================
