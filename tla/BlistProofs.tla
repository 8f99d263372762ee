---------------------------- MODULE BlistProofs ----------------------------
(***************************************************************************)
(* For every size of file and of block: binfo_of_fd() cuts no block that   *)
(* does not fit, without overlap covers each byte once, and with overlap   *)
(* cuts each full window.                                                  *)
(***************************************************************************)
EXTENDS Blist, TLAPS

\* The step of the loop: with overlap it is 1 until a block reaches the end of
\* the file, and that block is the last.
Stepping ==
  pc \in {"map", "loop"} =>
    /\ ~overlap => incre = blksz
    /\ overlap => incre = 1 \/ i >= filesize

\* Without overlap a block ends where the next one begins, or before.
Behind == ~overlap => \A b \in blocks : End(b) <= i

\* With overlap there is room for a block at every offset but the first.
Room ==
  pc = "loop" /\ overlap /\ blksz > 0 => i = 0 \/ i >= filesize \/ i + blksz <= filesize

BlistInv == TypeOK /\ Stepping /\ Behind /\ Room /\ BlocksFit /\ Tiled /\ Windows

LEMMA BlistInit == Init => BlistInv
BY BlistAssumption DEF Init, BlistInv, TypeOK, Stepping, Behind, Room, BlocksFit, Tiled, Windows

\* The block cut at i, while i is in the file.
LEMMA BlockFits ==
  ASSUME TypeOK, i < filesize
  PROVE  /\ Block \in [offset : Nat, size : Nat]
         /\ Block.offset = i
         /\ End(Block) <= filesize
         /\ Block.size <= blksz
         /\ blksz > 0 => Block.size > 0
         /\ AtEnd => End(Block) = filesize
         /\ ~AtEnd => Block.size = blksz
BY DEF TypeOK, Block, AtEnd, End

LEMMA CutKeepsFit ==
  ASSUME BlistInv, Cut
  PROVE  TypeOK' /\ Stepping' /\ Behind' /\ Room' /\ BlocksFit'
<1>1. TypeOK /\ i < filesize /\ pc = "loop"
  BY DEF BlistInv, Cut
<1>2. IncreAfter \in Nat
  BY <1>1 DEF TypeOK, IncreAfter
<1>3. TypeOK'
  BY <1>1, <1>2, BlockFits DEF TypeOK, Cut
<1>4. Stepping'
  BY <1>1 DEF BlistInv, TypeOK, Stepping, Cut, IncreAfter, AtEnd
<1>5. Behind'
  <2> SUFFICES ASSUME ~overlap, NEW b \in blocks \cup {Block}
               PROVE  End(b) <= i'
    BY DEF Behind, Cut, End
  <2>1. i' = i + blksz
    BY <1>1 DEF BlistInv, Stepping, Cut, IncreAfter
  <2>2. CASE b \in blocks
    <3>1. End(b) <= i /\ End(b) \in Nat
      BY <1>1, <2>2 DEF BlistInv, Behind, TypeOK, End
    <3> QED
      BY <1>1, <2>1, <3>1 DEF TypeOK
  <2>3. CASE b = Block
    BY <1>1, <2>1, <2>3, BlockFits DEF TypeOK, End
  <2> QED
    BY <2>2, <2>3
<1>6. Room'
  BY <1>1 DEF BlistInv, TypeOK, Stepping, Room, Cut, IncreAfter, AtEnd
<1>7. BlocksFit'
  BY <1>1, BlockFits DEF BlistInv, BlocksFit, Cut, End
<1> QED
  BY <1>3, <1>4, <1>5, <1>6, <1>7

\* A byte the new block holds was in none before.
LEMMA CutKeepsTiled ==
  ASSUME BlistInv, Cut
  PROVE  Tiled'
<1>1. TypeOK /\ i < filesize /\ pc = "loop"
  BY DEF BlistInv, Cut
<1> SUFFICES ASSUME ~overlap, NEW x \in 0..(filesize - 1), x < i'
             PROVE  \E b \in blocks \cup {Block} :
                      /\ b.offset <= x /\ x < End(b)
                      /\ \A c \in blocks \cup {Block} : c.offset <= x /\ x < End(c) => c = b
  BY DEF Tiled, Cut, End
<1>2. Block.offset = i /\ End(Block) \in Nat
  BY <1>1, BlockFits DEF TypeOK, End
<1>3. CASE x < i
  <2>1. PICK b \in blocks :
          /\ b.offset <= x /\ x < End(b)
          /\ \A c \in blocks : c.offset <= x /\ x < End(c) => c = b
    BY <1>3 DEF BlistInv, Tiled
  <2>2. ~(Block.offset <= x)
    BY <1>1, <1>2, <1>3 DEF TypeOK
  <2> QED
    BY <2>1, <2>2
<1>4. CASE x >= i
  <2>1. \A c \in blocks : ~(x < End(c))
    <3> SUFFICES ASSUME NEW c \in blocks
                 PROVE  End(c) <= x
      BY <1>1 DEF TypeOK, End
    <3>1. End(c) <= i /\ End(c) \in Nat
      BY <1>1 DEF BlistInv, Behind, TypeOK, End
    <3> QED
      BY <1>1, <1>4, <3>1 DEF TypeOK
  <2>2. x < End(Block)
    <3>1. i' = i + blksz
      BY <1>1 DEF BlistInv, Stepping, Cut, IncreAfter
    <3>2. CASE AtEnd
      BY <1>1, <3>2, BlockFits DEF TypeOK
    <3>3. CASE ~AtEnd
      BY <1>1, <3>1, <3>3, BlockFits DEF TypeOK, End
    <3> QED
      BY <3>2, <3>3
  <2> QED
    BY <1>1, <1>2, <1>4, <2>1, <2>2 DEF TypeOK
<1> QED
  BY <1>1, <1>3, <1>4 DEF TypeOK

LEMMA CutKeepsWindows ==
  ASSUME BlistInv, Cut
  PROVE  Windows'
<1>1. TypeOK /\ i < filesize /\ pc = "loop"
  BY DEF BlistInv, Cut
<1> SUFFICES ASSUME overlap, blksz > 0
             PROVE  /\ \A o \in 0..(filesize - blksz) :
                         o < i' => [offset |-> o, size |-> blksz] \in blocks \cup {Block}
                    /\ \A b \in blocks \cup {Block} :
                         b.size = blksz \/ (filesize < blksz /\ b.offset = 0)
  BY DEF Windows, Cut
<1>2. ASSUME NEW o \in 0..(filesize - blksz), o < i'
      PROVE  [offset |-> o, size |-> blksz] \in blocks \cup {Block}
  <2>1. CASE o < i
    BY <2>1 DEF BlistInv, Windows
  <2>2. CASE o >= i
    <3>1. o = i
      BY <1>1, <1>2, <2>2 DEF BlistInv, TypeOK, Stepping, Cut, IncreAfter, AtEnd
    <3>2. Block = [offset |-> o, size |-> blksz]
      BY <1>1, <3>1 DEF TypeOK, Block, AtEnd
    <3> QED
      BY <3>2
  <2> QED
    BY <1>1, <2>1, <2>2 DEF TypeOK
<1>3. Block.size = blksz \/ (filesize < blksz /\ Block.offset = 0)
  BY <1>1 DEF BlistInv, TypeOK, Room, Block, AtEnd
<1> QED
  BY <1>2, <1>3 DEF BlistInv, Windows

LEMMA BlistNext == BlistInv /\ [Next]_vars => BlistInv'
<1> SUFFICES ASSUME BlistInv, [Next]_vars
             PROVE  BlistInv'
  OBVIOUS
<1> USE DEF BlistInv
<1>1. CASE Shrink
  BY <1>1, BlistAssumption
     DEF Shrink, TypeOK, Stepping, Behind, Room, BlocksFit, Tiled, Windows, End
<1>2. CASE Stat
  BY <1>2 DEF Stat, FirstIncre, TypeOK, Stepping, Behind, Room, BlocksFit, Tiled, Windows, End
<1>3. CASE Map
  BY <1>3 DEF Map, TypeOK, Stepping, Behind, Room, BlocksFit, Tiled, Windows, End
<1>4. CASE Cut
  BY <1>4, CutKeepsFit, CutKeepsTiled, CutKeepsWindows
<1>5. CASE BusError
  BY <1>5 DEF BusError, TypeOK, Stepping, Behind, Room, BlocksFit, Tiled, Windows, End
<1>6. CASE Finish
  BY <1>6 DEF Finish, TypeOK, Stepping, Behind, Room, BlocksFit, Tiled, Windows, End
<1>7. CASE UNCHANGED vars
  BY <1>7 DEF vars, TypeOK, Stepping, Behind, Room, BlocksFit, Tiled, Windows, End
<1> QED
  BY <1>1, <1>2, <1>3, <1>4, <1>5, <1>6, <1>7 DEF Next

\* binfo_of_fd() hands fn() no block beyond the end of the file, longer than
\* asked for, or empty.
THEOREM BlocksAlwaysFit == Spec => []BlocksFit
<1>1. BlistInv => BlocksFit
  BY DEF BlistInv
<1> QED
  BY <1>1, BlistInit, BlistNext, PTL DEF Spec

\* Without overlap the blocks handed to fn() tile the part of the file passed.
THEOREM BlocksTile == Spec => []Tiled
<1>1. BlistInv => Tiled
  BY DEF BlistInv
<1> QED
  BY <1>1, BlistInit, BlistNext, PTL DEF Spec

\* With overlap fn() has had every full window of the part of the file passed.
THEOREM EveryWindow == Spec => []Windows
<1>1. BlistInv => Windows
  BY DEF BlistInv
<1> QED
  BY <1>1, BlistInit, BlistNext, PTL DEF Spec
=============================================================================
