------------------------------- MODULE Blist -------------------------------
(***************************************************************************)
(* binfo_of_fd() of blist.c: the blocks a file is cut into, one after      *)
(* another, or one at every offset (rsync's rolling window).               *)
(*                                                                         *)
(* The size of the file is read once; the file may become shorter while it *)
(* is mapped.  Digests adds what is hashed.  Sums are of naturals: the     *)
(* size of a block and that of a file together fit in 64 bits.             *)
(***************************************************************************)
EXTENDS Integers

CONSTANTS
  BlockSizes,   \* what blksz may be
  FileSizes     \* what fstat() may say of a file

ASSUME BlistAssumption == BlockSizes \subseteq Nat /\ FileSizes \subseteq Nat

VARIABLES
  blksz, overlap,  \* the parameters
  length,          \* the length of the file now
  pc,              \* "stat", "map", "loop", "done" or "failed"
  filesize, incre, i,
  blocks           \* the blocks fn() was called on: [offset, size]

vars == <<blksz, overlap, length, pc, filesize, incre, i, blocks>>

\* The file is truncated by someone else.
Shrink ==
  /\ pc \in {"map", "loop"}
  /\ length' \in FileSizes
  /\ length' < length
  /\ UNCHANGED <<blksz, overlap, pc, filesize, incre, i, blocks>>

\* Mutant: overlap is not looked at.
FirstIncreOne == 1

FirstIncre == IF overlap THEN 1 ELSE blksz

\* fstat(): no file is no error, another failure is.
Stat ==
  /\ pc = "stat"
  /\ \/ /\ filesize' = length
        /\ incre' = FirstIncre
        /\ pc' = "map"
     \/ /\ pc' \in {"done", "failed"}
        /\ UNCHANGED <<filesize, incre>>
  /\ UNCHANGED <<blksz, overlap, length, i, blocks>>

\* mmap() refuses a length of 0, and may fail otherwise.
Map ==
  /\ pc = "map"
  /\ pc' \in {"failed"} \cup IF filesize = 0 THEN {} ELSE {"loop"}
  /\ i' = 0
  /\ UNCHANGED <<blksz, overlap, length, filesize, incre, blocks>>

\* Mutant: a block that ends where the file ends is not the last.
AtEndPast == i + blksz > filesize

AtEnd == i + blksz >= filesize

\* Mutant: the last block is as long as the others.
BlockUncut == [offset |-> i, size |-> blksz]

Block == [offset |-> i, size |-> IF AtEnd THEN filesize - i ELSE blksz]

IncreAfter == IF AtEnd THEN blksz ELSE incre

Cut ==
  /\ pc = "loop"
  /\ i < filesize
  /\ blocks' = blocks \cup {Block}
  /\ incre' = IncreAfter
  /\ i' = i + IncreAfter
  /\ UNCHANGED <<blksz, overlap, length, pc, filesize>>

\* The pages behind the end of a truncated file cannot be read.
BusError ==
  /\ pc = "loop"
  /\ i < filesize
  /\ Block.offset + Block.size > length
  /\ pc' = "failed"
  /\ UNCHANGED <<blksz, overlap, length, filesize, incre, i, blocks>>

Finish ==
  /\ pc = "loop"
  /\ i >= filesize
  /\ pc' = "done"
  /\ UNCHANGED <<blksz, overlap, length, filesize, incre, i, blocks>>

Init ==
  /\ blksz \in BlockSizes
  /\ overlap \in BOOLEAN
  /\ length \in FileSizes
  /\ pc = "stat"
  /\ filesize = 0 /\ incre = 0 /\ i = 0
  /\ blocks = {}

Next == Shrink \/ Stat \/ Map \/ Cut \/ BusError \/ Finish

Spec == Init /\ [][Next]_vars

-----------------------------------------------------------------------------

\* The types of the variables; nothing is cut before the loop.
TypeOK ==
  /\ blksz \in Nat /\ overlap \in BOOLEAN /\ length \in Nat
  /\ pc \in {"stat", "map", "loop", "done", "failed"}
  /\ filesize \in Nat /\ incre \in Nat /\ i \in Nat
  /\ blocks \subseteq [offset : Nat, size : Nat]
  /\ pc \in {"stat", "map"} => i = 0 /\ blocks = {}

End(b) == b.offset + b.size

\* No block reaches beyond the file as mapped or is longer than asked for, and
\* none is empty if the size asked for is not 0.
BlocksFit ==
  \A b \in blocks :
    /\ End(b) <= filesize
    /\ b.size <= blksz
    /\ blksz > 0 => b.size > 0

\* Without overlap, each byte before i is in one block and in one only: once the
\* loop is done, every byte of the file.
Tiled ==
  ~overlap =>
    \A x \in 0..(filesize - 1) :
      x < i =>
        \E b \in blocks :
          /\ b.offset <= x /\ x < End(b)
          /\ \A c \in blocks : c.offset <= x /\ x < End(c) => c = b

\* With overlap, there is a full window at each offset passed that has one, and
\* nothing else if the file is not shorter than a block.
Windows ==
  overlap /\ blksz > 0 =>
    /\ \A o \in 0..(filesize - blksz) :
         o < i => [offset |-> o, size |-> blksz] \in blocks
    /\ \A b \in blocks : b.size = blksz \/ (filesize < blksz /\ b.offset = 0)
=============================================================================
