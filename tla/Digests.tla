------------------------------ MODULE Digests ------------------------------
(***************************************************************************)
(* The callers of SHA-1 in digest.c, and binfo_of_fd() as one of them: the *)
(* composition of Blist, Sha1 and Sha1Block.                               *)
(*                                                                         *)
(* file_digest() hashes what fread() gives, until it gives nothing;        *)
(* mem_digest() hashes each block of a mapped file before fn() is called   *)
(* on it.  Whenever Sha1 adds a block to H, blk_SHA1_Block() runs, a step  *)
(* for each of its rounds, and nothing else does.                          *)
(***************************************************************************)
EXTENDS Blist, Sha1, Sha1Block

CONSTANTS
  ReadFiles,      \* what the file may contain that file_digest() reads
  MappedFiles,    \* and the one that is mapped
  SHA1_BUF_LEN,   \* the buffer of file_digest()
  Known           \* [message, words]: what is to come out for some messages

ASSUME DigestsAssumption ==
  /\ SHA1_BUF_LEN \in Nat \ {0}
  /\ FileSizes = {Len(c) : c \in MappedFiles}

VARIABLES
  task,     \* "blocks" for binfo_of_fd(), "file" for file_digest_name()
  bytes,    \* the file as it was at first
  caller,   \* "ready", "feeding" before and "fed" after Final is called, "closed"
  fpos,     \* the position of the stream
  cut,      \* a read failed, or met the end of a truncated file
  words,    \* H of the context, as it is
  done,     \* how many blocks of Sha1's H are in words
  round,    \* the rounds done on the next one
  registers

blistVars == <<blksz, overlap, length, pc, filesize, incre, i, blocks>>
blockVars == <<words, done, round, registers>>
callVars == <<task, bytes, caller, fpos, cut>>
allVars == <<blistVars, shaVars, blockVars, callVars>>

InBlock == done < Len(H)

-----------------------------------------------------------------------------
(* blk_SHA1_Block() *)

DoRound ==
  /\ InBlock /\ round < 4
  /\ registers' = Round(H[done + 1], registers, round + 1)
  /\ round' = round + 1
  /\ UNCHANGED <<blistVars, shaVars, words, done, callVars>>

EndBlock ==
  /\ InBlock /\ round = 4
  /\ words' = Summed(words, registers)
  /\ registers' = Registers(words')
  /\ done' = done + 1 /\ round' = 0
  /\ UNCHANGED <<blistVars, shaVars, callVars>>

InitContext ==
  /\ blk_SHA1_Init
  /\ words' = InitialWords /\ registers' = Registers(InitialWords)
  /\ done' = 0 /\ round' = 0

-----------------------------------------------------------------------------
(* file_digest_name() and file_digest() *)

FileInit ==
  /\ task = "file" /\ caller = "ready"
  /\ InitContext
  /\ caller' = "feeding"
  /\ UNCHANGED <<blistVars, task, bytes, fpos, cut>>

\* What the next fread() gives.
Chunk == SubSeq(bytes, fpos + 1, IF fpos + SHA1_BUF_LEN < Len(bytes)
                                 THEN fpos + SHA1_BUF_LEN ELSE Len(bytes))

ReadChunk ==
  /\ task = "file" /\ caller = "feeding" /\ ~InBlock
  /\ fpos < Len(bytes)
  /\ Update(Chunk)
  /\ fpos' = fpos + Len(Chunk)
  /\ UNCHANGED <<blistVars, blockVars, task, bytes, caller, cut>>

\* fread() gives nothing: at the end of the file, or because it failed.
ReadEnds ==
  /\ task = "file" /\ caller = "feeding" /\ ~InBlock
  /\ FinalPad
  /\ cut' = (fpos < Len(bytes))
  /\ caller' = "fed"
  /\ UNCHANGED <<blistVars, blockVars, task, bytes, fpos>>

FileClosed ==
  /\ task = "file" /\ caller = "fed" /\ final = "out"
  /\ caller' = "closed"
  /\ UNCHANGED <<blistVars, shaVars, blockVars, task, bytes, fpos, cut>>

-----------------------------------------------------------------------------
(* binfo_of_fd() and mem_digest() *)

BlistStep ==
  /\ task = "blocks" /\ caller = "ready"
  /\ Stat \/ Map \/ Finish
  /\ UNCHANGED <<shaVars, blockVars, callVars>>

Truncate ==
  /\ task = "blocks"
  /\ Shrink
  /\ UNCHANGED <<shaVars, blockVars, callVars>>

MemInit ==
  /\ task = "blocks" /\ caller = "ready"
  /\ pc = "loop" /\ i < filesize
  /\ InitContext
  /\ caller' = "feeding"
  /\ UNCHANGED <<blistVars, task, bytes, fpos, cut>>

\* The rest of the last page of a truncated file is zeroes.
Mapped(b) == [k \in 1..b.size |-> IF b.offset + k <= length THEN bytes[b.offset + k] ELSE 0]

MemUpdate ==
  /\ task = "blocks" /\ caller = "feeding" /\ pc = "loop"
  /\ Update(Mapped(Block))
  /\ cut' = (Block.offset + Block.size > length)
  /\ caller' = "fed"
  /\ UNCHANGED <<blistVars, blockVars, task, bytes, fpos>>

MemBusError ==
  /\ task = "blocks" /\ caller = "feeding"
  /\ BusError
  /\ UNCHANGED <<shaVars, blockVars, callVars>>

MemFinal ==
  /\ task = "blocks" /\ caller = "fed" /\ ~InBlock
  /\ FinalPad
  /\ UNCHANGED <<blistVars, blockVars, callVars>>

CutBlock ==
  /\ task = "blocks" /\ caller = "fed" /\ final = "out"
  /\ Cut
  /\ caller' = "ready"
  /\ UNCHANGED <<shaVars, blockVars, task, bytes, fpos, cut>>

-----------------------------------------------------------------------------

DigestsInit ==
  /\ Init /\ ShaInit
  /\ task \in {"blocks", "file"}
  /\ bytes \in IF task = "file" THEN ReadFiles ELSE MappedFiles
  /\ length = Len(bytes)
  /\ task = "file" => blksz = 0 /\ ~overlap
  /\ caller = "ready" /\ fpos = 0 /\ cut = FALSE
  /\ words = InitialWords /\ registers = Registers(InitialWords)
  /\ done = 0 /\ round = 0

DigestsNext ==
  \/ DoRound \/ EndBlock
  \/ ~InBlock /\ ShaStep /\ UNCHANGED <<blistVars, blockVars, callVars>>
  \/ FileInit \/ ReadChunk \/ ReadEnds \/ FileClosed
  \/ BlistStep \/ Truncate
  \/ MemInit \/ MemUpdate \/ MemBusError \/ MemFinal \/ CutBlock

DigestsSpec == DigestsInit /\ [][DigestsNext]_allVars

-----------------------------------------------------------------------------
(* Properties *)

\* What the hash that is done is of.
Subject ==
  IF task = "file" THEN bytes
  ELSE SubSeq(bytes, Block.offset + 1, Block.offset + Block.size)

\* Unless a read failed or the file was truncated, a hash of one of the known
\* messages is its SHA-1, as a file and as a block of a file, in whatever pieces
\* and after whatever else it was read.
KnownDigests ==
  caller = "fed" /\ final = "out" /\ ~cut =>
    \A v \in Known : Subject = v.message => words = v.words
=============================================================================
