------------------------------- MODULE Paths -------------------------------
(***************************************************************************)
(* The path functions: path.c, mkdir_p() and strprefix() of utils.c, and   *)
(* the places in flist.c and wrap-inotify.c that use them.  Every name the *)
(* program handles starts as the --path option was spelled, "may end with  *)
(* '/'" (path.c:30), while nftw() spells names its own way and inotify     *)
(* gives only a last component: the functions are right when the three     *)
(* spellings of a file meet.                                               *)
(*                                                                         *)
(* Here a path is its sequence of characters.  `call' is the call under    *)
(* way, with its result; the calls share no state but basepath.            *)
(***************************************************************************)
EXTENDS Integers, Sequences, SequencesExt

CONSTANTS
  BasePaths,  \* how the monitored directory may be spelled
  FileNames,  \* names of files and directories below it
  FssDir,     \* DEFAULT_FSS_DIR
  PathMax,    \* MAX_PATH_LEN
  WalkDepth   \* bound: names below the monitored directory

Sep == "/"
Died == <<"died">>   \* Log_die()

Chars == {Sep} \cup UNION {Range(p) : p \in BasePaths \cup FileNames}

ASSUME PathsAssumption ==
  /\ BasePaths \cup FileNames \subseteq Seq(Chars)
  /\ <<>> \notin BasePaths
  /\ <<>> \notin FileNames /\ \A n \in FileNames : ~Contains(n, Sep)
  /\ FssDir \in FileNames
  /\ Died \notin Seq(Chars)
  /\ PathMax \in Nat \ {0}
  /\ WalkDepth \in Nat

VARIABLES
  basepath,  \* basepath, <<>> while it is NULL
  call       \* the call of a path function under way

NoCall == [op |-> "none"]

Components == UNION {[1..n -> FileNames] : n \in 0..WalkDepth}

-----------------------------------------------------------------------------
(* path.c and utils.c *)

StrPrefix(pre, s) == IsPrefix(pre, s)

\* get_tail(): what follows the last separator.
GetTail(p) == SubSeq(p, SelectLastInSeq(p, LAMBDA ch : ch = Sep) + 1, Len(p))

IsHidden(p) == GetTail(p) # <<>> /\ GetTail(p)[1] = "."

StartsWithSep(p) == p # <<>> /\ p[1] = Sep
EndsWithSep(p)   == p # <<>> /\ Last(p) = Sep

\* Mutant: two separators meet.
JoinedDouble(p0, p1) ==
  IF p0 = <<>> \/ EndsWithSep(p0) \/ StartsWithSep(p1) THEN p0 \o p1
  ELSE p0 \o <<Sep>> \o p1

\* What pathncat() leaves in path0: exactly one separator between the two.
Joined(p0, p1) ==
  IF p0 = <<>> THEN p1
  ELSE IF EndsWithSep(p0) /\ StartsWithSep(p1) THEN Front(p0) \o p1
  ELSE IF ~EndsWithSep(p0) /\ ~StartsWithSep(p1) THEN p0 \o <<Sep>> \o p1
  ELSE p0 \o p1

\* Mutant: no room is kept for the null byte.
FitsWithoutNull(p0, p1, size) == size >= Len(p0) + Len(p1)

\* The check of pathncat() and of rela2full(); it counts no separator.
Fits(p0, p1, size) == size > Len(p0) + Len(p1)

Pathncat(p0, p1, size) == IF Fits(p0, p1, size) THEN Joined(p0, p1) ELSE Died

Pathncat2(p1, p2, size) ==
  IF Fits(<<>>, p1, size) THEN Pathncat(p1, p2, size) ELSE Died

\* s from its first character that is not a separator.
SkipSeps(s) ==
  LET n == SelectInSeq(s, LAMBDA ch : ch # Sep)
  IN IF n = 0 THEN <<>> ELSE SubSeq(s, n, Len(s))

\* Mutant: the separator behind basepath is not skipped.
Full2RelaNoSkip(f) ==
  IF StrPrefix(basepath, f) THEN SubSeq(f, Len(basepath) + 1, Len(f)) ELSE Died

Full2Rela(f) ==
  IF StrPrefix(basepath, f) THEN SkipSeps(SubSeq(f, Len(basepath) + 1, Len(f))) ELSE Died

Rela2Full(r) ==
  IF Fits(basepath, r, PathMax) THEN Pathncat2(basepath, r, PathMax) ELSE Died

\* set_path() and init_watchers(): fssdir_path.
FssDirPath == Pathncat2(basepath, FssDir, PathMax)

\* Mutant: the search for a separator starts at the beginning of the name.
MkdirPFromStart(f) ==
  {SubSeq(f, 1, k - 1) : k \in {j \in 2..Len(f) : f[j] = Sep}} \cup {f}

\* The directories mkdir_p() calls do_mkdir() on, in order of their lengths: up
\* to each separator behind basepath, runs of separators being one, and the whole.
MkdirP(f) ==
  LET start == Len(f) - Len(Full2Rela(f))
  IN {SubSeq(f, 1, k - 1) : k \in {j \in start + 2..Len(f) : f[j] = Sep /\ f[j - 1] # Sep}}
     \cup {f}

-----------------------------------------------------------------------------
(* How nftw() and the kernel name files. *)

\* nftw() drops separators from the end of the directory it is given.
Stripped(p) ==
  LET n == SelectLastInSeq(p, LAMBDA ch : ch # Sep)
  IN IF n = 0 THEN <<Sep>> ELSE SubSeq(p, 1, n)

NftwJoin(dir, n) == IF EndsWithSep(dir) THEN dir \o n ELSE dir \o <<Sep>> \o n

\* The name nftw(base) reports for a file, its components below base given.
Reported(base, comps) ==
  LET name[k \in 0..Len(comps)] ==
        IF k = 0 THEN Stripped(base) ELSE NftwJoin(name[k - 1], comps[k])
  IN name[Len(comps)]

\* The kernel takes no name that does not fit with its null byte.
KernelTakes(p) == Len(p) < PathMax

-----------------------------------------------------------------------------
(* The calls *)

\* The first two filters of do_update_flist().
SkippedRoot(f) == StrPrefix(f, basepath)
SkippedFss(f)  == FssDirPath # Died /\ StrPrefix(FssDirPath, f)

\* do_update_flist() on a file: its relapath, and with --force-use-digest the
\* name that is made of it again.
Walked(comps) ==
  LET f == Reported(basepath, comps)
      skipped == SkippedRoot(f) \/ SkippedFss(f)
      rela == IF skipped THEN <<>> ELSE Full2Rela(f)
  IN [op |-> "walk", comps |-> comps, full |-> f, skipped |-> skipped,
      rela |-> rela, back |-> IF skipped \/ rela = Died THEN rela ELSE Rela2Full(rela)]

\* watchers_polling() on an event about name n in a directory.
Heard(comps, n) ==
  LET dir == Reported(basepath, comps)
  IN [op |-> "event", comps |-> Append(comps, n), dir |-> dir, name |-> n,
      full |-> Pathncat2(dir, n, PathMax)]

\* mkdir_p() on a directory whose relapath is known.
MkdirCalled(comps) ==
  LET rela == Full2Rela(Reported(basepath, comps))
      full == IF rela = Died THEN Died ELSE Rela2Full(rela)
  IN [op |-> "mkdir", comps |-> comps, full |-> full,
      made |-> IF full = Died THEN {} ELSE MkdirP(full)]

\* The functions flist.h and wrap-inotify.h declare are called once basepath is
\* set.  nftw() reports no name the kernel does not take; a directory with a name
\* that is too long can be made from inside its parent, and is heard of.
CallPath ==
  /\ basepath # <<>> /\ call = NoCall
  /\ \E comps \in Components :
       /\ KernelTakes(Reported(basepath, comps))
       /\ \/ call' = Walked(comps)
          \/ \E n \in FileNames : call' = Heard(comps, n)
          \/ comps # <<>> /\ call' = MkdirCalled(comps)
  /\ UNCHANGED basepath

ReturnPath ==
  /\ call # NoCall
  /\ call' = NoCall
  /\ UNCHANGED basepath

-----------------------------------------------------------------------------
(* Properties *)

\* The name of a file relative to the monitored directory.
Relative(comps) == Tail(FlattenSeq([i \in DOMAIN comps |-> <<Sep>> \o comps[i]]))

\* path.c:30 allows for '/' at the end of basepath: for one.
EndsOnce == Len(basepath) < 2 \/ ~(EndsWithSep(basepath) /\ EndsWithSep(Front(basepath)))

\* With a base path that ends in one separator at most, do_update_flist() skips the
\* monitored directory, .fss and names that begin like it, and nothing else; the
\* others get their name relative to the directory, and the name made of that
\* again is the one nftw() reported.
WalkNamesFiles ==
  call.op = "walk" /\ EndsOnce =>
    /\ call.skipped <=> call.comps = <<>> \/ StrPrefix(FssDir, call.comps[1])
    /\ ~call.skipped =>
         /\ call.rela = Relative(call.comps)
         /\ call.back = call.full

\* The name made for an event is, to the character, the one a scan reports for
\* that directory: the watchers are looked up by it.
EventNamesWatcher ==
  call.op = "event" /\ call.full # Died => call.full = Reported(basepath, call.comps)

\* The spellings of --path, of nftw() and of inotify meet.
SpellingsMeet == WalkNamesFiles /\ EventNamesWatcher

\* Nothing is written behind a buffer of MAX_PATH_LEN, except for one byte when an
\* event's name is that much too long for the kernel itself.
BuffersKept ==
  /\ call.op = "walk" /\ call.rela # Died /\ call.back # Died => KernelTakes(call.back)
  /\ call.op = "event" /\ call.full # Died => Len(call.full) <= PathMax

\* mkdir_p() makes every directory on the way, none above basepath, and each one
\* only below one that is there.
MkdirInOrder ==
  call.op = "mkdir" /\ call.full # Died =>
    call.made = {Reported(basepath, SubSeq(call.comps, 1, n)) : n \in 1..Len(call.comps)}
=============================================================================
