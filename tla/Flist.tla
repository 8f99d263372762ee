------------------------------- MODULE Flist -------------------------------
(***************************************************************************)
(* The file list of flist.c: one finfo per file or directory below the     *)
(* monitored directory, loaded from the three line-oriented files of       *)
(* <base>/.fss, refreshed by an nftw() walk and written back.              *)
(*                                                                         *)
(* The walk races with the users of the monitored directory: a path is     *)
(* stat()ed by nftw() in one step and opened by the callback in a later    *)
(* one.  The process may be killed between any two steps; what stdio had   *)
(* written out by then is, for each file, some prefix of what was printed. *)
(*                                                                         *)
(* Abstractions: SHA-1 is injective, so a digest is the content itself;    *)
(* size and permission bits are left out (no decision reads them); the     *)
(* hash table is a set of entries (module Hashtable).                      *)
(***************************************************************************)
EXTENDS Integers, Sequences, FiniteSets

CONSTANTS
  Paths,              \* paths below the monitored directory that may exist
  Base,               \* the monitored directory itself
  Parent,             \* Parent[p]: the directory that holds p
  Hidden,             \* paths whose last component starts with a dot
  FssPrefixed,        \* paths that start with the text of the .fss path
  Unreadable,         \* paths this process may not open
  LFPaths,            \* paths with a line feed in their name
  CutTo,              \* CutTo[p]: what a partly written relapath line of p may spell
  Contents,           \* contents of regular files
  EmptyDigest,        \* digest of a directory: its stream reads as empty
  ForceUseDigest,     \* --force-use-digest
  IncludeHidden,      \* --include-hidden
  MtimeTellsVersions, \* no two changes of the tree leave the same mtime
  UserOps,            \* what users do: subset of {"create", "mknod", "modify", "remove"}
  MaxClock,           \* bound: changes of the tree
  MaxUpdates          \* bound: calls of update_flist() on one loaded list

ASSUME PathsAssumption ==
  /\ Base \notin Paths
  /\ Parent \in [Paths -> Paths \cup {Base}]
  /\ CutTo \in [Paths -> SUBSET Paths]
  /\ {ForceUseDigest, IncludeHidden, MtimeTellsVersions} \subseteq BOOLEAN
  /\ MaxClock \in Nat
  /\ MaxUpdates \in Nat

VARIABLES
  tree,      \* the monitored directory: [type, mtime, content] of each path
  clock,     \* changes of the tree so far
  quiet,     \* history: update_flist() has begun, and no change of the tree since
  pc,        \* where the process is
  cause,     \* why the process is dying
  fssdir,    \* what <base>/.fss is: "absent", "dir" or "reg"
  flist,     \* the entries of hashtb
  gucount,   \* g_ucount, counted from the load
  listed,    \* paths readdir() has returned to the walk
  opened,    \* directories the walk has opened
  visited,   \* paths the walk has stat()ed; history once it is done
  cur,       \* <<>> or <<st>>: the stat nftw() hands to the callback
  mode,      \* which unload function runs: "keep" or "free"; "keep" if none
  toopen,    \* files open_fp("wb") has still to open
  tosave,    \* entries the unload traversal has still to visit
  written,   \* lines printed so far by the unload
  disk,      \* the three files of .fss
  saved      \* history: the records of the latest unload, and whether it ended

treeVars == <<tree, clock>>
walkVars == <<listed, opened, visited, cur>>
saveVars == <<mode, toopen, tosave, written>>
diskVars == <<fssdir, disk, saved>>
vars == <<tree, clock, quiet, pc, cause, fssdir, flist, gucount, listed,
          opened, visited, cur, mode, toopen, tosave, written, disk, saved>>

-----------------------------------------------------------------------------

Files    == {"statinfo", "relapath", "digest"}
FileTypes == {"none", "reg", "dir", "special"}
\* The mtime scanned from a cut line: 0, or what is left of the digits.  It is assumed
\* that no file has such a one.
JunkTime == -1

Absent == [type |-> "none", mtime |-> 0, content |-> EmptyDigest]

\* One line of statinfo.fss, relapath.fss and digest.fss put together.
Record(e) == [path |-> e.path, type |-> e.type, mtime |-> e.mtime,
              digest |-> e.digest]

\* A file of .fss: its whole lines, then perhaps one that a crash has cut.
NoFile    == [exists |-> FALSE, lines |-> <<>>, cut |-> <<>>]
Truncated == [exists |-> TRUE,  lines |-> <<>>, cut |-> <<>>]

Exists(p)   == tree[p].type # "none"
Children(d) == {p \in Paths : Parent[p] = d /\ Exists(p)}

-----------------------------------------------------------------------------
(* The users of the monitored directory. *)

\* What the mtime of a change may be: utimes(2), mv(1) and two changes in one
\* second can repeat an earlier one.
Stamps == IF MtimeTellsVersions THEN {clock} ELSE 0..clock

\* The tree with p set to node and p's directory stamped with m.
Changed(p, node, m) ==
  [q \in Paths |-> IF q = p THEN node
                   ELSE IF q = Parent[p] THEN [tree[q] EXCEPT !.mtime = m]
                   ELSE tree[q]]

Tick ==
  /\ clock < MaxClock
  /\ clock' = clock + 1
  /\ quiet' = FALSE
  /\ UNCHANGED <<pc, cause, flist, gucount, opened, visited, cur, saveVars,
                 diskVars>>

Create(p, t, c, m) ==
  /\ (IF t = "special" THEN "mknod" ELSE "create") \in UserOps
  /\ ~Exists(p)
  /\ Parent[p] # Base => tree[Parent[p]].type = "dir"
  /\ tree' = Changed(p, [type |-> t, mtime |-> m,
                         content |-> IF t = "reg" THEN c ELSE EmptyDigest], m)
  /\ UNCHANGED listed
  /\ Tick

Modify(p, c, m) ==
  /\ "modify" \in UserOps
  /\ tree[p].type = "reg"
  /\ tree' = [tree EXCEPT ![p].content = c, ![p].mtime = m]
  /\ tree' # tree
  /\ UNCHANGED listed
  /\ Tick

\* A walk that has p among the names it has read may or may not return it.
Remove(p, m) ==
  /\ "remove" \in UserOps
  /\ Exists(p)
  /\ Children(p) = {}
  /\ tree' = Changed(p, Absent, m)
  /\ listed' \in {listed, listed \ {p}}
  /\ Tick

User ==
  \E p \in Paths, m \in Stamps :
    \/ \E t \in FileTypes \ {"none"}, c \in Contents : Create(p, t, c, m)
    \/ \E c \in Contents : Modify(p, c, m)
    \/ Remove(p, m)

-----------------------------------------------------------------------------
(* Dying: a failed assert(), Log_die() or a wild pointer ends the process. *)

Die(why) ==
  /\ pc' = "failed"
  /\ cause' = why

\* do_mkdir() on .fss, from mkdir_p().  It may fail, and the path returned by
\* full2rela() is cut to an int where pointers are wider; after mkdir() it tests
\* the st_mode of a stat buffer nobody has filled.
DoMkdir ==
  \/ Die("mkdir") /\ UNCHANGED fssdir
  \/ /\ fssdir = "absent"
     /\ \/ fssdir' = "dir" /\ pc' = "init" /\ UNCHANGED cause
        \/ pc' = "init" /\ UNCHANGED <<fssdir, cause>>
        \/ fssdir' = "dir" /\ Die("mkdir")
  \/ /\ fssdir = "reg"
     /\ fssdir' = "absent"
     /\ pc' = "init"
     /\ UNCHANGED cause
  \/ /\ fssdir = "dir"
     /\ pc' = "init"
     /\ UNCHANGED <<fssdir, cause>>

InitFlist ==
  /\ pc = "down"
  /\ DoMkdir
  /\ UNCHANGED <<treeVars, quiet, flist, gucount, walkVars, saveVars, disk, saved>>

-----------------------------------------------------------------------------
(* load_flist() *)

\* What file_getline() returns in turn: the whole lines, then a cut one.
Lines(f) == disk[f].lines \o disk[f].cut

Smallest(S) == CHOOSE n \in S : \A m \in S : n <= m

\* Mutant: the loop tests for the end of file before it uses the line it has read.
LoadCountTestsEofFirst ==
  LET n == Smallest({Len(Lines(f)) : f \in Files}) IN IF n = 0 THEN 0 ELSE n - 1

LoadCount == Smallest({Len(Lines(f)) : f \in Files})

\* Is line i of file f the one a crash has cut?
CutLine(f, i) == i > Len(disk[f].lines)

\* Line i of the three files as str2finfo() puts it together.
LineEntry(i) ==
  [path   |-> Lines("relapath")[i].path,
   type   |-> Lines("statinfo")[i].type,
   mtime  |-> Lines("statinfo")[i].mtime,
   digest |-> Lines("digest")[i].digest,
   ucount |-> 0]

\* What the last loaded line may become.  Only it can be cut: sscanf() leaves
\* the fields a cut line lacks as alloc_finfo() made them, zero, and pathlen
\* right by construction; a cut name agrees with no pathlen but that one.
LastEntries(i) ==
  LET whole == LineEntry(i)
      names == IF CutLine("relapath", i) THEN CutTo[whole.path] ELSE {whole.path}
      named == {[whole EXCEPT !.path = q] : q \in names}
  IN IF CutLine("statinfo", i)
     THEN named \cup {[e EXCEPT !.mtime = JunkTime] : e \in named}
                \cup {[e EXCEPT !.type = "none", !.mtime = JunkTime] : e \in named}
     ELSE IF CutLine("relapath", i) THEN {} ELSE named

\* The hash tables the loop over the lines may build.
LoadedLists ==
  LET n == LoadCount
  IN IF n = 0 THEN {{}}
     ELSE {{LineEntry(i) : i \in 1..(n - 1)} \cup {e} : e \in LastEntries(n)}

\* assert(_pathlen == fi->pathlen): a name with a line feed always fails it.
PathlenMustFail == \E i \in 1..LoadCount : Lines("relapath")[i].path \in LFPaths
PathlenMayFail ==
  \/ PathlenMustFail
  \/ LoadCount > 0 /\ (CutLine("statinfo", LoadCount) \/ CutLine("relapath", LoadCount))

SizeOdd       == disk["digest"].cut # <<>>
SomeFilesOnly == \E f, g \in Files : disk[f].exists /\ ~disk[g].exists

\* load_flist(): g_ucount is the time of day, here counted from this load.
LoadFlist ==
  /\ pc = "init"
  /\ \/ SizeOdd /\ Die("assert_size") /\ UNCHANGED <<flist, gucount>>
     \/ ~SizeOdd /\ SomeFilesOnly /\ Die("assert_files") /\ UNCHANGED <<flist, gucount>>
     \/ /\ ~SizeOdd /\ ~SomeFilesOnly /\ PathlenMayFail
        /\ Die("assert_pathlen")
        /\ UNCHANGED <<flist, gucount>>
     \/ /\ ~SizeOdd /\ ~SomeFilesOnly /\ ~PathlenMustFail
        /\ flist' \in LoadedLists
        /\ gucount' = 0
        /\ pc' = "loaded"
        /\ UNCHANGED cause
  /\ quiet' = FALSE
  /\ visited' = {}
  /\ UNCHANGED <<treeVars, listed, opened, cur, saveVars, diskVars>>

-----------------------------------------------------------------------------
(* update_flist(): an nftw() walk. *)

\* Mutant: the callbacks of the first level count as updates, too.
NextUcountEach == gucount + 1 + Cardinality(Children(Base))

NextUcount == gucount + 1

UpdateStart ==
  /\ pc = "loaded"
  /\ gucount < MaxUpdates
  /\ gucount' = NextUcount
  /\ quiet' = TRUE
  /\ listed' = Children(Base)
  /\ opened' = {Base}
  /\ visited' = {}
  /\ cur' = <<>>
  /\ pc' = "walk"
  /\ UNCHANGED <<treeVars, cause, flist, saveVars, diskVars>>

\* nftw() takes the next name readdir() has returned and stat()s it; what came
\* into an open directory since may be returned too.  The buffer of a stat()
\* that fails is handed on as it is.
Visit(p) ==
  /\ pc = "walk"
  /\ p \notin visited
  /\ p \in listed \/ (Exists(p) /\ Parent[p] \in opened)
  /\ \/ /\ Exists(p)
        /\ cur' = <<[path |-> p, found |-> TRUE, type |-> tree[p].type,
                     mtime |-> tree[p].mtime]>>
     \/ /\ ~Exists(p)
        /\ \E t \in FileTypes, m \in 0..clock :
             cur' = <<[path |-> p, found |-> FALSE, type |-> t, mtime |-> m]>>
  /\ visited' = visited \cup {p}
  /\ pc' = "entry"
  /\ UNCHANGED <<treeVars, quiet, cause, flist, gucount, listed, opened,
                 saveVars, diskVars>>

\* The filters of do_update_flist(); type is what st_mode says.
Skipped(p, type) ==
  \/ p \in FssPrefixed
  \/ ~IncludeHidden /\ p \in Hidden
  \/ type \notin {"reg", "dir"}

\* Mutant: the mtime is not looked at.
HitByName(st, e) ==
  /\ e.type = st.type
  /\ e.path = st.path

\* hit().  Under force_use_digest the two names compared are one and the same,
\* so are their digests; an unreadable one ends the process before that.
Hit(st, e) ==
  /\ e.type = st.type
  /\ e.path = st.path
  /\ st.type = "reg" => (ForceUseDigest \/ e.mtime = st.mtime)

\* Mutant: a directory keeps the mtime it was first seen with.
RefreshedCountOnly(e, st) == [e EXCEPT !.ucount = gucount]

Refreshed(e, st) ==
  [e EXCEPT !.ucount = gucount,
            !.mtime = IF st.type = "dir" THEN st.mtime ELSE e.mtime]

\* Mutant: fopen(p, "r+b"), which no directory allows.
OpenableForUpdate(p) ==
  Exists(p) /\ p \notin Unreadable /\ tree[p].type # "dir"

\* fopen(p, "rb") succeeds.
Openable(p) == Exists(p) /\ p \notin Unreadable

DigestOf(p) == IF tree[p].type = "reg" THEN tree[p].content ELSE EmptyDigest

NewEntry(st) ==
  [path |-> st.path, type |-> st.type, mtime |-> st.mtime,
   digest |-> DigestOf(st.path), ucount |-> gucount]

\* A directory is opened before the callback runs and read after it.
Descend(st) ==
  IF st.found /\ st.type = "dir" /\ st.path \notin Unreadable
  THEN /\ opened' = opened \cup {st.path}
       /\ listed' = listed \cup Children(st.path)
  ELSE UNCHANGED <<opened, listed>>

\* opendir() on a directory that is none any more: nftw() returns -1.
OpendirFails(st) == st.found /\ st.type = "dir" /\ tree[st.path].type # "dir"

\* Does hit() read the file for its digest and fail?
HitDies(st) ==
  /\ ForceUseDigest /\ st.type = "reg" /\ ~Openable(st.path)
  /\ \E e \in flist : e.type = st.type /\ e.path = st.path

\* do_update_flist() on the path just visited.
Callback ==
  /\ pc = "entry"
  /\ LET st == cur[1]
         hits == {e \in flist : Hit(st, e)}
     IN \/ OpendirFails(st) /\ Die("nftw") /\ UNCHANGED <<flist, opened, listed>>
        \/ /\ ~OpendirFails(st)
           /\ Skipped(st.path, st.type)
           /\ Descend(st)
           /\ pc' = "walk"
           /\ UNCHANGED <<flist, cause>>
        \/ /\ ~OpendirFails(st)
           /\ ~Skipped(st.path, st.type)
           /\ \/ HitDies(st) /\ Die("fopen") /\ UNCHANGED <<flist, opened, listed>>
              \/ /\ ~HitDies(st)
                 /\ \E e \in hits : flist' = (flist \ {e}) \cup {Refreshed(e, st)}
                 /\ Descend(st)
                 /\ pc' = "walk"
                 /\ UNCHANGED cause
              \/ /\ ~HitDies(st)
                 /\ hits = {}
                 /\ IF Openable(st.path)
                    THEN /\ flist' = flist \cup {NewEntry(st)}
                         /\ Descend(st)
                         /\ pc' = "walk"
                         /\ UNCHANGED cause
                    ELSE Die("fopen") /\ UNCHANGED <<flist, opened, listed>>
              \/ \* Log("... %s ...") without its argument
                 /\ ~HitDies(st)
                 /\ hits = {}
                 /\ Die("log")
                 /\ UNCHANGED <<flist, opened, listed>>
  /\ cur' = <<>>
  /\ UNCHANGED <<treeVars, quiet, gucount, visited, saveVars, diskVars>>

WalkDone ==
  /\ pc = "walk"
  /\ listed \subseteq visited
  /\ pc' = "loaded"
  /\ listed' = {} /\ opened' = {}
  /\ UNCHANGED <<treeVars, quiet, cause, flist, gucount, visited, cur, saveVars,
                 diskVars>>

-----------------------------------------------------------------------------
(* unload_flist(), unload_cleanup_flist() and cleanup_flist() *)

\* Mutant: an entry counted by an earlier update is valid too.
FinfoValidOnceCounted(e) == e.ucount <= gucount

FinfoValid(e) == e.ucount = gucount

ValidRecords == {Record(e) : e \in {x \in flist : FinfoValid(x)}}

UnloadStart(m) ==
  /\ pc = "loaded"
  /\ mode' = m
  /\ toopen' = <<"statinfo", "relapath", "digest">>
  /\ tosave' = flist
  /\ written' = <<>>
  /\ pc' = "open"
  /\ UNCHANGED <<treeVars, quiet, cause, flist, gucount, walkVars, diskVars>>

\* Mutant: relapath.fss is opened with "ab".
OpenedRelapathKept(f) ==
  IF f = "relapath" THEN [exists |-> TRUE, lines |-> Lines(f), cut |-> <<>>]
  ELSE Truncated

\* What fopen(f, "wb") leaves of the file.
Opened(f) == Truncated

\* open_fp("wb"): ENOENT is no error there, the NULL streams are used later.
OpenNext ==
  /\ pc = "open"
  /\ IF fssdir = "dir"
     THEN /\ disk' = [disk EXCEPT ![Head(toopen)] = Opened(Head(toopen))]
          /\ saved' = [recs |-> ValidRecords, ended |-> FALSE]
          /\ toopen' = Tail(toopen)
          /\ pc' = IF toopen' = <<>> THEN "save" ELSE "open"
          /\ UNCHANGED cause
     ELSE Die("nofp") /\ UNCHANGED <<disk, saved, toopen>>
  /\ UNCHANGED <<treeVars, quiet, fssdir, flist, gucount, walkVars, mode, tosave, written>>

\* do_unload_flist() or do_unload_free_flist() on the next entry in hash order.
SaveEntry(e) ==
  /\ pc = "save"
  /\ e \in tosave
  /\ tosave' = tosave \ {e}
  /\ written' = IF FinfoValid(e) THEN Append(written, Record(e)) ELSE written
  /\ flist' = IF FinfoValid(e) /\ mode = "keep" THEN flist ELSE flist \ {e}
  /\ UNCHANGED <<treeVars, quiet, pc, cause, gucount, walkVars, mode, toopen, diskVars>>

\* flush_fp(), close_fp(); unload_cleanup_flist() has freed the hash table.  One that
\* fails ends the process with what a Crash at this place leaves.
SaveFinish ==
  /\ pc = "save"
  /\ tosave = {}
  /\ disk' = [f \in Files |-> [exists |-> TRUE, cut |-> <<>>,
                               lines |-> disk[f].lines \o written]]
  /\ saved' = [saved EXCEPT !.ended = TRUE]
  /\ pc' = IF mode = "keep" THEN "loaded" ELSE "init"
  /\ mode' = "keep"
  /\ written' = <<>>
  /\ UNCHANGED <<treeVars, quiet, cause, fssdir, flist, gucount, walkVars,
                 toopen, tosave>>

CleanupFlist ==
  /\ pc = "loaded"
  /\ flist' = {}
  /\ pc' = "init"
  /\ UNCHANGED <<treeVars, quiet, cause, gucount, walkVars, saveVars, diskVars>>

-----------------------------------------------------------------------------
(* The process is killed, or has died, and is started again. *)

\* What of written may have reached a file opened in this save.
Partial(f) ==
  LET prior == disk[f].lines
  IN {[exists |-> TRUE, lines |-> prior \o SubSeq(written, 1, k), cut |-> <<>>] :
        k \in 0..Len(written)}
     \cup
     {[exists |-> TRUE, lines |-> prior \o SubSeq(written, 1, k - 1),
       cut |-> <<written[k]>>] : k \in 1..Len(written)}

Crash ==
  /\ pc # "down"
  /\ IF pc = "save"
     THEN \E a \in Partial("statinfo"), b \in Partial("relapath"), c \in Partial("digest") :
            disk' = [f \in Files |-> CASE f = "statinfo" -> a
                                       [] f = "relapath" -> b
                                       [] f = "digest" -> c]
     ELSE UNCHANGED disk
  /\ pc' = "down"
  /\ cause' = "none"
  /\ quiet' = FALSE
  /\ flist' = {}
  /\ gucount' = 0
  /\ listed' = {} /\ opened' = {} /\ visited' = {} /\ cur' = <<>>
  /\ mode' = "keep" /\ toopen' = <<>> /\ tosave' = {} /\ written' = <<>>
  /\ UNCHANGED <<treeVars, fssdir, saved>>

-----------------------------------------------------------------------------

Init ==
  /\ tree = [p \in Paths |-> Absent]
  /\ clock = 0
  /\ quiet = FALSE
  /\ pc = "down"
  /\ cause = "none"
  /\ fssdir \in {"absent", "dir", "reg"}
  /\ flist = {}
  /\ gucount = 0
  /\ listed = {} /\ opened = {} /\ visited = {} /\ cur = <<>>
  /\ mode = "keep" /\ toopen = <<>> /\ tosave = {} /\ written = <<>>
  /\ disk = [f \in Files |-> NoFile]
  /\ saved = [recs |-> {}, ended |-> FALSE]

Process ==
  \/ InitFlist
  \/ LoadFlist
  \/ UpdateStart
  \/ \E p \in Paths : Visit(p)
  \/ Callback
  \/ WalkDone
  \/ \E m \in {"keep", "free"} : UnloadStart(m)
  \/ OpenNext
  \/ \E e \in tosave : SaveEntry(e)
  \/ SaveFinish
  \/ CleanupFlist

Next == User \/ Process \/ Crash

Spec == Init /\ [][Next]_vars

-----------------------------------------------------------------------------
(* Properties *)

Entries == [path : Paths, type : FileTypes, mtime : Int,
            digest : Contents \cup {EmptyDigest}, ucount : Nat]
Records == [path : Paths, type : FileTypes, mtime : Int,
            digest : Contents \cup {EmptyDigest}]
Nodes == [type : FileTypes, mtime : Int, content : Contents \cup {EmptyDigest}]
FssFiles == [exists : BOOLEAN, lines : Seq(Records), cut : Seq(Records)]
Stats == [path : Paths, found : BOOLEAN, type : FileTypes, mtime : Int]

TreeOK ==
  /\ tree \in [Paths -> Nodes]
  /\ clock \in 0..MaxClock
  /\ quiet \in BOOLEAN

ControlOK ==
  /\ pc \in {"down", "init", "loaded", "walk", "entry", "open", "save", "failed"}
  /\ cause \in {"none", "mkdir", "assert_size", "assert_files", "assert_pathlen",
                "nftw", "fopen", "log", "nofp"}
  /\ flist \in SUBSET Entries
  /\ gucount \in 0..MaxUpdates

WalkOK ==
  /\ listed \subseteq Paths
  /\ opened \subseteq Paths \cup {Base}
  /\ visited \subseteq Paths
  /\ cur \in Seq(Stats)
  /\ pc = "entry" => cur # <<>>

SaveOK ==
  /\ mode \in {"keep", "free"}
  /\ toopen \in Seq(Files)
  /\ tosave \in SUBSET Entries
  /\ written \in Seq(Records)
  /\ pc = "open" => toopen # <<>>

DiskOK ==
  /\ fssdir \in {"absent", "dir", "reg"}
  /\ disk \in [Files -> FssFiles]
  /\ saved \in [recs : SUBSET Records, ended : BOOLEAN]

\* The types of all variables; a walk at a path has its stat, and open_fp() is
\* at one of the files as long as it runs.
TypeOK == TreeOK /\ ControlOK /\ WalkOK /\ SaveOK /\ DiskOK

Loaded == pc \in {"loaded", "walk", "entry", "open", "save"}

\* Once update_flist() has run, no two valid entries name the same path: what
\* the server would be told of a file is never ambiguous, whatever a damaged
\* .fss had made load_flist() insert.
UniqueValid ==
  Loaded /\ gucount > 0 =>
    \A e, f \in flist : FinfoValid(e) /\ FinfoValid(f) /\ e.path = f.path => e = f

\* After an update no one disturbed, the valid entries are exactly the files and
\* directories the filters let through, each with the type and mtime it has.
MirrorsTree ==
  pc = "loaded" /\ gucount > 0 /\ quiet =>
    {[path |-> e.path, type |-> e.type, mtime |-> e.mtime] :
       e \in {x \in flist : FinfoValid(x)}}
    = {[path |-> p, type |-> tree[p].type, mtime |-> tree[p].mtime] :
         p \in {q \in Paths : Exists(q) /\ ~Skipped(q, tree[q].type)}}

\* After such an update the valid entries name what the filters let through, and
\* each as what it is, under --force-use-digest too.
MirrorsNames ==
  pc = "loaded" /\ gucount > 0 /\ quiet =>
    {<<e.path, e.type>> : e \in {x \in flist : FinfoValid(x)}}
    = {<<p, tree[p].type>> : p \in {q \in Paths : Exists(q) /\ ~Skipped(q, tree[q].type)}}

\* And the digest of each of these regular files is that of what is in it now,
\* however the walks before were raced.  A directory is left out: one that was a
\* file when a raced walk read it keeps the digest of that file.
DigestFresh ==
  pc = "loaded" /\ gucount > 0 /\ quiet =>
    \A e \in flist : FinfoValid(e) /\ e.type = "reg" => e.digest = DigestOf(e.path)

\* A save that ran to its end is what the next load finds.
LoadRestoresSave ==
  pc = "loaded" /\ gucount = 0 /\ saved.ended => {Record(e) : e \in flist} = saved.recs

\* A load after a crash invents at most one record: the one whose lines were cut.
LoadDamageConfined ==
  pc = "loaded" /\ gucount = 0 => Cardinality({e \in flist : Record(e) \notin saved.recs}) <= 1

\* What is saved after an update was stat()ed by that update's walk.
SavedWasVisited ==
  Loaded /\ gucount > 0 => \A e \in flist : FinfoValid(e) => e.path \in visited

\* An update no one disturbed dies only of a file it may not open and is to list:
\* the filters come before the fopen().
UndisturbedUpdateSurvives ==
  pc = "failed" /\ cause \in {"nftw", "fopen"} /\ quiet =>
    \E p \in Unreadable : Exists(p) /\ ~Skipped(p, tree[p].type)

\* The statinfo, relapath and digest lines of one number are always lines of
\* one entry, cut or not: no crash pairs a name with another file's digest.
LinesPaired ==
  pc # "open" =>
    \A i \in 1..LoadCount :
      /\ Lines("statinfo")[i] = Lines("relapath")[i]
      /\ Lines("statinfo")[i] = Lines("digest")[i]

\* flist.c:247 asserts: the files of .fss are all there or none of them is.
AssertFiles == cause # "assert_files"

=============================================================================
