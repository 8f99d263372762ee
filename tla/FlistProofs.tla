---------------------------- MODULE FlistProofs ----------------------------
(***************************************************************************)
(* For every monitored directory, every set of options and any number of   *)
(* updates: the types of Flist's variables; that an update leaves one      *)
(* valid entry for a path at most, of a path its walk has visited; what is *)
(* on the disk after a crash at any point; and, for every directory tree,  *)
(* that an update nobody disturbs lists what is there, and with mtimes     *)
(* that tell versions apart the right digests, whatever the walks before   *)
(* were disturbed by and whatever was loaded.                              *)
(***************************************************************************)
EXTENDS Flist, FiniteSetTheorems, TLAPS

\* The least length is one of the three, and no more than any of them.
LEMMA LoadCountBound ==
  ASSUME TypeOK
  PROVE  /\ LoadCount \in Nat
         /\ \A f \in Files : LoadCount <= Len(Lines(f))
         /\ \A f \in Files : Lines(f) \in Seq(Records)
<1>1. \A f \in Files : Lines(f) \in Seq(Records)
  BY DEF TypeOK, DiskOK, Lines, FssFiles
<1> DEFINE a == Len(Lines("statinfo"))
           b == Len(Lines("relapath"))
           c == Len(Lines("digest"))
<1>2. a \in Nat /\ b \in Nat /\ c \in Nat
  BY <1>1 DEF Files
<1>3. {Len(Lines(f)) : f \in Files} = {a, b, c}
  BY DEF Files
<1> HIDE DEF a, b, c
<1>4. \E n \in {a, b, c} : \A m \in {a, b, c} : n <= m
  <2>1. CASE a <= b /\ a <= c
    BY <2>1, <1>2
  <2>2. CASE b <= a /\ b <= c
    BY <2>2, <1>2
  <2>3. CASE c <= a /\ c <= b
    BY <2>3, <1>2
  <2> QED
    BY <2>1, <2>2, <2>3, <1>2
<1>5. Smallest({a, b, c}) \in {a, b, c} /\ \A m \in {a, b, c} : Smallest({a, b, c}) <= m
  BY <1>4 DEF Smallest
<1>6. LoadCount = Smallest({a, b, c})
  BY <1>3 DEF LoadCount
<1>7. \A f \in Files : Len(Lines(f)) \in {a, b, c}
  BY <1>3
<1> QED
  BY <1>1, <1>2, <1>5, <1>6, <1>7

\* What load_flist() puts together of lines is an entry counted 0.
LEMMA LoadedEntries ==
  ASSUME TypeOK, NEW S \in LoadedLists
  PROVE  S \subseteq Entries /\ \A e \in S : e.ucount = 0
<1> DEFINE n == LoadCount
<1>1. \A i \in 1..n : LineEntry(i) \in Entries /\ LineEntry(i).ucount = 0
  <2> SUFFICES ASSUME NEW i \in 1..n
               PROVE  LineEntry(i) \in Entries /\ LineEntry(i).ucount = 0
    OBVIOUS
  <2>1. \A f \in Files : Lines(f)[i] \in Records
    BY LoadCountBound
  <2>2. /\ Lines("statinfo")[i] \in Records
        /\ Lines("relapath")[i] \in Records
        /\ Lines("digest")[i] \in Records
    BY <2>1 DEF Files
  <2> QED
    BY <2>2 DEF LineEntry, Entries, Records
<1>2. \A e \in LastEntries(n) : n \in 1..n => e \in Entries /\ e.ucount = 0
  <2> SUFFICES ASSUME NEW e \in LastEntries(n), n \in 1..n
               PROVE  e \in Entries /\ e.ucount = 0
    OBVIOUS
  <2> DEFINE whole == LineEntry(n)
             names == IF CutLine("relapath", n) THEN CutTo[whole.path] ELSE {whole.path}
             named == {[whole EXCEPT !.path = q] : q \in names}
  <2>1. whole \in Entries /\ whole.ucount = 0
    BY <1>1
  <2>2. names \subseteq Paths
    BY <2>1, PathsAssumption DEF Entries
  <2>3. \A x \in named : x \in Entries /\ x.ucount = 0
    BY <2>1, <2>2 DEF Entries
  <2>4. e \in named \cup {[x EXCEPT !.mtime = JunkTime] : x \in named}
            \cup {[x EXCEPT !.type = "none", !.mtime = JunkTime] : x \in named}
    BY DEF LastEntries
  <2>5. JunkTime \in Int /\ "none" \in FileTypes
    BY DEF JunkTime, FileTypes
  <2>6. \A x \in Entries : /\ [x EXCEPT !.mtime = JunkTime] \in Entries
                           /\ [x EXCEPT !.mtime = JunkTime].ucount = x.ucount
    BY <2>5 DEF Entries
  <2>7. \A x \in Entries :
          /\ [x EXCEPT !.type = "none", !.mtime = JunkTime] \in Entries
          /\ [x EXCEPT !.type = "none", !.mtime = JunkTime].ucount = x.ucount
    BY <2>5 DEF Entries
  <2> HIDE DEF named
  <2> QED
    BY <2>3, <2>4, <2>6, <2>7
<1>3. n \in Nat
  BY LoadCountBound
<1>4. CASE n = 0
  BY <1>4 DEF LoadedLists
<1>5. CASE n # 0
  <2>1. n \in 1..n /\ 1..(n - 1) \subseteq 1..n
    BY <1>3, <1>5
  <2>2. PICK e \in LastEntries(n) : S = {LineEntry(i) : i \in 1..(n - 1)} \cup {e}
    BY <1>5 DEF LoadedLists
  <2> QED
    BY <1>1, <1>2, <2>1, <2>2
<1> QED
  BY <1>4, <1>5

-----------------------------------------------------------------------------

LEMMA InitTypeOK == Init => TypeOK
<1> SUFFICES ASSUME Init PROVE TypeOK
  OBVIOUS
<1>1. TreeOK
  <2>1. Absent \in Nodes
    BY DEF Absent, Nodes, FileTypes
  <2>2. 0 \in 0..MaxClock
    BY PathsAssumption
  <2> QED
    BY <2>1, <2>2 DEF Init, TreeOK
<1>2. ControlOK
  BY PathsAssumption DEF Init, ControlOK
<1>3. WalkOK
  BY DEF Init, WalkOK
<1>4. SaveOK
  BY DEF Init, SaveOK
<1>5. DiskOK
  BY DEF Init, DiskOK, NoFile, FssFiles
<1> QED
  BY <1>1, <1>2, <1>3, <1>4, <1>5 DEF TypeOK

\* What a step leaves alone keeps its type.
LEMMA UnchangedOK ==
  /\ TreeOK /\ UNCHANGED <<tree, clock, quiet>> => TreeOK'
  /\ WalkOK /\ UNCHANGED <<listed, opened, visited, cur>> /\ pc' # "entry" => WalkOK'
  /\ SaveOK /\ UNCHANGED <<mode, toopen, tosave, written>> /\ pc' # "open" => SaveOK'
  /\ DiskOK /\ UNCHANGED <<fssdir, disk, saved>> => DiskOK'
<1>1. TreeOK /\ UNCHANGED <<tree, clock, quiet>> => TreeOK'
  BY DEF TreeOK
<1>2. WalkOK /\ UNCHANGED <<listed, opened, visited, cur>> /\ pc' # "entry" => WalkOK'
  BY DEF WalkOK
<1>3. SaveOK /\ UNCHANGED <<mode, toopen, tosave, written>> /\ pc' # "open" => SaveOK'
  BY DEF SaveOK
<1>4. DiskOK /\ UNCHANGED <<fssdir, disk, saved>> => DiskOK'
  BY DEF DiskOK
<1> QED
  BY <1>1, <1>2, <1>3, <1>4

LEMMA UserTypeOK ==
  ASSUME TypeOK, User
  PROVE  TypeOK'
<1>0. PICK p \in Paths, m \in Stamps :
        \/ \E t \in FileTypes \ {"none"}, c \in Contents : Create(p, t, c, m)
        \/ \E c \in Contents : Modify(p, c, m)
        \/ Remove(p, m)
  BY DEF User
<1>1. m \in Int /\ clock \in Int
  BY DEF TypeOK, TreeOK, Stamps
<1>2. ASSUME NEW node \in Nodes PROVE Changed(p, node, m) \in [Paths -> Nodes]
  BY <1>1, <1>2 DEF Changed, TypeOK, TreeOK, Nodes
<1>3. Tick /\ tree' \in [Paths -> Nodes] /\ listed' \subseteq Paths
  <2>1. CASE \E t \in FileTypes \ {"none"}, c \in Contents : Create(p, t, c, m)
    <3>1. PICK t \in FileTypes, c \in Contents : Create(p, t, c, m)
      BY <2>1
    <3>2. [type |-> t, mtime |-> m,
           content |-> IF t = "reg" THEN c ELSE EmptyDigest] \in Nodes
      BY <1>1 DEF Nodes
    <3> QED
      BY <3>1, <3>2, <1>2 DEF Create, TypeOK, WalkOK
  <2>2. CASE \E c \in Contents : Modify(p, c, m)
    <3>1. PICK c \in Contents : Modify(p, c, m)
      BY <2>2
    <3>2. tree' \in [Paths -> Nodes]
      BY <3>1, <1>1 DEF Modify, TypeOK, TreeOK, Nodes
    <3> QED
      BY <3>1, <3>2 DEF Modify, TypeOK, WalkOK
  <2>3. CASE Remove(p, m)
    <3>1. Absent \in Nodes
      BY DEF Absent, FileTypes, Nodes
    <3>2. listed' \subseteq Paths
      BY <2>3 DEF Remove, TypeOK, WalkOK
    <3>3. Tick /\ tree' = Changed(p, Absent, m)
      BY <2>3 DEF Remove
    <3> QED
      BY <3>1, <3>2, <3>3, <1>2
  <2> QED
    BY <1>0, <2>1, <2>2, <2>3
<1>4. TreeOK'
  <2>1. clock' \in 0..MaxClock
    BY <1>3, PathsAssumption DEF Tick, TypeOK, TreeOK
  <2>2. quiet' \in BOOLEAN
    BY <1>3 DEF Tick
  <2> QED
    BY <1>3, <2>1, <2>2 DEF TreeOK
<1>5. ControlOK'
  BY <1>3 DEF Tick, TypeOK, ControlOK
<1>6. WalkOK'
  BY <1>3 DEF Tick, TypeOK, WalkOK
<1>7. SaveOK'
  BY <1>3 DEF Tick, TypeOK, SaveOK, saveVars
<1>8. DiskOK'
  BY <1>3, UnchangedOK DEF Tick, TypeOK, diskVars
<1> QED
  BY <1>4, <1>5, <1>6, <1>7, <1>8 DEF TypeOK

\* The stat of the path at hand, and the entry made or refreshed from it.
LEMMA CallbackEntries ==
  ASSUME TypeOK, pc = "entry"
  PROVE  /\ cur[1] \in Stats
         /\ NewEntry(cur[1]) \in Entries
         /\ \A e \in Entries : Refreshed(e, cur[1]) \in Entries
<1>1. cur[1] \in Stats
  BY DEF TypeOK, WalkOK
<1>2. cur[1].path \in Paths /\ cur[1].type \in FileTypes /\ cur[1].mtime \in Int
  BY <1>1 DEF Stats
<1>3. gucount \in Nat
  BY PathsAssumption DEF TypeOK, ControlOK
<1>4. NewEntry(cur[1]) \in Entries
  <2>1. DigestOf(cur[1].path) \in Contents \cup {EmptyDigest}
    BY <1>2 DEF DigestOf, TypeOK, TreeOK, Nodes
  <2> QED
    BY <1>2, <1>3, <2>1 DEF NewEntry, Entries
<1>5. \A e \in Entries : Refreshed(e, cur[1]) \in Entries
  BY <1>2, <1>3 DEF Refreshed, Entries
<1> QED
  BY <1>1, <1>4, <1>5

LEMMA CallbackTypeOK ==
  ASSUME TypeOK, Callback
  PROVE  TypeOK'
<1> DEFINE st == cur[1]
<1>1. pc = "entry"
  BY DEF Callback
<1>2. st \in Stats /\ st.path \in Paths
  BY <1>1, CallbackEntries DEF Stats
<1>3. flist' \in SUBSET Entries
  <2>1. flist \in SUBSET Entries
    BY DEF TypeOK, ControlOK
  <2>2. CASE \E e \in flist : flist' = (flist \ {e}) \cup {Refreshed(e, st)}
    BY <1>1, <2>1, <2>2, CallbackEntries
  <2>3. CASE flist' = flist \cup {NewEntry(st)}
    BY <1>1, <2>1, <2>3, CallbackEntries
  <2>4. CASE flist' = flist
    BY <2>1, <2>4
  <2> QED
    BY <2>2, <2>3, <2>4 DEF Callback
<1>4. listed' \subseteq Paths /\ opened' \subseteq Paths \cup {Base}
  <2>1. CASE Descend(st)
    BY <2>1, <1>2 DEF Descend, TypeOK, WalkOK, Children
  <2>2. CASE UNCHANGED <<opened, listed>>
    BY <2>2 DEF TypeOK, WalkOK
  <2> QED
    BY <2>1, <2>2 DEF Callback
<1>5. pc' \in {"walk", "failed"} /\ cause' \in {cause, "nftw", "fopen", "log"}
  BY DEF Callback, Die
<1>6. /\ cur' = <<>>
      /\ UNCHANGED <<treeVars, quiet, gucount, visited, saveVars, diskVars>>
  BY DEF Callback
<1>7. ControlOK'
  BY <1>3, <1>5, <1>6 DEF TypeOK, ControlOK
<1>8. WalkOK'
  BY <1>4, <1>5, <1>6 DEF TypeOK, WalkOK
<1> QED
  BY <1>5, <1>6, <1>7, <1>8, UnchangedOK DEF TypeOK, treeVars, saveVars, diskVars

LEMMA InitFlistTypeOK ==
  ASSUME TypeOK, InitFlist
  PROVE  TypeOK'
<1>1. /\ pc' \in {"init", "failed"}
      /\ cause' \in {cause, "mkdir"}
      /\ fssdir' \in {fssdir, "absent", "dir"}
  BY DEF InitFlist, DoMkdir, Die
<1>2. UNCHANGED <<treeVars, quiet, flist, gucount, walkVars, saveVars, disk, saved>>
  BY DEF InitFlist, DoMkdir
<1>3. ControlOK'
  BY <1>1, <1>2 DEF TypeOK, ControlOK
<1>4. DiskOK'
  BY <1>1, <1>2 DEF TypeOK, DiskOK
<1> QED
  BY <1>1, <1>2, <1>3, <1>4, UnchangedOK DEF TypeOK, treeVars, walkVars, saveVars

LEMMA LoadFlistTypeOK ==
  ASSUME TypeOK, LoadFlist
  PROVE  TypeOK'
<1>1. /\ pc' \in {"loaded", "failed"}
      /\ cause' \in {cause, "assert_size", "assert_files", "assert_pathlen"}
      /\ gucount' \in {gucount, 0}
      /\ quiet' = FALSE /\ visited' = {}
      /\ UNCHANGED <<treeVars, listed, opened, cur, saveVars, diskVars>>
  BY DEF LoadFlist, Die
<1>2. flist' \in LoadedLists \/ flist' = flist
  BY DEF LoadFlist
<1>3. flist' \in SUBSET Entries
  BY <1>2, LoadedEntries DEF TypeOK, ControlOK
<1>4. 0 \in 0..MaxUpdates
  BY PathsAssumption
<1>5. ControlOK'
  BY <1>1, <1>3, <1>4 DEF TypeOK, ControlOK
<1>6. TreeOK' /\ WalkOK'
  BY <1>1 DEF TypeOK, TreeOK, WalkOK, treeVars
<1> QED
  BY <1>1, <1>5, <1>6, UnchangedOK DEF TypeOK, saveVars, diskVars

LEMMA WalkTypeOK ==
  ASSUME TypeOK, UpdateStart \/ (\E p \in Paths : Visit(p)) \/ WalkDone
  PROVE  TypeOK'
<1>1. CASE UpdateStart
  <2>1. gucount' \in 0..MaxUpdates
    BY <1>1, PathsAssumption DEF UpdateStart, NextUcount, TypeOK, ControlOK
  <2>2. ControlOK'
    BY <1>1, <2>1 DEF UpdateStart, TypeOK, ControlOK
  <2>3. WalkOK'
    BY <1>1 DEF UpdateStart, WalkOK, Children
  <2>4. TreeOK'
    BY <1>1 DEF UpdateStart, TypeOK, TreeOK, treeVars
  <2>5. SaveOK' /\ DiskOK'
    BY <1>1, UnchangedOK DEF UpdateStart, TypeOK, saveVars, diskVars
  <2> QED
    BY <2>2, <2>3, <2>4, <2>5 DEF TypeOK
<1>2. ASSUME NEW p \in Paths, Visit(p)
      PROVE  TypeOK'
  <2>1. \E st \in Stats : cur' = <<st>>
    <3>1. tree[p].type \in FileTypes /\ tree[p].mtime \in Int /\ 0..clock \subseteq Int
      BY DEF TypeOK, TreeOK, Nodes
    <3>2. \A found \in BOOLEAN, t \in FileTypes, m \in Int :
            [path |-> p, found |-> found, type |-> t, mtime |-> m] \in Stats
      BY DEF Stats
    <3> QED
      BY <1>2, <3>1, <3>2 DEF Visit
  <2>2. cur' \in Seq(Stats) /\ cur' # <<>>
    BY <2>1
  <2>3. WalkOK'
    BY <1>2, <2>2 DEF Visit, TypeOK, WalkOK
  <2>4. ControlOK'
    BY <1>2 DEF Visit, TypeOK, ControlOK
  <2>5. TreeOK' /\ SaveOK' /\ DiskOK'
    BY <1>2, UnchangedOK DEF Visit, TypeOK, treeVars, saveVars, diskVars
  <2> QED
    BY <2>3, <2>4, <2>5 DEF TypeOK
<1>3. CASE WalkDone
  <2>1. ControlOK' /\ WalkOK'
    BY <1>3 DEF WalkDone, TypeOK, ControlOK, WalkOK
  <2>2. TreeOK' /\ SaveOK' /\ DiskOK'
    BY <1>3, UnchangedOK DEF WalkDone, TypeOK, treeVars, saveVars, diskVars
  <2> QED
    BY <2>1, <2>2 DEF TypeOK
<1> QED
  BY <1>1, <1>2, <1>3

\* A saved line is a line of an entry, and so is every list of them.
LEMMA RecordType == \A e \in Entries : Record(e) \in Records
BY DEF Record, Entries, Records

LEMMA UnloadTypeOK ==
  ASSUME TypeOK,
         (\E m \in {"keep", "free"} : UnloadStart(m)) \/ OpenNext
           \/ (\E e \in tosave : SaveEntry(e)) \/ SaveFinish \/ CleanupFlist
  PROVE  TypeOK'
<1>1. ASSUME NEW m \in {"keep", "free"}, UnloadStart(m)
      PROVE  TypeOK'
  <2>1. toopen' \in Seq(Files) /\ toopen' # <<>>
    BY <1>1 DEF UnloadStart, Files
  <2>2. SaveOK'
    BY <1>1, <2>1 DEF UnloadStart, TypeOK, ControlOK, SaveOK
  <2>3. ControlOK'
    BY <1>1 DEF UnloadStart, TypeOK, ControlOK
  <2>4. WalkOK' /\ TreeOK' /\ DiskOK'
    BY <1>1, UnchangedOK DEF UnloadStart, TypeOK, treeVars, walkVars, diskVars
  <2> QED
    BY <2>2, <2>3, <2>4 DEF TypeOK
<1>2. CASE OpenNext
  <2>1. toopen \in Seq(Files) /\ toopen # <<>>
    BY <1>2 DEF OpenNext, TypeOK, SaveOK
  <2>2. Head(toopen) \in Files /\ Tail(toopen) \in Seq(Files)
    BY <2>1
  <2>3. Opened(Head(toopen)) \in FssFiles
    BY DEF Opened, Truncated, FssFiles
  <2>4. ValidRecords \subseteq Records
    BY RecordType DEF ValidRecords, TypeOK, ControlOK
  <2>5. DiskOK'
    <3>1. disk' \in [Files -> FssFiles]
      BY <1>2, <2>2, <2>3 DEF OpenNext, TypeOK, DiskOK
    <3>2. saved' = [recs |-> ValidRecords, ended |-> FALSE] \/ saved' = saved
      BY <1>2 DEF OpenNext
    <3>3. \A R \in SUBSET Records :
            [recs |-> R, ended |-> FALSE] \in [recs : SUBSET Records, ended : BOOLEAN]
      OBVIOUS
    <3>4. [recs |-> ValidRecords, ended |-> FALSE]
            \in [recs : SUBSET Records, ended : BOOLEAN]
      BY <2>4, <3>3
    <3>5. saved' \in [recs : SUBSET Records, ended : BOOLEAN]
      BY <3>2, <3>4 DEF TypeOK, DiskOK
    <3> QED
      BY <1>2, <3>1, <3>5 DEF OpenNext, TypeOK, DiskOK
  <2>6. /\ pc' \in {"open", "save", "failed"}
        /\ pc' = "open" => toopen' # <<>>
        /\ toopen' \in {toopen, Tail(toopen)}
        /\ cause' \in {cause, "nofp"}
        /\ UNCHANGED <<treeVars, quiet, flist, gucount, walkVars, mode, tosave, written>>
    BY <1>2 DEF OpenNext, Die
  <2>7. SaveOK'
    BY <2>2, <2>6 DEF TypeOK, SaveOK
  <2>8. ControlOK'
    BY <2>6 DEF TypeOK, ControlOK
  <2>9. WalkOK' /\ TreeOK'
    BY <2>6, UnchangedOK DEF TypeOK, treeVars, walkVars
  <2> QED
    BY <2>5, <2>7, <2>8, <2>9 DEF TypeOK
<1>3. ASSUME NEW e \in tosave, SaveEntry(e)
      PROVE  TypeOK'
  <2>1. Record(e) \in Records
    BY RecordType DEF TypeOK, SaveOK
  <2>2. written' \in Seq(Records)
    BY <1>3, <2>1 DEF SaveEntry, TypeOK, SaveOK
  <2>3. SaveOK'
    BY <1>3, <2>2 DEF SaveEntry, TypeOK, SaveOK
  <2>4. ControlOK'
    BY <1>3 DEF SaveEntry, TypeOK, ControlOK
  <2>5. WalkOK' /\ TreeOK' /\ DiskOK'
    BY <1>3, UnchangedOK DEF SaveEntry, TypeOK, treeVars, walkVars, diskVars
  <2> QED
    BY <2>3, <2>4, <2>5 DEF TypeOK
<1>4. CASE SaveFinish
  <2>1. \A f \in Files : [exists |-> TRUE, cut |-> <<>>, lines |-> disk[f].lines \o written]
                          \in FssFiles
    BY DEF TypeOK, SaveOK, DiskOK, FssFiles
  <2>2. disk' \in [Files -> FssFiles]
    BY <1>4, <2>1 DEF SaveFinish
  <2>3. saved' \in [recs : SUBSET Records, ended : BOOLEAN]
    BY <1>4 DEF SaveFinish, TypeOK, DiskOK
  <2>4. DiskOK'
    BY <1>4, <2>2, <2>3 DEF SaveFinish, TypeOK, DiskOK
  <2>5. SaveOK' /\ ControlOK'
    BY <1>4 DEF SaveFinish, TypeOK, SaveOK, ControlOK
  <2>6. WalkOK' /\ TreeOK'
    BY <1>4, UnchangedOK DEF SaveFinish, TypeOK, treeVars, walkVars
  <2> QED
    BY <2>4, <2>5, <2>6 DEF TypeOK
<1>5. CASE CleanupFlist
  <2>1. ControlOK'
    BY <1>5 DEF CleanupFlist, TypeOK, ControlOK
  <2> QED
    BY <1>5, <2>1, UnchangedOK
    DEF CleanupFlist, TypeOK, treeVars, walkVars, saveVars, diskVars
<1> QED
  BY <1>1, <1>2, <1>3, <1>4, <1>5

\* A file a crash leaves half written still consists of lines of entries.
LEMMA PartialType ==
  ASSUME TypeOK, NEW f \in Files
  PROVE  Partial(f) \subseteq FssFiles
<1>1. disk[f].lines \in Seq(Records) /\ written \in Seq(Records)
  BY DEF TypeOK, DiskOK, SaveOK, FssFiles
<1>2. \A k \in 0..Len(written) : SubSeq(written, 1, k) \in Seq(Records)
  BY <1>1
<1>3. \A k \in 1..Len(written) : /\ SubSeq(written, 1, k - 1) \in Seq(Records)
                                 /\ <<written[k]>> \in Seq(Records)
  <2> SUFFICES ASSUME NEW k \in 1..Len(written)
               PROVE  /\ SubSeq(written, 1, k - 1) \in Seq(Records)
                      /\ <<written[k]>> \in Seq(Records)
    OBVIOUS
  <2>1. k - 1 \in 0..Len(written)
    BY <1>1
  <2>2. written[k] \in Records
    BY <1>1
  <2> QED
    BY <1>2, <2>1, <2>2
<1>4. \A k \in 0..Len(written) :
        [exists |-> TRUE, lines |-> disk[f].lines \o SubSeq(written, 1, k), cut |-> <<>>]
          \in FssFiles
  BY <1>1, <1>2 DEF FssFiles
<1>5. \A k \in 1..Len(written) :
        [exists |-> TRUE, lines |-> disk[f].lines \o SubSeq(written, 1, k - 1),
         cut |-> <<written[k]>>] \in FssFiles
  BY <1>1, <1>3 DEF FssFiles
<1> QED
  BY <1>4, <1>5 DEF Partial

LEMMA CrashTypeOK ==
  ASSUME TypeOK, Crash
  PROVE  TypeOK'
<1>1. disk' \in [Files -> FssFiles]
  <2>1. CASE pc = "save"
    <3>1. PICK a \in Partial("statinfo"), b \in Partial("relapath"), c \in Partial("digest") :
            disk' = [f \in Files |-> CASE f = "statinfo" -> a
                                       [] f = "relapath" -> b
                                       [] f = "digest" -> c]
      BY <2>1 DEF Crash
    <3>2. a \in FssFiles /\ b \in FssFiles /\ c \in FssFiles
      BY PartialType DEF Files
    <3> QED
      BY <3>1, <3>2 DEF Files
  <2>2. CASE pc # "save"
    BY <2>2 DEF Crash, TypeOK, DiskOK
  <2> QED
    BY <2>1, <2>2
<1>2. DiskOK'
  BY <1>1 DEF Crash, TypeOK, DiskOK
<1>3. ControlOK'
  BY PathsAssumption DEF Crash, ControlOK
<1>4. WalkOK' /\ SaveOK'
  BY DEF Crash, WalkOK, SaveOK
<1>5. TreeOK'
  BY DEF Crash, TypeOK, TreeOK, treeVars
<1> QED
  BY <1>2, <1>3, <1>4, <1>5 DEF TypeOK

LEMMA StepTypeOK == TypeOK /\ [Next]_vars => TypeOK'
<1> SUFFICES ASSUME TypeOK, [Next]_vars PROVE TypeOK'
  OBVIOUS
<1>1. CASE User
  BY <1>1, UserTypeOK
<1>2. CASE Process
  BY <1>2, InitFlistTypeOK, LoadFlistTypeOK, WalkTypeOK, CallbackTypeOK, UnloadTypeOK
  DEF Process
<1>3. CASE Crash
  BY <1>3, CrashTypeOK
<1>4. CASE UNCHANGED vars
  BY <1>4 DEF vars, TypeOK, TreeOK, ControlOK, WalkOK, SaveOK, DiskOK
<1> QED
  BY <1>1, <1>2, <1>3, <1>4 DEF Next

\* The variables keep their types whatever users do and wherever the process dies.
THEOREM TypeCorrect == Spec => []TypeOK
BY InitTypeOK, StepTypeOK, PTL DEF Spec

-----------------------------------------------------------------------------
(* UniqueValid is inductive together with: no entry is counted ahead of     *)
(* g_ucount, so that g_ucount += 1 makes every entry invalid; what became   *)
(* valid since is of a path visited since; and the path at hand, visited    *)
(* this once, has no valid entry yet.                                       *)

CountsBehind == Loaded => \A e \in flist : e.ucount <= gucount

Walking == pc \in {"walk", "entry"} => gucount > 0

FreshAtHand ==
  pc = "entry" =>
    /\ cur[1].path \in visited
    /\ \A e \in flist : FinfoValid(e) => e.path # cur[1].path

UniqueInv ==
  /\ TypeOK
  /\ CountsBehind
  /\ Walking
  /\ FreshAtHand
  /\ SavedWasVisited
  /\ UniqueValid

USE DEF Loaded

LEMMA InitUniqueInv == Init => UniqueInv
BY InitTypeOK DEF Init, UniqueInv, CountsBehind, Walking, FreshAtHand,
                  SavedWasVisited, UniqueValid

\* Steps that change neither the list nor what counts as valid.
LEMMA FrameUnique ==
  ASSUME UniqueInv, TypeOK', UNCHANGED <<flist, gucount, visited>>,
         pc' \in {"walk", "entry"} => pc' = pc /\ cur' = cur,
         Loaded' => Loaded
  PROVE  UniqueInv'
BY DEF UniqueInv, CountsBehind, Walking, FreshAtHand, SavedWasVisited, UniqueValid,
       FinfoValid

\* do_update_flist(): the one entry that turns valid is of the path at hand.
LEMMA CallbackUnique ==
  ASSUME UniqueInv, Callback, TypeOK'
  PROVE  UniqueInv'
<1> DEFINE st == cur[1]
<1>1. /\ pc = "entry"
      /\ pc' \in {"walk", "failed"}
      /\ UNCHANGED <<gucount, visited>>
      /\ gucount \in Nat /\ gucount > 0
      /\ flist \subseteq Entries
      /\ st.path \in visited
      /\ \A e \in flist : FinfoValid(e) => e.path # st.path
  BY PathsAssumption
  DEF Callback, Die, UniqueInv, Walking, FreshAtHand, TypeOK, ControlOK
<1>2. \E n : /\ n.path = st.path
             /\ n.ucount = gucount
             /\ flist' \subseteq flist \cup {n}
  <2>1. CASE \E e \in flist : Hit(st, e) /\ flist' = (flist \ {e}) \cup {Refreshed(e, st)}
    <3>1. PICK e \in flist : Hit(st, e) /\ flist' = (flist \ {e}) \cup {Refreshed(e, st)}
      BY <2>1
    <3>2. Refreshed(e, st).path = st.path /\ Refreshed(e, st).ucount = gucount
      BY <1>1, <3>1 DEF Refreshed, Hit, Entries
    <3> QED
      BY <3>1, <3>2
  <2>2. CASE flist' = flist \cup {NewEntry(st)}
    BY <2>2 DEF NewEntry
  <2>3. CASE flist' = flist
    <3>1. [path |-> st.path, ucount |-> gucount].path = st.path
          /\ [path |-> st.path, ucount |-> gucount].ucount = gucount
      OBVIOUS
    <3> QED
      BY <2>3, <3>1
  <2> QED
    BY <2>1, <2>2, <2>3 DEF Callback
<1>3. CountsBehind'
  BY <1>1, <1>2 DEF UniqueInv, CountsBehind
<1>4. SavedWasVisited'
  BY <1>1, <1>2 DEF UniqueInv, SavedWasVisited, FinfoValid
<1>5. UniqueValid'
  BY <1>1, <1>2 DEF UniqueInv, UniqueValid, FinfoValid
<1> QED
  BY <1>1, <1>3, <1>4, <1>5 DEF UniqueInv, Walking, FreshAtHand

LEMMA StepUniqueInv == UniqueInv /\ [Next]_vars => UniqueInv'
<1> SUFFICES ASSUME UniqueInv, [Next]_vars PROVE UniqueInv'
  OBVIOUS
<1>1. TypeOK /\ TypeOK'
  BY StepTypeOK DEF UniqueInv
<1>2. gucount \in Nat /\ flist \subseteq Entries
  BY <1>1, PathsAssumption DEF TypeOK, ControlOK
<1>3. CASE User
  BY <1>1, <1>3, FrameUnique DEF User, Create, Modify, Remove, Tick
<1>4. CASE InitFlist
  BY <1>1, <1>4, FrameUnique DEF InitFlist, DoMkdir, Die, walkVars
<1>5. CASE LoadFlist
  <2>1. CASE pc' = "failed"
    BY <1>1, <2>1 DEF UniqueInv, CountsBehind, Walking, FreshAtHand,
                      SavedWasVisited, UniqueValid
  <2>2. CASE pc' # "failed"
    <3>1. pc' = "loaded" /\ gucount' = 0 /\ flist' \in LoadedLists
      BY <1>5, <2>2 DEF LoadFlist, Die
    <3>2. \A e \in flist' : e.ucount = 0
      BY <1>1, <3>1, LoadedEntries
    <3> QED
      BY <1>1, <3>1, <3>2 DEF UniqueInv, CountsBehind, Walking, FreshAtHand,
                              SavedWasVisited, UniqueValid
  <2> QED
    BY <2>1, <2>2
<1>6. CASE UpdateStart
  <2>1. /\ pc = "loaded" /\ pc' = "walk"
        /\ gucount' = gucount + 1 /\ flist' = flist
    BY <1>6 DEF UpdateStart, NextUcount
  <2>2. \A e \in flist : e.ucount \in Nat /\ e.ucount <= gucount
    BY <1>2, <2>1 DEF UniqueInv, CountsBehind, Entries
  <2>3. \A e \in flist' : e.ucount <= gucount' /\ e.ucount # gucount'
    BY <1>2, <2>1, <2>2
  <2> QED
    BY <1>1, <1>2, <2>1, <2>3
    DEF UniqueInv, CountsBehind, Walking, FreshAtHand, SavedWasVisited,
        UniqueValid, FinfoValid
<1>7. ASSUME NEW p \in Paths, Visit(p) PROVE UniqueInv'
  <2>1. /\ pc = "walk" /\ pc' = "entry"
        /\ p \notin visited /\ visited' = visited \cup {p}
        /\ UNCHANGED <<flist, gucount>>
    BY <1>7 DEF Visit
  <2>2. cur'[1].path = p
    BY <1>7 DEF Visit
  <2> QED
    BY <1>1, <2>1, <2>2
    DEF UniqueInv, CountsBehind, Walking, FreshAtHand, SavedWasVisited,
        UniqueValid, FinfoValid
<1>8. CASE Callback
  BY <1>1, <1>8, CallbackUnique
<1>9. CASE WalkDone
  BY <1>1, <1>9, FrameUnique DEF WalkDone
<1>10. CASE \E m \in {"keep", "free"} : UnloadStart(m)
  BY <1>1, <1>10, FrameUnique DEF UnloadStart, walkVars
<1>11. CASE OpenNext
  BY <1>1, <1>11, FrameUnique DEF OpenNext, Die, walkVars
<1>12. CASE \E e \in tosave : SaveEntry(e)
  <2>1. /\ flist' \subseteq flist
        /\ pc = "save" /\ pc' = "save"
        /\ UNCHANGED <<gucount, visited>>
    BY <1>12 DEF SaveEntry, walkVars
  <2> QED
    BY <1>1, <2>1
    DEF UniqueInv, CountsBehind, Walking, FreshAtHand, SavedWasVisited,
        UniqueValid, FinfoValid
<1>13. CASE SaveFinish
  BY <1>1, <1>13, FrameUnique DEF SaveFinish, walkVars
<1>14. CASE CleanupFlist \/ Crash
  BY <1>1, <1>14
  DEF CleanupFlist, Crash, UniqueInv, CountsBehind, Walking, FreshAtHand,
      SavedWasVisited, UniqueValid
<1>15. CASE UNCHANGED vars
  BY <1>1, <1>15, FrameUnique DEF vars
<1> QED
  BY <1>3, <1>4, <1>5, <1>6, <1>7, <1>8, <1>9, <1>10, <1>11, <1>12, <1>13,
     <1>14, <1>15
  DEF Next, Process

\* However a damaged .fss was loaded and the walk was raced, an update leaves at
\* most one valid entry for a path.
THEOREM OneValidEntryPerPath == Spec => []UniqueValid
<1>1. UniqueInv => UniqueValid
  BY DEF UniqueInv
<1> QED
  BY <1>1, InitUniqueInv, StepUniqueInv, PTL DEF Spec

\* Nothing is valid, and so nothing is saved, that the latest walk has not visited.
THEOREM ValidWasVisited == Spec => []SavedWasVisited
<1>1. UniqueInv => SavedWasVisited
  BY DEF UniqueInv
<1> QED
  BY <1>1, InitUniqueInv, StepUniqueInv, PTL DEF Spec

-----------------------------------------------------------------------------
(* What the three files of .fss hold, wherever the process is killed.  One save prints one
   sequence of records to all three files, and each file holds a beginning of it.  So the
   lines of one number always belong together, the next load finds nothing but what that
   save was to write, and only the line a crash has cut can be misread. *)

AllFiles == <<"statinfo", "relapath", "digest">>

\* LinesPaired, while the files are being truncated too.
Paired ==
  \A i \in 1..LoadCount :
    /\ Lines("statinfo")[i] = Lines("relapath")[i]
    /\ Lines("statinfo")[i] = Lines("digest")[i]

\* What a load would read was a record of the latest save.
ReadsSaved == \A i \in 1..LoadCount : Lines("statinfo")[i] \in saved.recs

\* A save that has ended left its records in each file, and nothing cut.
Complete ==
  saved.ended =>
    /\ \A f \in Files : disk[f].cut = <<>> /\ disk[f].lines = disk["statinfo"].lines
    /\ {disk["statinfo"].lines[i] : i \in 1..Len(disk["statinfo"].lines)} = saved.recs

\* open_fp("wb") truncates the files one by one, the list being at rest.
Truncating ==
  pc = "open" =>
    /\ tosave = flist /\ written = <<>>
    /\ \/ toopen = AllFiles
       \/ /\ saved = [recs |-> ValidRecords, ended |-> FALSE]
          /\ disk["statinfo"] = Truncated
          /\ \/ toopen = <<"relapath", "digest">>
             \/ toopen = <<"digest">> /\ disk["relapath"] = Truncated

\* The records of a save are those printed and those of the entries to come.
Saving ==
  pc = "save" =>
    /\ \A f \in Files : disk[f] = Truncated
    /\ ~saved.ended
    /\ saved.recs = {written[i] : i \in 1..Len(written)}
                    \cup {Record(e) : e \in {x \in tosave : FinfoValid(x)}}
    /\ mode = "keep" => ValidRecords = saved.recs

\* Of a list just loaded at most one entry is none of the latest save.
OneStranger ==
  pc = "loaded" /\ gucount = 0 =>
    \A x, y \in flist : Record(x) \notin saved.recs /\ Record(y) \notin saved.recs => x = y

DiskInv ==
  /\ UniqueInv
  /\ Paired
  /\ ReadsSaved
  /\ Complete
  /\ Truncating
  /\ Saving
  /\ OneStranger
  /\ LoadRestoresSave

-----------------------------------------------------------------------------

\* LoadCountBound as an implication, to be used of the next state as well.
LEMMA LoadCountFacts ==
  TypeOK => /\ LoadCount \in Nat
            /\ \A f \in Files : LoadCount <= Len(Lines(f))
            /\ \A f \in Files : Lines(f) \in Seq(Records)
BY LoadCountBound

\* With statinfo.fss empty there is nothing to load.
LEMMA NothingToLoad ==
  TypeOK /\ disk["statinfo"] = Truncated => LoadCount = 0
<1> SUFFICES ASSUME TypeOK, disk["statinfo"] = Truncated PROVE LoadCount = 0
  OBVIOUS
<1>1. Lines("statinfo") = <<>>
  BY DEF Lines, Truncated
<1>2. LoadCount \in Nat /\ LoadCount <= Len(Lines("statinfo"))
  BY LoadCountBound DEF Files
<1>3. Len(Lines("statinfo")) = 0
  BY <1>1
<1> QED
  BY <1>2, <1>3

\* A list counted from its load has nothing but valid entries.
LEMMA AllValidAtLoad ==
  ASSUME UniqueInv, Loaded, gucount = 0
  PROVE  ValidRecords = {Record(e) : e \in flist}
<1>1. \A e \in flist : e.ucount \in Nat /\ e.ucount <= 0
  BY DEF UniqueInv, CountsBehind, TypeOK, ControlOK, Entries
<1>2. \A e \in flist : FinfoValid(e)
  BY <1>1 DEF FinfoValid
<1>3. {x \in flist : FinfoValid(x)} = flist
  BY <1>2
<1> QED
  BY <1>3 DEF ValidRecords

\* The records of what a load builds: those of whole lines, and of the last.
LEMMA LoadedRecords ==
  ASSUME TypeOK, Paired, NEW S \in LoadedLists
  PROVE  \/ LoadCount = 0 /\ S = {}
         \/ /\ LoadCount > 0
            /\ \E e \in LastEntries(LoadCount) :
                 S = {LineEntry(i) : i \in 1..(LoadCount - 1)} \cup {e}
BY LoadCountBound DEF LoadedLists

LEMMA LineRecord ==
  ASSUME TypeOK, Paired, NEW i \in 1..LoadCount
  PROVE  Record(LineEntry(i)) = Lines("statinfo")[i]
<1>1. Lines("statinfo")[i] \in Records
  <2>1. i \in 1..Len(Lines("statinfo"))
    BY LoadCountBound DEF Files
  <2> QED
    BY <2>1, LoadCountBound DEF Files
<1>2. Lines("relapath")[i] = Lines("statinfo")[i] /\ Lines("digest")[i] = Lines("statinfo")[i]
  BY DEF Paired
<1> QED
  BY <1>1, <1>2 DEF Record, LineEntry, Records

-----------------------------------------------------------------------------

LEMMA InitDiskInv == Init => DiskInv
<1> SUFFICES ASSUME Init PROVE DiskInv
  OBVIOUS
<1>1. UniqueInv
  BY InitUniqueInv
<1>2. LoadCount = 0
  <2>1. Lines("statinfo") = <<>>
    BY DEF Init, Lines, NoFile, Files
  <2>2. Len(Lines("statinfo")) = 0
    BY <2>1
  <2> QED
    BY <1>1, <2>2, LoadCountBound DEF UniqueInv, Files
<1>3. Paired /\ ReadsSaved
  BY <1>2 DEF Paired, ReadsSaved
<1> QED
  BY <1>1, <1>3 DEF Init, DiskInv, Complete, Truncating, Saving, OneStranger,
                    LoadRestoresSave

\* Steps that touch neither the files nor the record of what was saved.
LEMMA SameFiles ==
  ASSUME Paired, ReadsSaved, Complete, UNCHANGED <<disk, saved>>
  PROVE  Paired' /\ ReadsSaved' /\ Complete'
<1>1. LoadCount' = LoadCount /\ (\A f : Lines(f)' = Lines(f))
  BY DEF LoadCount, Lines
<1>2. Paired'
  BY <1>1 DEF Paired
<1>3. ReadsSaved'
  BY <1>1 DEF ReadsSaved
<1>4. Complete'
  BY DEF Complete
<1> QED
  BY <1>2, <1>3, <1>4

\* Steps outside of a load and a save.
LEMMA FrameDisk ==
  ASSUME DiskInv, UniqueInv', UNCHANGED <<disk, saved>>,
         \/ pc' = pc /\ UNCHANGED <<flist, gucount, mode, tosave, toopen, written>>
         \/ pc' \notin {"loaded", "open", "save"}
         \/ pc' = "loaded" /\ gucount' > 0
  PROVE  DiskInv'
<1>1. Paired' /\ ReadsSaved' /\ Complete'
  BY SameFiles DEF DiskInv
<1>2. gucount' > 0 => gucount' # 0
  BY PathsAssumption DEF UniqueInv, TypeOK, ControlOK
<1>3. Truncating' /\ Saving' /\ OneStranger' /\ LoadRestoresSave'
  BY <1>2 DEF DiskInv, Truncating, Saving, OneStranger, LoadRestoresSave,
              ValidRecords, FinfoValid
<1> QED
  BY <1>1, <1>3 DEF DiskInv

\* load_flist(): of lines that belong together come records of the latest save,
\* all of them when none was cut, but for the last entry.
LEMMA LoadFlistDisk ==
  ASSUME DiskInv, LoadFlist, UniqueInv'
  PROVE  DiskInv'
<1>1. UNCHANGED <<disk, saved>>
  BY DEF LoadFlist, diskVars
<1>2. CASE pc' = "failed"
  BY <1>1, <1>2, FrameDisk
<1>3. CASE pc' # "failed"
  <2>1. pc' = "loaded" /\ gucount' = 0 /\ flist' \in LoadedLists
    BY <1>3 DEF LoadFlist, Die
  <2>2. TypeOK /\ Paired /\ ReadsSaved /\ Complete
    BY DEF DiskInv, UniqueInv
  <2>3. LoadCount \in Nat
    BY <2>2, LoadCountBound
  <2> DEFINE w == Lines("statinfo")
             n == LoadCount
  <2>4. \A i \in 1..n : Record(LineEntry(i)) = w[i] /\ w[i] \in saved.recs
    BY <2>2, LineRecord DEF ReadsSaved
  <2>5. OneStranger'
    <3>1. CASE flist' = {}
      BY <1>1, <3>1 DEF OneStranger
    <3>2. CASE \E e \in LastEntries(n) : flist' = {LineEntry(i) : i \in 1..(n - 1)} \cup {e}
      <4>1. PICK e \in LastEntries(n) : flist' = {LineEntry(i) : i \in 1..(n - 1)} \cup {e}
        BY <3>2
      <4>2. 1..(n - 1) \subseteq 1..n
        BY <2>3
      <4>3. \A x \in flist' : Record(x) \in saved.recs \/ x = e
        BY <2>4, <4>1, <4>2
      <4> QED
        BY <1>1, <4>3 DEF OneStranger, Record
    <3> QED
      BY <2>1, <2>2, <3>1, <3>2, LoadedRecords
  <2>6. LoadRestoresSave'
    <3> SUFFICES ASSUME saved.ended
                 PROVE  {Record(e) : e \in flist'} = saved.recs
      BY <1>1 DEF LoadRestoresSave, Record
    <3>1. \A f \in Files : Lines(f) = disk["statinfo"].lines /\ disk[f].cut = <<>>
      <4>1. \A f \in Files : disk[f].lines \in Seq(Records)
        BY <2>2 DEF TypeOK, DiskOK, FssFiles
      <4>2. \A f \in Files : disk[f].cut = <<>> /\ disk[f].lines = disk["statinfo"].lines
        BY <2>2 DEF Complete
      <4>3. \A f \in Files : disk[f].lines \o <<>> = disk[f].lines
        BY <4>1
      <4> QED
        BY <4>2, <4>3 DEF Lines
    <3>2. n = Len(w) /\ w = disk["statinfo"].lines
      <4>1. {Len(Lines(f)) : f \in Files} = {Len(w)}
        BY <3>1 DEF Files
      <4>2. Len(w) \in Nat
        BY <2>2, LoadCountBound DEF Files
      <4>3. Smallest({Len(w)}) = Len(w)
        BY <4>2 DEF Smallest
      <4> QED
        BY <3>1, <4>1, <4>3 DEF LoadCount, Files
    <3>3. {w[i] : i \in 1..n} = saved.recs
      BY <2>2, <3>2 DEF Complete
    <3>4. CASE n = 0
      <4>1. flist' = {} /\ saved.recs = {}
        BY <2>1, <3>3, <3>4 DEF LoadedLists
      <4> QED
        BY <4>1
    <3>5. CASE n # 0
      <4>1. PICK e \in LastEntries(n) : flist' = {LineEntry(i) : i \in 1..(n - 1)} \cup {e}
        BY <2>1, <2>2, <3>5, LoadedRecords
      <4>2. ~CutLine("statinfo", n) /\ ~CutLine("relapath", n)
        <5>1. Len(disk["statinfo"].lines) = n /\ Len(disk["relapath"].lines) = n
          BY <2>2, <3>2 DEF Complete, Files
        <5> QED
          BY <2>3, <5>1 DEF CutLine
      <4>3. e = LineEntry(n)
        <5>1. e \in {[LineEntry(n) EXCEPT !.path = q] : q \in {LineEntry(n).path}}
          BY <4>1, <4>2 DEF LastEntries
        <5>2. [LineEntry(n) EXCEPT !.path = LineEntry(n).path] = LineEntry(n)
          BY DEF LineEntry
        <5> QED
          BY <5>1, <5>2
      <4>4. 1..n = 1..(n - 1) \cup {n}
        BY <2>3, <3>5
      <4>5. flist' = {LineEntry(i) : i \in 1..n}
        BY <4>1, <4>3, <4>4
      <4>6. {Record(x) : x \in flist'} = {w[i] : i \in 1..n}
        BY <2>4, <4>5
      <4> QED
        BY <3>3, <4>6
    <3> QED
      BY <3>4, <3>5
  <2>7. Paired' /\ ReadsSaved' /\ Complete'
    BY <1>1, SameFiles DEF DiskInv
  <2> QED
    BY <2>1, <2>5, <2>6, <2>7 DEF DiskInv, Truncating, Saving
<1> QED
  BY <1>2, <1>3

-----------------------------------------------------------------------------

\* open_fp("wb"): once statinfo.fss is empty the other two do not matter.
LEMMA OpenNextDisk ==
  ASSUME DiskInv, OpenNext, UniqueInv'
  PROVE  DiskInv'
<1>1. CASE fssdir # "dir"
  <2>1. pc' = "failed" /\ UNCHANGED <<disk, saved>>
    BY <1>1 DEF OpenNext, Die
  <2> QED
    BY <2>1, FrameDisk
<1>2. CASE fssdir = "dir"
  <2>1. /\ pc = "open"
        /\ disk' = [disk EXCEPT ![Head(toopen)] = Truncated]
        /\ saved' = [recs |-> ValidRecords, ended |-> FALSE]
        /\ toopen' = Tail(toopen)
        /\ pc' = IF toopen' = <<>> THEN "save" ELSE "open"
        /\ UNCHANGED <<flist, gucount, mode, tosave, written>>
    BY <1>2 DEF OpenNext, Opened
  <2>2. disk \in [Files -> FssFiles]
    BY DEF DiskInv, UniqueInv, TypeOK, DiskOK
  <2>3. ValidRecords' = ValidRecords /\ tosave = flist /\ written = <<>>
    BY <2>1 DEF ValidRecords, FinfoValid, Record, DiskInv, Truncating
  <2>4. /\ disk'["statinfo"] = Truncated
        /\ \/ toopen' = <<"relapath", "digest">> /\ pc' = "open"
           \/ toopen' = <<"digest">> /\ disk'["relapath"] = Truncated /\ pc' = "open"
           \/ pc' = "save" /\ \A f \in Files : disk'[f] = Truncated
    <3>1. CASE toopen = AllFiles
      <4>1. Head(toopen) = "statinfo" /\ toopen' = <<"relapath", "digest">>
        BY <2>1, <3>1 DEF AllFiles
      <4>2. Len(<<"relapath", "digest">>) = 2 /\ Len(<<>>) = 0
        OBVIOUS
      <4>3. toopen' # <<>>
        BY <4>1, <4>2
      <4>4. pc' = "open"
        BY <2>1, <4>3
      <4>5. disk'["statinfo"] = Truncated
        BY <2>1, <2>2, <4>1 DEF Files
      <4> QED
        BY <4>1, <4>4, <4>5
    <3>2. CASE toopen = <<"relapath", "digest">> /\ disk["statinfo"] = Truncated
      <4>1. Head(toopen) = "relapath" /\ toopen' = <<"digest">>
        BY <2>1, <3>2
      <4> QED
        BY <2>1, <2>2, <3>2, <4>1 DEF Files
    <3>3. CASE /\ toopen = <<"digest">>
               /\ disk["statinfo"] = Truncated /\ disk["relapath"] = Truncated
      <4>1. Head(toopen) = "digest" /\ toopen' = <<>>
        BY <2>1, <3>3
      <4> QED
        BY <2>1, <2>2, <3>3, <4>1 DEF Files
    <3>4. \/ toopen = AllFiles
          \/ toopen = <<"relapath", "digest">> /\ disk["statinfo"] = Truncated
          \/ (/\ toopen = <<"digest">>
              /\ disk["statinfo"] = Truncated /\ disk["relapath"] = Truncated)
      BY <2>1 DEF DiskInv, Truncating
    <3> QED
      BY <3>1, <3>2, <3>3, <3>4
  <2>5. LoadCount' = 0
    <3>1. (TypeOK /\ disk["statinfo"] = Truncated => LoadCount = 0)'
      BY NothingToLoad, PTL
    <3>2. TypeOK'
      BY DEF UniqueInv
    <3> QED
      BY <2>4, <3>1, <3>2
  <2>6. Paired' /\ ReadsSaved' /\ Complete'
    BY <2>1, <2>5 DEF Paired, ReadsSaved, Complete
  <2>7. Truncating'
    BY <2>1, <2>3, <2>4 DEF Truncating
  <2>8. Saving'
    <3> SUFFICES ASSUME pc' = "save" PROVE Saving'
      BY DEF Saving
    <3>1. \A f \in Files : disk'[f] = Truncated
      BY <2>4
    <3>2. {written'[i] : i \in 1..Len(written')} = {}
      BY <2>1, <2>3
    <3>3. saved'.recs = {Record(e) : e \in {x \in tosave : FinfoValid(x)}}
      BY <2>1, <2>3 DEF ValidRecords
    <3> QED
      BY <2>1, <2>3, <3>1, <3>2, <3>3 DEF Saving, FinfoValid, Record
  <2> QED
    BY <2>4, <2>6, <2>7, <2>8 DEF DiskInv, OneStranger, LoadRestoresSave
<1> QED
  BY <1>1, <1>2

\* do_unload_flist(): an entry goes from those to come to those printed.
LEMMA SaveEntryDisk ==
  ASSUME DiskInv, UniqueInv', NEW e \in tosave, SaveEntry(e)
  PROVE  DiskInv'
<1>1. /\ pc = "save" /\ pc' = "save"
      /\ tosave' = tosave \ {e}
      /\ written' = IF FinfoValid(e) THEN Append(written, Record(e)) ELSE written
      /\ flist' = IF FinfoValid(e) /\ mode = "keep" THEN flist ELSE flist \ {e}
      /\ UNCHANGED <<gucount, mode, toopen, disk, saved>>
  BY DEF SaveEntry, diskVars
<1>2. written \in Seq(Records)
  BY DEF DiskInv, UniqueInv, TypeOK, SaveOK
<1>3. /\ \A f \in Files : disk[f] = Truncated
      /\ ~saved.ended
      /\ saved.recs = {written[i] : i \in 1..Len(written)}
                      \cup {Record(x) : x \in {y \in tosave : FinfoValid(y)}}
      /\ mode = "keep" => ValidRecords = saved.recs
  BY <1>1 DEF DiskInv, Saving
<1>4. \A x : FinfoValid(x)' <=> FinfoValid(x)
  BY <1>1 DEF FinfoValid
<1>5. saved.recs = {written'[i] : i \in 1..Len(written')}
                   \cup {Record(x) : x \in {y \in tosave' : FinfoValid(y)}}
  <2>1. CASE FinfoValid(e)
    <3>1. Record(e) \in Records
      BY RecordType DEF DiskInv, UniqueInv, TypeOK, SaveOK
    <3>2. /\ written' = Append(written, Record(e))
          /\ Len(written') = Len(written) + 1
          /\ written'[Len(written) + 1] = Record(e)
          /\ \A i \in 1..Len(written) : written'[i] = written[i]
      BY <1>1, <1>2, <2>1, <3>1
    <3>3. 1..Len(written') = 1..Len(written) \cup {Len(written) + 1}
      BY <1>2, <3>2
    <3>4. {written'[i] : i \in 1..Len(written')}
          = {written[i] : i \in 1..Len(written)} \cup {Record(e)}
      BY <3>2, <3>3
    <3>5. {y \in tosave : FinfoValid(y)} = {y \in tosave' : FinfoValid(y)} \cup {e}
      BY <1>1, <2>1
    <3> QED
      BY <1>3, <3>4, <3>5
  <2>2. CASE ~FinfoValid(e)
    <3>1. {y \in tosave : FinfoValid(y)} = {y \in tosave' : FinfoValid(y)}
      BY <1>1, <2>2
    <3> QED
      BY <1>1, <1>3, <2>2, <3>1
  <2> QED
    BY <2>1, <2>2
<1>6. mode = "keep" => ValidRecords' = ValidRecords
  <2>1. mode = "keep" => {x \in flist' : FinfoValid(x)'} = {x \in flist : FinfoValid(x)}
    BY <1>1, <1>4
  <2> QED
    BY <2>1 DEF ValidRecords, Record
<1>7. Saving'
  BY <1>1, <1>3, <1>4, <1>5, <1>6 DEF Saving, Record
<1>8. Paired' /\ ReadsSaved' /\ Complete'
  BY <1>1, SameFiles DEF DiskInv
<1> QED
  BY <1>1, <1>7, <1>8 DEF DiskInv, Truncating, OneStranger, LoadRestoresSave

\* Each file spells a beginning of one sequence of saved records.
OneSave ==
  \E w : \A f \in Files : \A i \in 1..Len(Lines(f)) :
           Lines(f)[i] = w[i] /\ w[i] \in saved.recs

\* Then the lines of one number are paired and were saved.
LEMMA FromOneSave == TypeOK /\ OneSave => Paired /\ ReadsSaved
<1> SUFFICES ASSUME TypeOK, OneSave PROVE Paired /\ ReadsSaved
  OBVIOUS
<1>0. PICK w : \A f \in Files : \A i \in 1..Len(Lines(f)) :
                 Lines(f)[i] = w[i] /\ w[i] \in saved.recs
  BY DEF OneSave
<1>1. \A i \in 1..LoadCount : \A f \in Files : i \in 1..Len(Lines(f))
  BY LoadCountBound
<1>2. \A i \in 1..LoadCount : \A f \in Files : Lines(f)[i] = w[i] /\ w[i] \in saved.recs
  BY <1>0, <1>1
<1>3. Paired
  BY <1>2 DEF Paired, Files
<1>4. ReadsSaved
  BY <1>2 DEF ReadsSaved, Files
<1> QED
  BY <1>3, <1>4

\* flush_fp(): the same records go to all three files.
LEMMA SaveFinishDisk ==
  ASSUME DiskInv, UniqueInv', SaveFinish
  PROVE  DiskInv'
<1>1. /\ pc = "save" /\ tosave = {}
      /\ disk' = [f \in Files |-> [exists |-> TRUE, cut |-> <<>>,
                                   lines |-> disk[f].lines \o written]]
      /\ saved' = [saved EXCEPT !.ended = TRUE]
      /\ pc' = IF mode = "keep" THEN "loaded" ELSE "init"
      /\ UNCHANGED <<flist, gucount>>
  BY DEF SaveFinish
<1>2. written \in Seq(Records) /\ saved \in [recs : SUBSET Records, ended : BOOLEAN]
  BY DEF DiskInv, UniqueInv, TypeOK, SaveOK, DiskOK
<1>3. /\ \A f \in Files : disk[f] = Truncated
      /\ saved.recs = {written[i] : i \in 1..Len(written)}
      /\ mode = "keep" => ValidRecords = saved.recs
  BY <1>1 DEF DiskInv, Saving
<1>4. saved'.recs = saved.recs /\ saved'.ended
  BY <1>1, <1>2
<1>5. \A f \in Files : disk'[f].lines = written /\ disk'[f].cut = <<>>
  <2>1. <<>> \o written = written
    BY <1>2
  <2>2. Truncated.lines = <<>>
    BY DEF Truncated
  <2> QED
    BY <1>1, <1>3, <2>1, <2>2
<1>6. Paired' /\ ReadsSaved'
  <2>1. \A f \in Files : Lines(f)' = written
    <3>1. written \o <<>> = written
      BY <1>2
    <3> QED
      BY <1>5, <3>1 DEF Lines
  <2>2. \A i \in 1..Len(written) : written[i] \in saved'.recs
    BY <1>3, <1>4
  <2>3. (TypeOK => LoadCount \in Nat /\ \A f \in Files : LoadCount <= Len(Lines(f)))'
    BY LoadCountFacts, PTL
  <2>4. LoadCount' \in Nat /\ LoadCount' <= Len(written)
    BY <2>1, <2>3 DEF UniqueInv, Files
  <2>5. \A i \in 1..LoadCount' : i \in 1..Len(written)
    BY <1>2, <2>4
  <2>6. /\ Lines("statinfo")' = written
        /\ Lines("relapath")' = written
        /\ Lines("digest")' = written
    BY <2>1 DEF Files
  <2>7. Paired'
    BY <2>6 DEF Paired
  <2>8. ReadsSaved'
    BY <2>2, <2>5, <2>6 DEF ReadsSaved
  <2> QED
    BY <2>7, <2>8
<1>7. Complete'
  BY <1>3, <1>4, <1>5 DEF Complete, Files
<1>8. pc' = "loaded" => ValidRecords' = saved'.recs
  BY <1>1, <1>3, <1>4 DEF ValidRecords, FinfoValid, Record
<1>9. (UniqueInv /\ Loaded /\ gucount = 0 => ValidRecords = {Record(e) : e \in flist})'
  BY AllValidAtLoad, PTL
<1>10. pc' = "loaded" /\ gucount' = 0 => saved'.recs = {Record(e) : e \in flist'}
  <2> SUFFICES ASSUME pc' = "loaded", gucount' = 0
               PROVE  saved'.recs = {Record(e) : e \in flist'}
    OBVIOUS
  <2>1. Loaded'
    BY DEF Loaded
  <2>2. ValidRecords' = {Record(e) : e \in flist'}
    BY <1>9, <2>1
  <2> QED
    BY <1>8, <2>2
<1>11. OneStranger' /\ LoadRestoresSave'
  <2>1. LoadRestoresSave'
    BY <1>10 DEF LoadRestoresSave, Record
  <2>2. ASSUME pc' = "loaded", gucount' = 0
        PROVE  \A e \in flist' : Record(e) \in saved'.recs
    BY <1>10, <2>2
  <2>3. OneStranger'
    BY <2>2 DEF OneStranger, Record
  <2> QED
    BY <2>1, <2>3
<1> QED
  BY <1>1, <1>6, <1>7, <1>11 DEF DiskInv, Truncating, Saving

\* What stdio has written of a save when the process is killed spells a
\* beginning of what was printed, in each file one of its own.
LEMMA PartialLines ==
  ASSUME TypeOK, NEW f \in Files, disk[f] = Truncated, NEW x \in Partial(f)
  PROVE  \A i \in 1..Len(x.lines \o x.cut) :
            i \in 1..Len(written) /\ (x.lines \o x.cut)[i] = written[i]
<1>1. written \in Seq(Records) /\ disk[f].lines = <<>>
  BY DEF TypeOK, SaveOK, Truncated
<1>2. CASE \E k \in 0..Len(written) :
             x = [exists |-> TRUE, lines |-> disk[f].lines \o SubSeq(written, 1, k), cut |-> <<>>]
  <2>1. PICK k \in 0..Len(written) :
          x = [exists |-> TRUE, lines |-> disk[f].lines \o SubSeq(written, 1, k), cut |-> <<>>]
    BY <1>2
  <2>2. SubSeq(written, 1, k) \in Seq(Records)
    BY <1>1
  <2>3. x.lines \o x.cut = SubSeq(written, 1, k)
    BY <1>1, <2>1, <2>2
  <2> QED
    BY <1>1, <2>3
<1>3. CASE \E k \in 1..Len(written) :
             x = [exists |-> TRUE, lines |-> disk[f].lines \o SubSeq(written, 1, k - 1),
                  cut |-> <<written[k]>>]
  <2>1. PICK k \in 1..Len(written) :
          x = [exists |-> TRUE, lines |-> disk[f].lines \o SubSeq(written, 1, k - 1),
               cut |-> <<written[k]>>]
    BY <1>3
  <2> DEFINE front == SubSeq(written, 1, k - 1)
  <2>2. front \in Seq(Records) /\ Len(front) = k - 1 /\ \A i \in 1..(k - 1) : front[i] = written[i]
    BY <1>1
  <2>3. written[k] \in Records
    BY <1>1
  <2> HIDE DEF front
  <2>4. x.lines = <<>> \o front /\ x.cut = <<written[k]>>
    BY <1>1, <2>1 DEF front
  <2>5. <<>> \o front = front
    BY <2>2
  <2>6. <<written[k]>> \in Seq(Records) /\ Len(<<written[k]>>) = 1
    BY <2>3
  <2>7. \A i \in 1..k : (front \o <<written[k]>>)[i] = written[i]
    BY <2>2, <2>6
  <2>8. Len(front \o <<written[k]>>) = k
    BY <2>2, <2>6
  <2> QED
    BY <1>1, <2>4, <2>5, <2>7, <2>8
<1> QED
  BY <1>2, <1>3 DEF Partial

LEMMA CrashDisk ==
  ASSUME DiskInv, UniqueInv', Crash
  PROVE  DiskInv'
<1>1. pc' = "down" /\ saved' = saved
  BY DEF Crash
<1>2. CASE pc # "save"
  <2>1. disk' = disk
    BY <1>2 DEF Crash
  <2> QED
    BY <1>1, <2>1, FrameDisk
<1>3. CASE pc = "save"
  <2>1. /\ \A f \in Files : disk[f] = Truncated
        /\ ~saved.ended
        /\ \A i \in 1..Len(written) : written[i] \in saved.recs
    BY <1>3 DEF DiskInv, Saving
  <2>2. \A f \in Files : disk'[f] \in Partial(f)
    <3>1. PICK a \in Partial("statinfo"), b \in Partial("relapath"), c \in Partial("digest") :
            disk' = [f \in Files |-> CASE f = "statinfo" -> a
                                       [] f = "relapath" -> b
                                       [] f = "digest" -> c]
      BY <1>3 DEF Crash
    <3>2. disk'["statinfo"] = a /\ disk'["relapath"] = b /\ disk'["digest"] = c
      BY <3>1 DEF Files
    <3> QED
      BY <3>1, <3>2 DEF Files
  <2>3. \A f \in Files : \A i \in 1..Len(Lines(f)') :
           Lines(f)'[i] = written[i] /\ written[i] \in saved'.recs
    <3> SUFFICES ASSUME NEW f \in Files, NEW i \in 1..Len(Lines(f)')
                 PROVE  Lines(f)'[i] = written[i] /\ written[i] \in saved'.recs
      OBVIOUS
    <3> DEFINE x == disk'[f]
    <3>1. Lines(f)' = x.lines \o x.cut
      BY DEF Lines
    <3>2. x \in Partial(f) /\ disk[f] = Truncated
      BY <2>1, <2>2
    <3>3. TypeOK
      BY DEF DiskInv, UniqueInv
    <3> HIDE DEF x
    <3>4. \A j \in 1..Len(x.lines \o x.cut) :
            j \in 1..Len(written) /\ (x.lines \o x.cut)[j] = written[j]
      BY <3>2, <3>3, PartialLines
    <3> QED
      BY <1>1, <2>1, <3>1, <3>4
  <2>4. OneSave'
    BY <2>3 DEF OneSave
  <2>5. (TypeOK /\ OneSave => Paired /\ ReadsSaved)'
    BY FromOneSave, PTL
  <2>6. Paired' /\ ReadsSaved'
    BY <2>4, <2>5 DEF UniqueInv
  <2>7. Complete'
    BY <1>1, <2>1 DEF Complete
  <2> QED
    BY <1>1, <2>6, <2>7 DEF DiskInv, Truncating, Saving, OneStranger, LoadRestoresSave
<1> QED
  BY <1>2, <1>3

LEMMA StepDiskInv == DiskInv /\ [Next]_vars => DiskInv'
<1> SUFFICES ASSUME DiskInv, [Next]_vars PROVE DiskInv'
  OBVIOUS
<1>1. UniqueInv /\ UniqueInv'
  BY StepUniqueInv DEF DiskInv
<1>2. gucount \in Nat
  BY <1>1, PathsAssumption DEF UniqueInv, TypeOK, ControlOK
<1>3. CASE User
  BY <1>1, <1>3, FrameDisk, ZenonT(60) DEF User, Create, Modify, Remove, Tick, saveVars, diskVars
<1>4. CASE InitFlist
  BY <1>1, <1>4, FrameDisk DEF InitFlist, DoMkdir, Die
<1>5. CASE LoadFlist
  BY <1>1, <1>5, LoadFlistDisk
<1>6. CASE UpdateStart \/ (\E p \in Paths : Visit(p)) \/ Callback
  BY <1>1, <1>6, FrameDisk DEF UpdateStart, Visit, Callback, Die, diskVars
<1>7. CASE WalkDone
  BY <1>1, <1>7, FrameDisk DEF WalkDone, diskVars, UniqueInv, Walking
<1>8. CASE \E m \in {"keep", "free"} : UnloadStart(m)
  <2>1. /\ pc' = "open" /\ tosave' = flist' /\ written' = <<>> /\ toopen' = AllFiles
        /\ UNCHANGED <<disk, saved>>
    BY <1>8 DEF UnloadStart, diskVars, AllFiles
  <2>2. Paired' /\ ReadsSaved' /\ Complete'
    BY <2>1, SameFiles DEF DiskInv
  <2> QED
    BY <1>1, <2>1, <2>2 DEF DiskInv, Truncating, Saving, OneStranger, LoadRestoresSave
<1>9. CASE OpenNext
  BY <1>1, <1>9, OpenNextDisk
<1>10. CASE \E e \in tosave : SaveEntry(e)
  BY <1>1, <1>10, SaveEntryDisk
<1>11. CASE SaveFinish
  BY <1>1, <1>11, SaveFinishDisk
<1>12. CASE CleanupFlist
  BY <1>1, <1>12, FrameDisk DEF CleanupFlist, diskVars
<1>13. CASE Crash
  BY <1>1, <1>13, CrashDisk
<1>14. CASE UNCHANGED vars
  BY <1>1, <1>14, FrameDisk DEF vars
<1> QED
  BY <1>3, <1>4, <1>5, <1>6, <1>7, <1>8, <1>9, <1>10, <1>11, <1>12, <1>13, <1>14
  DEF Next, Process

LEMMA DiskInvHolds == Spec => []DiskInv
BY InitDiskInv, StepDiskInv, PTL DEF Spec

-----------------------------------------------------------------------------

\* Wherever a save was interrupted, the lines of one number in statinfo.fss,
\* relapath.fss and digest.fss are lines of one entry.
THEOREM NoCrossedLines == Spec => []LinesPaired
<1>1. DiskInv => LinesPaired
  BY DEF DiskInv, Paired, LinesPaired
<1> QED
  BY <1>1, DiskInvHolds, PTL

\* load_flist() after an unload that has ended finds what was unloaded: not an
\* entry more, less or other.
THEOREM LoadAfterSave == Spec => []LoadRestoresSave
<1>1. DiskInv => LoadRestoresSave
  BY DEF DiskInv
<1> QED
  BY <1>1, DiskInvHolds, PTL

\* load_flist() after a crash invents at most one entry.
THEOREM DamageIsConfined == Spec => []LoadDamageConfined
<1>1. DiskInv => LoadDamageConfined
  <2> SUFFICES ASSUME DiskInv, pc = "loaded", gucount = 0
               PROVE  Cardinality({e \in flist : Record(e) \notin saved.recs}) <= 1
    BY DEF LoadDamageConfined
  <2> DEFINE strangers == {e \in flist : Record(e) \notin saved.recs}
  <2>1. \A x, y \in strangers : x = y
    BY DEF DiskInv, OneStranger
  <2> HIDE DEF strangers
  <2>2. CASE strangers = {}
    BY <2>2, FS_EmptySet DEF strangers
  <2>3. CASE \E x : strangers = {x}
    BY <2>3, FS_Singleton DEF strangers
  <2> QED
    BY <2>1, <2>2, <2>3
<1> QED
  BY <1>1, DiskInvHolds, PTL

-----------------------------------------------------------------------------
(* What an update leaves when nobody has touched the monitored directory     *)
(* since it began.  While the tree is at rest, what the walk has asked for   *)
(* is answered (an entry for each path whose callback has run) and what it   *)
(* has still to ask for is listed (a name for each path below an open        *)
(* directory).  That nothing is left when the list of names is used up       *)
(* follows from the tree being grounded: any set of paths that exist has one *)
(* whose directory is not in it.                                             *)

\* Nothing lies below a directory the walk cannot open.
ReadableTree == \A p \in Paths : Parent[p] # Base => Parent[p] \notin Unreadable

\* What exists lies in a directory and was stamped by an earlier change.
TreeInv ==
  \A p \in Paths : Exists(p) =>
    /\ tree[p].mtime \in 0..(clock - 1)
    /\ Parent[p] # Base => tree[Parent[p]].type = "dir"

Grounded ==
  \A S \in SUBSET {p \in Paths : Exists(p)} : S # {} => \E p \in S : Parent[p] \notin S

\* The callback of p has run.
Answered(p) == p \in visited /\ (pc = "entry" => cur[1].path # p)

\* The walk knows what exists below the directories it has opened, and has
\* opened those it has been through.
WalkInv ==
  quiet /\ pc \in {"walk", "entry"} =>
    /\ Base \in opened
    /\ \A p \in listed \cup visited : Exists(p)
    /\ \A p \in Paths : Exists(p) /\ Parent[p] \in opened => p \in listed
    /\ \A p \in Paths : Answered(p) /\ tree[p].type = "dir" /\ p \notin Unreadable
                          => p \in opened

\* The stat handed to the callback is that of the path as it is.
StatExact ==
  quiet /\ pc = "entry" =>
    LET st == cur[1]
    IN /\ st.found /\ Exists(st.path)
       /\ st.type = tree[st.path].type /\ st.mtime = tree[st.path].mtime

Listable(p) == Exists(p) /\ ~Skipped(p, tree[p].type)

\* The list still holds what the walk has found.
Kept == pc \in {"walk", "entry", "loaded", "open"} \/ (pc = "save" /\ mode = "keep")

\* Valid entries are of what is there, as it is.
Exact ==
  quiet /\ Kept =>
    \A e \in flist : FinfoValid(e) =>
      /\ Listable(e.path)
      /\ e.type = tree[e.path].type
      /\ ForceUseDigest \/ e.mtime = tree[e.path].mtime

\* What the walk has answered, and in the end what is there, has an entry.
Covers ==
  ReadableTree /\ quiet /\ Kept =>
    \A p \in Paths : /\ Listable(p)
                     /\ pc \in {"walk", "entry"} => Answered(p)
                     => \E e \in flist : FinfoValid(e) /\ e.path = p

MirrorInv ==
  /\ UniqueInv
  /\ TreeInv
  /\ Grounded
  /\ WalkInv
  /\ StatExact
  /\ Exact
  /\ Covers
  /\ UndisturbedUpdateSurvives

-----------------------------------------------------------------------------
(* The tree, whoever changes it. *)

LEMMA UserTree ==
  ASSUME TypeOK, TreeInv, User
  PROVE  /\ clock' = clock + 1 /\ quiet' = FALSE
         /\ \A q \in Paths : \/ tree'[q] = tree[q]
                             \/ tree'[q].type = "none"
                             \/ tree'[q].mtime \in Stamps
         /\ \E p \in Paths :
              /\ \A q \in Paths \ {p} : tree'[q].type = tree[q].type
              /\ \/ tree'[p].type = tree[p].type
                 \/ ~Exists(p) /\ (Parent[p] # Base => tree[Parent[p]].type = "dir")
                 \/ tree'[p].type = "none" /\ Children(p) = {}
<1>0. PICK p \in Paths, m \in Stamps :
        \/ \E t \in FileTypes \ {"none"}, c \in Contents : Create(p, t, c, m)
        \/ \E c \in Contents : Modify(p, c, m)
        \/ Remove(p, m)
  BY DEF User
<1>1. tree \in [Paths -> Nodes]
  BY DEF TypeOK, TreeOK
<1>2. ASSUME NEW node, node.mtime = m \/ node.type = "none", tree' = Changed(p, node, m)
      PROVE  /\ \A q \in Paths : \/ tree'[q] = tree[q]
                                 \/ tree'[q].type = "none"
                                 \/ tree'[q].mtime \in Stamps
             /\ \A q \in Paths \ {p} : tree'[q].type = tree[q].type
             /\ tree'[p] = node
  <2>1. \A q \in Paths : tree'[q] = IF q = p THEN node
                                    ELSE IF q = Parent[p] THEN [tree[q] EXCEPT !.mtime = m]
                                    ELSE tree[q]
    BY <1>2 DEF Changed
  <2>2. \A q \in Paths : /\ [tree[q] EXCEPT !.mtime = m].mtime = m
                         /\ [tree[q] EXCEPT !.mtime = m].type = tree[q].type
    BY <1>1 DEF Nodes
  <2> QED
    BY <1>2, <2>1, <2>2, ZenonT(60)
<1>3. Tick
  BY <1>0 DEF Create, Modify, Remove
<1>4. CASE \E t \in FileTypes \ {"none"}, c \in Contents : Create(p, t, c, m)
  <2>1. PICK t \in FileTypes \ {"none"}, c \in Contents : Create(p, t, c, m)
    BY <1>4
  <2> DEFINE node == [type |-> t, mtime |-> m,
                      content |-> IF t = "reg" THEN c ELSE EmptyDigest]
  <2>2. node.mtime = m /\ tree' = Changed(p, node, m)
    BY <2>1 DEF Create
  <2>3. ~Exists(p) /\ (Parent[p] # Base => tree[Parent[p]].type = "dir")
    BY <2>1 DEF Create
  <2> HIDE DEF node
  <2> QED
    BY <1>2, <1>3, <2>2, <2>3 DEF Tick
<1>5. CASE \E c \in Contents : Modify(p, c, m)
  <2>1. PICK c \in Contents : Modify(p, c, m)
    BY <1>5
  <2>2. tree' = [tree EXCEPT ![p] = [tree[p] EXCEPT !.content = c, !.mtime = m]]
    BY <1>1, <2>1 DEF Modify, Nodes
  <2>3. tree'[p].type = tree[p].type /\ tree'[p].mtime = m
    BY <1>1, <2>2 DEF Nodes
  <2>4. \A q \in Paths \ {p} : tree'[q] = tree[q]
    BY <1>1, <2>2
  <2> QED
    BY <1>3, <2>3, <2>4 DEF Tick
<1>6. CASE Remove(p, m)
  <2>1. Absent.type = "none" /\ tree' = Changed(p, Absent, m) /\ Children(p) = {}
    BY <1>6 DEF Remove, Absent
  <2> QED
    BY <1>2, <1>3, <2>1 DEF Tick
<1> QED
  BY <1>0, <1>4, <1>5, <1>6

LEMMA StampsPast == TypeOK => Stamps \subseteq 0..clock
BY PathsAssumption DEF TypeOK, TreeOK, Stamps

LEMMA UserTreeInv ==
  ASSUME TypeOK, TreeInv, Grounded, User
  PROVE  TreeInv' /\ Grounded'
<1>1. clock \in Nat /\ clock' = clock + 1
  <2>1. clock \in Nat
    BY PathsAssumption DEF TypeOK, TreeOK
  <2> QED
    BY <2>1, UserTree
<1>2. \A q \in Paths : \/ tree'[q] = tree[q]
                       \/ tree'[q].type = "none"
                       \/ tree'[q].mtime \in 0..clock
  BY UserTree, StampsPast
<1>3. PICK p \in Paths :
        /\ \A q \in Paths \ {p} : tree'[q].type = tree[q].type
        /\ \/ tree'[p].type = tree[p].type
           \/ ~Exists(p) /\ (Parent[p] # Base => tree[Parent[p]].type = "dir")
           \/ tree'[p].type = "none" /\ Children(p) = {}
  BY UserTree
<1>4. \A q \in Paths : Parent[q] \in Paths \cup {Base}
  BY PathsAssumption
<1>5. \A q \in Paths : Exists(q)' => tree'[q].mtime \in 0..(clock' - 1)
  BY <1>1, <1>2 DEF TreeInv, Exists
<1>6. \A q \in Paths : Exists(q)' /\ Parent[q] # Base => tree'[Parent[q]].type = "dir"
  <2> SUFFICES ASSUME NEW q \in Paths, Exists(q)', Parent[q] # Base
               PROVE  tree'[Parent[q]].type = "dir"
    OBVIOUS
  <2>1. CASE q # p /\ Parent[q] # p
    BY <1>3, <1>4, <2>1 DEF TreeInv, Exists
  <2>2. CASE q # p /\ Parent[q] = p
    <3>1. Exists(q) /\ tree[p].type = "dir"
      BY <1>3, <2>2 DEF TreeInv, Exists
    <3>2. q \in Children(p) /\ Exists(p)
      BY <2>2, <3>1 DEF Children, Exists
    <3> QED
      BY <1>3, <2>2, <3>1, <3>2
  <2>3. CASE q = p /\ Parent[q] # p
    BY <1>3, <1>4, <2>3 DEF TreeInv, Exists
  <2>4. CASE q = p /\ Parent[q] = p
    BY <1>3, <2>4 DEF TreeInv, Exists
  <2> QED
    BY <2>1, <2>2, <2>3, <2>4
<1>7. Grounded'
  <2> SUFFICES ASSUME NEW S \in SUBSET {q \in Paths : Exists(q)'}, S # {}
               PROVE  \E q \in S : Parent[q] \notin S
    BY DEF Grounded
  <2>1. CASE S \subseteq {q \in Paths : Exists(q)}
    BY <2>1 DEF Grounded
  <2>2. CASE ~(S \subseteq {q \in Paths : Exists(q)})
    <3>1. p \in S /\ ~Exists(p) /\ Exists(p)'
      BY <1>3, <2>2 DEF Exists
    <3>2. Parent[p] # Base => Exists(Parent[p])
      BY <1>3, <3>1 DEF Exists
    <3>3. S \ {p} \subseteq {q \in Paths : Exists(q)}
      BY <1>3 DEF Exists
    <3>4. CASE S \ {p} = {}
      BY <3>1, <3>2, <3>4, PathsAssumption DEF Exists
    <3>5. CASE S \ {p} # {}
      <4>1. PICK q \in S \ {p} : Parent[q] \notin S \ {p}
        BY <3>3, <3>5 DEF Grounded
      <4>2. Parent[q] # p
        BY <3>1, <3>3, <4>1, PathsAssumption DEF TreeInv, Exists
      <4> QED
        BY <4>1, <4>2
    <3> QED
      BY <3>4, <3>5
  <2> QED
    BY <2>1, <2>2
<1> QED
  BY <1>5, <1>6, <1>7 DEF TreeInv

-----------------------------------------------------------------------------

LEMMA InitMirrorInv == Init => MirrorInv
<1> SUFFICES ASSUME Init PROVE MirrorInv
  OBVIOUS
<1>1. \A p \in Paths : ~Exists(p)
  BY DEF Init, Exists, Absent
<1>2. TreeInv /\ Grounded
  BY <1>1 DEF TreeInv, Grounded
<1> QED
  BY <1>2, InitUniqueInv
  DEF Init, MirrorInv, WalkInv, StatExact, Exact, Covers, Kept, UndisturbedUpdateSurvives

\* The tree is as grounded as it was when the step is none of a user.
LEMMA SameTree ==
  ASSUME TreeInv, Grounded, UNCHANGED treeVars
  PROVE  TreeInv' /\ Grounded'
BY DEF TreeInv, Grounded, Exists, treeVars

\* Steps out of the walk, and all steps that end the quiet.
LEMMA FrameAway ==
  ASSUME MirrorInv, UniqueInv', TreeInv', Grounded',
         \/ quiet' = FALSE
         \/ pc' \in {"down", "init"}
         \/ pc' = "failed" /\ cause' \notin {"nftw", "fopen"}
  PROVE  MirrorInv'
BY DEF MirrorInv, WalkInv, StatExact, Exact, Covers, Kept, UndisturbedUpdateSurvives

\* Steps of a save that lose no valid entry.
LEMMA FrameKept ==
  ASSUME MirrorInv, UniqueInv', UNCHANGED <<treeVars, quiet, gucount>>,
         pc \in {"loaded", "open", "save"}, pc' \in {"loaded", "open", "save"},
         Kept' => Kept /\ {x \in flist' : FinfoValid(x)} = {x \in flist : FinfoValid(x)}
  PROVE  MirrorInv'
<1>1. TreeInv' /\ Grounded'
  BY SameTree DEF MirrorInv
<1>2. WalkInv' /\ StatExact' /\ UndisturbedUpdateSurvives'
  BY DEF WalkInv, StatExact, UndisturbedUpdateSurvives
<1>3. UNCHANGED <<tree, quiet>> /\ \A x : FinfoValid(x)' <=> FinfoValid(x)
  BY DEF FinfoValid, treeVars
<1>4. Kept' => Kept /\ \A x : x \in flist' /\ FinfoValid(x) <=> x \in flist /\ FinfoValid(x)
  <2> SUFFICES ASSUME Kept'
               PROVE  Kept /\ \A x : x \in flist' /\ FinfoValid(x) <=> x \in flist /\ FinfoValid(x)
    OBVIOUS
  <2>1. Kept /\ {x \in flist' : FinfoValid(x)} = {x \in flist : FinfoValid(x)}
    OBVIOUS
  <2> QED
    BY <2>1
<1>5. Exact'
  <2> SUFFICES ASSUME quiet, Kept', NEW e \in flist', FinfoValid(e)
               PROVE  /\ Listable(e.path)'
                      /\ e.type = tree'[e.path].type
                      /\ ForceUseDigest \/ e.mtime = tree'[e.path].mtime
    BY <1>3 DEF Exact
  <2>1. e \in flist /\ Kept
    BY <1>4
  <2> QED
    BY <1>3, <2>1 DEF MirrorInv, Exact, Listable, Skipped, Exists
<1>6. Covers'
  <2> SUFFICES ASSUME ReadableTree, quiet, Kept', NEW p \in Paths, Listable(p)'
               PROVE  \E e \in flist' : FinfoValid(e)' /\ e.path = p
    BY <1>3 DEF Covers
  <2>1. Kept /\ Listable(p)
    BY <1>3, <1>4 DEF Listable, Skipped, Exists
  <2>2. PICK e \in flist : FinfoValid(e) /\ e.path = p
    BY <2>1 DEF MirrorInv, Covers
  <2> QED
    BY <1>3, <1>4, <2>2
<1> QED
  BY <1>1, <1>2, <1>5, <1>6 DEF MirrorInv

\* What do_update_flist() may do of the path at hand.
LEMMA CallbackCases ==
  ASSUME Callback
  PROVE  LET st == cur[1] IN
         \/ /\ pc' = "failed"
            /\ \/ cause' = "log"
               \/ cause' = "nftw" /\ OpendirFails(st)
               \/ /\ cause' = "fopen" /\ ~Skipped(st.path, st.type)
                  /\ ~Openable(st.path)
         \/ /\ pc' = "walk" /\ Descend(st) /\ ~OpendirFails(st)
            /\ \/ Skipped(st.path, st.type) /\ flist' = flist
               \/ /\ ~Skipped(st.path, st.type)
                  /\ \E e \in flist : Hit(st, e) /\ flist' = (flist \ {e}) \cup {Refreshed(e, st)}
               \/ /\ ~Skipped(st.path, st.type) /\ Openable(st.path)
                  /\ flist' = flist \cup {NewEntry(st)}
<1> DEFINE st == cur[1]
           hits == {e \in flist : Hit(st, e)}
<1>1. CASE OpendirFails(st) /\ Die("nftw")
  BY <1>1 DEF Die
<1>2. CASE ~OpendirFails(st) /\ Skipped(st.path, st.type) /\ Descend(st) /\ pc' = "walk"
           /\ flist' = flist
  BY <1>2
<1>3. CASE ~OpendirFails(st) /\ ~Skipped(st.path, st.type) /\ HitDies(st) /\ Die("fopen")
  BY <1>3 DEF Die, HitDies
<1>4. CASE ~OpendirFails(st) /\ ~Skipped(st.path, st.type) /\ Descend(st) /\ pc' = "walk"
           /\ \E e \in hits : flist' = (flist \ {e}) \cup {Refreshed(e, st)}
  BY <1>4
<1>5. CASE ~OpendirFails(st) /\ ~Skipped(st.path, st.type) /\ Openable(st.path)
           /\ Descend(st) /\ pc' = "walk" /\ flist' = flist \cup {NewEntry(st)}
  BY <1>5
<1>6. CASE ~Skipped(st.path, st.type) /\ ~Openable(st.path) /\ Die("fopen")
  BY <1>6 DEF Die
<1>7. CASE Die("log")
  BY <1>7 DEF Die
<1> QED
  BY <1>1, <1>2, <1>3, <1>4, <1>5, <1>6, <1>7 DEF Callback

\* do_update_flist() answers for the path at hand, and for no other.
LEMMA CallbackMirror ==
  ASSUME MirrorInv, UniqueInv', Callback
  PROVE  MirrorInv'
<1> DEFINE st == cur[1]
<1>1. /\ pc = "entry"
      /\ UNCHANGED <<tree, clock, quiet, gucount, visited>>
      /\ TreeInv' /\ Grounded'
  BY SameTree DEF Callback, MirrorInv, treeVars
<1>2. CASE ~quiet
  BY <1>1, <1>2, FrameAway DEF MirrorInv, UniqueInv, TypeOK, TreeOK
<1>3. CASE quiet
  <2>1. /\ st.found /\ Exists(st.path)
        /\ st.type = tree[st.path].type /\ st.mtime = tree[st.path].mtime
    BY <1>1, <1>3 DEF MirrorInv, StatExact
  <2>2. /\ st.path \in visited /\ st.path \in Paths
        /\ \A e \in flist : FinfoValid(e) => e.path # st.path
    BY <1>1 DEF MirrorInv, UniqueInv, FreshAtHand, TypeOK, WalkOK
  <2>3. ~OpendirFails(st)
    BY <2>1 DEF OpendirFails
  <2>4. /\ Base \in opened
        /\ \A p \in listed \cup visited : Exists(p)
        /\ \A p \in Paths : Exists(p) /\ Parent[p] \in opened => p \in listed
        /\ \A p \in Paths : p \in visited /\ p # st.path /\ tree[p].type = "dir"
                              /\ p \notin Unreadable => p \in opened
    BY <1>1, <1>3 DEF MirrorInv, WalkInv, Answered
  <2>5. flist \subseteq Entries /\ gucount \in Nat
    BY PathsAssumption DEF MirrorInv, UniqueInv, TypeOK, ControlOK
  <2> HIDE DEF st
  <2>6. CASE pc' = "failed"
    <3>1. \/ cause' = "log"
          \/ cause' = "fopen" /\ ~Skipped(st.path, st.type) /\ ~Openable(st.path)
      BY <2>3, <2>6, CallbackCases DEF st
    <3>2. CASE cause' = "log"
      BY <1>1, <2>6, <3>2, FrameAway
    <3>3. CASE cause' = "fopen" /\ ~Skipped(st.path, st.type) /\ ~Openable(st.path)
      <4>1. st.path \in Unreadable
        BY <2>1, <3>3 DEF Openable
      <4>2. ~Skipped(st.path, tree[st.path].type)
        BY <2>1, <3>3
      <4>3. UndisturbedUpdateSurvives'
        BY <1>1, <2>1, <4>1, <4>2 DEF UndisturbedUpdateSurvives, Skipped, Exists
      <4> QED
        BY <1>1, <2>6, <4>3 DEF MirrorInv, WalkInv, StatExact, Exact, Covers, Kept
    <3> QED
      BY <3>1, <3>2, <3>3
  <2>7. CASE pc' # "failed"
    <3>1. /\ pc' = "walk" /\ Descend(st)
          /\ \/ Skipped(st.path, st.type) /\ flist' = flist
             \/ /\ ~Skipped(st.path, st.type)
                /\ \/ \E e \in flist : Hit(st, e) /\ flist' = (flist \ {e}) \cup {Refreshed(e, st)}
                   \/ flist' = flist \cup {NewEntry(st)}
      BY <2>7, CallbackCases DEF st
    <3>2. WalkInv'
      <4>1. \/ /\ st.type = "dir" /\ st.path \notin Unreadable
               /\ opened' = opened \cup {st.path}
               /\ listed' = listed \cup Children(st.path)
            \/ /\ ~(st.type = "dir" /\ st.path \notin Unreadable)
               /\ UNCHANGED <<opened, listed>>
        BY <2>1, <3>1 DEF Descend
      <4>2. Base \in opened' /\ \A p \in listed' \cup visited' : Exists(p)'
        BY <1>1, <2>4, <4>1 DEF Children, Exists
      <4>3. \A p \in Paths : Exists(p)' /\ Parent[p] \in opened' => p \in listed'
        BY <1>1, <2>4, <4>1 DEF Children, Exists
      <4>4. \A p \in Paths : p \in visited' /\ tree'[p].type = "dir" /\ p \notin Unreadable
                              => p \in opened'
        BY <1>1, <2>1, <2>4, <4>1
      <4> QED
        BY <3>1, <4>2, <4>3, <4>4 DEF WalkInv, Answered
    <3>3. \/ Skipped(st.path, st.type) /\ flist' = flist
          \/ /\ ~Skipped(st.path, st.type)
             /\ \E n : /\ n.path = st.path /\ n.type = st.type /\ n.ucount = gucount
                       /\ ForceUseDigest \/ n.mtime = st.mtime
                       /\ n \in flist'
                       /\ flist' \subseteq flist \cup {n}
                       /\ \A x \in flist : x.path # st.path => x \in flist'
      <4>1. CASE \E e \in flist : Hit(st, e) /\ flist' = (flist \ {e}) \cup {Refreshed(e, st)}
        <5>1. PICK e \in flist : Hit(st, e) /\ flist' = (flist \ {e}) \cup {Refreshed(e, st)}
          BY <4>1
        <5> DEFINE n == Refreshed(e, st)
        <5>2. e \in Entries /\ e.path = st.path /\ e.type = st.type
          BY <2>5, <5>1 DEF Hit
        <5>3. n.path = st.path /\ n.type = st.type /\ n.ucount = gucount
          BY <5>2 DEF Refreshed, Entries
        <5>4. n.mtime = IF st.type = "dir" THEN st.mtime ELSE e.mtime
          BY <5>2 DEF Refreshed, Entries
        <5>5. ~Skipped(st.path, st.type) => ForceUseDigest \/ n.mtime = st.mtime
          BY <5>1, <5>4 DEF Hit, Skipped
        <5> HIDE DEF n
        <5>6. n \in flist' /\ flist' \subseteq flist \cup {n}
          BY <5>1 DEF n
        <5>7. \A x \in flist : x.path # st.path => x \in flist'
          BY <5>1, <5>2
        <5> QED
          BY <3>1, <5>3, <5>5, <5>6, <5>7
      <4>2. CASE flist' = flist \cup {NewEntry(st)}
        <5> DEFINE n == NewEntry(st)
        <5>1. n.path = st.path /\ n.type = st.type /\ n.ucount = gucount /\ n.mtime = st.mtime
          BY DEF NewEntry
        <5> HIDE DEF n
        <5>2. n \in flist' /\ flist' \subseteq flist \cup {n} /\ flist \subseteq flist'
          BY <4>2 DEF n
        <5> QED
          BY <3>1, <5>1, <5>2
      <4> QED
        BY <3>1, <4>1, <4>2
    <3>4. \A x : FinfoValid(x)' <=> x.ucount = gucount
      BY <1>1 DEF FinfoValid
    <3>5. \A p : Listable(p)' <=> Listable(p)
      BY <1>1 DEF Listable, Skipped, Exists
    <3>6. Exact'
      <4> SUFFICES ASSUME NEW x \in flist', x.ucount = gucount
                   PROVE  /\ Listable(x.path)
                          /\ x.type = tree[x.path].type
                          /\ ForceUseDigest \/ x.mtime = tree[x.path].mtime
        BY <1>1, <3>4, <3>5 DEF Exact
      <4>1. CASE x \in flist
        BY <1>1, <1>3, <4>1 DEF MirrorInv, Exact, Kept, FinfoValid
      <4>2. CASE x \notin flist
        BY <2>1, <3>3, <4>2 DEF Listable
      <4> QED
        BY <4>1, <4>2
    <3>7. Covers'
      <4> SUFFICES ASSUME ReadableTree, NEW p \in Paths, Listable(p), p \in visited
                   PROVE  \E x \in flist' : x.ucount = gucount /\ x.path = p
        BY <1>1, <3>1, <3>4, <3>5 DEF Covers, Answered
      <4>1. CASE p = st.path
        BY <2>1, <3>3, <4>1 DEF Listable
      <4>2. CASE p # st.path
        <5>1. Answered(p)
          BY <4>2 DEF Answered, st
        <5>2. PICK x \in flist : FinfoValid(x) /\ x.path = p
          BY <1>1, <1>3, <5>1 DEF MirrorInv, Covers, Kept
        <5> QED
          BY <3>3, <4>2, <5>2 DEF FinfoValid
      <4> QED
        BY <4>1, <4>2
    <3> QED
      BY <1>1, <3>1, <3>2, <3>6, <3>7 DEF MirrorInv, StatExact, UndisturbedUpdateSurvives
  <2> QED
    BY <2>6, <2>7
<1> QED
  BY <1>2, <1>3

\* g_ucount += 1 leaves no entry valid, and the walk knows the first level.
LEMMA UpdateStartMirror ==
  ASSUME MirrorInv, UniqueInv', UpdateStart
  PROVE  MirrorInv'
<1>1. /\ pc = "loaded" /\ pc' = "walk" /\ quiet'
      /\ gucount' = gucount + 1
      /\ listed' = Children(Base) /\ opened' = {Base} /\ visited' = {}
      /\ UNCHANGED <<tree, flist>>
      /\ TreeInv' /\ Grounded'
  BY SameTree DEF UpdateStart, NextUcount, MirrorInv, treeVars
<1>2. gucount \in Nat /\ \A e \in flist : e.ucount \in Nat /\ e.ucount <= gucount
  <2>1. gucount \in Nat /\ flist \subseteq Entries
    BY PathsAssumption DEF MirrorInv, UniqueInv, TypeOK, ControlOK
  <2>2. \A e \in flist : e.ucount <= gucount
    BY <1>1 DEF MirrorInv, UniqueInv, CountsBehind, Loaded
  <2> QED
    BY <2>1, <2>2 DEF Entries
<1>3. \A e \in flist' : ~FinfoValid(e)'
  BY <1>1, <1>2 DEF FinfoValid
<1>4. WalkInv'
  BY <1>1 DEF WalkInv, Answered, Children, Exists
<1>5. Exact' /\ Covers'
  BY <1>1, <1>3 DEF Exact, Covers, Answered
<1> QED
  BY <1>1, <1>4, <1>5 DEF MirrorInv, StatExact, UndisturbedUpdateSurvives

\* In a quiet walk what nftw() takes next is there when it stat()s it.
LEMMA VisitMirror ==
  ASSUME MirrorInv, UniqueInv', NEW p \in Paths, Visit(p)
  PROVE  MirrorInv'
<1>1. /\ pc = "walk" /\ pc' = "entry"
      /\ p \notin visited /\ visited' = visited \cup {p}
      /\ p \in listed \/ Exists(p)
      /\ UNCHANGED <<tree, quiet, flist, gucount, listed, opened>>
      /\ TreeInv' /\ Grounded'
  BY SameTree DEF Visit, MirrorInv, treeVars
<1>2. cur'[1].path = p
  BY DEF Visit
<1>3. CASE ~quiet
  BY <1>1, <1>3, FrameAway DEF MirrorInv, UniqueInv, TypeOK, TreeOK
<1>4. CASE quiet
  <2>1. /\ Base \in opened
        /\ \A q \in listed \cup visited : Exists(q)
        /\ \A q \in Paths : Exists(q) /\ Parent[q] \in opened => q \in listed
        /\ \A q \in Paths : q \in visited /\ tree[q].type = "dir" /\ q \notin Unreadable
                              => q \in opened
    BY <1>1, <1>4 DEF MirrorInv, WalkInv, Answered
  <2>2. Exists(p)
    BY <1>1, <2>1
  <2>3. StatExact'
    BY <1>1, <2>2 DEF Visit, StatExact, Exists
  <2>4. \A q : Answered(q)' <=> q \in visited
    BY <1>1, <1>2 DEF Answered
  <2>5. WalkInv'
    <3>1. \A q \in listed' \cup visited' : Exists(q)'
      BY <1>1, <2>1, <2>2 DEF Exists
    <3>2. \A q \in Paths : Exists(q)' /\ Parent[q] \in opened' => q \in listed'
      BY <1>1, <2>1 DEF Exists
    <3> QED
      BY <1>1, <2>1, <2>4, <3>1, <3>2 DEF WalkInv
  <2>6. \A q : Listable(q)' <=> Listable(q)
    BY <1>1 DEF Listable, Skipped, Exists
  <2>7. \A e : FinfoValid(e)' <=> FinfoValid(e)
    BY <1>1 DEF FinfoValid
  <2>8. Exact'
    BY <1>1, <1>4, <2>6, <2>7 DEF MirrorInv, Exact, Kept
  <2>9. Covers'
    <3> SUFFICES ASSUME ReadableTree, NEW q \in Paths, Listable(q), q \in visited
                 PROVE  \E e \in flist : FinfoValid(e) /\ e.path = q
      BY <1>1, <2>4, <2>6, <2>7 DEF Covers
    <3> QED
      BY <1>1, <1>4 DEF MirrorInv, Covers, Kept, Answered
  <2> QED
    BY <1>1, <2>3, <2>5, <2>8, <2>9 DEF MirrorInv, UndisturbedUpdateSurvives
<1> QED
  BY <1>3, <1>4

\* When the names are used up, all that exists has been visited: of the paths
\* that have not, one would lie in a directory that was opened, or be listed.
LEMMA WalkIsComplete ==
  ASSUME MirrorInv, ReadableTree, quiet, pc = "walk", listed \subseteq visited
  PROVE  \A p \in Paths : Exists(p) => p \in visited
<1> DEFINE missed == {p \in Paths : Exists(p) /\ p \notin visited}
<1>1. /\ Base \in opened
      /\ \A q \in Paths : Exists(q) /\ Parent[q] \in opened => q \in listed
      /\ \A q \in Paths : q \in visited /\ tree[q].type = "dir" /\ q \notin Unreadable
                            => q \in opened
  BY DEF MirrorInv, WalkInv, Answered
<1>2. ASSUME missed # {} PROVE FALSE
  <2>1. PICK p \in missed : Parent[p] \notin missed
    BY <1>2 DEF MirrorInv, Grounded
  <2>2. p \in Paths /\ Exists(p) /\ p \notin visited
    BY <2>1
  <2>3. Parent[p] # Base
    BY <1>1, <2>2
  <2>4. Parent[p] \in Paths /\ Parent[p] \notin Unreadable
    BY <2>2, <2>3, PathsAssumption DEF ReadableTree
  <2>5. tree[Parent[p]].type = "dir" /\ Exists(Parent[p])
    BY <2>2, <2>3 DEF MirrorInv, TreeInv, Exists
  <2>6. Parent[p] \in visited
    BY <2>1, <2>4, <2>5
  <2>7. Parent[p] \in opened
    BY <1>1, <2>4, <2>5, <2>6
  <2> QED
    BY <1>1, <2>2, <2>7
<1> QED
  BY <1>2

LEMMA WalkDoneMirror ==
  ASSUME MirrorInv, UniqueInv', WalkDone
  PROVE  MirrorInv'
<1>1. /\ pc = "walk" /\ pc' = "loaded" /\ listed \subseteq visited
      /\ UNCHANGED <<tree, quiet, flist, gucount>>
      /\ TreeInv' /\ Grounded'
  BY SameTree DEF WalkDone, MirrorInv, treeVars
<1>2. CASE ~quiet
  BY <1>1, <1>2, FrameAway DEF MirrorInv, UniqueInv, TypeOK, TreeOK
<1>3. CASE quiet
  <2>1. \A q : Listable(q)' <=> Listable(q)
    BY <1>1 DEF Listable, Skipped, Exists
  <2>2. \A e : FinfoValid(e)' <=> FinfoValid(e)
    BY <1>1 DEF FinfoValid
  <2>3. Exact'
    BY <1>1, <1>3, <2>1, <2>2 DEF MirrorInv, Exact, Kept
  <2>4. Covers'
    <3> SUFFICES ASSUME ReadableTree, NEW q \in Paths, Listable(q)
                 PROVE  \E e \in flist : FinfoValid(e) /\ e.path = q
      BY <1>1, <2>1, <2>2 DEF Covers
    <3>1. Answered(q)
      BY <1>1, <1>3, WalkIsComplete DEF Answered, Listable
    <3> QED
      BY <1>1, <1>3, <3>1 DEF MirrorInv, Covers, Kept
  <2> QED
    BY <1>1, <2>3, <2>4 DEF MirrorInv, WalkInv, StatExact, UndisturbedUpdateSurvives
<1> QED
  BY <1>2, <1>3

LEMMA StepMirrorInv == MirrorInv /\ [Next]_vars => MirrorInv'
<1> SUFFICES ASSUME MirrorInv, [Next]_vars PROVE MirrorInv'
  OBVIOUS
<1>1. UniqueInv /\ UniqueInv' /\ TypeOK
  BY StepUniqueInv DEF MirrorInv, UniqueInv
<1>2. ~User => TreeInv' /\ Grounded'
  BY SameTree
  DEF MirrorInv, Next, Process, InitFlist, LoadFlist, UpdateStart, Visit, Callback,
      WalkDone, UnloadStart, OpenNext, SaveEntry, SaveFinish, CleanupFlist, Crash,
      vars, treeVars
<1>3. CASE User
  <2>1. quiet' = FALSE /\ TreeInv' /\ Grounded'
    BY <1>1, <1>3, UserTree, UserTreeInv DEF MirrorInv
  <2> QED
    BY <1>1, <2>1, FrameAway
<1>4. CASE InitFlist /\ ~User
  BY <1>1, <1>2, <1>4, FrameAway DEF InitFlist, DoMkdir, Die
<1>5. CASE (LoadFlist \/ CleanupFlist \/ Crash) /\ ~User
  BY <1>1, <1>2, <1>5, FrameAway DEF LoadFlist, CleanupFlist, Crash
<1>6. CASE UpdateStart
  BY <1>1, <1>6, UpdateStartMirror
<1>7. ASSUME NEW p \in Paths, Visit(p) PROVE MirrorInv'
  BY <1>1, <1>7, VisitMirror
<1>8. CASE Callback
  BY <1>1, <1>8, CallbackMirror
<1>9. CASE WalkDone
  BY <1>1, <1>9, WalkDoneMirror
<1>10. CASE \E m \in {"keep", "free"} : UnloadStart(m)
  BY <1>1, <1>10, FrameKept DEF UnloadStart, Kept
<1>11. CASE OpenNext /\ ~User
  <2>1. CASE pc' = "failed"
    BY <1>1, <1>2, <1>11, <2>1, FrameAway DEF OpenNext, Die
  <2>2. CASE pc' # "failed"
    BY <1>1, <1>11, <2>2, FrameKept DEF OpenNext, Die, Kept
  <2> QED
    BY <2>1, <2>2
<1>12. ASSUME NEW e \in tosave, SaveEntry(e) PROVE MirrorInv'
  <2>1. mode = "keep" => {x \in flist' : FinfoValid(x)} = {x \in flist : FinfoValid(x)}
    BY <1>12 DEF SaveEntry
  <2> QED
    BY <1>1, <1>12, <2>1, FrameKept DEF SaveEntry, Kept
<1>13. CASE SaveFinish /\ ~User
  <2>1. CASE mode = "keep"
    BY <1>1, <1>13, <2>1, FrameKept DEF SaveFinish, Kept
  <2>2. CASE mode # "keep"
    BY <1>1, <1>2, <1>13, <2>2, FrameAway DEF SaveFinish
  <2> QED
    BY <2>1, <2>2
<1>14. CASE UNCHANGED vars
  BY <1>1, <1>14
  DEF vars, MirrorInv, TreeInv, Grounded, WalkInv, StatExact, Exact, Covers, Kept,
      UndisturbedUpdateSurvives, Listable, Skipped, Exists, Answered, FinfoValid
<1> QED
  BY <1>3, <1>4, <1>5, <1>6, <1>7, <1>8, <1>9, <1>10, <1>11, <1>12, <1>13, <1>14
  DEF Next, Process

LEMMA MirrorInvHolds == Spec => []MirrorInv
BY InitMirrorInv, StepMirrorInv, PTL DEF Spec

-----------------------------------------------------------------------------

\* After an update no one disturbed, what the valid entries name is what the
\* filters let through, whichever way hit() compares: if nothing lies below a
\* directory the walk cannot open.
THEOREM UpdateMirrorsNames ==
  ASSUME ReadableTree
  PROVE  Spec => []MirrorsNames
<1>1. MirrorInv => MirrorsNames
  <2> SUFFICES ASSUME MirrorInv, pc = "loaded", quiet
               PROVE  {<<e.path, e.type>> : e \in {x \in flist : FinfoValid(x)}}
                      = {<<p, tree[p].type>> :
                           p \in {q \in Paths : Exists(q) /\ ~Skipped(q, tree[q].type)}}
    BY DEF MirrorsNames
  <2>1. \A e \in flist : FinfoValid(e) => Listable(e.path) /\ e.type = tree[e.path].type
    BY DEF MirrorInv, Exact, Kept
  <2>2. \A p \in Paths : Listable(p) => \E e \in flist : FinfoValid(e) /\ e.path = p
    BY DEF MirrorInv, Covers, Kept
  <2>3. \A e \in flist : e.path \in Paths
    BY DEF MirrorInv, UniqueInv, TypeOK, ControlOK, Entries
  <2> QED
    BY <2>1, <2>2, <2>3 DEF Listable
<1> QED
  BY <1>1, MirrorInvHolds, PTL

\* And each valid entry has the mtime its file has, unless hit() compares
\* digests and lets an old mtime stand.
THEOREM UpdateMirrorsTree ==
  ASSUME ReadableTree, ~ForceUseDigest
  PROVE  Spec => []MirrorsTree
<1>1. MirrorInv => MirrorsTree
  <2> SUFFICES ASSUME MirrorInv, pc = "loaded", quiet
               PROVE  {[path |-> e.path, type |-> e.type, mtime |-> e.mtime] :
                         e \in {x \in flist : FinfoValid(x)}}
                      = {[path |-> p, type |-> tree[p].type, mtime |-> tree[p].mtime] :
                           p \in {q \in Paths : Exists(q) /\ ~Skipped(q, tree[q].type)}}
    BY DEF MirrorsTree
  <2>1. \A e \in flist : FinfoValid(e) =>
           /\ Listable(e.path)
           /\ e.type = tree[e.path].type /\ e.mtime = tree[e.path].mtime
    BY DEF MirrorInv, Exact, Kept
  <2>2. \A p \in Paths : Listable(p) => \E e \in flist : FinfoValid(e) /\ e.path = p
    BY DEF MirrorInv, Covers, Kept
  <2>3. \A e \in flist : e.path \in Paths
    BY DEF MirrorInv, UniqueInv, TypeOK, ControlOK, Entries
  <2> QED
    BY <2>1, <2>2, <2>3 DEF Listable
<1> QED
  BY <1>1, MirrorInvHolds, PTL

\* An update no one disturbed dies of nothing but a file it is to list and may
\* not open.
THEOREM UndisturbedSurvives == Spec => []UndisturbedUpdateSurvives
<1>1. MirrorInv => UndisturbedUpdateSurvives
  BY DEF MirrorInv
<1> QED
  BY <1>1, MirrorInvHolds, PTL

-----------------------------------------------------------------------------
(* Digests.  A record of a regular file never disagrees with the file whose *)
(* mtime it bears: it was made of a stat older than the next change, and    *)
(* the next change brings an mtime no record bears yet.                     *)

\* What remains of a name in a cut line is no path's name.
WholeNames == \A p \in Paths : CutTo[p] = {}

Sound(r) ==
  r.type = "reg" =>
    /\ r.mtime < clock
    /\ tree[r.path].type = "reg" /\ tree[r.path].mtime = r.mtime
         => r.digest = tree[r.path].content

\* The stat at hand is not of the future, nor is it when it was of nothing and
\* the path has come into being since.
StatPast ==
  pc = "entry" => /\ cur[1].mtime <= clock
                  /\ Exists(cur[1].path) => cur[1].mtime < clock

DigestInv ==
  /\ MirrorInv
  /\ DiskInv
  /\ StatPast
  /\ \A e \in flist : Sound(Record(e))
  /\ \A r \in saved.recs : Sound(r)

LEMMA InitDigestInv == Init => DigestInv
<1> SUFFICES ASSUME Init PROVE DigestInv
  OBVIOUS
<1>1. StatPast /\ flist = {} /\ saved.recs = {}
  BY DEF Init, StatPast
<1> QED
  BY <1>1, InitMirrorInv, InitDiskInv DEF DigestInv

\* A change of the tree bears an mtime that no record has.
LEMMA SoundStays ==
  ASSUME MtimeTellsVersions, TypeOK, TreeInv, User,
         NEW r, r.path \in Paths, r.mtime \in Int, Sound(r)
  PROVE  Sound(r)'
<1>1. clock \in Nat
  BY PathsAssumption DEF TypeOK, TreeOK
<1>2. clock' = clock + 1
  BY UserTree
<1>3. \/ tree'[r.path] = tree[r.path]
      \/ tree'[r.path].type = "none"
      \/ tree'[r.path].mtime = clock
  BY UserTree DEF Stamps
<1> QED
  BY <1>1, <1>2, <1>3 DEF Sound

LEMMA SoundSame ==
  ASSUME UNCHANGED treeVars, NEW r, Sound(r)
  PROVE  Sound(r)'
BY DEF Sound, treeVars

\* Of a cut statinfo line no mtime is left that a file has.
LEMMA LoadedSound ==
  ASSUME WholeNames, DigestInv, NEW S \in LoadedLists, NEW e \in S
  PROVE  Sound(Record(e))
<1> DEFINE n == LoadCount
<1>1. TypeOK /\ Paired /\ ReadsSaved
  BY DEF DigestInv, DiskInv, UniqueInv
<1>2. n \in Nat /\ n > 0
  BY <1>1, LoadedRecords, LoadCountBound
<1>3. \A i \in 1..n : Sound(Record(LineEntry(i)))
  BY <1>1, LineRecord DEF ReadsSaved, DigestInv
<1>4. CASE \E i \in 1..(n - 1) : e = LineEntry(i)
  BY <1>2, <1>3, <1>4
<1>5. CASE e \in LastEntries(n)
  <2> DEFINE whole == LineEntry(n)
             names == IF CutLine("relapath", n) THEN CutTo[whole.path] ELSE {whole.path}
             named == {[whole EXCEPT !.path = q] : q \in names}
  <2>1. n \in 1..n
    BY <1>2
  <2>2. whole.path \in Paths
    <3>1. Lines("relapath") \in Seq(Records) /\ n <= Len(Lines("relapath"))
      BY <1>1, LoadCountBound DEF Files
    <3>2. Lines("relapath")[n] \in Records
      BY <1>2, <3>1
    <3> QED
      BY <3>2 DEF LineEntry, Records
  <2>3. \A x \in named : x = whole
    <3>1. names \subseteq {whole.path}
      BY <2>2 DEF WholeNames
    <3>2. [whole EXCEPT !.path = whole.path] = whole
      BY DEF LineEntry
    <3> QED
      BY <3>1, <3>2
  <2>4. e \in named \cup {[x EXCEPT !.mtime = JunkTime] : x \in named}
            \cup {[x EXCEPT !.type = "none", !.mtime = JunkTime] : x \in named}
    BY <1>5 DEF LastEntries
  <2>5. \/ e = whole
        \/ e = [whole EXCEPT !.mtime = JunkTime]
        \/ e = [whole EXCEPT !.type = "none", !.mtime = JunkTime]
    BY <2>3, <2>4
  <2>6. CASE e = whole
    BY <1>3, <2>1, <2>6
  <2>7. CASE e = [whole EXCEPT !.mtime = JunkTime]
    <3>1. Record(e).mtime = -1 /\ Record(e).path \in Paths
      BY <2>2, <2>7 DEF Record, LineEntry, JunkTime
    <3>2. clock \in Nat
      BY <1>1, PathsAssumption DEF TypeOK, TreeOK
    <3>3. tree[Record(e).path].type = "reg" => tree[Record(e).path].mtime >= 0
      BY <3>1, <3>2 DEF DigestInv, MirrorInv, TreeInv, Exists
    <3> QED
      BY <3>1, <3>2, <3>3 DEF Sound
  <2>8. CASE e = [whole EXCEPT !.type = "none", !.mtime = JunkTime]
    <3>1. Record(e).type = "none"
      BY <2>8 DEF Record, LineEntry
    <3> QED
      BY <3>1 DEF Sound
  <2> QED
    BY <2>5, <2>6, <2>7, <2>8
<1> QED
  BY <1>1, <1>4, <1>5, LoadedRecords

LEMMA CallbackSound ==
  ASSUME DigestInv, Callback
  PROVE  \A e \in flist' : Sound(Record(e))
<1> DEFINE st == cur[1]
<1>1. pc = "entry" /\ flist \subseteq Entries
  BY DEF Callback, DigestInv, MirrorInv, UniqueInv, TypeOK, ControlOK
<1>2. \A e \in flist : Sound(Record(e))
  BY DEF DigestInv
<1>3. CASE flist' = flist
  BY <1>2, <1>3
<1>4. ASSUME NEW e \in flist, Hit(st, e), flist' = (flist \ {e}) \cup {Refreshed(e, st)}
      PROVE  \A x \in flist' : Sound(Record(x))
  <2>1. e \in Entries /\ e.type = st.type
    BY <1>1, <1>4 DEF Hit
  <2>2. Record(Refreshed(e, st)).type = "reg" => Record(Refreshed(e, st)) = Record(e)
    BY <2>1 DEF Record, Refreshed, Entries
  <2>3. Sound(Record(Refreshed(e, st)))
    BY <1>2, <2>2 DEF Sound
  <2> QED
    BY <1>2, <1>4, <2>3
<1>5. CASE Openable(st.path) /\ flist' = flist \cup {NewEntry(st)}
  <2>1. Exists(st.path) /\ st.mtime < clock
    BY <1>1, <1>5 DEF Openable, DigestInv, StatPast
  <2>2. Sound(Record(NewEntry(st)))
    BY <2>1 DEF Sound, Record, NewEntry, DigestOf
  <2> QED
    BY <1>2, <1>5, <2>2
<1>6. pc' = "failed" => flist' = flist
  BY DEF Callback, Die
<1> QED
  BY <1>3, <1>4, <1>5, <1>6, CallbackCases

\* The stat of a path that is there was stamped by a change, that of nothing at
\* all by none to come.
LEMMA StatPastStep ==
  ASSUME DigestInv, TypeOK', [Next]_vars
  PROVE  StatPast'
<1>1. clock \in Nat /\ clock' \in Nat
  BY PathsAssumption DEF DigestInv, MirrorInv, UniqueInv, TypeOK, TreeOK
<1>2. pc = "entry" => cur[1].mtime \in Int
  BY CallbackEntries DEF DigestInv, MirrorInv, UniqueInv, Stats
<1>3. CASE User
  <2>1. clock' = clock + 1 /\ UNCHANGED <<pc, cur>>
    BY <1>3 DEF User, Create, Modify, Remove, Tick
  <2> QED
    BY <1>1, <1>2, <2>1 DEF DigestInv, StatPast
<1>4. ASSUME NEW p \in Paths, Visit(p) PROVE StatPast'
  <2>1. UNCHANGED <<tree, clock>>
    BY <1>4 DEF Visit, treeVars
  <2>2. CASE Exists(p)
    <3>1. cur'[1].path = p /\ cur'[1].mtime = tree[p].mtime
      BY <1>4, <2>2 DEF Visit
    <3>2. tree[p].mtime \in 0..(clock - 1)
      BY <2>2 DEF DigestInv, MirrorInv, TreeInv
    <3> QED
      BY <1>1, <2>1, <3>1, <3>2 DEF StatPast
  <2>3. CASE ~Exists(p)
    <3>1. cur'[1].path = p /\ cur'[1].mtime \in 0..clock
      BY <1>4, <2>3 DEF Visit
    <3> QED
      BY <1>1, <2>1, <2>3, <3>1 DEF StatPast, Exists
  <2> QED
    BY <2>2, <2>3
<1>5. CASE UNCHANGED vars
  BY <1>5 DEF vars, DigestInv, StatPast, Exists
<1>6. CASE /\ Process /\ ~(\E p \in Paths : Visit(p))
  <2>1. pc' # "entry"
    BY <1>6
    DEF Process, InitFlist, DoMkdir, Die, LoadFlist, UpdateStart, Callback, WalkDone,
        UnloadStart, OpenNext, SaveEntry, SaveFinish, CleanupFlist
  <2> QED
    BY <2>1 DEF StatPast
<1>7. CASE Crash
  BY <1>7 DEF Crash, StatPast
<1> QED
  BY <1>3, <1>4, <1>5, <1>6, <1>7 DEF Next

LEMMA StepDigestInv ==
  ASSUME WholeNames, MtimeTellsVersions, DigestInv, [Next]_vars
  PROVE  DigestInv'
<1>1. MirrorInv' /\ DiskInv'
  BY StepMirrorInv, StepDiskInv DEF DigestInv
<1>2. StatPast'
  BY <1>1, StatPastStep DEF MirrorInv, UniqueInv
<1>3. TypeOK /\ TreeInv
  BY DEF DigestInv, MirrorInv, UniqueInv
<1>4. /\ \A e \in flist : Record(e) \in Records /\ Sound(Record(e))
      /\ \A r \in saved.recs : r \in Records /\ Sound(r)
  BY <1>3, RecordType DEF DigestInv, TypeOK, ControlOK, DiskOK
<1>5. CASE User
  <2>1. UNCHANGED <<flist, saved>>
    BY <1>5 DEF User, Create, Modify, Remove, Tick, diskVars
  <2>2. \A r \in Records : Sound(r) => Sound(r)'
    BY <1>3, <1>5, SoundStays DEF Records
  <2>3. \A e \in flist' : Sound(Record(e))'
    BY <1>4, <2>1, <2>2
  <2>4. \A r \in saved'.recs : Sound(r)'
    BY <1>4, <2>1, <2>2
  <2> QED
    BY <1>1, <1>2, <2>3, <2>4 DEF DigestInv, Record
<1>6. CASE ~User
  <2>1. UNCHANGED treeVars
    BY <1>6
    DEF Next, Process, InitFlist, LoadFlist, UpdateStart, Visit, Callback,
        WalkDone, UnloadStart, OpenNext, SaveEntry, SaveFinish, CleanupFlist, Crash,
        vars, treeVars
  <2>2. \A r : Sound(r) => Sound(r)'
    BY <2>1, SoundSame
  <2>3. \A e \in flist' : Sound(Record(e))
    <3>1. CASE LoadFlist
      BY <1>4, <3>1, LoadedSound DEF LoadFlist
    <3>2. CASE Callback
      BY <3>2, CallbackSound
    <3>3. CASE ~LoadFlist /\ ~Callback
      <4>1. flist' \subseteq flist
        BY <1>6, <3>3
        DEF Next, Process, InitFlist, UpdateStart, Visit, WalkDone, UnloadStart,
            OpenNext, SaveEntry, SaveFinish, CleanupFlist, Crash, vars
      <4> QED
        BY <1>4, <4>1
    <3> QED
      BY <3>1, <3>2, <3>3
  <2>4. \A r \in saved'.recs : Sound(r)
    <3>1. CASE OpenNext
      <4>1. saved' = saved \/ saved'.recs = ValidRecords
        BY <3>1 DEF OpenNext
      <4> QED
        BY <1>4, <4>1 DEF ValidRecords
    <3>2. CASE SaveFinish
      <4>1. saved'.recs = saved.recs
        BY <1>3, <3>2 DEF SaveFinish, TypeOK, DiskOK
      <4> QED
        BY <1>4, <4>1
    <3>3. CASE ~OpenNext /\ ~SaveFinish
      <4>1. saved' = saved
        BY <1>6, <3>3
        DEF Next, Process, InitFlist, LoadFlist, UpdateStart, Visit, Callback, WalkDone,
            UnloadStart, SaveEntry, CleanupFlist, Crash, vars, diskVars
      <4> QED
        BY <1>4, <4>1
    <3> QED
      BY <3>1, <3>2, <3>3
  <2>5. \A e \in flist' : Sound(Record(e))'
    BY <2>2, <2>3
  <2>6. \A r \in saved'.recs : Sound(r)'
    BY <2>2, <2>4
  <2> QED
    BY <1>1, <1>2, <2>5, <2>6 DEF DigestInv, Record
<1> QED
  BY <1>5, <1>6

\* Where mtimes tell versions apart and no cut name is another's, hit() by mtime
\* never passes an old digest for that of a changed file: after an update no one
\* disturbed the digest of each regular file is that of what is in it.
THEOREM DigestsAreFresh ==
  ASSUME WholeNames, MtimeTellsVersions, ~ForceUseDigest
  PROVE  Spec => []DigestFresh
<1>1. DigestInv => DigestFresh
  <2> SUFFICES ASSUME DigestInv, pc = "loaded", quiet,
                      NEW e \in flist, FinfoValid(e), e.type = "reg"
               PROVE  e.digest = DigestOf(e.path)
    BY DEF DigestFresh
  <2>1. tree[e.path].type = "reg" /\ tree[e.path].mtime = e.mtime
    BY DEF DigestInv, MirrorInv, Exact, Kept
  <2>2. Sound(Record(e))
    BY DEF DigestInv
  <2> QED
    BY <2>1, <2>2 DEF Sound, Record, DigestOf
<1>2. DigestInv /\ [Next]_vars => DigestInv'
  BY StepDigestInv
<1> QED
  BY <1>1, <1>2, InitDigestInv, PTL DEF Spec
=============================================================================
