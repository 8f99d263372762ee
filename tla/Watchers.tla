------------------------------ MODULE Watchers ------------------------------
(***************************************************************************)
(* The directory watchers of wrap-inotify.c: one watcher for every         *)
(* directory below the monitored one, kept in hash tables by watch         *)
(* descriptor and by path and linked into a tree.                          *)
(*                                                                         *)
(* init_watchers() scans the tree with a post-order nftw() and then a      *)
(* thread reads inotify events for ever.  Users of the monitored directory *)
(* act between any two steps: between the listing of a directory and the   *)
(* inotify_add_watch() on it, and while events queue up.                   *)
(*                                                                         *)
(* Abstractions: an inode is <<where it was made, when>> and its watch     *)
(* descriptor is the inode itself (inotify has one per inode); a path is   *)
(* the sequence of its names below the monitored directory; the two hash   *)
(* tables hold the same watchers, newest first in a chain, and are one     *)
(* set; regular files are left out (their events are only passed on).      *)
(* A freed cell is never allocated again, so that the newer of two         *)
(* watchers has the larger index: the first step that would read a freed   *)
(* one ends the behaviour with pc = "undefined".  A directory may be one   *)
(* this process may not read, and the kernel may have no watch left: the   *)
(* result of inotify_add_watch() is not looked at.                         *)
(***************************************************************************)
EXTENDS Integers, Sequences, FiniteSets, SequencesExt

CONSTANTS
  Names,        \* names of directories
  HiddenNames,  \* those that start with a dot
  BaseHidden,   \* does the last component of the base path start with a dot?
  MaxDepth,     \* bound: names in a path
  InitialTrees, \* the trees the monitored directory may hold at the start
  UserOps,      \* what happens: subset of {"mkdir", "rmdir", "rename", "moveout", "cleanup"}
  PipeCap,      \* batches of events the pipe to the caller takes
  QueueCap,     \* events the kernel keeps for a reader
  ReadCap,      \* events that fit into the buffer of one read()
  HtbSize,      \* htbsz, the buckets of hashtb_wd
  MaxMade,      \* bound: directories made, renamed or moved
  MaxRefused    \* bound: watchers without a watch at which the kernel refuses no more

Paths == UNION {[1..n -> Names] : n \in 0..MaxDepth}
Root == <<>>
ParentOf(p) == SubSeq(p, 1, Len(p) - 1)
NameOf(p) == p[Len(p)]

ASSUME TreesAssumption ==
  /\ \A T \in InitialTrees :
       T \subseteq Paths /\ Root \in T /\ \A p \in T \ {Root} : ParentOf(p) \in T
  /\ HiddenNames \subseteq Names
  /\ BaseHidden \in BOOLEAN
  /\ {PipeCap, QueueCap, ReadCap, HtbSize} \subseteq Nat \ {0}

ASSUME BoundsAssumption == {MaxDepth, MaxMade, MaxRefused} \subseteq Nat

VARIABLES
  dirs,     \* the directory tree: the inode at each path, or None
  outside,  \* inodes moved out of the tree
  made,     \* changes of the tree so far
  watched,  \* inodes the kernel watches for this process
  queue,    \* events not read yet: [wd, kind, name]
  quiet,    \* history: no change of the tree during a scan, and no event dropped
  calm,     \* history: every change came when those before it had been handled
  pc,       \* where the thread is
  cause,    \* why the process is dying, or what read freed memory
  heap,     \* every watcher ever allocated
  live,     \* indices in heap not freed
  table,    \* the watchers in hashtb_wd and hashtb_path
  stack,    \* wtstack, top last
  root,     \* INFO_ROOT
  frames,   \* the directories nftw() is in: [path, todo, shut]
  batch,    \* events read and not handled yet
  viewer,   \* the watcher whose directory the event at hand is in
  work,     \* what the recursion of remove_watchers_recur() has still to do
  pipe      \* batches in the pipe

fsVars   == <<dirs, outside, made>>
treeVars == <<heap, live, table, stack>>
history  == <<quiet, calm>>
vars == <<dirs, outside, made, watched, queue, quiet, calm, pc, cause, heap, live,
          table, stack, root, frames, batch, viewer, work, pipe>>

None == <<"none">>            \* no inode; as a wd: what a failed add_watch returns
Nil == 0                      \* the NULL watcher
InodeOf(p, n) == <<p, n>>

IsDir(p) == dirs[p] # None
Subdirs(p) == {n \in Names : Append(p, n) \in Paths /\ IsDir(Append(p, n))}

-----------------------------------------------------------------------------
(* The users of the monitored directory, and the events the kernel queues. *)

Event(d, k, n) == [wd |-> d, kind |-> k, name |-> n]

\* IN_Q_OVERFLOW comes instead of the events there is no room for, without IN_ISDIR; a
\* second one only when the first has been read.
Overflow == Event(None, "overflow", "")
Overflown(q) == \E k \in DOMAIN q : q[k] = Overflow

\* The event about name n in the directory whose inode is d, if it is watched.
Queued(q, d, k, n) ==
  IF d \notin watched THEN q
  ELSE IF Len(q) < QueueCap THEN Append(q, Event(d, k, n))
  ELSE IF Overflown(q) THEN q ELSE Append(q, Overflow)

\* A change of the tree, of which q is what is to be read.
Change(q) ==
  /\ made < MaxMade
  /\ pc \notin {"failed", "undefined", "cleanup", "swept"}
  /\ made' = made + 1
  /\ queue' = q
  /\ quiet' = (quiet /\ pc # "scan" /\ ~Overflown(q))
  /\ calm' = (calm /\ pc = "idle" /\ queue = <<>>)
  /\ UNCHANGED <<pc, cause, treeVars, root, batch, viewer, work, pipe>>

\* A name that comes to be in a directory nftw() is reading may be returned still.
Appears(p) ==
  \/ UNCHANGED frames
  \/ \E k \in DOMAIN frames :
       /\ frames[k].path = ParentOf(p) /\ frames[k].shut = None
       /\ frames' = [frames EXCEPT ![k].todo = @ \cup {NameOf(p)}]

Mkdir(p) ==
  /\ "mkdir" \in UserOps
  /\ p # Root /\ ~IsDir(p) /\ IsDir(ParentOf(p))
  /\ dirs' = [dirs EXCEPT ![p] = InodeOf(p, made + 1)]
  /\ Change(Queued(queue, dirs[ParentOf(p)], "create", NameOf(p)))
  /\ Appears(p)
  /\ UNCHANGED <<outside, watched>>

Rmdir(p) ==
  /\ "rmdir" \in UserOps
  /\ p # Root /\ IsDir(p) /\ Subdirs(p) = {}
  /\ dirs' = [dirs EXCEPT ![p] = None]
  /\ Change(Queued(queue, dirs[ParentOf(p)], "delete", NameOf(p)))
  /\ watched' = watched \ {dirs[p]}
  /\ UNCHANGED <<outside, frames>>

\* The directory at r is the one that was there behind p when p is renamed to q.
Behind(p, q, r) == p \o SubSeq(r, Len(q) + 1, Len(r))

\* rename(2) of a directory with all that is below it, to a free name not below it.
Rename(p, q) ==
  /\ "rename" \in UserOps
  /\ p # Root /\ ~IsPrefix(p, q)
  /\ IsDir(p) /\ ~IsDir(q) /\ IsDir(ParentOf(q))
  /\ \A r \in Paths : IsPrefix(p, r) /\ IsDir(r) => Behind(q, p, r) \in Paths
  /\ dirs' = [r \in Paths |->
                CASE IsPrefix(q, r) -> IF Behind(p, q, r) \in Paths
                                       THEN dirs[Behind(p, q, r)] ELSE None
                  [] IsPrefix(p, r) -> None
                  [] OTHER -> dirs[r]]
  /\ Change(Queued(Queued(queue, dirs[ParentOf(p)], "delete", NameOf(p)),
                   dirs[ParentOf(q)], "create", NameOf(q)))
  /\ Appears(q)
  /\ UNCHANGED <<outside, watched>>

\* rename(2) out of the tree: the kernel goes on watching the inodes.
MoveOut(p) ==
  /\ "moveout" \in UserOps
  /\ p # Root /\ IsDir(p)
  /\ outside' = outside \cup {dirs[r] : r \in {x \in Paths : IsPrefix(p, x) /\ IsDir(x)}}
  /\ dirs' = [r \in Paths |-> IF IsPrefix(p, r) THEN None ELSE dirs[r]]
  /\ Change(Queued(queue, dirs[ParentOf(p)], "delete", NameOf(p)))
  /\ UNCHANGED <<watched, frames>>

\* mkdir(2) in a directory that has been moved out.
MkdirOutside(d, n) ==
  /\ "moveout" \in UserOps
  /\ d \in outside
  /\ Change(Queued(queue, d, "create", n))
  /\ UNCHANGED <<dirs, outside, watched, frames>>

User ==
  \/ \E p \in Paths : Mkdir(p) \/ Rmdir(p) \/ MoveOut(p)
  \/ \E p, q \in Paths : Rename(p, q)
  \/ \E d \in outside, n \in Names : MkdirOutside(d, n)

-----------------------------------------------------------------------------

Die(why) ==
  /\ pc' = "failed"
  /\ cause' = why

(* insert_watchers_recur(): nftw() with FTW_DEPTH. *)

\* Mutant: a directory without subdirectories is taken for a file.
FilteredLeaf(p) == p # Root /\ (NameOf(p) \in HiddenNames \/ Subdirs(p) = {})

\* The filters of insert_watcher().
Filtered(p) == IF p = Root THEN BaseHidden ELSE NameOf(p) \in HiddenNames

Least(S) == CHOOSE j \in S : \A i \in S : j <= i

\* Mutant: the loop stops at a top of the same level.
PoppedDeeperOnly(l) == {i \in 1..Len(stack) : \A j \in i..Len(stack) : heap[stack[j]].level > l}

\* The loop over wtstack, for a new watcher of level l: the tops it pops, those
\* of the same level, which become the sibling, and the deeper ones, which
\* become the child; of several, the one popped last stays.
Popped(l) == {i \in 1..Len(stack) : \A j \in i..Len(stack) : heap[stack[j]].level >= l}
PoppedSame(l)   == {i \in Popped(l) : heap[stack[i]].level = l}
PoppedDeeper(l) == Popped(l) \ PoppedSame(l)
LastPopped(S)   == IF S = {} THEN Nil ELSE stack[Least(S)]

NewWatcher(p, d, l) ==
  [path |-> p, wd |-> d, level |-> l, prev |-> Nil,
   child |-> LastPopped(PoppedDeeper(l)), sibling |-> LastPopped(PoppedSame(l))]

\* The rest of insert_watcher(), after the filters.
Insert(p, d, l) ==
  LET w == Len(heap) + 1
      back == {stack[i] : i \in Popped(l)}
  IN /\ heap' = Append([c \in DOMAIN heap |->
                          IF c \in back THEN [heap[c] EXCEPT !.prev = w] ELSE heap[c]],
                       NewWatcher(p, d, l))
     /\ live' = live \cup {w}
     /\ table' = table \cup {w}
     /\ stack' = Append(SubSeq(stack, 1, Len(stack) - Cardinality(Popped(l))), w)

Top == frames[Len(frames)]

Refused == {c \in DOMAIN heap : heap[c].wd = None}
MayRefuse == Cardinality(Refused) < MaxRefused

Listed(p) == [path |-> p, todo |-> Subdirs(p), shut |-> None]

\* A directory opendir() is refused (EACCES) is reported, but not read.
Shut(p) == [path |-> p, todo |-> {}, shut |-> dirs[p]]

Opened(p) == {Listed(p)} \cup IF MayRefuse THEN {Shut(p)} ELSE {}

\* What inotify_add_watch() returns: -1 if the directory is gone, or is one that may
\* not be read, or there is no watch left (ENOSPC).
AddWatch(f) ==
  IF dirs[f.path] \in {None, f.shut} THEN {None}
  ELSE {dirs[f.path]} \cup IF MayRefuse /\ dirs[f.path] \notin watched THEN {None} ELSE {}

\* nftw() takes the next name it has read.  One that is gone is reported with
\* whatever the stat buffer holds, or, gone after its stat(), ends nftw() with -1.
ScanEnter(n) ==
  /\ pc = "scan"
  /\ frames # <<>>
  /\ n \in Top.todo
  /\ LET p == Append(Top.path, n)
         rest == [frames EXCEPT ![Len(frames)].todo = @ \ {n}]
     IN \/ /\ IsDir(p)
           /\ frames' \in {Append(rest, f) : f \in Opened(p)}
           /\ UNCHANGED <<pc, cause, treeVars>>
        \/ /\ ~IsDir(p)
           /\ frames' = rest
           /\ \/ UNCHANGED <<pc, cause, treeVars>>
              \/ ~Filtered(p) /\ Insert(p, None, Len(frames)) /\ UNCHANGED <<pc, cause>>
              \/ Die("nftw") /\ UNCHANGED treeVars
  /\ UNCHANGED <<fsVars, watched, queue, history, root, batch, viewer, work, pipe>>

\* A directory is done: insert_watcher() on it.
ScanLeave ==
  /\ pc = "scan"
  /\ frames # <<>>
  /\ Top.todo = {}
  /\ IF Filtered(Top.path)
     THEN UNCHANGED <<watched, treeVars>>
     ELSE \E d \in AddWatch(Top) :
            /\ Insert(Top.path, d, Len(frames) - 1)
            /\ watched' = watched \cup ({d} \ {None})
  /\ frames' = SubSeq(frames, 1, Len(frames) - 1)
  /\ UNCHANGED <<fsVars, queue, history, pc, cause, root, batch, viewer, work, pipe>>

\* Mutant: the child there was is not told of the new watcher before it.
LinkChildOneWay(h, father, w) ==
  [h EXCEPT ![w].sibling = h[father].child, ![w].prev = father, ![father].child = w]

\* insert_watcher_child(): w becomes the first child.
LinkChild(h, father, w) ==
  LET first == h[father].child
  IN [c \in DOMAIN h |->
        CASE c = w      -> [h[c] EXCEPT !.sibling = first, !.prev = father]
          [] c = father -> [h[c] EXCEPT !.child = w]
          [] c = first  -> [h[c] EXCEPT !.prev = w]
          [] OTHER      -> h[c]]

\* nftw() has returned: assert(wtstack->stacktop == 1), and the top is popped.
ScanDone ==
  /\ pc = "scan"
  /\ frames = <<>>
  /\ IF Len(stack) # 1
     THEN Die("assert_stack") /\ UNCHANGED <<heap, stack, root>>
     ELSE /\ stack' = <<>>
          /\ UNCHANGED cause
          /\ IF root = Nil
             THEN root' = stack[1] /\ pc' = "idle" /\ UNCHANGED heap
             ELSE /\ heap' = LinkChild(heap, viewer, stack[1])
                  /\ pc' = "handle"
                  /\ UNCHANGED root
  /\ viewer' = Nil
  /\ UNCHANGED <<fsVars, watched, queue, history, live, table, frames, batch, work, pipe>>

-----------------------------------------------------------------------------
(* watchers_polling() *)

\* How many events a read() takes.
ReadLen == IF Len(queue) < ReadCap THEN Len(queue) ELSE ReadCap

ReadEvents ==
  /\ pc = "idle"
  /\ queue # <<>>
  /\ batch' = SubSeq(queue, 1, ReadLen)
  /\ queue' = SubSeq(queue, ReadLen + 1, Len(queue))
  /\ pc' = "write"
  /\ UNCHANGED <<fsVars, watched, history, cause, treeVars, root, frames, viewer, work, pipe>>

\* write() of the raw events to the pipe blocks while it is full.
WritePipe ==
  /\ pc = "write"
  /\ pipe < PipeCap
  /\ pipe' = pipe + 1
  /\ pc' = "handle"
  /\ UNCHANGED <<fsVars, watched, queue, history, cause, treeVars, root, frames,
                 batch, viewer, work>>

\* The caller of init_watchers() reads what the pipe holds.
ReadPipe ==
  /\ pipe > 0
  /\ pipe' = pipe - 1
  /\ UNCHANGED <<fsVars, watched, queue, history, pc, cause, treeVars, root, frames,
                 batch, viewer, work>>

\* hashtable_search(): of the watchers that hit, the first of their chain.
Found(S) == IF S = {} THEN Nil ELSE CHOOSE c \in S : \A e \in S : e <= c
ByWd(d)   == Found({c \in table : heap[c].wd = d})
ByPath(p) == Found({c \in table : heap[c].path = p})

Handling ==
  /\ pc = "handle"
  /\ batch # <<>>

\* Mutant: the loop over the buffer ends after one event.
RestDropped == <<>>

Rest == Tail(batch)

Ev == Head(batch)
EvViewer == ByWd(Ev.wd)

\* Mutant: the name is joined to the monitored directory.
EvPathFromBase == <<Ev.name>>

EvPath == Append(heap[EvViewer].path, Ev.name)

HandleUnknown ==
  /\ Handling
  /\ Ev # Overflow
  /\ EvViewer = Nil
  /\ Die("assert_viewer")
  /\ UNCHANGED <<fsVars, watched, queue, history, treeVars, root, frames, batch,
                 viewer, work, pipe>>

\* The overflow is not of a directory, and is passed over.
PassOver ==
  /\ Handling
  /\ Ev = Overflow
  /\ batch' = Rest
  /\ UNCHANGED <<fsVars, watched, queue, history, pc, cause, treeVars, root, frames,
                 viewer, work, pipe>>

\* IN_CREATE or IN_MOVED_TO: scan the directory, if it is still there.
HandleCreate ==
  /\ Handling
  /\ EvViewer # Nil
  /\ Ev.kind = "create"
  /\ IF EvPath \in Paths /\ IsDir(EvPath)
     THEN /\ frames' \in {<<f>> : f \in Opened(EvPath)}
          /\ viewer' = EvViewer
          /\ pc' = "scan"
          /\ UNCHANGED cause
     ELSE Die("nftw") /\ UNCHANGED <<frames, viewer>>
  /\ batch' = Rest
  /\ UNCHANGED <<fsVars, watched, queue, history, treeVars, root, work, pipe>>

Task(op, c) == [op |-> op, cell |-> c]

\* Mutant: the traversal begins at the watcher itself.
RemovalOfAll(w) == <<Task("post", w), Task("free", w)>>

\* What remove_watchers_recur(w) calls.
Removal(w) == <<Task("post", heap[w].child), Task("free", w)>>

\* IN_DELETE or IN_MOVED_FROM: remove_watchers_recur() on the watcher of the path.
HandleDelete ==
  /\ Handling
  /\ EvViewer # Nil
  /\ Ev.kind = "delete"
  /\ LET actor == ByPath(EvPath)
     IN IF actor = Nil
        THEN Die("assert_actor") /\ UNCHANGED work
        ELSE /\ work' = Removal(actor)
             /\ pc' = "remove"
             /\ UNCHANGED cause
  /\ batch' = Rest
  /\ UNCHANGED <<fsVars, watched, queue, history, treeVars, root, frames, viewer, pipe>>

\* Mutant: a watcher that is not a first child is only freed.
UnlinkedFirst(w) ==
  LET p == heap[w].prev
  IN IF p # Nil /\ heap[p].child = w THEN [heap EXCEPT ![p].child = heap[w].sibling] ELSE heap

\* The tree without w: what remove_watcher() does to the watcher before w.
Unlinked(w) ==
  LET p == heap[w].prev
  IN IF p = Nil THEN heap
     ELSE IF heap[p].child = w THEN [heap EXCEPT ![p].child = heap[w].sibling]
     ELSE IF heap[p].sibling = w THEN [heap EXCEPT ![p].sibling = heap[w].sibling]
     ELSE heap

\* Mutant: the watcher is not taken out of the hash tables.
FreeStillFound(w) ==
  /\ heap' = Unlinked(w)
  /\ live' = live \ {w}
  /\ UNCHANGED table

\* remove_watcher(w).
Free(w) ==
  /\ heap' = Unlinked(w)
  /\ live' = live \ {w}
  /\ table' = table \ {w}

\* Does the task at hand read a watcher that has been freed?
ReadsFreed(t) ==
  /\ t.cell # Nil
  /\ \/ t.cell \notin live
     \/ t.op = "free" /\ heap[t.cell].prev \notin live \cup {Nil}

\* One call of the recursion of post_traverse_watchers(w->child, remove_watcher), or
\* of the traversal of cleanup_watchers().
RemoveStep ==
  /\ pc \in {"remove", "cleanup"}
  /\ work # <<>>
  /\ LET t == Head(work)
     IN IF ReadsFreed(t)
        THEN /\ pc' = "undefined"
             /\ cause' = pc
             /\ UNCHANGED <<work, heap, live, table>>
        ELSE /\ UNCHANGED <<pc, cause>>
             /\ \/ /\ t.cell = Nil
                   /\ work' = Tail(work)
                   /\ UNCHANGED <<heap, live, table>>
                \/ /\ t.cell # Nil /\ t.op = "post"
                   /\ work' = <<Task("post", heap[t.cell].child),
                                Task("next", t.cell), Task("free", t.cell)>> \o Tail(work)
                   /\ UNCHANGED <<heap, live, table>>
                \/ /\ t.cell # Nil /\ t.op = "next"
                   /\ work' = <<Task("post", heap[t.cell].sibling)>> \o Tail(work)
                   /\ UNCHANGED <<heap, live, table>>
                \/ /\ t.cell # Nil /\ t.op = "free"
                   /\ work' = Tail(work)
                   /\ Free(t.cell)
  /\ UNCHANGED <<fsVars, watched, queue, history, stack, root, frames, batch,
                 viewer, pipe>>

RemoveDone ==
  /\ pc = "remove"
  /\ work = <<>>
  /\ pc' = "handle"
  /\ UNCHANGED <<fsVars, watched, queue, history, cause, treeVars, root, frames,
                 batch, viewer, work, pipe>>

\* Can the tree be walked from INFO_ROOT without reading a freed watcher?
Walkable ==
  \E S \in SUBSET live :
    /\ root \in S
    /\ \A c \in S : {heap[c].child, heap[c].sibling} \subseteq S \cup {Nil}

\* print_watchers_as_tree() after a batch walks the whole tree.
EndBatch ==
  /\ pc = "handle"
  /\ batch = <<>>
  /\ IF Walkable
     THEN pc' = "idle" /\ UNCHANGED cause
     ELSE pc' = "undefined" /\ cause' = "walk"
  /\ UNCHANGED <<fsVars, watched, queue, history, treeVars, root, frames,
                 batch, viewer, work, pipe>>

-----------------------------------------------------------------------------
(* cleanup_watchers(), called by whoever called init_watchers(). *)

\* The kernel numbers the inodes it is given to watch from 1 on.
WdNumber(d) ==
  Cardinality({heap[c].wd : c \in 1..Least({k \in DOMAIN heap : heap[k].wd = d})} \ {None})

\* The bucket of the wd -1 of a failed add_watch, which hashing_wd() takes for 2^64 - 1.
MinusOneBucket ==
  LET p16 == 65536 % HtbSize
      p32 == (p16 * p16) % HtbSize
      p64 == (p32 * p32) % HtbSize
  IN (p64 + HtbSize - 1) % HtbSize

\* hashing_wd() of the watchers.
Buckets ==
  [c \in live |-> IF heap[c].wd = None THEN MinusOneBucket
                  ELSE WdNumber(heap[c].wd) % HtbSize]

\* Mutant: the buckets are traversed from the last to the first.
SweptBackwards(bucket, c, e) ==
  \/ bucket[c] > bucket[e]
  \/ bucket[c] = bucket[e] /\ c > e

\* traverse_hashtable(hashtb_wd): one bucket after another, the newest watcher first.
SweptBefore(bucket, c, e) ==
  \/ bucket[c] < bucket[e]
  \/ bucket[c] = bucket[e] /\ c > e

SweepOrder(bucket) ==
  [k \in 1..Cardinality(table) |->
     Found({c \in table : Cardinality({e \in table : SweptBefore(bucket, e, c)}) = k - 1})]

\* The thread is not stopped, and wakes at the next event.  Here it waits for one, and
\* none comes: anything else is a data race on the tables, of which nothing can be said.
CallCleanup ==
  /\ "cleanup" \in UserOps
  /\ pc = "idle" /\ queue = <<>>
  /\ LET order == SweepOrder(Buckets)
     IN work' = [k \in DOMAIN order |-> Task("free", order[k])]
  /\ pc' = "cleanup"
  /\ UNCHANGED <<fsVars, watched, queue, history, cause, treeVars, root, frames,
                 batch, viewer, pipe>>

\* free_hashtable() on both.
CleanupDone ==
  /\ pc = "cleanup"
  /\ work = <<>>
  /\ pc' = "swept"
  /\ UNCHANGED <<fsVars, watched, queue, history, cause, treeVars, root, frames,
                 batch, viewer, work, pipe>>

-----------------------------------------------------------------------------

Init ==
  /\ \E T \in InitialTrees : dirs = [p \in Paths |-> IF p \in T THEN InodeOf(p, 0) ELSE None]
  /\ outside = {} /\ made = 0
  /\ watched = {} /\ queue = <<>>
  /\ quiet = TRUE /\ calm = TRUE
  /\ pc = "scan" /\ cause = "none"
  /\ heap = <<>> /\ live = {} /\ table = {} /\ stack = <<>>
  /\ root = Nil
  /\ frames \in {<<f>> : f \in Opened(Root)}
  /\ batch = <<>> /\ viewer = Nil /\ work = <<>>
  /\ pipe = 0

Thread ==
  \/ \E n \in Names : ScanEnter(n)
  \/ ScanLeave
  \/ ScanDone
  \/ ReadEvents
  \/ WritePipe
  \/ HandleUnknown
  \/ PassOver
  \/ HandleCreate
  \/ HandleDelete
  \/ RemoveStep
  \/ RemoveDone
  \/ EndBatch
  \/ CleanupDone

Next == User \/ Thread \/ ReadPipe \/ CallCleanup

Spec == Init /\ [][Next]_vars

\* The thread and the caller are never stopped for ever; users may stop.
FairSpec == Spec /\ WF_vars(Thread) /\ WF_vars(ReadPipe)

-----------------------------------------------------------------------------
(* Properties *)

Inodes == {None} \cup {InodeOf(p, n) : p \in Paths, n \in 0..MaxMade}
Watchers == [path : Paths, wd : Inodes,
             level : 0..MaxDepth, prev : Nat, child : Nat, sibling : Nat]

\* The types of the variables that link watchers and of those that drive the thread.
TypeOK ==
  /\ dirs \in [Paths -> Inodes]
  /\ dirs[Root] # None
  /\ made \in 0..MaxMade
  /\ {quiet, calm} \subseteq BOOLEAN
  /\ pc \in {"scan", "idle", "write", "handle", "remove", "cleanup", "swept",
            "failed", "undefined"}
  /\ cause \in {"none", "nftw", "assert_stack", "assert_viewer", "assert_actor",
               "remove", "cleanup", "walk"}
  /\ heap \in Seq(Watchers)
  /\ live \subseteq DOMAIN heap
  /\ table = live
  /\ {stack[i] : i \in DOMAIN stack} \subseteq live
  /\ root \in DOMAIN heap \cup {Nil}
  /\ \A i \in DOMAIN frames : /\ frames[i].path \in Paths /\ frames[i].todo \subseteq Names
                              /\ frames[i].shut \in Inodes
  /\ viewer \in DOMAIN heap \cup {Nil}
  /\ pipe \in 0..PipeCap

\* What wtstack relies on: levels rise from the bottom to the top, so the loop of
\* insert_watcher() stops at the first top that is not below the new watcher.
StackRising ==
  \A i, j \in DOMAIN stack : i < j => heap[stack[i]].level < heap[stack[j]].level

\* No directory has two watchers.
OneWatcherPerPath ==
  \A c, e \in live : heap[c].path = heap[e].path => c = e

Ready == pc \in {"idle", "write"}

\* The watchers form the tree of the directories: whatever is before one is its
\* father's, or another child of its father.
TreeMirrorsPaths ==
  Ready =>
    \A c \in live \ {root} :
      LET w == heap[c]
      IN /\ w.prev \in live
         /\ \/ heap[w.prev].child = c /\ heap[w.prev].path = ParentOf(w.path)
            \/ heap[w.prev].sibling = c /\ ParentOf(heap[w.prev].path) = ParentOf(w.path)

Watches(p) == \E c \in live : heap[c].path = p /\ heap[c].wd = dirs[p]

Visible(p) == IsDir(p) /\ \A i \in 1..Len(p) : p[i] \notin HiddenNames

\* Was p, or a directory it is below, refused a watch when it was scanned last?
CutOff(p) == \E c \in live : heap[c].wd = None /\ IsPrefix(heap[c].path, p)

\* A scan nobody disturbed leaves a watcher, and a watch, on every directory below
\* the one it began at, but for those that are refused one and what is below them.
ScanComplete ==
  pc = "scan" /\ frames = <<>> /\ quiet /\ Len(stack) = 1 =>
    \A p \in Paths :
      Visible(p) /\ IsPrefix(heap[stack[1]].path, p) =>
        CutOff(p) \/ (Watches(p) /\ dirs[p] \in watched)

AllHandled == pc = "idle" /\ queue = <<>>

\* With all events handled and no scan ever disturbed, the watchers are those of
\* the directories there are, each of the inode now at its path or refused.
Settled ==
  AllHandled /\ quiet =>
    /\ \A p \in Paths : Visible(p) => Watches(p) \/ CutOff(p)
    /\ \A c \in live : heap[c].wd \in {dirs[heap[c].path], None}

\* What a scan leaves, and what is left when all is handled.
Followed == ScanComplete /\ Settled

\* A directory goes unwatched only if the tree changed while a scan was under way, the
\* kernel dropped events, or it refused a watch on the directory or on one above it,
\* which nothing looks at (wrap-inotify.c:97): removals and renames never cost a watch.
MissHasCause ==
  AllHandled /\ quiet => \A p \in Paths : Visible(p) => dirs[p] \in watched \/ CutOff(p)

\* Did every change come alone, within the tree, and with a watch on all there is?
Orderly == calm /\ outside = {} /\ Refused = {}

\* The thread dies, of an assertion or of nftw(), only if the tree changed while an
\* earlier change was not handled, something was moved out of it, or a watch was
\* refused: each change by itself is followed.
DiesBehindOnly == pc = "failed" => ~Orderly

\* Changes that come one at a time make the thread read a freed watcher in one way only:
\* remove_watcher() (wrap-inotify.c:131) on one whose left neighbour was removed before.
FreedBeside ==
  pc = "undefined" /\ cause # "cleanup" /\ Orderly =>
    LET t == Head(work)
        w == heap[t.cell]
    IN /\ cause = "remove" /\ t.op = "free"
       /\ w.prev \notin live
       /\ heap[w.prev].path # w.path /\ ParentOf(heap[w.prev].path) = ParentOf(w.path)

\* What changes that come one at a time may cost: no watch and not the thread, but they
\* may lead it into the freed left neighbour of a watcher, and of what is then done
\* nothing is said.
EachAlone == MissHasCause /\ DiesBehindOnly /\ FreedBeside

\* As long as the tree is the one init_watchers() found, every directory has its watch
\* and the watch descriptors do not wrap in hashtb_wd, cleanup_watchers() reads no
\* watcher it has freed: each is freed before the one its prev leads to.  One directory
\* refused a watch is enough to break the order: -1 has the bucket of another.
CleanupSafe ==
  pc = "cleanup" /\ made = 0 /\ root < HtbSize /\ Refused = {} /\ work # <<>> =>
    ~ReadsFreed(Head(work))

\* What is left of the tree can be walked at any time: remove_watcher() takes a watcher
\* out of whatever led to it, and leaves nothing but its sibling's prev behind.
NoneLeadsToFreed ==
  \A c \in live : {heap[c].child, heap[c].sibling} \subseteq live \cup {Nil}

\* wrap-inotify.h:37 says the watchers are a tree "according to monitored directory
\* structure, so when sub directores are removed, their corresponding wd(s) can be
\* removed directly": what remove_watchers_recur() visits is below what it is given.
RemovesOwnOnly ==
  pc = "remove" =>
    \A k \in DOMAIN work :
      work[k].cell # Nil =>
        IsPrefix(heap[work[Len(work)].cell].path, heap[work[k].cell].path)

\* A directory that is not watched yet will be, with all others but those that are
\* refused a watch and what is below them, unless a scan is disturbed or
\* cleanup_watchers() is called; nothing else ends in undefined behaviour while
\* directories are only made.
Watchless == \E p \in Paths : Visible(p) /\ ~Watches(p) /\ ~CutOff(p)
EventuallyWatched ==
  Watchless ~> (~Watchless \/ ~quiet \/ pc \in {"cleanup", "swept", "undefined"})
=============================================================================
