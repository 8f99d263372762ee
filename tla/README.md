# A verification project for fss

fss (File Synchronization System) is a C program that is to keep a directory on
each of several clients the same through a server. At this commit it is being
rewritten: `main()` (`fss.c`) parses options and runs a network test, client or
server; the file list (`flist.c`), the inotify watchers (`wrap-inotify.c`) and
the block list (`blist.c`) are complete modules with a public header that the
test does not call yet. This directory holds TLA+ models of all of these and of
what they rest on (paths, options, log, signals, digests), the TLC runs that check
them and TLAPS proofs of some of their properties.

To repeat everything: `tlc -config <run>.cfg <module>` for each run below
(`MCFlist_walk.cfg` goes with `MCFlist.tla`, and so on) and `tlapm` on the
modules whose names end in `Proofs`.

## 1. The system

| part | source | state | operations | talks to |
|---|---|---|---|---|
| file list | `flist.c` | hash table of `finfo`, `g_ucount`, three files of `<path>/.fss` | `init_flist`, `load_flist`, `update_flist`, `unload_flist`, `unload_cleanup_flist`, `cleanup_flist` | hash table, digests, the disk, the users of the directory |
| watchers | `wrap-inotify.c`, `ptrstack.c` | watcher cells in two hash tables and a tree, `wtstack`, `INFO_ROOT`, the pipe | `init_watchers`, the thread `watchers_polling`, `cleanup_watchers` | the kernel's inotify queue, the caller (pipe), hash table |
| server | `server.c`, `core.c` | `pfd[]`, `res_num` | `server_polling`, `tag_switch` | clients, over TCP |
| client | `client.c`, `sock.c` | its socket, what it has still to send | `connect_to_server`, `send_tag`, `send_file` | the server |
| wire I/O | `io.c` | none but the alarm | `fss_read`, `fss_write`, `fss_redirect`, words of 16, 32 and 64 bits, records | both ends, `setsignal.c` |
| hash table | `hashtable.c` | buckets, chain pointers in the nodes, `count` | insert, remove, search, traverse | file list, watchers |
| block list | `blist.c` | none | `binfo_of_fd` | a mapped file, a callback |
| digests | `digest.c`, `sha1.c` (from git) | the SHA-1 context, the position in a file | `file_digest`, `mem_digest`, `blk_SHA1_Init/Update/Final` | file list, block list |
| options | `options.c` | `struct options` | `parse_argv`, `check_options` | `main()` |
| paths | `path.c`, `utils.c` | `basepath` | `set_basepath`, `full2rela`, `rela2full`, `pathncat`, `mkdir_p` | file list, watchers, nftw(), inotify |
| log, exit, signals | `log.c`, `exit.c`, `setsignal.c` | `_logfp`, `_syslog`, `_verbose`, the handlers | `do_log`, `reinit_log`, `close_log`, `die`, `sig_int_term` | everybody; syslog() |
| received files | `fs.c` | | not compiled | |

What makes it hard:

- **Users change the directory while it is walked.** `nftw()` stat()s a path in
  one step; the callback opens it later; `inotify_add_watch()` comes after the
  directory was listed.
- **Crashes.** The file list is kept in three files written line by line in
  parallel; each has its own stdio buffer, so a crash leaves each of them with
  another prefix, the last line of which may be cut.
- **Stale state.** Entries of removed files stay in the table and are told from
  others by a counter; watchers are freed while others point to them; `revents`
  is used after `accept()` and reads.
- **Partial and failed I/O.** Short writes, alarms, resets, SIGPIPE, a peer that
  goes silent in the middle of a word.
- **Signals.** The handler of SIGINT and SIGTERM logs, closes the log and exits
  wherever the process is: in the middle of logging, of `die()`, or of the handler
  of the other signal.
- **Spellings.** Every name begins as `--path` was typed; nftw() drops separators
  from its end, inotify gives last components, `.fss` is filtered by a prefix.
- **Boundaries.** The padding of SHA-1 at 55, 56 and 64 bytes and at messages cut in
  the middle of a block; the last block of a file; the last byte of a path buffer.
- **Undefined values.** `n` in `server_polling`, the stat buffer in `do_mkdir`,
  `st_size` in `entry_client`, a `%s` without its argument.

`PROJECT.json` lists these as hazards, each at its line, with the properties that
are about it, or the reason why none is.

## 2. The modules

| module | models | lines of code |
|---|---|---|
| `Flist` | file list, with users and crashes | `flist.c`, `do_mkdir`, `file_digest_name`, `file_getline/putline` |
| `Watchers` | watchers, inotify, users, the pipe | `wrap-inotify.c`, `ptrstack.c` |
| `Network` | clients, server and TCP between them, composed in one module because every step of one end is visible to the other | `client.c`, `sock.c`, `server.c`, `core.c`, sending and receiving halves of `io.c` |
| `NodeTable` | what a hash table promises (abstract) | - |
| `Hashtable` | the buckets and chains; implements `NodeTable` | `hashtable.c` |
| `Blist` | cutting a file into blocks | `binfo_of_fd` |
| `Sha1` | how a message becomes blocks: buffering and padding | `blk_SHA1_Init/Update/Final` |
| `Sha1Block` | the compression of one block, word by word | `blk_SHA1_Block` and its macros |
| `Digests` | composes `Blist`, `Sha1` and `Sha1Block` with their callers | `digest.c` |
| `Paths` | names of files, as sequences of characters | `path.c`, `mkdir_p`, `strprefix`, the filters and joins of `flist.c` and `wrap-inotify.c` |
| `Options` | what one option does to the options | `options.c` |
| `Process` | `main()`, the log, `die()` and the signal handler; composes `Options` and `Paths` | `fss.c`, `options.c`, `log.c`, `exit.c`, `setsignal.c`, `set_basepath`, `set_umask` |
| `MC*` | instances for TLC | - |
| `FlistProofs`, `WatchersProofs`, `NetworkProofs`, `HashtableProofs`, `BlistProofs`, `Sha1Proofs`, `PathsProofs`, `ProcessProofs` | theorems | - |

`Flist` and `Watchers` use a set for each of their hash tables; `Hashtable`
shows that a table of chains is what they take it for. Two calls matter
there: a traversal whose callback removes the node it is called on (the unload
functions do so), and a search, which finds the newest node (the watchers depend
on it when an inode is watched twice; there a newer watcher is a cell of a greater
number, as `heap` only grows).

### Flist

`pc` says where the process is: `down`, `init` (after `init_flist`), `loaded`,
`walk` and `entry` (in `update_flist`, between and in callbacks), `open` and
`save` (in an unload), `failed`. One action stands for each function, or for each
of its parts that a user or a crash may come between: `Visit` is nftw()'s stat(),
`Callback` all of `do_update_flist()`; `OpenNext` opens one of the three files,
`SaveEntry` is one call of the traversal's function, `SaveFinish` flushes and
closes. Actions of users may come between any two of them.

Abstractions: SHA-1 is injective, a digest is the content; sizes and permission
bits are left out, as no decision reads them; `g_ucount`, the time of day, is
counted from the load; a line cut by a crash is read as `str2finfo()` would read
it (fields missing from the line stay zero, a shortened name may spell another
path, `CutTo`). A missing or cut mtime is `JunkTime`, taken to be that of no file:
sscanf() leaves 0 or fewer digits, which a file could only have if it was set so.
A failed fflush() or fclose() ends the process where `SaveFinish` is; that is one of the
places it may end at by `Crash`, with no more in the files. `FssPrefixed` names the
paths the prefix test on `.fss` skips. `open_fp("rb")` of a file that vanished is a file that does not exist.
Undefined behaviour: `Log()` with a missing argument is a crash or nothing; the
stat buffer in `do_mkdir()` sends the process on any of its branches.

### Watchers

A path is a sequence of names, an inode the place and time of its making; the
watch descriptor is the inode, as inotify has one per inode. `frames` is
nftw()'s own stack (post-order), `stack` is `wtstack`; `ScanEnter` lists a
directory and `ScanLeave` is `insert_watcher()` on it, with users in between.
What comes to be in a directory nftw() is still reading may be returned by it or not
(`Appears`). `ReadEvents` takes what of the queue fits into the buffer of one read()
(`ReadCap`); it, `WritePipe`, the three `Handle...` actions, `RemoveStep` (one call of
the recursion of `remove_watchers_recur`) and `EndBatch` are the thread. Watchers
are cells of `heap`; a freed one is not in `live`. A step that would read one ends
the behaviour in `pc = "undefined"`, with `cause` saying which walk it was: what comes
after is not modelled, that it happens is, and `FreedBeside` says when it may.
`AddWatch` is what inotify_add_watch() returns, which `insert_watcher()` does not look at:
the inode, or -1 (`None`), if the directory is gone, if this process may not read it
(EACCES; nftw() then reports it and does not enter it, `Shut`), or if the kernel has no
watch left (ENOSPC). Any directory may be refused, at any scan, as long as fewer than
`MaxRefused` watchers are without a watch (`MayRefuse`). -1 has a bucket
like any other descriptor (`MinusOneBucket`). A hidden base path filters the monitored
directory itself (`BaseHidden`; `--path .` does): then no watcher is left for it, and the
assertion behind the first scan fails or takes another for the root. `Rename` is
rename(2) of a directory with all below it to any free path of the model.
`CallCleanup` is `cleanup_watchers()`: the order of its traversal (`SweptBefore`) comes
from the watch descriptors (`WdNumber`, as the kernel numbers them) modulo `HtbSize`, and
within a bucket the newest watcher is first. It stops no thread; calls that race with it
are left out.
Events of regular files are not modelled, they only go to the pipe. The kernel
keeps `QueueCap` events; then one `Overflow` takes the place of all that find no room
until it is read, and the thread, which tests for `IN_ISDIR` first,
passes over it (`PassOver`). Left out: a directory that may be read but not searched, and
one whose mode changes while the thread runs.

### Network

`cli[c]` is a client process, `conn[c]` its connection as both ends and the
kernel see it, `slots`, `revents`, `resnum` and `i` are `server_polling()`'s
variables. A stream is a sequence of 8-byte words because the server reads
nothing else. The undefined `n` is any sign (`UninitN`). A failed `write()` is
taken for a complete one, as the comparison in `io.c:108` takes it; a write()
cut short by the alarm is continued without one. The tag is a set of bits and is
swapped on a little-endian host (`HtoBe64`, `TagRead`). A dead server may be
started again; a client's host may vanish. Left out: a RST from a host that has
rebooted, and a socket() that fails in `tcp_listen()` for ever.

### Hashtable, NodeTable

A node that is not allocated has the chain pointer `Freed`. `From(p)` is the list of
nodes the chain pointers make from `p` on; it is said what it is and chosen, not
computed, so that it can be reasoned about, and there is a finite number of nodes.
`Hashtable!Table` maps the chains to the lists of `NodeTable`, and what a traversal
has yet to visit to its `todo`.

### Blist, Sha1, Sha1Block, Digests

`Blist` is the loop of `binfo_of_fd()`; the file may be truncated between any two
blocks (`Shrink`). `Sha1` is the context without its words: `W` is the buffer, `size`
the bytes counted, `H` the sequence of blocks compressed so far, `msg` (history)
the message. `Update(c)` begins a call, and `FillPart`, `FillWhole`, `Whole` and `Rest`
are its branches and loop; `FinalPad`, `FinalLength` and `FinalOut` are the parts of
`blk_SHA1_Final()`, which calls Update twice itself. `Sha1Block` gives the rounds;
a word is a pair of 16-bit halves, as TLC's integers have 32 bits and a sign.
`Digests` lets nothing else run while a block waits for its rounds (`InBlock`) and
adds `file_digest()`, which feeds what fread() gives until it gives nothing, be it
for the end of the file or a failure, and `mem_digest()`, which hashes a block of
the mapping. The two entry points are the two values of `task`.

### Paths, Options, Process

A path is its sequence of characters. `call` is the call under way with its
result: `Walked` is what `do_update_flist()` makes of a name nftw() reports,
`Heard` what the watchers' thread makes of an event, `MkdirCalled` `mkdir_p()`. `Died`
stands for `Log_die()` in them. That the name nftw() reports has no separators
at the end of the directory, and that the kernel refuses names of `PathMax`
bytes, is modelled as external.

In `Process`, `optind` goes through the items as getopt_long() meets them: an item
that is no option (`IsExtra`) is passed over, and reported when the options are done.
`frames` is the stack: `main()`, and above it a frame for each
handler that interrupted what is below. Each frame has its label (`at`), and
`LogThen` and `LogDie` say where it goes on after do_log(). Both handlers may be
on the stack at once, as sigaction() masks only the handler's own signal. A
handler never returns, so a lower frame never goes on. syslog() inside a syslog()
that was interrupted may block on its lock (`ended = "hung"`). `Run` stands for what
`entry_client()` and `entry_server()` do to this state: they log, fail or, the
client, return. Configuration files: `parse_config_file()` is empty in the code.

## 3. The runs

| run | question | instance |
|---|---|---|
| `MCFlist_walk` | is what an undisturbed update lists the tree, whatever happened before? | a directory and a file in it, 2 contents, 3 changes, 2 updates a load, any number of crashes |
| `MCFlist_crash` | what may a load find after a crash, and does an update repair it? | three siblings, one hidden and unreadable, `--force-use-digest`, 2 changes, 1 update a load |
| `MCFlist_force` | *(violation)* does `--force-use-digest` notice a modification? | two siblings |
| `MCFlist_files` | *(violation)* are the three files all there or none? | two siblings |
| `MCWatchers_mkdir` | while directories are only made, do the watchers become the directories? | every tree of 2 names and depth 2, 2 directories made, one refused its watch, pipe of 1, 2 events kept, 2 to a read, cleanup at any idle moment, 5 buckets |
| `MCWatchers_all` | with removals, renames and moves, is a miss always due to a raced scan, a full queue or a refused watch, does the thread die only when it is behind or a watch was refused, what do changes that come alone lead it to read, and does a removal visit only its own, and leave nothing that leads to a freed watcher? | every such tree of at most 4 directories, 2 changes, one refused its watch |
| `MCWatchers_hidden` | *(violation)* does a removal free only what is below the directory removed? | the same, one of the names hidden, 1 change |
| `MCNetwork_ends` | do slots agree with connections, is nothing read that is not there, is nothing lost, is the lowest client served? | 2 clients, 2 slots, backlog 1, file of 2 words (and a rest), 1 restart, 1 host may vanish |
| `MCNetwork_timeout` | *(violation)* is a timeout reported? | the same, no restart |
| `MCHashtable_table` | is the chained table a table of nodes? | 4 nodes, 2 buckets |
| `MCDigests_hash` | are the blocks those of the file, is what is compressed the padded message, and are the digests those of the standard? | 14 files about the boundaries of the padding and of the 1024-byte buffer; every mapped file of 0..7 bytes in blocks of 0..3, truncated at any step |
| `MCProcess_run` | are options taken as given, is an error said before the end, does a signal end the process, when is the log stream missing; do the spellings of a path meet? | 5 spellings of the base path, every pair of an item and a later one, 2 signals, 2 levels of names, `PathMax` 9 |

Why the bounds are enough for the cases meant: in `MCFlist_walk` the second
update of a load sees entries of the first, entries loaded from a damaged .fss
and, with three changes, a path that was created, became something else or
vanished during a walk. In `MCFlist_crash` three names, one of them filtered, give at
most two entries, and so three files of up to two lines each, the last one cut or not,
in all combinations, and one name that is the beginning of another. In `MCWatchers`
depth two has a grandchild and siblings at both levels, all that `wtstack` tells apart,
and two changes make a batch of events whose first scan already met what the second is
about. One refused watch is enough for each thing a refusal does: it may be that of a leaf, of a directory with others below it or of the root, at the first scan or
at a later one, beside a directory watched and numbered before or after it, and of more
than one each stays -1. `BaseHidden` is FALSE in all runs (see the findings). The bounds
are those a run finishes with in minutes; with three directories made `MCWatchers_mkdir`
has 840,152 states, and from every tree `MCWatchers_all` has 4,060,412, without an
error. In `MCNetwork` two slots are the least number at which one is ready and one is not, and a third
connection comes after a client ends, or the queue holds one while both are taken.
`Swap` makes contents, and names, interchangeable: no definition tells one from
another. A queue of 2 overflows at the third event of a batch, and a rename, which
makes two, may lose its second half. The files of `MCDigests_hash` have the
lengths at which the padding fills a block exactly, by one byte less and by one
more, for messages of one and two blocks, and two that cross the buffer of
`file_digest()`; blocks of 0..3 bytes of files up to 7 bytes have every remainder. In
`MCProcess_run` two signals are all that can interrupt one another; every option
occurs after every other that may undo it; `PathMax` 9 lies within the lengths of
names two levels deep, so that the joins meet the limit from both sides; a port
wraps at 65536 as `uint16_t` does.

Deadlock is checked in the `MCFlist_walk`, `MCFlist_crash`, `MCHashtable_table` and
`MCProcess_run` runs (in the last the ended process stutters, so a deadlock would
be a label nothing continues). It is not where a process ends for good:
`MCWatchers_*` (the thread dies of an assertion, or users are done and nothing is
queued), `MCNetwork_*` (clients exit), `MCDigests_hash` (the function returns) and
the violation runs.

### Properties that say the most

- `MirrorsTree`, `MirrorsNames`, `DigestFresh`: after an update nobody disturbed,
  the valid entries are the files there are, with what is in them now, however the
  earlier walks were raced and whatever was loaded. `DigestFresh` needs
  mtimes that tell versions apart (`MtimeTellsVersions`): the code compares nothing
  else. `MCFlist_files`, which asks nothing about digests, runs without that
  assumption. It is about regular files: an entry that a raced walk has typed as a
  directory may keep the digest of the file that was there, and nothing reads the
  digest of a directory.
- `LinesPaired`, `LoadRestoresSave`, `LoadDamageConfined`: what a crash in a save
  can do to the three files. At most one entry of a load is invented.
- `TreeMirrorsPaths`, `Followed` (`ScanComplete` and `Settled`), `EventuallyWatched`,
  `EachAlone` (`MissHasCause`, `DiesBehindOnly` and `FreedBeside`): the tree built from
  level numbers is the tree of paths; the only ways to lose a directory are a change
  during a scan, a full queue, and a watch refused to it or to one above it (`CutOff`);
  the thread dies only of a change that comes before an earlier one is handled, of
  something moved out of the tree, or after a refusal; and changes that come alone, all
  watched, lead it to freed memory in one way: a directory is removed after its left
  neighbour in the list of children was.
- `CleanupSafe`: `cleanup_watchers()` frees in the order of the buckets and reads each
  watcher's `prev` on the way. That is safe only because watch descriptors rise in
  post-order, as long as every directory was given its watch, they do not wrap in the
  table and nothing was added later.
- `NoneLeadsToFreed`, `RemovesOwnOnly`: no pointer that a walk of the tree follows leads
  to a freed watcher, at any time, in the middle of a removal included; and what a
  removal frees is what was removed. The second holds without hidden directories and is
  refuted with them.
- `NothingLost`, `ReadyIsReal`, `LowestServed`.
- `IsNodeTable`: refinement.
- `PaddedIsCompressed`, `KnownDigests`: the first relates the blocks compressed to the
  padded message of FIPS 180-2, however it was cut; the second ties the rounds to the
  standard's own examples.
- `SpellingsMeet`: with a base path that ends in one separator at most, the walk
  skips the directory itself and names that begin like `.fss`, and nothing else; the
  name made of the relative one again is, to the character, the one nftw() reported;
  and the path made for an event is the one the scan of its directory reports, by
  which the watchers are looked up. `BuffersKept`: `pathncat()` counts no separator, and
  what saves it is the limit of the kernel. `MkdirInOrder`: `mkdir_p()` makes exactly
  the directories on the way from the monitored one, by the names nftw() has for them.
- `StreamThere`, `FailureSaid`, `EndsOnSignal`: the exact situations in which the
  process aborts on its log stream, and what it owes its user otherwise.

### Findings

Four disagreements between the code and what it says of itself, each shown by a
violation run: `MCFlist_force` (`options.c:58` against `flist.c:197`: both digests
are of one file), `MCFlist_files` (the assertion at `flist.c:247` fails after a
crash in the first save), `MCWatchers_hidden` (`wrap-inotify.h:37` against
`insert_watcher()`: a watcher below a hidden directory is hung below a
directory of the same level that is scanned later, and freed with it),
`MCNetwork_timeout` (`io.c:90` against the unsigned comparison at `io.c:108`).

Further ones are modelled, named among the hazards and left without a run of
their own: a directory made during a scan may go unwatched (what `MissHasCause` and
the history variable `quiet` except); so does one refused a watch, unnoticed, with all
made below it (`wrap-inotify.c:97`), and `cleanup_watchers()` may then read freed memory
in the tree as `init_watchers()` found it, as the -1 of its watcher is hashed among the
descriptors (`2^64 - 1` modulo the buckets: what `Refused = {}` in `CleanupSafe`
excepts); a base path that ends in a name with a dot in front, as `.` has, is filtered
itself (`wrap-inotify.c:92`); the right sibling of a removed watcher keeps a
`prev` that leads to freed memory (a step that reads it ends in
`pc = "undefined"`); `--umask` with a value always ends the process
(`options.c:211`); the tag a little-endian server reads matches nothing
(`io.c:201`); a base path that ends in two separators ends every walk
(`EndsOnce`).

### Fairness

`Watchers!FairSpec`: the thread, whenever it can step, does (it is one kernel
thread, its blocking calls are the guards), and the caller reads the pipe that
`init_watchers()` gave it. Users owe nothing. `Network!FairSpec`: the server
process and each client process run when they can; killing, vanishing and
restarting need not happen. A step of a process is a system call that returns
or a computation, so weak fairness is what the scheduler gives.
`Hashtable!FairSpec`: a traversal goes on, given that the functions it calls
return. `Process!FairSpec`: `main()`, or the handler on top of it, goes on, and the
kernel delivers a signal that is not masked; nobody need send one, and calls of
path functions need not happen. `EndsOnSignal` holds under it only without
syslog(), whose lock the handler may wait for. No strong fairness is assumed anywhere.

## 4. The proofs

TLAPS checks, for every value of the constants that meets the ASSUMEs:

- `FlistProofs!TypeCorrect`: `Spec => []TypeOK`. The invariant is inductive as it
  stands; the work is in what a load makes of cut lines (`LoadedEntries`), in the
  callback and in the prefixes a crash leaves (`PartialType`).
- `FlistProofs!OneValidEntryPerPath`, `ValidWasVisited`. That no two valid entries
  name one path is not inductive: the callback adds an entry for the path at hand,
  and it must be known that no valid entry has it. The strengthening (`UniqueInv`) says
  that valid entries are of visited paths, that the path at hand is visited but
  has no valid entry yet, and that no entry is from a later update; after a load
  nothing is claimed until the first update, whatever .fss held.
- `BlistProofs!BlocksAlwaysFit`, `BlocksTile`, `EveryWindow`, for all sizes of blocks
  and files, from one invariant that relates `i`, `incre` and the blocks made:
  without overlap `i` is the end of the last block, with overlap the increment
  is 1 until the window touches the end.
- `Sha1Proofs!Sha1Pads`: `ShaSpec => []PaddedIsCompressed`, for all messages and all
  ways to cut them. The inductive invariant `ShaInv` says, besides the types, that
  the blocks of `H` are those of the message (`Compressed`), that what an Update has
  yet to take is the end of it (`Suffix`), that `W` holds what is behind the last
  whole block (`Buffered`), and, for each place in Final, what has been appended
  (`Phase`). The rest is arithmetic modulo 64, in lemmas of its own.
- `NetworkProofs!NetTypes`, `NetSlotsAgree`, `NetReadyIsReal`, `NetNothingLost`:
  `Spec => []...`, for any number of clients, slots, addresses and restarts, any sizes
  of buffers and any sign of the unset `n`. One invariant, `NetInv`, has all four. It
  adds what the places of the two processes say: accept() returns a connection once
  and none that has a slot (`QueueAgrees`); where the server is in its loop, `resnum`
  and `i` have not run out and the slot read is in use (`ServerPlace`); while the word
  of slot `i` is looked at, `ReadyIsReal` still holds of the slots behind it
  (`ReadyHolds`); and what a client has not sent agrees with its place (`Place`). The
  lemma `ClientStep` says once what every step of a client leaves alone.
- `FlistProofs!NoCrossedLines`, `LoadAfterSave`, `DamageIsConfined`, unconditionally.
  `DiskInv` follows one save. The three files are truncated one by one while the list is
  at rest (`Truncating`); what has been printed and what is to come make up the records
  of the save (`Saving`), and a crash leaves beginnings of that one sequence, so a line
  number means the same entry in all three (`Paired`, `ReadsSaved`); a save that has
  ended left all of it (`Complete`). What one load can invent is the entry made of a
  cut line (`OneStranger`).
- `FlistProofs!UndisturbedSurvives`, `UpdateMirrorsNames`, `UpdateMirrorsTree`,
  `DigestsAreFresh`. `MirrorInv` has what an undisturbed walk knows: all that exists
  below a directory it has opened is listed or visited (`WalkInv`), the stat it holds is
  that of the path as it is (`StatExact`), and each path whose callback has run has its
  entry, which is right (`Exact`, `Covers`). That nothing is left when the list of names
  is used up needs the tree to be grounded (`Grounded`): any set of paths that exist has
  one whose directory is outside it. Hypotheses: names and types need
  `ReadableTree` (nothing lies below a directory that may not be read, which nftw()
  reports and does not enter); mtimes need `~ForceUseDigest` as well, as
  `hit()` then compares none; digests need `WholeNames` (no name shortened by a crash
  spells another path), `MtimeTellsVersions` and `~ForceUseDigest`. The last is
  refuted without by `MCFlist_force`, and TLC finds a counterexample without `WholeNames`
  too: an entry loaded from a cut line has another file's digest under this file's name
  and may have its mtime. `WholeNames` is a strong hypothesis: the relative name of a file
  in a subdirectory, cut short, is that of the subdirectory, so it holds of flat
  directories only, and `MCFlist_walk`, which has a subdirectory, sets the cuts aside
  (`NoCut`); those are what `MCFlist_crash` is about. The other three theorems are
  without it.
- `WatchersProofs`, in layers of which each adds to the invariant before it.
  Unconditional: `WatcherTypes`; `LevelsRise` and `LinksAreLive`, from `LinkInv`
  (`Types` and `StackRising`; `Chained`: what a watcher leads to is live, is led to by
  nothing else and knows what is before it, unless that was freed, and links go round in
  no circle; `StackFree`: nothing leads to a watcher on the stack yet; `ViewerOff`: what a
  scan makes is linked to nothing made before); and `CleanupFreesInOrder`, from `SweepInv`
  (as long as nothing was made after the first scan, the watch descriptor of a watcher is
  its place in post-order, if each was given one, and its `prev` is of a greater one; a
  hidden base path is included, a refused watch is not).
  `RemovalsAreOwn` holds where no directory is hidden, the base path neither
  (`AllShown`, `RemovalInv`); with one it is refuted by `MCWatchers_hidden`. Where
  directories are only made (`OnlyMkdir`: `AllShown`, users make directories and may
  call `cleanup_watchers()`): `WatchersAreTree` (`MadeInv`: the links are those of
  the paths, and each watcher is on the stack, the root, or after the one before it),
  `OneWatcherEach` (`OneInv`: a path has a watcher, or the scan has it before it, or an
  event announces it, never two of these, and no two events announce the same),
  `WatchersFollow` (`FollowInv`: while nothing has disturbed a scan or been dropped, what
  lies in a directory that has been listed has one of these, but below a watcher without
  a watch or a directory that could not be read, of which nothing is known) and
  `MakingIsSafe`
  (`AliveInv`: every event queued is of a watch that has its watcher). A removal is what
  these exclude because it leaves the right sibling with a `prev` to freed memory;
  from there on the tree is what memory says.
- `HashtableProofs!TableWellChained`, `TableRefines`: chains as pointers against lists.
  `TableInv` says that from each bucket the pointers make a list of exactly the nodes with
  its key, none twice (`Typed`, `Listed`), and that the node a traversal is at is
  allocated and in the bucket it is in (`Visiting`). `Reached` is
  the list pointers make, as a function of the pointers, so that one lemma on putting a
  node in front and one on taking a node out serve all steps. Every step is one of
  `NodeTable` or a stutter; that a traversal ends stays with TLC.
- `ProcessProofs!StreamIsThere`, `FailuresAreSaid`: of `ProcessInv` the core is that
  only the top of the stack moves, so whoever closed the log stream or set it to NULL is
  still on the stack and at a known place (`Streams`, `StreamGone`); and that when
  `main()` is on its way to a failure it logs an error or has just done so (`Failure`).
  `OptionsAreAsGiven` relates the options, at each item, to the last one before it that
  names them, for command lines of any length.
- `ProcessProofs!NamesMeet`, `NothingBehindBuffers`, `DirectoriesMade`: for names of any
  length at any depth. The argument is about spellings and is in lemmas of
  `PathsProofs`: what nftw() reports is the base path without the separators at its
  end (`Trunk`), then each component behind a separator (`ReportedNames`); that tail
  is the relative name behind one separator (`RelaIsTail`, `FullAgain`), and its separators
  are exactly where components meet, as no name holds one (`FlatSeparators`), which is
  what `mkdir_p()` cuts at (`MkdirPIs`). These go by induction on the number of
  components, in the form of a set that holds 0 and each successor (`UpTo`, from the least
  number of a set of numbers). `WalkIsRight`, `EventIsRight` and `MkdirIsRight` put them
  together for each call. The invariant `PathInv` is the three properties with what they
  need of `main()`: `basepath` is NULL or the value of a `--path` option, so one of
  `BasePaths`.

They rest on the modules' ASSUMEs, on the hypotheses named here, and on the library's
facts on sequences, functions, finite sets and well-founded orders only.

Only model-checked:

- `KnownDigests`, the only invariant no theorem states: the rounds of SHA-1 use bit
  operations, which no module with a theorem may reach. It is about three messages, of
  which TLC computes the digests. What is proved of SHA-1 is all but the rounds.
- `EachAlone`, `TreeMirrorsPaths`, `OneWatcherPerPath` and `Followed` where directories
  are removed, renamed or moved, as far as they are claimed there (`MCWatchers_all`).
- Liveness: `EventuallyWatched`, `LowestServed`, `EndsOnSignal`, and the end of a
  traversal; it is out of the prover's reach.

## 5. Not modelled

- The record functions of `io.c` (`read_record` and the like), which nothing calls;
  `write_out_flist()` and `fs.c`, dead code or not compiled.
- Conversions without a decision in them: `digest2hex`, `hex2digest`,
  `digest2hashkey`, the numbers of `utils.c` but for ports, `power_of_2_ceiling`;
  `rm_rf`.
- getopt_long()'s abbreviations, and its permutation of the arguments beyond passing over
  those that are no options.
- Which thread a signal is delivered to, once the watchers' thread runs: the
  program at this commit has one thread.
- The rolling checksum: `blist.c` has none yet.
- Symbolic links, beyond being neither file nor directory; sizes and permission
  bits of files.
- `build`: makefiles and `config.h`, no behaviour but the constants above.

## 6. Plan

1. (done) `Flist`, `Watchers`, `Network`, `Hashtable`, `Blist`, their runs and the
   first proofs.
2. (done) The inotify queue in `Watchers`; `Sha1`, `Sha1Block` and `Digests`;
   `Paths`, `Options` and `Process`; `cleanup_watchers()`; the proofs of SHA-1's
   padding and of `Network`.
3. (done) The proofs of `Flist` (disk and mirror), `Watchers`, `Hashtable` with its
   refinement, and `Process`.
4. Left to model: names with line feeds in a run of `Flist` (`LFPaths`).
5. (done) The proofs of `Paths`.
6. Left to prove: `EachAlone` where directories are removed as well, which needs to be
   said what of the tree a stale `prev` leaves intact.
